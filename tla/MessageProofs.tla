--------------------------- MODULE MessageProofs ---------------------------
(***************************************************************************)
(* The machines of MC_Pages that are about messages, calls and notices,    *)
(* and proofs about them, for all their bounds. A machine is an instance   *)
(* whose variables are the registers that it has in MC_Pages: the          *)
(* substitution at the head of its section says which register is which    *)
(* variable. For each machine M with the inductive invariant MInv there    *)
(* are three lemmas that MC_Pages puts together: MBegins, that it holds at *)
(* the start, MKept, that every step keeps it, and MHolds, that the        *)
(* properties follow from it. The other machines, with the same lemmas,    *)
(* stand in PageProofs and MC_Pages.                                       *)
(***************************************************************************)
EXTENDS Integers, Sequences, FiniteSets, FiniteSetTheorems, SequenceTheorems, WellFoundedInduction,
        TLAPS

CONSTANTS
    Size,       \* for each machine its sets of values and its own bounds
    Bound       \* how often things happen: bounds that change from run to run

VARIABLES
    r1, r2, r3, r4, r5, r6, r7, r8, r9, r10, r11, r12, r13, r14, r15,
    r16, r17, r18, r19, r20, r21, r22, r23, r24

\* A set of numbers has a least one: the ranges that end in one of its numbers
\* are finite sets, and one of them has none of the others inside it.
LEMMA LeastNumber ==
  ASSUME NEW T \in SUBSET Nat, T # {}
  PROVE  \E m \in T : \A n \in T : m <= n
<1> DEFINE Below == {0..m : m \in T}
<1>1. Below \subseteq FiniteSubsetsOf(Nat)
  <2>1. ASSUME NEW m \in T PROVE 0..m \in SUBSET Nat /\ IsFiniteSet(0..m)
    <3>1. 0 \in Int /\ m \in Int /\ 0..m \subseteq Nat OBVIOUS
    <3>2. QED BY <3>1, FS_Interval
  <2>2. QED BY <2>1, Zenon DEF FiniteSubsetsOf
<1>2. Below # {}
  OBVIOUS
<1>3. PICK low \in Below :
         \A other \in Below : ~(<<other, low>> \in StrictSubsetOrdering(Nat))
  <2> HIDE DEF Below
  <2>1. QED BY <1>1, <1>2, FS_StrictSubsetOrderingWellFounded, WFMin
<1>4. PICK m \in T : low = 0..m
  OBVIOUS
<1>5. ASSUME NEW n \in T, n < m PROVE FALSE
  <2>1. 0..n \in Below
    OBVIOUS
  <2>2. 0..n \subseteq 0..m /\ m \in 0..m /\ m \notin 0..n /\ 0..m \subseteq Nat
    BY <1>5
  <2>3. <<0..n, 0..m>> \in StrictSubsetOrdering(Nat)
    BY <2>2 DEF StrictSubsetOrdering
  <2>4. QED BY <1>3, <1>4, <2>1, <2>3
<1>6. QED BY <1>5

\* A set that holds 0 and with every number the next one holds them all.
LEMMA SetInduction ==
  ASSUME NEW A, 0 \in A, \A n \in Nat : n \in A => n + 1 \in A
  PROVE  Nat \subseteq A
<1>1. SUFFICES ASSUME Nat \ A # {} PROVE FALSE
  OBVIOUS
<1>2. PICK m \in Nat \ A : \A n \in Nat \ A : m <= n
  BY <1>1, LeastNumber
<1>3. m - 1 \in Nat /\ m - 1 \in A
  BY <1>2
<1>4. QED BY <1>2, <1>3

\* The same up to a bound.
LEMMA RangeInduction ==
  ASSUME NEW A, NEW size \in Nat, 0 \in A,
         \A n \in 1..size : n - 1 \in A => n \in A
  PROVE  \A n \in 0..size : n \in A
<1> DEFINE B == {n \in Nat : n <= size => n \in A}
<1>1. Nat \subseteq B
  <2>1. 0 \in B /\ \A n \in Nat : n \in B => n + 1 \in B OBVIOUS
  <2> HIDE DEF B
  <2>2. QED BY <2>1, SetInduction
<1>2. QED BY <1>1

\* The values of f on 0..size begin with base, and each comes from the one
\* before by a step that stays inside V.
Steps(step, size, V) == step \in [1..size -> [V -> V]]
Iterates(f, base, step, size, V) ==
    /\ f \in [0..size -> V] /\ f[0] = base
    /\ \A n \in 1..size : f[n] = step[n][f[n - 1]]

\* What is defined by recursion on 0..size is there.
LEMMA Recursion ==
  ASSUME NEW V, NEW base \in V, NEW size \in Nat, NEW step, Steps(step, size, V)
  PROVE  \E f : Iterates(f, base, step, size, V)
<1> USE DEF Steps, Iterates
<1> DEFINE Upto(f, n) == /\ f \in [0..n -> V] /\ f[0] = base
                         /\ \A i \in 1..n : f[i] = step[i][f[i - 1]]
           A == {n \in 0..size : \E f : Upto(f, n)}
<1>1. 0 \in A
  <2>1. Upto([i \in 0..0 |-> base], 0) OBVIOUS
  <2>2. 0 \in 0..size OBVIOUS
  <2> HIDE DEF Upto
  <2>3. QED BY <2>1, <2>2
<1>2. ASSUME NEW n \in 1..size, n - 1 \in A PROVE n \in A
  <2>1. PICK f : Upto(f, n - 1) BY <1>2
  <2>2. step[n][f[n - 1]] \in V
    <3>1. f[n - 1] \in V BY <2>1
    <3>2. QED BY <3>1
  <2> DEFINE g == [i \in 0..n |-> IF i = n THEN step[n][f[n - 1]] ELSE f[i]]
  <2>3. g \in [0..n -> V]
    <3>1. \A i \in 0..n : i # n => i \in 0..(n - 1) OBVIOUS
    <3>2. \A i \in 0..n : (IF i = n THEN step[n][f[n - 1]] ELSE f[i]) \in V
      BY <2>1, <2>2, <3>1
    <3>3. QED BY <3>2, Zenon
  <2>4. \A i \in 0..(n - 1) : g[i] = f[i]
    OBVIOUS
  <2>5. g[n] = step[n][f[n - 1]]
    OBVIOUS
  <2> HIDE DEF g
  <2>6. g[0] = base
    BY <2>1, <2>4
  <2>7. ASSUME NEW i \in 1..n PROVE g[i] = step[i][g[i - 1]]
    <3>1. CASE i = n BY <2>4, <2>5, <3>1
    <3>2. CASE i # n
      <4>1. i \in 0..(n - 1) /\ i - 1 \in 0..(n - 1) /\ i \in 1..(n - 1) BY <3>2
      <4>2. QED BY <2>1, <2>4, <4>1
    <3>3. QED BY <3>1, <3>2
  <2>8. QED BY <2>3, <2>6, <2>7
<1>3. \A n \in 0..size : n \in A
  <2> HIDE DEF A
  <2>1. QED BY <1>1, <1>2, RangeInduction
<1>4. size \in A
  BY <1>3
<1>5. QED BY <1>4

\* What begins and goes on like that stays inside V.
LEMMA Inside ==
  ASSUME NEW V, NEW size \in Nat, NEW g, g[0] \in V,
         \A n \in 1..size : g[n - 1] \in V => g[n] \in V
  PROVE  g[size] \in V
<1> DEFINE A == {n \in 0..size : g[n] \in V}
<1>1. 0 \in A /\ \A n \in 1..size : n - 1 \in A => n \in A
  OBVIOUS
<1>2. \A n \in 0..size : n \in A
  <2> HIDE DEF A
  <2> QED BY <1>1, RangeInduction
<1> QED BY <1>2

\* The values of f on from..size: <<>> at the end, and each a piece before that of a
\* later number.
Leads(f, from, size, piece, jump, P) ==
    /\ f \in [from..size -> Seq(P)] /\ f[size] = <<>>
    /\ \A i \in from..(size - 1) : f[i] = <<piece[i]>> \o f[jump[i]]

\* There is such an f.
LEMMA JumpsLead ==
  ASSUME NEW P, NEW size \in Nat, NEW piece, NEW jump,
         \A i \in 0..(size - 1) : piece[i] \in P /\ jump[i] \in (i + 1)..size
  PROVE  \E f : Leads(f, 0, size, piece, jump, P)
<1> DEFINE A == {n \in 0..size : \E f : Leads(f, size - n, size, piece, jump, P)}
<1>1. 0 \in A
  <2>1. Leads([i \in size..size |-> <<>>], size, size, piece, jump, P)
    <3>1. size \in size..size /\ size..(size - 1) = {}
      OBVIOUS
    <3>2. <<>> \in Seq(P)
      OBVIOUS
    <3> QED BY <3>1, <3>2, Zenon DEF Leads
  <2>2. size - 0 = size /\ 0 \in 0..size
    OBVIOUS
  <2> QED BY <2>1, <2>2
<1>2. ASSUME NEW n \in 1..size, n - 1 \in A PROVE n \in A
  <2> DEFINE at == size - n
  <2>1. at \in Nat /\ at \in 0..(size - 1) /\ size - (n - 1) = at + 1 /\ n \in 0..size
    OBVIOUS
  <2>2. PICK f : Leads(f, at + 1, size, piece, jump, P)
    BY <1>2, <2>1
  <2> HIDE DEF at
  <2>3. /\ f \in [(at + 1)..size -> Seq(P)] /\ f[size] = <<>>
        /\ \A i \in (at + 1)..(size - 1) : f[i] = <<piece[i]>> \o f[jump[i]]
    BY <2>2 DEF Leads
  <2> DEFINE g == [i \in at..size |-> IF i = at THEN <<piece[at]>> \o f[jump[at]] ELSE f[i]]
  <2>4. piece[at] \in P /\ jump[at] \in (at + 1)..size
    BY <2>1
  <2>5. <<piece[at]>> \o f[jump[at]] \in Seq(P)
    <3>1. f[jump[at]] \in Seq(P) /\ <<piece[at]>> \in Seq(P)
      BY <2>3, <2>4
    <3> QED BY <3>1
  <2>6. \A i \in at..size : i # at => i \in (at + 1)..size
    BY <2>1
  <2>7. \A i \in (at + 1)..size : i \in at..size /\ i # at
    BY <2>1
  <2>8. at \in at..size /\ size \in (at + 1)..size
    BY <2>1
  <2>9. g \in [at..size -> Seq(P)]
    <3>1. \A i \in at..size : (IF i = at THEN <<piece[at]>> \o f[jump[at]] ELSE f[i]) \in Seq(P)
      BY <2>3, <2>5, <2>6, Zenon
    <3> QED BY <3>1, Zenon
  <2>10. g[at] = <<piece[at]>> \o f[jump[at]] /\ \A i \in (at + 1)..size : g[i] = f[i]
    BY <2>7, <2>8, Zenon
  <2> HIDE DEF g
  <2>11. g[size] = <<>>
    BY <2>3, <2>8, <2>10
  <2>12. ASSUME NEW i \in at..(size - 1) PROVE g[i] = <<piece[i]>> \o g[jump[i]]
    <3>1. i \in 0..(size - 1)
      BY <2>1
    <3>2. jump[i] \in (at + 1)..size
      BY <2>1, <3>1
    <3>3. g[jump[i]] = f[jump[i]]
      BY <2>10, <3>2
    <3>4. CASE i = at
      BY <2>10, <3>3, <3>4
    <3>5. CASE i # at
      <4>1. i \in (at + 1)..(size - 1) /\ i \in (at + 1)..size
        BY <2>1, <3>5
      <4> QED BY <2>3, <2>10, <3>3, <4>1
    <3> QED BY <3>4, <3>5
  <2>13. Leads(g, at, size, piece, jump, P)
    BY <2>9, <2>11, <2>12 DEF Leads
  <2> QED BY <2>1, <2>13 DEF at
<1>3. size \in A
  <2>1. size \in 0..size
    OBVIOUS
  <2> HIDE DEF A
  <2> QED BY <1>1, <1>2, <2>1, RangeInduction
<1>4. size - size = 0
  OBVIOUS
<1> QED BY <1>3, <1>4

\* And every such f gives a sequence of pieces.
LEMMA LeadsAlike ==
  ASSUME NEW P, NEW size \in Nat, NEW piece, NEW jump,
         \A i \in 0..(size - 1) : piece[i] \in P /\ jump[i] \in (i + 1)..size,
         NEW f, f[size] = <<>>,
         \A i \in 0..(size - 1) : f[i] = <<piece[i]>> \o f[jump[i]]
  PROVE  f[0] \in Seq(P)
<1> DEFINE A == {n \in 0..size : \A i \in (size - n)..size : f[i] \in Seq(P)}
<1>1. 0 \in A
  <2>1. \A i \in (size - 0)..size : i = size
    OBVIOUS
  <2>2. <<>> \in Seq(P) /\ 0 \in 0..size
    OBVIOUS
  <2> QED BY <2>1, <2>2
<1>2. ASSUME NEW n \in 1..size, n - 1 \in A PROVE n \in A
  <2>1. \A i \in (size - n)..size : i = size - n \/ i \in (size - (n - 1))..size
    OBVIOUS
  <2>2. f[size - n] \in Seq(P)
    <3> DEFINE at == size - n
    <3>1. at \in 0..(size - 1) /\ \A j \in (at + 1)..size : j \in (size - (n - 1))..size
      OBVIOUS
    <3> HIDE DEF at
    <3>2. piece[at] \in P /\ jump[at] \in (at + 1)..size /\ f[at] = <<piece[at]>> \o f[jump[at]]
      BY <3>1
    <3>3. f[jump[at]] \in Seq(P)
      BY <1>2, <3>1, <3>2
    <3>4. f[at] \in Seq(P)
      BY <3>2, <3>3
    <3> QED BY <3>4 DEF at
  <2>3. n \in 0..size
    OBVIOUS
  <2> QED BY <1>2, <2>1, <2>2, <2>3
<1>3. size \in A
  <2>1. size \in 0..size
    OBVIOUS
  <2> HIDE DEF A
  <2> QED BY <1>1, <1>2, <2>1, RangeInduction
<1>4. 0 \in (size - size)..size
  OBVIOUS
<1> QED BY <1>3, <1>4

\* The elements of s at the places in I, one after the other: the values of f on the
\* first places.
Gathers(f, s, I) ==
    f = [n \in 0..Len(s) |-> IF n = 0 THEN <<>> ELSE IF n \in I THEN Append(f[n - 1], s[n]) ELSE f[n - 1]]

Rises(s) == \A i, j \in DOMAIN s : i < j => s[i] < s[j]

\* What r holds is what s holds at the places in I.
HoldsThose(r, s, I) == \A x : (\E i \in DOMAIN r : r[i] = x) <=> \E i \in I \intersect DOMAIN s : s[i] = x

LEMMA PickExists ==
  ASSUME NEW S, NEW s \in Seq(S), NEW I
  PROVE  \E f : Gathers(f, s, I)
<1> DEFINE size == Len(s)
           After(acc, n) == IF n \in I THEN Append(acc, s[n]) ELSE acc
           step == [n \in 1..size |-> [acc \in Seq(S) |-> After(acc, n)]]
<1>1. size \in Nat /\ <<>> \in Seq(S)
  BY LenProperties
<1>2. \A n \in 1..size, acc \in Seq(S) : After(acc, n) \in Seq(S)
  OBVIOUS
<1>3. \A n \in 1..size, acc \in Seq(S) : step[n][acc] = After(acc, n)
  OBVIOUS
<1>4. Steps(step, size, Seq(S))
  BY <1>2 DEF Steps
<1> HIDE DEF step, After, size
<1>5. PICK f : Iterates(f, <<>>, step, size, Seq(S))
  BY <1>1, <1>4, Recursion
<1>6. /\ f \in [0..size -> Seq(S)] /\ f[0] = <<>>
      /\ \A n \in 1..size : f[n] = step[n][f[n - 1]]
  BY <1>5 DEF Iterates
<1>7. \A n \in 0..size : n # 0 => n \in 1..size /\ f[n - 1] \in Seq(S)
  BY <1>1, <1>6
<1>8. \A n \in 0..size : f[n] = IF n = 0 THEN <<>> ELSE After(f[n - 1], n)
  BY <1>3, <1>6, <1>7
<1>9. f = [n \in 0..size |-> IF n = 0 THEN <<>> ELSE After(f[n - 1], n)]
  BY <1>6, <1>8
<1> QED BY <1>9 DEF Gathers, After, size

LEMMA PickTells ==
  ASSUME NEW S, NEW s \in Seq(S), NEW I, NEW f, Gathers(f, s, I)
  PROVE  /\ f[Len(s)] \in Seq(S)
         /\ HoldsThose(f[Len(s)], s, I)
         /\ S \subseteq Int /\ Rises(s) => Rises(f[Len(s)])
<1> DEFINE size == Len(s)
           After(acc, n) == IF n \in I THEN Append(acc, s[n]) ELSE acc
           Good(n, acc) ==
              /\ acc \in Seq(S)
              /\ {acc[i] : i \in DOMAIN acc} = {s[i] : i \in I \intersect 1..n}
              /\ S \subseteq Int /\ Rises(s) => Rises(acc)
           A == {n \in 0..size : Good(n, f[n])}
<1>1. size \in Nat /\ DOMAIN s = 1..size
  BY LenProperties
<1>2. f[0] = <<>> /\ \A n \in 1..size : f[n] = After(f[n - 1], n)
  <2>1. \A n \in 0..size : f[n] = IF n = 0 THEN <<>> ELSE After(f[n - 1], n)
    BY DEF Gathers
  <2> HIDE DEF After, size
  <2> QED BY <1>1, <2>1
<1>3. Good(0, f[0])
  BY <1>2 DEF Rises
<1>4. ASSUME NEW n \in 1..size, Good(n - 1, f[n - 1]) PROVE Good(n, f[n])
  <2> DEFINE acc == f[n - 1]
  <2>1. CASE n \notin I
    <3>1. f[n] = acc /\ I \intersect 1..n = I \intersect 1..(n - 1)
      BY <1>2, <2>1
    <3> QED BY <1>4, <3>1
  <2>2. CASE n \in I
    <3>1. f[n] = Append(acc, s[n])
      BY <1>2, <2>2
    <3>2. I \intersect 1..n = (I \intersect 1..(n - 1)) \union {n}
      BY <2>2
    <3>3. acc \in Seq(S) /\ s[n] \in S
      BY <1>1, <1>4
    <3>4. {acc[i] : i \in DOMAIN acc} = {s[i] : i \in I \intersect 1..(n - 1)}
      BY <1>4
    <3> HIDE DEF acc
    <3>5. /\ Len(f[n]) = Len(acc) + 1 /\ DOMAIN acc = 1..Len(acc) /\ Len(acc) \in Nat
          /\ DOMAIN f[n] = 1..(Len(acc) + 1) /\ f[n] \in Seq(S)
          /\ f[n][Len(acc) + 1] = s[n] /\ \A i \in 1..Len(acc) : f[n][i] = acc[i]
      BY <3>1, <3>3
    <3>6. {f[n][i] : i \in DOMAIN f[n]} = {acc[i] : i \in DOMAIN acc} \union {s[n]}
      <4>1. \A i \in DOMAIN f[n] : i \in DOMAIN acc \/ i = Len(acc) + 1
        BY <3>5
      <4>2. \A i \in DOMAIN acc : i \in DOMAIN f[n]
        BY <3>5
      <4>3. Len(acc) + 1 \in DOMAIN f[n]
        BY <3>5
      <4> QED BY <3>5, <4>1, <4>2, <4>3
    <3>7. {s[i] : i \in I \intersect 1..n} = {s[i] : i \in I \intersect 1..(n - 1)} \union {s[n]}
      BY <3>2
    <3>8. ASSUME S \subseteq Int, Rises(s) PROVE Rises(f[n])
      <4>1. Rises(acc)
        BY <1>4, <3>8 DEF acc
      <4>2. \A i \in DOMAIN acc : acc[i] < s[n]
        <5>1. ASSUME NEW i \in DOMAIN acc PROVE acc[i] < s[n]
          <6>1. PICK k \in I \intersect 1..(n - 1) : acc[i] = s[k]
            BY <3>4
          <6>2. k \in DOMAIN s /\ n \in DOMAIN s /\ k < n
            BY <1>1
          <6> QED BY <3>8, <6>1, <6>2 DEF Rises
        <5> QED BY <5>1
      <4>3. ASSUME NEW i \in DOMAIN f[n], NEW j \in DOMAIN f[n], i < j PROVE f[n][i] < f[n][j]
        <5>1. i \in DOMAIN acc
          BY <3>5, <4>3
        <5>2. CASE j = Len(acc) + 1
          BY <3>5, <4>2, <5>1, <5>2
        <5>3. CASE j # Len(acc) + 1
          <6>1. j \in DOMAIN acc
            BY <3>5, <5>3
          <6> QED BY <3>5, <4>1, <4>3, <5>1, <6>1 DEF Rises
        <5> QED BY <5>2, <5>3
      <4> QED BY <4>3 DEF Rises
    <3> QED BY <3>4, <3>5, <3>6, <3>7, <3>8
  <2> QED BY <2>1, <2>2
<1> HIDE DEF Good, size
<1>5. \A n \in 0..size : n \in A
  <2>1. 0 \in A /\ \A n \in 1..size : n - 1 \in A => n \in A
    BY <1>1, <1>3, <1>4
  <2> HIDE DEF A
  <2> QED BY <1>1, <2>1, RangeInduction
<1>6. Good(size, f[size])
  BY <1>1, <1>5
<1> DEFINE r == f[Len(s)]
<1>7. {r[i] : i \in DOMAIN r} = {s[i] : i \in I \intersect DOMAIN s}
  BY <1>1, <1>6 DEF Good, size
<1> HIDE DEF r
<1>8. HoldsThose(r, s, I)
  <2>1. \A x : (\E i \in DOMAIN r : r[i] = x) <=> x \in {r[i] : i \in DOMAIN r}
    OBVIOUS
  <2>2. \A x : (\E i \in I \intersect DOMAIN s : s[i] = x) <=> x \in {s[i] : i \in I \intersect DOMAIN s}
    OBVIOUS
  <2> QED BY <1>7, <2>1, <2>2 DEF HoldsThose
<1> QED BY <1>1, <1>6, <1>8 DEF Good, size, r

-----------------------------------------------------------------------------
(* The text of a message.                                                  *)

SText == INSTANCE SmsText WITH
    message <- r1, parts <- r2, received <- r3,
    Octets <- Size.text.octets, Typed <- Size.text.typed,
    MaxChars <- Size.text.chars

\* The instance counts as the library does.
LEMMA SameCount == ASSUME NEW S PROVE SText!Cardinality(S) = Cardinality(S)
BY Zenon DEF SText!Cardinality, Cardinality

\* How many septets a text takes: one for a character, two for one of the extension.
LEMMA Totals ==
  ASSUME NEW m
  PROVE  SText!TotalSeptets(m) = Len(m) + Cardinality({i \in DOMAIN m : SText!IsExt(m[i])})
BY SameCount, Zenon DEF SText!TotalSeptets

\* What n elements make is a sequence of them.
LEMMA MadeSeq ==
  ASSUME NEW S, NEW n \in Nat, NEW f \in [1..n -> S]
  PROVE  f \in Seq(S) /\ Len(f) = n /\ DOMAIN f = 1..n
BY LenProperties, SeqDef

\* Two sequences make a longer one.
LEMMA Concat ==
  ASSUME NEW S, NEW a \in Seq(S), NEW b \in Seq(S)
  PROVE  /\ a \o b \in Seq(S) /\ Len(a) \in Nat /\ Len(b) \in Nat /\ Len(a \o b) = Len(a) + Len(b)
         /\ \A k \in 1..Len(a) : (a \o b)[k] = a[k]
         /\ \A k \in 1..Len(b) : (a \o b)[Len(a) + k] = b[k]
OBVIOUS

\* The values of F on the beginnings of ss: each is one longer by an element of ss.
Joins(F, ss, V) ==
    /\ F \in [0..Len(ss) -> V] /\ F[0] = <<>>
    /\ \A i \in 1..Len(ss) : F[i] = F[i - 1] \o ss[i]

\* A sequence of sequences is joined that way.
LEMMA FlatJoins ==
  ASSUME NEW S, NEW ss \in Seq(Seq(S))
  PROVE  \E F : Joins(F, ss, Seq(S)) /\ SText!FlattenSeq(ss) = F[Len(ss)]
<1> DEFINE V == Seq(S)
           step == [n \in 1..Len(ss) |-> [v \in V |-> v \o ss[n]]]
           Value(g, i) == IF i = 1 THEN ss[i] ELSE g[i - 1] \o ss[i]
           Def(g) == g = [i \in 1..Len(ss) |-> Value(g, i)]
<1>1. Len(ss) \in Nat /\ <<>> \in V /\ \A i \in 1..Len(ss) : ss[i] \in V
  BY LenProperties
<1>2. \A i \in 1..Len(ss), v \in V : v \o ss[i] \in V /\ <<>> \o ss[i] = ss[i]
  BY <1>1
<1>3. CASE Len(ss) = 0
  <2>1. SText!FlattenSeq(ss) = <<>>
    BY <1>3, EmptySeq DEF SText!FlattenSeq
  <2>2. Joins([i \in 0..0 |-> <<>>], ss, V)
    BY <1>1, <1>3 DEF Joins
  <2> QED BY <1>3, <2>1, <2>2
<1>4. CASE Len(ss) # 0
  <2>1. SText!FlattenSeq(ss) = (CHOOSE g : Def(g))[Len(ss)]
    BY <1>4 DEF SText!FlattenSeq
  <2>2. Steps(step, Len(ss), V)
    <3> HIDE DEF V
    <3> QED BY <1>2 DEF Steps
  <2>3. \A n \in 1..Len(ss), v \in V : step[n][v] = v \o ss[n]
    OBVIOUS
  <2> HIDE DEF step, V, Value
  <2>4. PICK f : Iterates(f, <<>>, step, Len(ss), V)
    BY <1>1, <2>2, Recursion
  <2>5. /\ f \in [0..Len(ss) -> V] /\ f[0] = <<>>
        /\ \A n \in 1..Len(ss) : f[n] = f[n - 1] \o ss[n]
    <3>1. /\ f \in [0..Len(ss) -> V] /\ f[0] = <<>>
          /\ \A n \in 1..Len(ss) : f[n] = step[n][f[n - 1]]
      BY <2>4 DEF Iterates
    <3>2. \A n \in 1..Len(ss) : f[n - 1] \in V
      <4>1. \A n \in 1..Len(ss) : n - 1 \in 0..Len(ss)
        BY <1>1
      <4> QED BY <3>1, <4>1
    <3> QED BY <2>3, <3>1, <3>2
  <2>6. \E g : Def(g)
    <3> DEFINE g == [i \in 1..Len(ss) |-> f[i]]
    <3>1. ASSUME NEW i \in 1..Len(ss) PROVE g[i] = Value(g, i)
      <4>1. CASE i = 1
        <5>1. f[1] = <<>> \o ss[1] /\ g[1] = f[1]
          <6>1. 1 \in 1..Len(ss) /\ 1 - 1 = 0
            BY <1>1, <1>4
          <6>2. f[1] = f[1 - 1] \o ss[1]
            BY <2>5, <6>1, Zenon
          <6>3. g[1] = f[1]
            BY <6>1
          <6> QED BY <2>5, <6>1, <6>2, <6>3
        <5> HIDE DEF g
        <5> QED BY <1>2, <4>1, <5>1 DEF Value
      <4>2. CASE i # 1
        <5>1. i - 1 \in 1..Len(ss)
          BY <1>1, <4>2
        <5>2. g[i] = f[i] /\ g[i - 1] = f[i - 1]
          BY <5>1
        <5> HIDE DEF g
        <5> QED BY <2>5, <4>2, <5>2 DEF Value
      <4> QED BY <4>1, <4>2
    <3>2. g = [i \in 1..Len(ss) |-> g[i]]
      OBVIOUS
    <3> HIDE DEF g
    <3> QED BY <3>1, <3>2
  <2> HIDE DEF Def
  <2>7. PICK g : Def(g) /\ SText!FlattenSeq(ss) = g[Len(ss)]
    BY <2>1, <2>6
  <2>8. \A i \in 1..Len(ss) : g[i] = Value(g, i)
    BY <2>7 DEF Def
  <2>9. \A i \in 0..Len(ss) : i \in 1..Len(ss) => g[i] = f[i]
    <3> DEFINE A == {i \in 0..Len(ss) : i \in 1..Len(ss) => g[i] = f[i]}
    <3>1. 0 \in A
      BY <1>1
    <3>2. ASSUME NEW n \in 1..Len(ss), n - 1 \in A PROVE n \in A
      <4>1. g[n] = f[n]
        <5>1. CASE n = 1
          <6>1. g[1] = ss[1]
            BY <2>8, <5>1 DEF Value
          <6>2. f[1] = <<>> \o ss[1]
            <7>1. 1 \in 1..Len(ss) /\ 1 - 1 = 0
              BY <1>1, <1>4
            <7>2. f[1] = f[1 - 1] \o ss[1]
              BY <2>5, <7>1, Zenon
            <7> QED BY <2>5, <7>1, <7>2
          <6> QED BY <1>2, <5>1, <6>1, <6>2
        <5>2. CASE n # 1
          <6>1. n - 1 \in 1..Len(ss)
            BY <1>1, <5>2
          <6>2. g[n - 1] = f[n - 1]
            BY <3>2, <6>1
          <6>3. g[n] = g[n - 1] \o ss[n]
            BY <2>8, <5>2 DEF Value
          <6> QED BY <2>5, <6>2, <6>3
        <5> QED BY <5>1, <5>2
      <4>2. n \in 0..Len(ss)
        BY <1>1
      <4> QED BY <4>1, <4>2
    <3> HIDE DEF A
    <3>3. \A n \in 0..Len(ss) : n \in A
      BY <1>1, <3>1, <3>2, RangeInduction
    <3> QED BY <3>3 DEF A
  <2>10. Len(ss) \in 1..Len(ss) /\ Len(ss) \in 0..Len(ss)
    BY <1>1, <1>4
  <2>11. SText!FlattenSeq(ss) = f[Len(ss)]
    BY <2>7, <2>9, <2>10
  <2>12. Joins(f, ss, V)
    BY <2>5 DEF Joins
  <2> QED BY <2>11, <2>12 DEF V
<1> QED BY <1>3, <1>4

\* One sequence more is joined at the end.
LEMMA FlatAppend ==
  ASSUME NEW S, NEW ss \in Seq(Seq(S)), NEW x \in Seq(S)
  PROVE  SText!FlattenSeq(ss) \in Seq(S) /\ SText!FlattenSeq(Append(ss, x)) = SText!FlattenSeq(ss) \o x
<1> DEFINE tt == Append(ss, x)
<1>1. /\ tt \in Seq(Seq(S)) /\ Len(tt) = Len(ss) + 1 /\ tt[Len(ss) + 1] = x /\ Len(ss) \in Nat
      /\ \A i \in 1..Len(ss) : ss[i] = tt[i]
  BY AppendProperties, LenProperties
<1> HIDE DEF tt
<1>2. PICK F : Joins(F, ss, Seq(S)) /\ SText!FlattenSeq(ss) = F[Len(ss)]
  BY FlatJoins
<1>3. PICK G : Joins(G, tt, Seq(S)) /\ SText!FlattenSeq(tt) = G[Len(tt)]
  BY <1>1, FlatJoins
<1>4. F[Len(ss)] = G[Len(ss)]
  <2> DEFINE A == {i \in 0..Len(ss) : F[i] = G[i]}
  <2>1. 0 \in A
    BY <1>1, <1>2, <1>3 DEF Joins
  <2>2. ASSUME NEW i \in 1..Len(ss), i - 1 \in A PROVE i \in A
    <3>1. i \in 1..Len(tt) /\ i \in 0..Len(ss) /\ ss[i] = tt[i]
      BY <1>1
    <3>2. F[i] = F[i - 1] \o ss[i] /\ G[i] = G[i - 1] \o tt[i]
      BY <1>2, <1>3, <3>1 DEF Joins
    <3> QED BY <2>2, <3>1, <3>2
  <2> HIDE DEF A
  <2>3. \A i \in 0..Len(ss) : i \in A
    BY <1>1, <2>1, <2>2, RangeInduction
  <2>4. Len(ss) \in A
    BY <1>1, <2>3
  <2> QED BY <2>4 DEF A
<1>5. G[Len(ss) + 1] = G[Len(ss)] \o x
  <2>1. Len(ss) + 1 \in 1..Len(tt) /\ (Len(ss) + 1) - 1 = Len(ss)
    BY <1>1
  <2> QED BY <1>1, <1>3, <2>1 DEF Joins
<1>6. F[Len(ss)] \in Seq(S)
  <2>1. Len(ss) \in 0..Len(ss)
    BY <1>1
  <2> QED BY <1>2, <2>1, Zenon DEF Joins
<1> QED BY <1>1, <1>2, <1>3, <1>4, <1>5, <1>6 DEF tt

\* Or at the front.
LEMMA FlatCons ==
  ASSUME NEW S, NEW ss \in Seq(Seq(S)), NEW x \in Seq(S)
  PROVE  SText!FlattenSeq(<<x>> \o ss) = x \o SText!FlattenSeq(ss)
<1> DEFINE tt == <<x>> \o ss
<1>1. /\ tt \in Seq(Seq(S)) /\ Len(tt) = Len(ss) + 1 /\ tt[1] = x /\ Len(ss) \in Nat
      /\ \A i \in 1..Len(ss) : tt[i + 1] = ss[i]
  OBVIOUS
<1> HIDE DEF tt
<1>2. PICK F : Joins(F, ss, Seq(S)) /\ SText!FlattenSeq(ss) = F[Len(ss)]
  BY FlatJoins
<1>3. PICK G : Joins(G, tt, Seq(S)) /\ SText!FlattenSeq(tt) = G[Len(tt)]
  BY <1>1, FlatJoins
<1> DEFINE A == {i \in 0..Len(ss) : G[i + 1] = x \o F[i]}
<1>4. 0 \in A
  <2>1. 1 \in 1..Len(tt) /\ 1 - 1 = 0
    BY <1>1
  <2>2. G[1] = <<>> \o x
    BY <1>1, <1>3, <2>1 DEF Joins
  <2>3. F[0] = <<>>
    BY <1>2 DEF Joins
  <2>4. <<>> \o x = x /\ x \o <<>> = x
    OBVIOUS
  <2> QED BY <1>1, <2>2, <2>3, <2>4
<1>5. ASSUME NEW n \in 1..Len(ss), n - 1 \in A PROVE n \in A
  <2>1. /\ n \in 0..Len(ss) /\ n - 1 \in 0..Len(ss) /\ n + 1 \in 1..Len(tt) /\ (n + 1) - 1 = n
        /\ (n - 1) + 1 = n
    BY <1>1
  <2>2. G[n + 1] = G[n] \o ss[n] /\ F[n] = F[n - 1] \o ss[n]
    BY <1>1, <1>2, <1>3, <2>1 DEF Joins
  <2>3. G[n] = x \o F[n - 1]
    BY <1>5, <2>1
  <2>4. F[n - 1] \in Seq(S) /\ ss[n] \in Seq(S)
    <3>1. F[n - 1] \in Seq(S)
      BY <1>2, <2>1, Zenon DEF Joins
    <3>2. ss[n] \in Seq(S)
      OBVIOUS
    <3> QED BY <3>1, <3>2
  <2>5. (x \o F[n - 1]) \o ss[n] = x \o (F[n - 1] \o ss[n])
    <3>1. \A a, b, c \in Seq(S) : (a \o b) \o c = a \o (b \o c)
      OBVIOUS
    <3> QED BY <2>4, <3>1
  <2> QED BY <2>1, <2>2, <2>3, <2>5
<1>6. Len(ss) \in A
  <2> HIDE DEF A
  <2>1. \A n \in 0..Len(ss) : n \in A
    BY <1>1, <1>4, <1>5, RangeInduction
  <2> QED BY <1>1, <2>1
<1> QED BY <1>1, <1>2, <1>3, <1>6 DEF tt

\* A sequence is what its two parts make.
LEMMA CutTwo ==
  ASSUME NEW S, NEW m \in Seq(S), NEW a \in Nat, NEW b \in Nat, NEW c \in Nat, a <= b, b <= c, c <= Len(m)
  PROVE  /\ SubSeq(m, a + 1, c) \in Seq(S) /\ Len(SubSeq(m, a + 1, c)) = c - a
         /\ \A k \in 1..(c - a) : SubSeq(m, a + 1, c)[k] = m[a + k]
         /\ SubSeq(m, a + 1, c) = SubSeq(m, a + 1, b) \o SubSeq(m, b + 1, c)
<1>1. ASSUME NEW x \in Nat, NEW y \in Nat, x <= y, y <= Len(m)
      PROVE  /\ SubSeq(m, x + 1, y) \in Seq(S) /\ Len(SubSeq(m, x + 1, y)) = y - x
             /\ \A k \in 1..(y - x) : SubSeq(m, x + 1, y)[k] = m[x + k]
  BY <1>1
<1> DEFINE l == SubSeq(m, a + 1, b)
           r == SubSeq(m, b + 1, c)
           w == SubSeq(m, a + 1, c)
<1>2. /\ w \in Seq(S) /\ Len(w) = c - a /\ \A k \in 1..(c - a) : w[k] = m[a + k]
      /\ l \in Seq(S) /\ Len(l) = b - a /\ \A k \in 1..(b - a) : l[k] = m[a + k]
      /\ r \in Seq(S) /\ Len(r) = c - b /\ \A k \in 1..(c - b) : r[k] = m[b + k]
  <2>1. Len(m) \in Nat /\ b <= Len(m) /\ a <= c
    BY LenProperties
  <2> QED BY <1>1, <2>1
<1> HIDE DEF l, r, w
<1>3. /\ l \o r \in Seq(S) /\ Len(l \o r) = Len(l) + Len(r)
      /\ \A k \in 1..Len(l) : (l \o r)[k] = l[k]
      /\ \A k \in 1..Len(r) : (l \o r)[Len(l) + k] = r[k]
  <2>1. l \in Seq(S) /\ r \in Seq(S)
    BY <1>2
  <2> QED BY <2>1, Concat
<1>4. ASSUME NEW k \in 1..Len(w) PROVE w[k] = (l \o r)[k]
  <2>1. CASE k <= b - a
    BY <1>2, <1>3, <2>1
  <2>2. CASE ~(k <= b - a)
    <3>1. k - (b - a) \in 1..(c - b) /\ (b - a) + (k - (b - a)) = k /\ b + (k - (b - a)) = a + k
      BY <1>2, <2>2
    <3>2. (l \o r)[k] = r[k - (b - a)]
      BY <1>2, <1>3, <3>1
    <3>3. r[k - (b - a)] = m[a + k]
      BY <1>2, <3>1
    <3> QED BY <1>2, <3>2, <3>3
  <2> QED BY <2>1, <2>2
<1>5. Len(w) = Len(l \o r)
  BY <1>2, <1>3
<1>6. w = l \o r
  BY <1>2, <1>3, <1>4, <1>5, SeqEqual
<1> QED BY <1>2, <1>6 DEF l, r, w

\* A part of one element.
LEMMA OneOf ==
  ASSUME NEW S, NEW m \in Seq(S), NEW n \in 1..Len(m)
  PROVE  SubSeq(m, n, n) = <<m[n]>>
<1> DEFINE i == n - 1
           s == SubSeq(m, i + 1, n)
<1>1. Len(m) \in Nat /\ n \in Nat /\ i \in Nat /\ i + 1 = n /\ i <= n /\ n <= n /\ n <= Len(m) /\ n - i = 1
  BY LenProperties
<1> HIDE DEF i
<1>2. s \in Seq(S) /\ Len(s) = n - i /\ \A k \in 1..(n - i) : s[k] = m[i + k]
  BY <1>1, CutTwo
<1> HIDE DEF s
<1>3. s \in Seq(S) /\ Len(s) = 1 /\ s[1] = m[n]
  BY <1>1, <1>2
<1>4. \A t \in Seq(S) : Len(t) = 1 => t = <<t[1]>>
  OBVIOUS
<1>5. s = <<s[1]>>
  BY <1>3, <1>4, Zenon
<1> QED BY <1>1, <1>3, <1>5, Zenon DEF s

\* The first element and the others.
LEMMA CutOne ==
  ASSUME NEW S, NEW m \in Seq(S), NEW i \in 0..(Len(m) - 1)
  PROVE  SubSeq(m, i + 1, Len(m)) = <<m[i + 1]>> \o SubSeq(m, (i + 1) + 1, Len(m))
<1>1. Len(m) \in Nat /\ i \in Nat /\ i + 1 \in Nat /\ i <= i + 1 /\ i + 1 <= Len(m)
  BY LenProperties
<1>2. SubSeq(m, i + 1, Len(m)) = SubSeq(m, i + 1, i + 1) \o SubSeq(m, (i + 1) + 1, Len(m))
  <2>1. Len(m) <= Len(m)
    BY <1>1
  <2> QED BY <1>1, <2>1, CutTwo
<1>3. SubSeq(m, i + 1, i + 1) = <<m[i + 1]>>
  <2>1. i + 1 \in 1..Len(m)
    BY <1>1
  <2> QED BY <2>1, OneOf, Zenon
<1> QED BY <1>2, <1>3, Zenon

\* What is where in the whole.
LEMMA JoinsPlaces ==
  ASSUME NEW S, NEW ss \in Seq(Seq(S)), NEW F, Joins(F, ss, Seq(S))
  PROVE  \A i \in 1..Len(ss) : \A k \in 1..Len(ss[i]) :
            /\ Len(F[i - 1]) + k \in 1..Len(F[Len(ss)])
            /\ F[Len(ss)][Len(F[i - 1]) + k] = ss[i][k]
<1> DEFINE Placed(n) == \A i \in 1..n : \A k \in 1..Len(ss[i]) :
                           /\ Len(F[i - 1]) + k \in 1..Len(F[n])
                           /\ F[n][Len(F[i - 1]) + k] = ss[i][k]
           A == {n \in 0..Len(ss) : Placed(n)}
<1>1. /\ Len(ss) \in Nat /\ \A i \in 1..Len(ss) : ss[i] \in Seq(S) /\ F[i] = F[i - 1] \o ss[i]
      /\ \A i \in 0..Len(ss) : F[i] \in Seq(S)
  <2>1. /\ F \in [0..Len(ss) -> Seq(S)] /\ F[0] = <<>>
        /\ \A i \in 1..Len(ss) : F[i] = F[i - 1] \o ss[i]
    BY DEF Joins
  <2>2. \A i \in 0..Len(ss) : F[i] \in Seq(S)
    BY <2>1, Zenon
  <2>3. \A i \in 1..Len(ss) : ss[i] \in Seq(S)
    BY ElementOfSeq, Zenon
  <2>4. Len(ss) \in Nat
    BY LenProperties, Zenon
  <2> QED BY <2>1, <2>2, <2>3, <2>4
<1>2. 0 \in A
  BY <1>1
<1>3. ASSUME NEW n \in 1..Len(ss), n - 1 \in A PROVE n \in A
  <2>1. n \in 0..Len(ss) /\ n - 1 \in 0..Len(ss) /\ n - 1 \in Nat
    BY <1>1
  <2>2. F[n - 1] \in Seq(S) /\ F[n] = F[n - 1] \o ss[n] /\ ss[n] \in Seq(S)
    BY <1>1, <2>1
  <2>3. Placed(n - 1)
    BY <1>3
  <2>4. /\ Len(F[n - 1]) \in Nat /\ Len(ss[n]) \in Nat /\ Len(F[n]) = Len(F[n - 1]) + Len(ss[n])
        /\ \A k \in 1..Len(F[n - 1]) : F[n][k] = F[n - 1][k]
        /\ \A k \in 1..Len(ss[n]) : F[n][Len(F[n - 1]) + k] = ss[n][k]
    <3> DEFINE a == F[n - 1]
               b == ss[n]
    <3>1. a \in Seq(S) /\ b \in Seq(S) /\ F[n] = a \o b
      BY <2>2
    <3> HIDE DEF a, b
    <3>2. /\ Len(a) \in Nat /\ Len(b) \in Nat /\ Len(F[n]) = Len(a) + Len(b)
          /\ \A k \in 1..Len(a) : F[n][k] = a[k]
          /\ \A k \in 1..Len(b) : F[n][Len(a) + k] = b[k]
      BY <3>1, Concat
    <3> QED BY <3>2 DEF a, b
  <2>5. ASSUME NEW i \in 1..n, NEW k \in 1..Len(ss[i])
        PROVE  /\ Len(F[i - 1]) + k \in 1..Len(F[n])
               /\ F[n][Len(F[i - 1]) + k] = ss[i][k]
    <3>1. CASE i = n
      <4>1. k \in 1..Len(ss[n])
        BY <3>1
      <4>2. F[n][Len(F[n - 1]) + k] = ss[n][k]
        BY <2>4, <4>1, Zenon
      <4>3. \A x, y \in Nat : \A z \in 1..y : x + z \in 1..(x + y)
        OBVIOUS
      <4>4. Len(F[n - 1]) + k \in 1..Len(F[n])
        BY <2>4, <4>1, <4>3, Zenon
      <4> QED BY <3>1, <4>2, <4>4
    <3>2. CASE i # n
      <4>1. i \in 1..(n - 1)
        BY <3>2
      <4>2. Len(F[i - 1]) + k \in 1..Len(F[n - 1]) /\ F[n - 1][Len(F[i - 1]) + k] = ss[i][k]
        BY <2>3, <4>1
      <4>3. Len(F[i - 1]) + k \in 1..Len(F[n])
        <5>1. \A x, y \in Nat : \A z \in 1..x : z \in 1..(x + y)
          OBVIOUS
        <5> QED BY <2>4, <4>2, <5>1, Zenon
      <4> QED BY <2>4, <4>2, <4>3
    <3> QED BY <3>1, <3>2
  <2> HIDE DEF Placed
  <2>6. Placed(n)
    BY <2>5 DEF Placed
  <2> QED BY <2>1, <2>6
<1> HIDE DEF A
<1>4. \A n \in 0..Len(ss) : n \in A
  BY <1>1, <1>2, <1>3, RangeInduction
<1>5. Len(ss) \in A
  BY <1>1, <1>4
<1> QED BY <1>5 DEF A

\* Eight bits with their weights.
Weighed(x1, x2, x3, x4, x5, x6, x7, x8) ==
    x1 + 2 * x2 + 4 * x3 + 8 * x4 + 16 * x5 + 32 * x6 + 64 * x7 + 128 * x8
\* An octet has the bits it is made of.
LEMMA OctetBits ==
  ASSUME NEW x1 \in 0..1, NEW x2 \in 0..1, NEW x3 \in 0..1, NEW x4 \in 0..1,
         NEW x5 \in 0..1, NEW x6 \in 0..1, NEW x7 \in 0..1, NEW x8 \in 0..1,
         NEW v, v = Weighed(x1, x2, x3, x4, x5, x6, x7, x8)
  PROVE  /\ v \in 0..255
         /\ (v \div 1) % 2 = x1 /\ (v \div 2) % 2 = x2 /\ (v \div 4) % 2 = x3 /\ (v \div 8) % 2 = x4
         /\ (v \div 16) % 2 = x5 /\ (v \div 32) % 2 = x6 /\ (v \div 64) % 2 = x7 /\ (v \div 128) % 2 = x8
BY DEF Weighed

\* An octet is the sum of its weighed bits.
LEMMA Sum8 ==
  ASSUME NEW v \in 0..255
  PROVE  Weighed((v \div 1) % 2, (v \div 2) % 2, (v \div 4) % 2, (v \div 8) % 2, (v \div 16) % 2,
                 (v \div 32) % 2, (v \div 64) % 2, (v \div 128) % 2) = v
BY DEF Weighed

\* So is a septet.
LEMMA Sum7 ==
  ASSUME NEW v \in 0..127
  PROVE  Weighed((v \div 1) % 2, (v \div 2) % 2, (v \div 4) % 2, (v \div 8) % 2, (v \div 16) % 2,
                 (v \div 32) % 2, (v \div 64) % 2, 0) = v
BY DEF Weighed

\* The bit at a place, or zero behind the last.
BitAt(bits, k) == IF k \in DOMAIN bits THEN bits[k] ELSE 0

\* It is a bit.
LEMMA BitIs ==
  ASSUME NEW bits \in Seq(0..1), NEW k \in Nat
  PROVE  BitAt(bits, k) \in 0..1
BY LenProperties DEF BitAt

\* The weights of the bits of an octet.
LEMMA Powers ==
  /\ 2^(1 - 1) = 1 /\ 2^(2 - 1) = 2 /\ 2^(3 - 1) = 4 /\ 2^(4 - 1) = 8 /\ 2^(5 - 1) = 16
  /\ 2^(6 - 1) = 32 /\ 2^(7 - 1) = 64 /\ 2^(8 - 1) = 128
OBVIOUS

\* One bit with its weight.
Weight(bits, n, w, k) == IF k <= w /\ n + k \in DOMAIN bits THEN bits[n + k] * 2^(k - 1) ELSE 0

\* What a bit weighs in a number.
LEMMA WeightIs ==
  ASSUME NEW bits \in Seq(0..1), NEW n \in Nat, NEW w, NEW k, k <= w, NEW p \in Nat, 2^(k - 1) = p
  PROVE  Weight(bits, n, w, k) = p * BitAt(bits, n + k)
<1>1. CASE n + k \in DOMAIN bits
  <2>1. bits[n + k] \in 0..1
    BY <1>1, LenProperties
  <2>2. bits[n + k] * p = p * bits[n + k]
    BY <2>1
  <2> QED BY <1>1, <2>2, Zenon DEF Weight, BitAt
<1>2. CASE n + k \notin DOMAIN bits
  <2>1. p * 0 = 0
    OBVIOUS
  <2> QED BY <1>2, <2>1, Zenon DEF Weight, BitAt
<1> QED BY <1>1, <1>2

\* The number of seven or eight bits.
LEMMA NumberIs ==
  ASSUME NEW bits \in Seq(0..1), NEW n \in Nat
  PROVE  /\ SText!Number(bits, n, 8)
              = Weighed(BitAt(bits, n + 1), BitAt(bits, n + 2), BitAt(bits, n + 3), BitAt(bits, n + 4),
                        BitAt(bits, n + 5), BitAt(bits, n + 6), BitAt(bits, n + 7), BitAt(bits, n + 8))
         /\ SText!Number(bits, n, 7)
              = Weighed(BitAt(bits, n + 1), BitAt(bits, n + 2), BitAt(bits, n + 3), BitAt(bits, n + 4),
                        BitAt(bits, n + 5), BitAt(bits, n + 6), BitAt(bits, n + 7), 0)
<1>1. ASSUME NEW w \in 7..8
      PROVE  /\ Weight(bits, n, w, 1) = 1 * BitAt(bits, n + 1)
             /\ Weight(bits, n, w, 2) = 2 * BitAt(bits, n + 2)
             /\ Weight(bits, n, w, 3) = 4 * BitAt(bits, n + 3)
             /\ Weight(bits, n, w, 4) = 8 * BitAt(bits, n + 4)
             /\ Weight(bits, n, w, 5) = 16 * BitAt(bits, n + 5)
             /\ Weight(bits, n, w, 6) = 32 * BitAt(bits, n + 6)
             /\ Weight(bits, n, w, 7) = 64 * BitAt(bits, n + 7)
             /\ Weight(bits, n, w, 8) = IF 8 <= w THEN 128 * BitAt(bits, n + 8) ELSE 0
  <2>0. ASSUME NEW k, k <= w, NEW p \in Nat, 2^(k - 1) = p PROVE Weight(bits, n, w, k) = p * BitAt(bits, n + k)
    BY <2>0, WeightIs
  <2>1. Weight(bits, n, w, 1) = 1 * BitAt(bits, n + 1)
    <3>1. 1 <= w /\ 1 \in Nat /\ 2^(1 - 1) = 1
      OBVIOUS
    <3> QED BY <2>0, <3>1
  <2>2. Weight(bits, n, w, 2) = 2 * BitAt(bits, n + 2)
    <3>1. 2 <= w /\ 2 \in Nat /\ 2^(2 - 1) = 2
      OBVIOUS
    <3> QED BY <2>0, <3>1
  <2>3. Weight(bits, n, w, 3) = 4 * BitAt(bits, n + 3)
    <3>1. 3 <= w /\ 4 \in Nat /\ 2^(3 - 1) = 4
      OBVIOUS
    <3> QED BY <2>0, <3>1
  <2>4. Weight(bits, n, w, 4) = 8 * BitAt(bits, n + 4)
    <3>1. 4 <= w /\ 8 \in Nat /\ 2^(4 - 1) = 8
      OBVIOUS
    <3> QED BY <2>0, <3>1
  <2>5. Weight(bits, n, w, 5) = 16 * BitAt(bits, n + 5)
    <3>1. 5 <= w /\ 16 \in Nat /\ 2^(5 - 1) = 16
      OBVIOUS
    <3> QED BY <2>0, <3>1
  <2>6. Weight(bits, n, w, 6) = 32 * BitAt(bits, n + 6)
    <3>1. 6 <= w /\ 32 \in Nat /\ 2^(6 - 1) = 32
      OBVIOUS
    <3> QED BY <2>0, <3>1
  <2>7. Weight(bits, n, w, 7) = 64 * BitAt(bits, n + 7)
    <3>1. 7 <= w /\ 64 \in Nat /\ 2^(7 - 1) = 64
      OBVIOUS
    <3> QED BY <2>0, <3>1
  <2>8. CASE w = 8
    <3>1. 8 <= w /\ 128 \in Nat /\ 2^(8 - 1) = 128
      BY <2>8
    <3>2. Weight(bits, n, w, 8) = 128 * BitAt(bits, n + 8)
      <4>1. \A p \in Nat : 2^(8 - 1) = p => Weight(bits, n, w, 8) = p * BitAt(bits, n + 8)
        BY <2>0, <3>1, Zenon
      <4>2. 128 \in Nat /\ 2^(8 - 1) = 128
        OBVIOUS
      <4> QED BY <4>1, <4>2, Zenon
    <3>3. Weight(bits, n, w, 8) = IF 8 <= w THEN 128 * BitAt(bits, n + 8) ELSE 0
      BY <3>1, <3>2, Zenon
    <3> QED BY <2>1, <2>2, <2>3, <2>4, <2>5, <2>6, <2>7, <2>8, <3>3, Zenon
  <2>9. CASE w = 7
    <3>1. ~(8 <= w)
      BY <2>9
    <3>2. Weight(bits, n, w, 8) = 0
      BY <3>1, Zenon DEF Weight
    <3> QED BY <2>1, <2>2, <2>3, <2>4, <2>5, <2>6, <2>7, <3>1, <3>2
  <2> QED BY <2>8, <2>9
<1>2. \A w : SText!Number(bits, n, w)
        = Weight(bits, n, w, 1) + Weight(bits, n, w, 2) + Weight(bits, n, w, 3) + Weight(bits, n, w, 4)
          + Weight(bits, n, w, 5) + Weight(bits, n, w, 6) + Weight(bits, n, w, 7) + Weight(bits, n, w, 8)
  BY Zenon DEF SText!Number, Weight
<1>3. /\ BitAt(bits, n + 1) \in 0..1 /\ BitAt(bits, n + 2) \in 0..1 /\ BitAt(bits, n + 3) \in 0..1
      /\ BitAt(bits, n + 4) \in 0..1 /\ BitAt(bits, n + 5) \in 0..1 /\ BitAt(bits, n + 6) \in 0..1
      /\ BitAt(bits, n + 7) \in 0..1 /\ BitAt(bits, n + 8) \in 0..1
  BY BitIs
<1>4. 7 \in 7..8 /\ 8 \in 7..8 /\ ~(8 <= 7) /\ 8 <= 8
  OBVIOUS
<1>5. SText!Number(bits, n, 8)
        = 1 * BitAt(bits, n + 1) + 2 * BitAt(bits, n + 2) + 4 * BitAt(bits, n + 3) + 8 * BitAt(bits, n + 4)
          + 16 * BitAt(bits, n + 5) + 32 * BitAt(bits, n + 6) + 64 * BitAt(bits, n + 7) + 128 * BitAt(bits, n + 8)
  BY <1>1, <1>2, <1>4, Zenon
<1>6. SText!Number(bits, n, 7)
        = 1 * BitAt(bits, n + 1) + 2 * BitAt(bits, n + 2) + 4 * BitAt(bits, n + 3) + 8 * BitAt(bits, n + 4)
          + 16 * BitAt(bits, n + 5) + 32 * BitAt(bits, n + 6) + 64 * BitAt(bits, n + 7) + 0
  BY <1>1, <1>2, <1>4, Zenon
<1> QED BY <1>3, <1>5, <1>6 DEF Weighed

\* A bit of a number of eight bits is what the number was made of.
LEMMA OctetBit ==
  ASSUME NEW bits \in Seq(0..1), NEW n \in Nat
  PROVE  /\ SText!Number(bits, n, 8) \in 0..255
         /\ \A j \in 1..8 : (SText!Number(bits, n, 8) \div 2^(j - 1)) % 2 = BitAt(bits, n + j)
<1> DEFINE v == SText!Number(bits, n, 8)
           x1 == BitAt(bits, n + 1)
           x2 == BitAt(bits, n + 2)
           x3 == BitAt(bits, n + 3)
           x4 == BitAt(bits, n + 4)
           x5 == BitAt(bits, n + 5)
           x6 == BitAt(bits, n + 6)
           x7 == BitAt(bits, n + 7)
           x8 == BitAt(bits, n + 8)
<1>1. /\ x1 \in 0..1 /\ x2 \in 0..1 /\ x3 \in 0..1 /\ x4 \in 0..1
      /\ x5 \in 0..1 /\ x6 \in 0..1 /\ x7 \in 0..1 /\ x8 \in 0..1
  BY BitIs
<1>2. v = Weighed(x1, x2, x3, x4, x5, x6, x7, x8)
  BY NumberIs
<1>3. /\ v \in 0..255
      /\ (v \div 1) % 2 = x1 /\ (v \div 2) % 2 = x2 /\ (v \div 4) % 2 = x3 /\ (v \div 8) % 2 = x4
      /\ (v \div 16) % 2 = x5 /\ (v \div 32) % 2 = x6 /\ (v \div 64) % 2 = x7 /\ (v \div 128) % 2 = x8
  <2> HIDE DEF v, x1, x2, x3, x4, x5, x6, x7, x8
  <2> QED BY <1>1, <1>2 DEF Weighed
<1> HIDE DEF v
<1>4. ASSUME NEW j \in 1..8 PROVE (v \div 2^(j - 1)) % 2 = BitAt(bits, n + j)
  <2>1. CASE j = 1
    BY <1>3, <2>1, Powers, Zenon
  <2>2. CASE j = 2
    BY <1>3, <2>2, Powers, Zenon
  <2>3. CASE j = 3
    BY <1>3, <2>3, Powers, Zenon
  <2>4. CASE j = 4
    BY <1>3, <2>4, Powers, Zenon
  <2>5. CASE j = 5
    BY <1>3, <2>5, Powers, Zenon
  <2>6. CASE j = 6
    BY <1>3, <2>6, Powers, Zenon
  <2>7. CASE j = 7
    BY <1>3, <2>7, Powers, Zenon
  <2>8. CASE j = 8
    BY <1>3, <2>8, Powers, Zenon
  <2> QED BY <2>1, <2>2, <2>3, <2>4, <2>5, <2>6, <2>7, <2>8
<1> QED BY <1>3, <1>4 DEF v

\* A number is what its bits are.
LEMMA BitsAre ==
  ASSUME NEW bits \in Seq(0..1), NEW n \in Nat, NEW v \in 0..255, NEW w \in 7..8, w = 7 => v <= 127,
         \A j \in 1..w : BitAt(bits, n + j) = (v \div 2^(j - 1)) % 2
  PROVE  SText!Number(bits, n, w) = v
<1>0. /\ 1 \in 1..w /\ 2 \in 1..w /\ 3 \in 1..w /\ 4 \in 1..w /\ 5 \in 1..w /\ 6 \in 1..w
      /\ 7 \in 1..w /\ (w = 7 \/ w = 8) /\ (w = 8 => 8 \in 1..w)
  OBVIOUS
<1>1. BitAt(bits, n + 1) = (v \div 1) % 2
  <2>1. 2^(1 - 1) = 1
    OBVIOUS
  <2> QED BY <1>0, <2>1
<1>2. BitAt(bits, n + 2) = (v \div 2) % 2
  <2>1. 2^(2 - 1) = 2
    OBVIOUS
  <2> QED BY <1>0, <2>1
<1>3. BitAt(bits, n + 3) = (v \div 4) % 2
  <2>1. 2^(3 - 1) = 4
    OBVIOUS
  <2> QED BY <1>0, <2>1
<1>4. BitAt(bits, n + 4) = (v \div 8) % 2
  <2>1. 2^(4 - 1) = 8
    OBVIOUS
  <2> QED BY <1>0, <2>1
<1>5. BitAt(bits, n + 5) = (v \div 16) % 2
  <2>1. 2^(5 - 1) = 16
    OBVIOUS
  <2> QED BY <1>0, <2>1
<1>6. BitAt(bits, n + 6) = (v \div 32) % 2
  <2>1. 2^(6 - 1) = 32
    OBVIOUS
  <2> QED BY <1>0, <2>1
<1>7. BitAt(bits, n + 7) = (v \div 64) % 2
  <2>1. 2^(7 - 1) = 64
    OBVIOUS
  <2> QED BY <1>0, <2>1
<1>8. w = 8 => BitAt(bits, n + 8) = (v \div 128) % 2
  <2>1. 2^(8 - 1) = 128
    OBVIOUS
  <2> QED BY <1>0, <2>1
<1>9. CASE w = 8
  <2>1. Weighed(BitAt(bits, n + 1), BitAt(bits, n + 2), BitAt(bits, n + 3), BitAt(bits, n + 4),
                BitAt(bits, n + 5), BitAt(bits, n + 6), BitAt(bits, n + 7), BitAt(bits, n + 8)) = v
    BY <1>1, <1>2, <1>3, <1>4, <1>5, <1>6, <1>7, <1>8, <1>9, Sum8, Zenon
  <2> QED BY <1>9, <2>1, NumberIs, Zenon
<1>10. CASE w = 7
  <2>1. v \in 0..127
    BY <1>10
  <2>2. Weighed(BitAt(bits, n + 1), BitAt(bits, n + 2), BitAt(bits, n + 3), BitAt(bits, n + 4),
                BitAt(bits, n + 5), BitAt(bits, n + 6), BitAt(bits, n + 7), 0) = v
    BY <1>1, <1>2, <1>3, <1>4, <1>5, <1>6, <1>7, <2>1, Sum7, Zenon
  <2> QED BY <1>10, <2>2, NumberIs, Zenon
<1> QED BY <1>0, <1>9, <1>10

\* Where a bit is among those of many values.
LEMMA Place ==
  ASSUME NEW size \in Nat, NEW i \in 1..size, NEW w \in 7..8, NEW j \in 1..w
  PROVE  /\ w * (i - 1) + j \in 1..(w * size)
         /\ ((w * (i - 1) + j) - 1) \div w + 1 = i /\ ((w * (i - 1) + j) - 1) % w = j - 1
<1>1. CASE w = 7
  <2>1. /\ 7 * (i - 1) + j \in 1..(7 * size)
        /\ ((7 * (i - 1) + j) - 1) \div 7 + 1 = i /\ ((7 * (i - 1) + j) - 1) % 7 = j - 1
    BY <1>1
  <2> QED BY <1>1, <2>1, Zenon
<1>2. CASE w = 8
  <2>1. /\ 8 * (i - 1) + j \in 1..(8 * size)
        /\ ((8 * (i - 1) + j) - 1) \div 8 + 1 = i /\ ((8 * (i - 1) + j) - 1) % 8 = j - 1
    BY <1>2
  <2> QED BY <1>2, <2>1, Zenon
<1> QED BY <1>1, <1>2

\* The bits of a sequence of values.
LEMMA BitOf ==
  ASSUME NEW values \in Seq(0..255), NEW w \in 7..8
  PROVE  /\ SText!BitsOf(values, w) \in Seq(0..1) /\ Len(SText!BitsOf(values, w)) = w * Len(values)
         /\ \A i \in 1..Len(values), j \in 1..w :
              /\ w * (i - 1) + j \in 1..(w * Len(values))
              /\ SText!BitsOf(values, w)[w * (i - 1) + j] = (values[i] \div 2^(j - 1)) % 2
<1> DEFINE Val(k) == (values[(k - 1) \div w + 1] \div 2^((k - 1) % w)) % 2
           bits == [k \in 1..(w * Len(values)) |-> Val(k)]
<1>1. /\ Len(values) \in Nat /\ (w = 7 \/ w = 8)
      /\ \A i \in 1..Len(values) : values[i] \in 0..255
  <2>1. Len(values) \in Nat
    OBVIOUS
  <2>2. w = 7 \/ w = 8
    OBVIOUS
  <2>3. \A i \in 1..Len(values) : values[i] \in 0..255
    BY ElementOfSeq, Zenon
  <2> QED BY <2>1, <2>2, <2>3
<1>2. w * Len(values) \in Nat
  BY <1>1
<1>3. SText!BitsOf(values, w) = bits
  BY Zenon DEF SText!BitsOf
<1>4. \A k \in 1..(w * Len(values)) : Val(k) \in 0..1
  <2>1. ASSUME NEW k \in 1..(w * Len(values)) PROVE Val(k) \in 0..1
    <3>1. (k - 1) \div w + 1 \in 1..Len(values)
      <4>1. CASE w = 7
        BY <1>1, <4>1
      <4>2. CASE w = 8
        BY <1>1, <4>2
      <4> QED BY <1>1, <4>1, <4>2
    <3>2. \E j \in 1..8 : (k - 1) % w = j - 1
      <4>1. CASE w = 7
        BY <1>1, <4>1
      <4>2. CASE w = 8
        BY <1>1, <4>2
      <4> QED BY <1>1, <4>1, <4>2
    <3>3. 2^((k - 1) % w) \in {1, 2, 4, 8, 16, 32, 64, 128}
      <4>1. PICK j \in 1..8 : (k - 1) % w = j - 1
        BY <3>2
      <4>2. ASSUME j = 1 PROVE 2^((k - 1) % w) = 1
        BY <4>1, <4>2, Powers, Zenon
      <4>3. ASSUME j = 2 PROVE 2^((k - 1) % w) = 2
        BY <4>1, <4>3, Powers, Zenon
      <4>4. ASSUME j = 3 PROVE 2^((k - 1) % w) = 4
        BY <4>1, <4>4, Powers, Zenon
      <4>5. ASSUME j = 4 PROVE 2^((k - 1) % w) = 8
        BY <4>1, <4>5, Powers, Zenon
      <4>6. ASSUME j = 5 PROVE 2^((k - 1) % w) = 16
        BY <4>1, <4>6, Powers, Zenon
      <4>7. ASSUME j = 6 PROVE 2^((k - 1) % w) = 32
        BY <4>1, <4>7, Powers, Zenon
      <4>8. ASSUME j = 7 PROVE 2^((k - 1) % w) = 64
        BY <4>1, <4>8, Powers, Zenon
      <4>9. ASSUME j = 8 PROVE 2^((k - 1) % w) = 128
        BY <4>1, <4>9, Powers, Zenon
      <4> QED BY <4>2, <4>3, <4>4, <4>5, <4>6, <4>7, <4>8, <4>9
    <3>4. values[(k - 1) \div w + 1] \in 0..255
      BY <1>1, <3>1
    <3>5. \A v \in 0..255, p \in {1, 2, 4, 8, 16, 32, 64, 128} : (v \div p) % 2 \in 0..1
      OBVIOUS
    <3> QED BY <3>3, <3>4, <3>5, Zenon
  <2> QED BY <2>1
<1>5. ASSUME NEW i \in 1..Len(values), NEW j \in 1..w
      PROVE  /\ w * (i - 1) + j \in 1..(w * Len(values))
             /\ bits[w * (i - 1) + j] = (values[i] \div 2^(j - 1)) % 2
  <2> DEFINE k == w * (i - 1) + j
  <2>1. k \in 1..(w * Len(values)) /\ (k - 1) \div w + 1 = i /\ (k - 1) % w = j - 1
    <3>1. \A z \in Nat : \A a \in 1..z :
            /\ w * (a - 1) + j \in 1..(w * z)
            /\ ((w * (a - 1) + j) - 1) \div w + 1 = a /\ ((w * (a - 1) + j) - 1) % w = j - 1
      BY Place
    <3> QED BY <1>1, <3>1, Zenon
  <2> HIDE DEF k
  <2>2. bits[k] = (values[i] \div 2^(j - 1)) % 2
    BY <2>1, Zenon
  <2> QED BY <2>1, <2>2 DEF k
<1>6. bits \in [1..(w * Len(values)) -> 0..1]
  <2> HIDE DEF Val
  <2> QED BY <1>4
<1> HIDE DEF bits
<1>7. bits \in Seq(0..1) /\ Len(bits) = w * Len(values)
  BY <1>2, <1>6, MadeSeq
<1> QED BY <1>3, <1>5, <1>7

\* The octets of bits have these bits, and zeros up to the end of the last.
LEMMA OctetsBack ==
  ASSUME NEW bits \in Seq(0..1)
  PROVE  /\ SText!ToOctets(bits) \in Seq(0..255) /\ Len(SText!ToOctets(bits)) = (Len(bits) + 7) \div 8
         /\ \A i \in 1..Len(SText!ToOctets(bits)) : SText!ToOctets(bits)[i] = SText!Number(bits, 8 * (i - 1), 8)
         /\ \A k \in Nat : k >= 1 => BitAt(SText!BitsOf(SText!ToOctets(bits), 8), k) = BitAt(bits, k)
<1> DEFINE octets == SText!ToOctets(bits)
           size == (Len(bits) + 7) \div 8
           back == SText!BitsOf(octets, 8)
<1>1. Len(bits) \in Nat /\ DOMAIN bits = 1..Len(bits) /\ size \in Nat /\ 8 * size >= Len(bits)
  BY LenProperties
<1>2. octets = [i \in 1..size |-> SText!Number(bits, 8 * (i - 1), 8)]
  BY Zenon DEF SText!ToOctets
<1> HIDE DEF size, octets
<1>3. \A i \in 1..size : octets[i] = SText!Number(bits, 8 * (i - 1), 8) /\ 8 * (i - 1) \in Nat
  BY <1>1, <1>2
<1>4. octets \in [1..size -> 0..255]
  <2>1. \A i \in 1..size : SText!Number(bits, 8 * (i - 1), 8) \in 0..255
    BY <1>3, OctetBit
  <2> QED BY <1>2, <2>1
<1>5. octets \in Seq(0..255) /\ Len(octets) = size
  BY <1>1, <1>4, MadeSeq
<1>6. /\ back \in Seq(0..1) /\ Len(back) = 8 * Len(octets)
      /\ \A i \in 1..Len(octets), j \in 1..8 :
              /\ 8 * (i - 1) + j \in 1..(8 * Len(octets))
              /\ back[8 * (i - 1) + j] = (octets[i] \div 2^(j - 1)) % 2
  <2>1. 8 \in 7..8
    OBVIOUS
  <2> QED BY <1>5, <2>1, BitOf, Zenon
<1> HIDE DEF back
<1>7. DOMAIN back = 1..(8 * size)
  BY <1>5, <1>6, LenProperties
<1>8. ASSUME NEW k \in Nat, k >= 1 PROVE BitAt(back, k) = BitAt(bits, k)
  <2>1. CASE k \in 1..(8 * size)
    <3> DEFINE i == (k - 1) \div 8 + 1
               j == ((k - 1) % 8) + 1
    <3>1. i \in 1..size /\ j \in 1..8 /\ 8 * (i - 1) + j = k
      BY <1>1, <2>1
    <3> HIDE DEF i, j
    <3>2. back[k] = (SText!Number(bits, 8 * (i - 1), 8) \div 2^(j - 1)) % 2
      BY <1>3, <1>5, <1>6, <3>1, Zenon
    <3>3. back[k] = BitAt(bits, k)
      BY <1>3, <3>1, <3>2, OctetBit, Zenon
    <3> QED BY <1>7, <2>1, <3>3, Zenon DEF BitAt
  <2>2. CASE k \notin 1..(8 * size)
    <3>1. k \notin 1..Len(bits)
      BY <1>1, <2>2
    <3> QED BY <1>1, <1>7, <2>2, <3>1, Zenon DEF BitAt
  <2> QED BY <2>1, <2>2
<1> QED BY <1>3, <1>5, <1>8 DEF size, octets, back

\* The number of a few bits depends on these bits alone.
LEMMA NumberLocal ==
  ASSUME NEW a \in Seq(0..1), NEW b \in Seq(0..1), \A k \in Nat : k >= 1 => BitAt(a, k) = BitAt(b, k), NEW n \in Nat
  PROVE  SText!Number(a, n, 7) = SText!Number(b, n, 7)
<1>1. /\ BitAt(a, n + 1) = BitAt(b, n + 1) /\ BitAt(a, n + 2) = BitAt(b, n + 2)
      /\ BitAt(a, n + 3) = BitAt(b, n + 3) /\ BitAt(a, n + 4) = BitAt(b, n + 4)
      /\ BitAt(a, n + 5) = BitAt(b, n + 5) /\ BitAt(a, n + 6) = BitAt(b, n + 6)
      /\ BitAt(a, n + 7) = BitAt(b, n + 7)
  OBVIOUS
<1>2. SText!Number(a, n, 7)
         = Weighed(BitAt(a, n + 1), BitAt(a, n + 2), BitAt(a, n + 3), BitAt(a, n + 4),
                   BitAt(a, n + 5), BitAt(a, n + 6), BitAt(a, n + 7), 0)
  BY NumberIs, Zenon
<1>3. SText!Number(b, n, 7)
         = Weighed(BitAt(b, n + 1), BitAt(b, n + 2), BitAt(b, n + 3), BitAt(b, n + 4),
                   BitAt(b, n + 5), BitAt(b, n + 6), BitAt(b, n + 7), 0)
  BY NumberIs, Zenon
<1> QED BY <1>1, <1>2, <1>3, Zenon

\* Bits after bits.
LEMMA BitsJoin ==
  ASSUME NEW a \in Seq(0..1), NEW b \in Seq(0..1)
  PROVE  /\ a \o b \in Seq(0..1) /\ Len(a) \in Nat /\ Len(b) \in Nat /\ Len(a \o b) = Len(a) + Len(b)
         /\ \A k \in 1..Len(a) : (a \o b)[k] = a[k]
         /\ \A k \in 1..Len(b) : (a \o b)[Len(a) + k] = b[k]
<1> DEFINE S == 0..1
<1>1. a \in Seq(S) /\ b \in Seq(S)
  OBVIOUS
<1> HIDE DEF S
<1>2. /\ a \o b \in Seq(S) /\ Len(a) \in Nat /\ Len(b) \in Nat /\ Len(a \o b) = Len(a) + Len(b)
      /\ \A k \in 1..Len(a) : (a \o b)[k] = a[k]
      /\ \A k \in 1..Len(b) : (a \o b)[Len(a) + k] = b[k]
  BY <1>1, Concat
<1> QED BY <1>2, Zenon DEF S

\* What unpacking a packed sequence of bits gives.
LEMMA Unpacked ==
  ASSUME NEW bits \in Seq(0..1), NEW n \in Nat, Len(bits) = 7 * n
  PROVE  SText!UnpackSeptets(SText!ToOctets(bits), n) = [i \in 1..n |-> SText!Number(bits, 7 * (i - 1), 7)]
<1> DEFINE octets == SText!ToOctets(bits)
           back == SText!BitsOf(octets, 8)
           m == IF n * 7 <= Len(back) THEN n ELSE Len(back) \div 7
<1>1. /\ octets \in Seq(0..255) /\ Len(octets) = (7 * n + 7) \div 8
      /\ \A k \in Nat : k >= 1 => BitAt(back, k) = BitAt(bits, k)
  BY OctetsBack
<1>2. SText!UnpackSeptets(octets, n) = [i \in 1..m |-> SText!Number(back, 7 * (i - 1), 7)]
  BY Zenon DEF SText!UnpackSeptets
<1> HIDE DEF octets
<1>3. back \in Seq(0..1) /\ Len(back) = 8 * Len(octets)
  <2>1. 8 \in 7..8
    OBVIOUS
  <2> QED BY <1>1, <2>1, BitOf, Zenon
<1>4. m = n
  <2> HIDE DEF back
  <2>1. n * 7 <= Len(back)
    BY <1>1, <1>3
  <2> QED BY <2>1
<1> HIDE DEF back, m
<1>5. \A i \in 1..n : SText!Number(back, 7 * (i - 1), 7) = SText!Number(bits, 7 * (i - 1), 7)
  <2>1. ASSUME NEW i \in 1..n PROVE SText!Number(back, 7 * (i - 1), 7) = SText!Number(bits, 7 * (i - 1), 7)
    <3>1. 7 * (i - 1) \in Nat
      OBVIOUS
    <3> QED BY <1>1, <1>3, <3>1, NumberLocal, Zenon
  <2> QED BY <2>1
<1>6. SText!UnpackSeptets(octets, n) = [i \in 1..n |-> SText!Number(back, 7 * (i - 1), 7)]
  BY <1>2, <1>4, Zenon
<1> QED BY <1>5, <1>6, Zenon DEF octets

\* How many septets the header takes.
Lead(udh) == IF Len(udh) = 0 THEN 0 ELSE 7

\* The header is filled up to a septet.
LEMMA FilledIs ==
  ASSUME NEW udh \in Seq(0..255), Len(udh) = 0 \/ Len(udh) = 6
  PROVE  /\ SText!Filled(SText!BitsOf(udh, 8)) \in Seq(0..1) /\ Len(SText!Filled(SText!BitsOf(udh, 8))) = 7 * Lead(udh)
         /\ \A k \in 1..(8 * Len(udh)) : SText!Filled(SText!BitsOf(udh, 8))[k] = SText!BitsOf(udh, 8)[k]
<1> DEFINE bits == SText!BitsOf(udh, 8)
           size == (7 - (Len(bits) % 7)) % 7
           zeros == [i \in 1..size |-> 0]
<1>1. bits \in Seq(0..1) /\ Len(bits) = 8 * Len(udh)
  <2>1. 8 \in 7..8
    OBVIOUS
  <2> QED BY <2>1, BitOf, Zenon
<1>2. SText!Filled(bits) = bits \o zeros
  BY Zenon DEF SText!Filled
<1> HIDE DEF bits
<1>3. size \in Nat /\ Len(bits) + size = 7 * Lead(udh)
  <2>1. CASE Len(udh) = 0
    <3>1. Len(bits) = 0 /\ Lead(udh) = 0
      BY <1>1, <2>1 DEF Lead
    <3> QED BY <3>1
  <2>2. CASE Len(udh) = 6
    <3>1. Len(bits) = 48 /\ Lead(udh) = 7
      BY <1>1, <2>2 DEF Lead
    <3> QED BY <3>1
  <2> QED BY <2>1, <2>2
<1> HIDE DEF size
<1>4. zeros \in [1..size -> 0..1]
  OBVIOUS
<1> HIDE DEF zeros
<1>5. zeros \in Seq(0..1) /\ Len(zeros) = size
  BY <1>3, <1>4, MadeSeq
<1>6. /\ bits \o zeros \in Seq(0..1) /\ Len(bits \o zeros) = Len(bits) + Len(zeros)
      /\ \A k \in 1..Len(bits) : (bits \o zeros)[k] = bits[k]
  BY <1>1, <1>5, BitsJoin, Zenon
<1> QED BY <1>1, <1>2, <1>3, <1>5, <1>6 DEF bits

\* The bits of a part: the header and the septets are where they are looked for.
LEMMA Packed ==
  ASSUME NEW udh \in Seq(0..255), Len(udh) = 0 \/ Len(udh) = 6, NEW septets \in Seq(0..127), NEW all,
         all = SText!Filled(SText!BitsOf(udh, 8)) \o SText!BitsOf(septets, 7)
  PROVE  /\ all \in Seq(0..1) /\ Len(all) = 7 * (Lead(udh) + Len(septets))
         /\ \A i \in 1..Len(septets) : SText!Number(all, 7 * ((Lead(udh) + i) - 1), 7) = septets[i]
         /\ \A i \in 1..Len(udh) : SText!Number(all, 8 * (i - 1), 8) = udh[i]
<1> DEFINE front == SText!Filled(SText!BitsOf(udh, 8))
           rest == SText!BitsOf(septets, 7)
<1>1. /\ front \in Seq(0..1) /\ Len(front) = 7 * Lead(udh)
      /\ \A k \in 1..(8 * Len(udh)) : front[k] = SText!BitsOf(udh, 8)[k]
  BY FilledIs
<1>2. /\ Len(septets) \in Nat /\ septets \in Seq(0..255)
      /\ \A i \in 1..Len(septets) : septets[i] \in 0..127
  <2>1. 0..127 \subseteq 0..255
    OBVIOUS
  <2>2. septets \in Seq(0..255)
    BY <2>1, SeqMonotonic
  <2> QED BY <2>2, LenProperties, ElementOfSeq, Zenon
<1>3. /\ rest \in Seq(0..1) /\ Len(rest) = 7 * Len(septets)
      /\ \A i \in 1..Len(septets), j \in 1..7 :
           /\ 7 * (i - 1) + j \in 1..(7 * Len(septets))
           /\ rest[7 * (i - 1) + j] = (septets[i] \div 2^(j - 1)) % 2
  <2>1. 7 \in 7..8
    OBVIOUS
  <2> QED BY <1>2, <2>1, BitOf, Zenon
<1>4. /\ Len(udh) \in Nat /\ \A i \in 1..Len(udh) : udh[i] \in 0..255
      /\ \A i \in 1..Len(udh), j \in 1..8 :
           /\ 8 * (i - 1) + j \in 1..(8 * Len(udh))
           /\ SText!BitsOf(udh, 8)[8 * (i - 1) + j] = (udh[i] \div 2^(j - 1)) % 2
  <2>1. 8 \in 7..8
    OBVIOUS
  <2> QED BY <2>1, BitOf, LenProperties, ElementOfSeq, Zenon
<1>5. Lead(udh) \in Nat /\ 8 * Len(udh) <= 7 * Lead(udh)
  <2>1. 8 * 0 <= 7 * 0 /\ 8 * 6 <= 7 * 7 /\ 0 \in Nat /\ 7 \in Nat /\ 6 # 0
    OBVIOUS
  <2> QED BY <2>1, Zenon DEF Lead
<1> HIDE DEF front, rest
<1>6. /\ all \in Seq(0..1) /\ Len(all) = Len(front) + Len(rest)
      /\ \A k \in 1..Len(front) : all[k] = front[k]
      /\ \A k \in 1..Len(rest) : all[Len(front) + k] = rest[k]
  <2>1. all = front \o rest
    BY DEF front, rest
  <2>2. /\ front \o rest \in Seq(0..1) /\ Len(front \o rest) = Len(front) + Len(rest)
        /\ \A k \in 1..Len(front) : (front \o rest)[k] = front[k]
        /\ \A k \in 1..Len(rest) : (front \o rest)[Len(front) + k] = rest[k]
    <3>1. ASSUME NEW a \in Seq(0..1), NEW b \in Seq(0..1)
          PROVE  /\ a \o b \in Seq(0..1) /\ Len(a \o b) = Len(a) + Len(b)
                 /\ \A k \in 1..Len(a) : (a \o b)[k] = a[k]
                 /\ \A k \in 1..Len(b) : (a \o b)[Len(a) + k] = b[k]
      BY BitsJoin, Zenon
    <3> QED BY <1>1, <1>3, <3>1, Zenon
  <2> QED BY <2>1, <2>2, Zenon
<1>7. DOMAIN all = 1..(7 * Lead(udh) + 7 * Len(septets))
  BY <1>1, <1>3, <1>6, LenProperties
<1>8. ASSUME NEW i \in 1..Len(septets) PROVE SText!Number(all, 7 * ((Lead(udh) + i) - 1), 7) = septets[i]
  <2> DEFINE n == 7 * ((Lead(udh) + i) - 1)
  <2>1. ASSUME NEW j \in 1..7 PROVE BitAt(all, n + j) = (septets[i] \div 2^(j - 1)) % 2
    <3>1. n + j = 7 * Lead(udh) + (7 * (i - 1) + j) /\ n + j \in 1..(7 * Lead(udh) + 7 * Len(septets))
      <4> DEFINE z == Lead(udh)
                 y == Len(septets)
      <4>1. z \in Nat /\ y \in Nat /\ i \in 1..y
        BY <1>2, <1>5
      <4> HIDE DEF z, y
      <4>2. n = 7 * ((z + i) - 1)
        BY DEF z
      <4> HIDE DEF n
      <4>3. n + j = 7 * z + (7 * (i - 1) + j) /\ n + j \in 1..(7 * z + 7 * y)
        BY <4>1, <4>2
      <4> QED BY <4>3 DEF z, y
    <3> HIDE DEF n
    <3>2. all[n + j] = rest[7 * (i - 1) + j]
      BY <1>1, <1>3, <1>6, <3>1
    <3>3. BitAt(all, n + j) = all[n + j]
      BY <1>7, <3>1, Zenon DEF BitAt
    <3> QED BY <1>3, <3>2, <3>3, Zenon
  <2>2. n \in Nat /\ septets[i] \in 0..255 /\ septets[i] <= 127 /\ 7 \in 7..8
    <3>1. septets[i] \in 0..127
      BY <1>2, Zenon
    <3>2. i \in Nat /\ i >= 1
      BY <1>2
    <3>3. n \in Nat
      <4> DEFINE z == Lead(udh)
      <4>1. z \in Nat
        BY <1>5
      <4> HIDE DEF z
      <4>2. 7 * ((z + i) - 1) \in Nat
        BY <3>2, <4>1
      <4> QED BY <4>2 DEF z
    <3>5. 7 \in 7..8
      OBVIOUS
    <3>6. septets[i] \in 0..255 /\ septets[i] <= 127
      <4> DEFINE v == septets[i]
      <4>1. v \in 0..127
        BY <3>1
      <4> HIDE DEF v
      <4>2. v \in 0..255 /\ v <= 127
        BY <4>1
      <4> QED BY <4>2 DEF v
    <3> QED BY <3>3, <3>5, <3>6
  <2> HIDE DEF n
  <2>3. SText!Number(all, n, 7) = septets[i]
    BY <1>6, <2>1, <2>2, BitsAre
  <2> QED BY <2>3 DEF n
<1>9. ASSUME NEW i \in 1..Len(udh) PROVE SText!Number(all, 8 * (i - 1), 8) = udh[i]
  <2> DEFINE n == 8 * (i - 1)
  <2>1. ASSUME NEW j \in 1..8 PROVE BitAt(all, n + j) = (udh[i] \div 2^(j - 1)) % 2
    <3>1. n + j \in 1..(8 * Len(udh)) /\ n + j = 8 * (i - 1) + j
      BY <1>4, Zenon
    <3> HIDE DEF n
    <3>2. n + j \in 1..(7 * Lead(udh)) /\ n + j \in 1..(7 * Lead(udh) + 7 * Len(septets))
      <4>1. \A x, y, z \in Nat : \A k \in 1..(8 * x) :
               8 * x <= 7 * z => k \in 1..(7 * z) /\ k \in 1..(7 * z + 7 * y)
        OBVIOUS
      <4> QED BY <1>2, <1>4, <1>5, <3>1, <4>1, Zenon
    <3>3. all[n + j] = SText!BitsOf(udh, 8)[n + j]
      BY <1>1, <1>6, <3>1, <3>2
    <3>4. BitAt(all, n + j) = all[n + j]
      BY <1>7, <3>2, Zenon DEF BitAt
    <3> QED BY <1>4, <3>1, <3>3, <3>4, Zenon
  <2>2. n \in Nat /\ udh[i] \in 0..255 /\ 8 \in 7..8 /\ 8 # 7
    BY <1>4
  <2> HIDE DEF n
  <2>3. SText!Number(all, n, 8) = udh[i]
    BY <1>6, <2>1, <2>2, BitsAre
  <2> QED BY <2>3 DEF n
<1>10. Len(all) = 7 * (Lead(udh) + Len(septets))
  BY <1>1, <1>2, <1>3, <1>5, <1>6
<1> QED BY <1>6, <1>8, <1>9, <1>10

\* The characters of the 7-bit alphabet.
Plains == {"at", "a", "euro"}

\* The septets of a character.
PieceOf(c) == IF SText!IsExt(c) THEN <<SText!Esc, SText!EuroCode>> ELSE <<SText!Code(c)>>

\* They tell which character it is.
LEMMA PieceIs ==
  ASSUME NEW c \in Plains
  PROVE  /\ PieceOf(c) \in Seq(0..127)
         /\ SText!IsExt(c) => Len(PieceOf(c)) = 2 /\ PieceOf(c)[1] = SText!Esc /\ PieceOf(c)[2] = SText!EuroCode
         /\ ~SText!IsExt(c) => Len(PieceOf(c)) = 1 /\ PieceOf(c)[1] = SText!Code(c) /\ PieceOf(c)[1] # SText!Esc
         /\ (SText!IsExt(c) <=> c = "euro") /\ (~SText!IsExt(c) => SText!Plain(SText!Code(c)) = c)
<1>1. CASE c = "euro"
  <2>1. SText!IsExt(c) /\ PieceOf(c) = <<27, 101>>
    BY <1>1 DEF SText!IsExt, PieceOf, SText!Esc, SText!EuroCode
  <2>2. /\ <<27, 101>> \in Seq(0..127) /\ Len(<<27, 101>>) = 2 /\ <<27, 101>>[1] = 27 /\ <<27, 101>>[2] = 101
    OBVIOUS
  <2>3. /\ PieceOf(c) \in Seq(0..127) /\ Len(PieceOf(c)) = 2
        /\ PieceOf(c)[1] = 27 /\ PieceOf(c)[2] = 101
    BY <2>1, <2>2, Zenon
  <2> QED BY <1>1, <2>1, <2>3, Zenon DEF SText!Esc, SText!EuroCode
<1>2. CASE c = "a"
  <2>1. ~SText!IsExt(c) /\ PieceOf(c) = <<97>> /\ SText!Code(c) = 97 /\ SText!Plain(97) = "a"
    BY <1>2 DEF SText!IsExt, PieceOf, SText!Code, SText!Plain
  <2>2. /\ <<97>> \in Seq(0..127) /\ Len(<<97>>) = 1 /\ <<97>>[1] = 97 /\ 97 # 27
    OBVIOUS
  <2>3. PieceOf(c) \in Seq(0..127) /\ Len(PieceOf(c)) = 1 /\ PieceOf(c)[1] = 97 /\ 97 # 27
    BY <2>1, <2>2, Zenon
  <2>4. c # "euro"
    BY <1>2
  <2> QED BY <1>2, <2>1, <2>3, <2>4, Zenon DEF SText!Esc
<1>3. CASE c = "at"
  <2>1. ~SText!IsExt(c) /\ PieceOf(c) = <<0>> /\ SText!Code(c) = 0 /\ SText!Plain(0) = "at"
    BY <1>3 DEF SText!IsExt, PieceOf, SText!Code, SText!Plain
  <2>2. /\ <<0>> \in Seq(0..127) /\ Len(<<0>>) = 1 /\ <<0>>[1] = 0 /\ 0 # 27
    OBVIOUS
  <2>3. PieceOf(c) \in Seq(0..127) /\ Len(PieceOf(c)) = 1 /\ PieceOf(c)[1] = 0 /\ 0 # 27
    BY <2>1, <2>2, Zenon
  <2>4. c # "euro"
    BY <1>3
  <2> QED BY <1>3, <2>1, <2>3, <2>4, Zenon DEF SText!Esc
<1> QED BY <1>1, <1>2, <1>3 DEF Plains

\* Where the septets of each character begin.
Places(p, m, s) ==
    /\ p \in [0..Len(m) -> Nat] /\ p[0] = 0 /\ p[Len(m)] = Len(s)
    /\ \A i \in 1..Len(m) :
         /\ p[i] = p[i - 1] + (IF SText!IsExt(m[i]) THEN 2 ELSE 1)
         /\ p[i] <= Len(s)
         /\ SText!IsExt(m[i]) => s[p[i - 1] + 1] = SText!Esc /\ s[p[i - 1] + 2] = SText!EuroCode
         /\ ~SText!IsExt(m[i]) => s[p[i - 1] + 1] = SText!Code(m[i])

\* The septets of a text have the septets of each character at its place.
LEMMA SeptetsAre ==
  ASSUME NEW m \in Seq(Plains)
  PROVE  SText!Septets(m) \in Seq(0..127) /\ \E p : Places(p, m, SText!Septets(m))
<1> DEFINE S == 0..127
           ss == [i \in 1..Len(m) |-> PieceOf(m[i])]
           n == Len(m)
<1>1. n \in Nat /\ DOMAIN m = 1..n /\ \A i \in 1..n : m[i] \in Plains
  BY LenProperties, ElementOfSeq
<1>2. SText!Septets(m) = SText!FlattenSeq(ss)
  BY <1>1, Zenon DEF SText!Septets, PieceOf
<1>3. \A i \in 1..n : ss[i] = PieceOf(m[i])
  OBVIOUS
<1> HIDE DEF n
<1>4. ss \in [1..n -> Seq(S)]
  <2>1. \A i \in 1..n : PieceOf(m[i]) \in Seq(S)
    BY <1>1, PieceIs
  <2> HIDE DEF S
  <2> QED BY <2>1 DEF n
<1> HIDE DEF ss
<1>5. ss \in Seq(Seq(S)) /\ Len(ss) = n
  BY <1>1, <1>4, MadeSeq
<1>6. PICK F : Joins(F, ss, Seq(S)) /\ SText!FlattenSeq(ss) = F[n]
  <2> HIDE DEF S
  <2> QED BY <1>5, FlatJoins
<1>7. \A i \in 1..n : \A k \in 1..Len(ss[i]) :
          /\ Len(F[i - 1]) + k \in 1..Len(F[n])
          /\ F[n][Len(F[i - 1]) + k] = ss[i][k]
  <2> HIDE DEF S
  <2>1. \A i \in 1..Len(ss) : \A k \in 1..Len(ss[i]) :
          /\ Len(F[i - 1]) + k \in 1..Len(F[Len(ss)])
          /\ F[Len(ss)][Len(F[i - 1]) + k] = ss[i][k]
    BY <1>5, <1>6, JoinsPlaces
  <2> QED BY <1>5, <2>1, Zenon
<1>8. /\ F[0] = <<>> /\ \A i \in 0..n : F[i] \in Seq(S) /\ Len(F[i]) \in Nat
      /\ \A i \in 1..n : Len(F[i]) = Len(F[i - 1]) + Len(ss[i]) /\ Len(ss[i]) \in Nat
  <2> HIDE DEF S
  <2>1. /\ F \in [0..n -> Seq(S)] /\ F[0] = <<>> /\ \A i \in 1..n : F[i] = F[i - 1] \o ss[i]
    BY <1>5, <1>6, Zenon DEF Joins
  <2>2. \A i \in 0..n : F[i] \in Seq(S) /\ Len(F[i]) \in Nat
    BY <2>1, LenProperties
  <2>3. ASSUME NEW i \in 1..n PROVE Len(F[i]) = Len(F[i - 1]) + Len(ss[i]) /\ Len(ss[i]) \in Nat
    <3>1. i - 1 \in 0..n
      BY <1>1
    <3>2. F[i - 1] \in Seq(S) /\ ss[i] \in Seq(S) /\ F[i] = F[i - 1] \o ss[i]
      BY <1>4, <2>1, <2>2, <3>1
    <3> QED BY <3>2, Concat
  <2> QED BY <2>1, <2>2, <2>3
<1> DEFINE p == [i \in 0..n |-> Len(F[i])]
<1>9. /\ p \in [0..n -> Nat] /\ p[n] = Len(F[n])
      /\ p[0] = Len(F[0]) /\ \A i \in 1..n : p[i] = Len(F[i]) /\ p[i - 1] = Len(F[i - 1])
  BY <1>1, <1>8
<1>10. p[0] = 0
  BY <1>8, <1>9
<1> HIDE DEF p
<1>11. ASSUME NEW i \in 1..n
       PROVE /\ p[i] = p[i - 1] + (IF SText!IsExt(m[i]) THEN 2 ELSE 1)
             /\ p[i] <= Len(F[n])
             /\ SText!IsExt(m[i]) => F[n][p[i - 1] + 1] = SText!Esc /\ F[n][p[i - 1] + 2] = SText!EuroCode
             /\ ~SText!IsExt(m[i]) => F[n][p[i - 1] + 1] = SText!Code(m[i])
  <2>1. p[i] = p[i - 1] + Len(ss[i]) /\ p[i - 1] = Len(F[i - 1]) /\ p[i] \in Nat /\ p[i - 1] \in Nat
    <3>1. i - 1 \in 0..n /\ i \in 0..n
      BY <1>1
    <3> QED BY <1>8, <1>9, <3>1
  <2>2. /\ SText!IsExt(m[i]) => Len(ss[i]) = 2 /\ ss[i][1] = SText!Esc /\ ss[i][2] = SText!EuroCode
        /\ ~SText!IsExt(m[i]) => Len(ss[i]) = 1 /\ ss[i][1] = SText!Code(m[i])
    BY <1>1, <1>3, PieceIs
  <2>3. CASE SText!IsExt(m[i])
    <3>1. 1 \in 1..Len(ss[i]) /\ 2 \in 1..Len(ss[i])
      BY <2>2, <2>3
    <3>2. /\ F[n][p[i - 1] + 1] = ss[i][1] /\ F[n][p[i - 1] + 2] = ss[i][2]
          /\ p[i - 1] + 2 \in 1..Len(F[n])
      BY <1>7, <2>1, <3>1
    <3>3. p[i - 1] + 2 <= Len(F[n])
      BY <3>2
    <3> QED BY <2>1, <2>2, <2>3, <3>2, <3>3
  <2>4. CASE ~SText!IsExt(m[i])
    <3>1. 1 \in 1..Len(ss[i])
      BY <2>2, <2>4
    <3>2. /\ F[n][p[i - 1] + 1] = ss[i][1] /\ p[i - 1] + 1 \in 1..Len(F[n])
      BY <1>7, <2>1, <3>1
    <3>3. p[i - 1] + 1 <= Len(F[n])
      BY <3>2
    <3> QED BY <2>1, <2>2, <2>4, <3>2, <3>3
  <2> QED BY <2>3, <2>4
<1>12. Places(p, m, F[n])
  BY <1>9, <1>10, <1>11 DEF Places, n
<1>13. F[n] \in Seq(S)
  <2>1. n \in 0..n
    BY <1>1
  <2> QED BY <1>8, <2>1, Zenon
<1> QED BY <1>2, <1>6, <1>12, <1>13

\* The number of septets is what the text was counted for.
LEMMA TotalIs ==
  ASSUME NEW m \in Seq(Plains)
  PROVE  Len(SText!Septets(m)) = SText!TotalSeptets(m) /\ SText!TotalSeptets(m) \in Nat
<1>1. PICK p : Places(p, m, SText!Septets(m))
  BY SeptetsAre
<1> DEFINE E(i) == {j \in 1..i : SText!IsExt(m[j])}
           A == {i \in 0..Len(m) : p[i] = i + Cardinality(E(i))}
<1>2. Len(m) \in Nat /\ DOMAIN m = 1..Len(m)
  BY LenProperties
<1>3. ASSUME NEW i \in Nat PROVE IsFiniteSet(E(i)) /\ Cardinality(E(i)) \in Nat
  <2>1. IsFiniteSet(1..i)
    BY FS_Interval
  <2>2. E(i) \subseteq 1..i
    OBVIOUS
  <2> HIDE DEF E
  <2> QED BY <2>1, <2>2, FS_Subset, FS_CardinalityType, Zenon
<1>4. 0 \in A
  <2>1. E(0) = {}
    OBVIOUS
  <2> HIDE DEF E
  <2>2. Cardinality(E(0)) = 0
    BY <2>1, FS_EmptySet, Zenon
  <2> QED BY <1>1, <1>2, <2>2 DEF Places
<1>5. ASSUME NEW i \in 1..Len(m), i - 1 \in A PROVE i \in A
  <2>1. i \in 0..Len(m) /\ i - 1 \in Nat /\ p[i - 1] = (i - 1) + Cardinality(E(i - 1))
    BY <1>2, <1>5
  <2>2. Cardinality(E(i)) = Cardinality(E(i - 1)) + (IF SText!IsExt(m[i]) THEN 1 ELSE 0)
    <3>1. CASE SText!IsExt(m[i])
      <4>1. E(i) = E(i - 1) \union {i} /\ i \notin E(i - 1)
        BY <1>2, <3>1
      <4> HIDE DEF E
      <4>2. Cardinality(E(i - 1) \union {i}) = Cardinality(E(i - 1)) + 1
        BY <1>3, <2>1, <4>1, FS_AddElement, Zenon
      <4> QED BY <3>1, <4>1, <4>2, Zenon
    <3>2. CASE ~SText!IsExt(m[i])
      <4>1. E(i) = E(i - 1)
        BY <1>2, <3>2
      <4> HIDE DEF E
      <4> QED BY <1>3, <2>1, <3>2, <4>1
    <3> QED BY <3>1, <3>2
  <2>3. p[i] = p[i - 1] + (IF SText!IsExt(m[i]) THEN 2 ELSE 1)
    BY <1>1 DEF Places
  <2>4. Cardinality(E(i - 1)) \in Nat
    BY <1>3, <2>1
  <2> HIDE DEF E
  <2>5. p[i] = i + Cardinality(E(i))
    BY <2>1, <2>2, <2>3, <2>4
  <2> QED BY <2>1, <2>5
<1> HIDE DEF A
<1>6. \A i \in 0..Len(m) : i \in A
  BY <1>2, <1>4, <1>5, RangeInduction
<1>7. p[Len(m)] = Len(m) + Cardinality(E(Len(m)))
  <2>1. Len(m) \in A
    BY <1>2, <1>6
  <2> QED BY <2>1 DEF A
<1>8. SText!TotalSeptets(m) = Len(m) + Cardinality(E(Len(m)))
  BY <1>2, Totals
<1>9. Cardinality(E(Len(m))) \in Nat
  BY <1>2, <1>3
<1> QED BY <1>1, <1>2, <1>7, <1>8, <1>9 DEF Places

\* The septets of a text are read as that text.
LEMMA TextBack ==
  ASSUME NEW m \in Seq(Plains)
  PROVE  SText!Text(SText!Septets(m)) = m
<1> DEFINE s == SText!Septets(m)
           size == Len(s)
           Doubled(n) == s[n + 1] = SText!Esc /\ n + 1 < size /\ s[n + 2] = SText!EuroCode
           jump == [n \in 0..(size - 1) |-> IF Doubled(n) THEN n + 2 ELSE n + 1]
           piece == [n \in 0..(size - 1) |-> IF Doubled(n) THEN "euro" ELSE SText!Plain(s[n + 1])]
           Value(g, n) == IF n = size THEN <<>>
                          ELSE IF Doubled(n) THEN <<"euro">> \o g[n + 2]
                          ELSE <<SText!Plain(s[n + 1])>> \o g[n + 1]
           Def(g) == g = [n \in 0..size |-> Value(g, n)]
           P == {piece[n] : n \in 0..(size - 1)}
<1>1. PICK p : Places(p, m, s)
  BY SeptetsAre
<1>2. size \in Nat /\ Len(m) \in Nat /\ \A i \in 1..Len(m) : m[i] \in Plains
  <2>1. s \in Seq(0..127)
    BY SeptetsAre
  <2> HIDE DEF s
  <2> QED BY <2>1, LenProperties, ElementOfSeq, Zenon
<1>3. SText!Text(s) = (CHOOSE g : Def(g))[0]
  BY Zenon DEF SText!Text
<1> HIDE DEF s, size
<1>4. ASSUME NEW n \in 0..(size - 1) PROVE piece[n] \in P /\ jump[n] \in (n + 1)..size
  <2>1. piece[n] \in P
    OBVIOUS
  <2>2. jump[n] = IF Doubled(n) THEN n + 2 ELSE n + 1
    OBVIOUS
  <2>3. Doubled(n) => n + 1 < size
    OBVIOUS
  <2> HIDE DEF Doubled, jump, piece
  <2> QED BY <1>2, <2>1, <2>2, <2>3
<1>5. \A n \in 0..(size - 1) :
         /\ Doubled(n) => piece[n] = "euro" /\ jump[n] = n + 2
         /\ ~Doubled(n) => piece[n] = SText!Plain(s[n + 1]) /\ jump[n] = n + 1
  OBVIOUS
<1> HIDE DEF P, piece, jump
<1>6. PICK f : Leads(f, 0, size, piece, jump, P)
  BY <1>2, <1>4, JumpsLead
<1>7. f[size] = <<>> /\ \A n \in 0..(size - 1) : f[n] = <<piece[n]>> \o f[jump[n]]
  BY <1>2, <1>6 DEF Leads
<1>8. \E g : Def(g)
  <2> DEFINE g == [n \in 0..size |-> f[n]]
  <2>1. ASSUME NEW n \in 0..size PROVE g[n] = Value(g, n)
    <3>1. CASE n = size
      BY <1>7, <3>1
    <3>2. CASE n # size
      <4>1. n \in 0..(size - 1) /\ n + 1 \in 0..size
        BY <1>2, <3>2
      <4>2. Doubled(n) => n + 2 \in 0..size
        <5>1. Doubled(n) => n + 1 < size
          OBVIOUS
        <5> HIDE DEF Doubled
        <5> QED BY <1>2, <4>1, <5>1
      <4>3. /\ g[n] = f[n] /\ g[n + 1] = f[n + 1] /\ (Doubled(n) => g[n + 2] = f[n + 2])
        <5> HIDE DEF Doubled
        <5> QED BY <4>1, <4>2
      <4> HIDE DEF g, Doubled
      <4>4. CASE Doubled(n)
        BY <1>5, <1>7, <3>2, <4>1, <4>3, <4>4, Zenon
      <4>5. CASE ~Doubled(n)
        BY <1>5, <1>7, <3>2, <4>1, <4>3, <4>5, Zenon
      <4> QED BY <4>4, <4>5
    <3> QED BY <3>1, <3>2
  <2>2. g = [n \in 0..size |-> g[n]]
    OBVIOUS
  <2> HIDE DEF g, Value
  <2> QED BY <2>1, <2>2
<1> HIDE DEF Def
<1>9. PICK g : Def(g) /\ SText!Text(s) = g[0]
  BY <1>3, <1>8
<1>10. \A n \in 0..size : g[n] = Value(g, n)
  <2> HIDE DEF Value
  <2> QED BY <1>9 DEF Def
<1>11. g[size] = <<>>
  <2>1. size \in 0..size
    BY <1>2
  <2> HIDE DEF Doubled
  <2> QED BY <1>10, <2>1, Zenon
<1>12. /\ p[0] = 0 /\ p[Len(m)] = size
       /\ \A i \in 1..Len(m) : p[i - 1] \in Nat /\ p[i] \in Nat
       /\ \A i \in 1..Len(m) :
            /\ p[i] = p[i - 1] + (IF SText!IsExt(m[i]) THEN 2 ELSE 1)
            /\ p[i] <= size
            /\ SText!IsExt(m[i]) => s[p[i - 1] + 1] = SText!Esc /\ s[p[i - 1] + 2] = SText!EuroCode
            /\ ~SText!IsExt(m[i]) => s[p[i - 1] + 1] = SText!Code(m[i])
  <2>1. \A i \in 1..Len(m) : i \in 0..Len(m) /\ i - 1 \in 0..Len(m)
    BY <1>2
  <2>2. p \in [0..Len(m) -> Nat]
    BY <1>1, Zenon DEF Places
  <2> QED BY <1>1, <2>1, <2>2, Zenon DEF Places, size
<1>13. ASSUME NEW i \in 1..Len(m) PROVE g[p[i - 1]] = <<m[i]>> \o g[p[i]]
  <2> DEFINE n == p[i - 1]
  <2>1. /\ n \in Nat /\ p[i] = n + (IF SText!IsExt(m[i]) THEN 2 ELSE 1) /\ p[i] <= size
        /\ SText!IsExt(m[i]) => s[n + 1] = SText!Esc /\ s[n + 2] = SText!EuroCode
        /\ ~SText!IsExt(m[i]) => s[n + 1] = SText!Code(m[i])
    BY <1>12
  <2> HIDE DEF n
  <2>2. n \in 0..size /\ n # size
    BY <1>2, <2>1
  <2>3. /\ SText!IsExt(m[i]) <=> m[i] = "euro"
        /\ ~SText!IsExt(m[i]) => SText!Plain(SText!Code(m[i])) = m[i] /\ SText!Code(m[i]) # SText!Esc
    <3>1. m[i] \in Plains
      BY <1>2
    <3> QED BY <3>1, PieceIs, Zenon
  <2>4. CASE SText!IsExt(m[i])
    <3>1. n + 1 < size /\ p[i] = n + 2
      BY <1>2, <2>1, <2>4
    <3>2. Doubled(n)
      BY <2>1, <2>4, <3>1
    <3> HIDE DEF Doubled
    <3>3. g[n] = <<"euro">> \o g[n + 2]
      BY <1>10, <2>2, <3>2, Zenon
    <3> QED BY <2>3, <2>4, <3>1, <3>3 DEF n
  <2>5. CASE ~SText!IsExt(m[i])
    <3>1. p[i] = n + 1 /\ s[n + 1] = SText!Code(m[i])
      BY <2>1, <2>5
    <3>2. ~Doubled(n)
      BY <2>3, <2>5, <3>1, Zenon
    <3> HIDE DEF Doubled
    <3>3. g[n] = <<SText!Plain(s[n + 1])>> \o g[n + 1]
      BY <1>10, <2>2, <3>2, Zenon
    <3> QED BY <2>3, <2>5, <3>1, <3>3 DEF n
  <2> QED BY <2>4, <2>5
<1> DEFINE A == {j \in 0..Len(m) : g[p[Len(m) - j]] = SubSeq(m, (Len(m) - j) + 1, Len(m))}
<1>14. 0 \in A
  <2>1. Len(m) - 0 = Len(m) /\ 0 \in 0..Len(m)
    BY <1>2
  <2>2. SubSeq(m, Len(m) + 1, Len(m)) = <<>>
    BY <1>2
  <2> QED BY <1>11, <1>12, <2>1, <2>2, Zenon
<1>15. ASSUME NEW j \in 1..Len(m), j - 1 \in A PROVE j \in A
  <2> DEFINE i == Len(m) - j
  <2>1. /\ i \in 0..(Len(m) - 1) /\ Len(m) - (j - 1) = i + 1 /\ i + 1 \in 1..Len(m) /\ (i + 1) - 1 = i
        /\ j \in 0..Len(m)
    BY <1>2
  <2>2. g[p[i + 1]] = SubSeq(m, (i + 1) + 1, Len(m))
    BY <1>15, <2>1
  <2> HIDE DEF i
  <2>3. g[p[i]] = <<m[i + 1]>> \o g[p[i + 1]]
    BY <1>13, <2>1
  <2>4. SubSeq(m, i + 1, Len(m)) = <<m[i + 1]>> \o SubSeq(m, (i + 1) + 1, Len(m))
    BY <2>1, CutOne
  <2>5. g[p[i]] = SubSeq(m, i + 1, Len(m))
    BY <2>2, <2>3, <2>4, Zenon
  <2> QED BY <2>1, <2>5 DEF i
<1> HIDE DEF A
<1>16. \A j \in 0..Len(m) : j \in A
  BY <1>2, <1>14, <1>15, RangeInduction
<1>17. g[0] = SubSeq(m, 1, Len(m))
  <2>1. Len(m) \in A
    BY <1>2, <1>16
  <2>2. g[p[Len(m) - Len(m)]] = SubSeq(m, (Len(m) - Len(m)) + 1, Len(m))
    BY <2>1 DEF A
  <2>3. Len(m) - Len(m) = 0 /\ 0 + 1 = 1
    BY <1>2
  <2> QED BY <1>12, <2>2, <2>3
<1>18. SubSeq(m, 1, Len(m)) = m
  OBVIOUS
<1> QED BY <1>9, <1>17, <1>18 DEF s

\* Part p is read as m, and its header as it is; this is its length.
IsRead(p, m, udh) ==
    /\ SText!Decode(p).content = m
    /\ udh = <<>> => SText!Decode(p).partial = SText!WholeMessage
    /\ udh # <<>> => SText!Decode(p).partial = SText!Partial(udh)
    /\ Len(p.data) = (7 * (Lead(udh) + SText!TotalSeptets(m)) + 7) \div 8 /\ p.udl = Lead(udh) + SText!TotalSeptets(m)

\* A part of 7-bit text is read as what was written, its header too.
LEMMA SeptetsArrive ==
  ASSUME NEW m \in Seq(Plains), NEW udh \in Seq(0..255), Len(udh) = 0 \/ (Len(udh) = 6 /\ udh[1] = 5)
  PROVE  IsRead(SText!UserData(m, udh, "7bit"), m, udh)
<1> DEFINE p == SText!UserData(m, udh, "7bit")
           s == SText!Septets(m)
           all == SText!Filled(SText!BitsOf(udh, 8)) \o SText!BitsOf(s, 7)
           octets == SText!ToOctets(all)
           n == Lead(udh) + Len(s)
           headed == (udh # <<>>)
<1>1. s \in Seq(0..127) /\ Len(s) \in Nat /\ Len(s) = SText!TotalSeptets(m) /\ SText!Text(s) = m
  BY SeptetsAre, TotalIs, TextBack
<1>2. p = [enc |-> "7bit", udhi |-> headed, header |-> <<>>, data |-> octets,
           udl |-> (Len(udh) * 8 + 6) \div 7 + SText!TotalSeptets(m)]
  BY Zenon DEF SText!UserData, SText!PackSeptets
<1> HIDE DEF p, s
<1>3. /\ all \in Seq(0..1) /\ Len(all) = 7 * n
      /\ \A i \in 1..Len(s) : SText!Number(all, 7 * ((Lead(udh) + i) - 1), 7) = s[i]
      /\ \A i \in 1..Len(udh) : SText!Number(all, 8 * (i - 1), 8) = udh[i]
  <2>1. Len(udh) = 0 \/ Len(udh) = 6
    OBVIOUS
  <2> HIDE DEF all
  <2> QED BY <1>1, <2>1, Packed, Zenon DEF all
<1> HIDE DEF all
<1>4. /\ octets \in Seq(0..255) /\ Len(octets) = (7 * n + 7) \div 8
      /\ \A i \in 1..Len(octets) : octets[i] = SText!Number(all, 8 * (i - 1), 8)
  BY <1>3, OctetsBack
<1> HIDE DEF octets
<1>5. Lead(udh) \in Nat /\ n \in Nat /\ p.udl = n /\ (Len(udh) = 6 => Lead(udh) = 7) /\ (Len(udh) = 0 => Lead(udh) = 0)
  <2>1. CASE Len(udh) = 0
    <3>1. Lead(udh) = 0 /\ (Len(udh) * 8 + 6) \div 7 = 0
      BY <2>1 DEF Lead
    <3> QED BY <1>1, <1>2, <2>1, <3>1
  <2>2. CASE Len(udh) = 6
    <3>1. Lead(udh) = 7 /\ (Len(udh) * 8 + 6) \div 7 = 7
      BY <2>2 DEF Lead
    <3> QED BY <1>1, <1>2, <2>2, <3>1
  <2> QED BY <2>1, <2>2
<1>6. p.enc = "7bit" /\ p.data = octets /\ p.udhi = headed
  <2> HIDE DEF headed
  <2> QED BY <1>2
<1>18. (udh # <<>> => headed = TRUE) /\ (udh = <<>> => headed = FALSE)
  OBVIOUS
<1> HIDE DEF headed
<1> HIDE DEF n
<1>7. SText!UnpackSeptets(octets, n) = [i \in 1..n |-> SText!Number(all, 7 * (i - 1), 7)]
  BY <1>3, <1>5, Unpacked DEF octets
<1>8. SubSeq(octets, 1, IF (p.udl * 7 + 7) \div 8 < Len(octets) THEN (p.udl * 7 + 7) \div 8 ELSE Len(octets)) = octets
  <2>1. (IF (p.udl * 7 + 7) \div 8 < Len(octets) THEN (p.udl * 7 + 7) \div 8 ELSE Len(octets)) = Len(octets)
    <3>1. (n * 7 + 7) \div 8 = (7 * n + 7) \div 8 /\ ~((7 * n + 7) \div 8 < (7 * n + 7) \div 8)
      BY <1>5
    <3> QED BY <1>4, <1>5, <3>1, Zenon
  <2>2. SubSeq(octets, 1, Len(octets)) = octets
    BY <1>4
  <2> QED BY <2>1, <2>2, Zenon
<1> DEFINE skipped == IF udh # <<>> THEN ((octets[1] + 1) * 8 + 6) \div 7 ELSE 0
           septets == SText!UnpackSeptets(octets, n)
<1>9. SText!Decode(p) = [partial |-> IF udh # <<>> THEN SText!Partial(octets) ELSE SText!WholeMessage,
                   content |-> SText!Text(SubSeq(septets, skipped + 1, Len(septets)))]
  <2> DEFINE ud == SubSeq(p.data, 1, IF (p.udl * 7 + 7) \div 8 < Len(p.data) THEN (p.udl * 7 + 7) \div 8 ELSE Len(p.data))
             read == SText!UnpackSeptets(ud, p.udl)
  <2>1. p.enc # "UCS2"
    BY <1>6
  <2>2. SText!Decode(p) = [partial |-> IF p.udhi THEN SText!Partial(ud) ELSE SText!WholeMessage,
                     content |-> SText!Text(SubSeq(read, (IF p.udhi THEN ((ud[1] + 1) * 8 + 6) \div 7 ELSE 0) + 1, Len(read)))]
    BY <2>1, Zenon DEF SText!Decode
  <2>3. ud = octets
    BY <1>6, <1>8
  <2>4. p.udl = n
    BY <1>5
  <2> HIDE DEF ud
  <2>5. read = septets
    BY <2>3, <2>4
  <2> HIDE DEF read, septets
  <2>6. CASE udh # <<>>
    <3>1. p.udhi = TRUE
      BY <1>6, <1>18, <2>6, Zenon
    <3> QED BY <2>2, <2>3, <2>5, <2>6, <3>1
  <2>7. CASE udh = <<>>
    <3>1. p.udhi = FALSE
      BY <1>6, <1>18, <2>7, Zenon
    <3> QED BY <2>2, <2>3, <2>5, <2>7, <3>1
  <2> QED BY <2>6, <2>7
<1>10. \A k \in 1..Len(udh) : k <= 6 => octets[k] = udh[k]
  <2>1. ASSUME NEW k \in 1..Len(udh) PROVE octets[k] = udh[k]
    <3>1. Len(udh) = 6 /\ Lead(udh) = 7 /\ n >= 7
      BY <1>1, <1>5 DEF n
    <3>2. k \in 1..Len(octets)
      BY <1>4, <1>5, <3>1
    <3> QED BY <1>3, <1>4, <3>2
  <2> QED BY <2>1
<1>11. skipped = Lead(udh)
  <2>1. CASE udh = <<>>
    BY <1>5, <2>1
  <2>2. CASE udh # <<>>
    <3>1. Len(udh) = 6 /\ udh[1] = 5
      BY <2>2, EmptySeq
    <3>2. octets[1] = 5
      BY <1>10, <3>1
    <3> QED BY <1>5, <2>2, <3>1, <3>2
  <2> QED BY <2>1, <2>2
<1> HIDE DEF skipped
<1>12. SubSeq(septets, Lead(udh) + 1, Len(septets)) = s
  <2> DEFINE X == {SText!Number(all, 7 * (i - 1), 7) : i \in 1..n}
             Y == X \union (0..127)
             a == Lead(udh)
             cut == SubSeq(septets, a + 1, n)
  <2>1. septets \in [1..n -> X] /\ \A i \in 1..n : septets[i] = SText!Number(all, 7 * (i - 1), 7)
    BY <1>7
  <2>2. X \subseteq Y /\ 0..127 \subseteq Y
    OBVIOUS
  <2> HIDE DEF X, Y, septets
  <2>3. septets \in Seq(X) /\ Len(septets) = n
    BY <1>5, <2>1, MadeSeq
  <2>4. a \in Nat /\ n = a + Len(s) /\ a <= n
    BY <1>1, <1>5 DEF n
  <2> HIDE DEF a
  <2>5. /\ cut \in Seq(X) /\ Len(cut) = n - a
        /\ \A k \in 1..(n - a) : cut[k] = septets[a + k]
    <3>1. n <= Len(septets) /\ n \in Nat /\ n <= n
      BY <1>5, <2>3
    <3> QED BY <2>3, <2>4, <3>1, CutTwo
  <2> HIDE DEF cut
  <2>6. \A k \in 1..Len(s) : a + k \in 1..n
    BY <1>1, <2>4
  <2>7. \A k \in 1..Len(s) : septets[a + k] = s[k]
    <3>1. \A k \in 1..Len(s) : septets[a + k] = SText!Number(all, 7 * ((a + k) - 1), 7)
      BY <2>1, <2>6
    <3> QED BY <1>3, <3>1, Zenon DEF a
  <2>8. n - a = Len(s)
    BY <1>1, <2>4
  <2>9. cut \in Seq(Y) /\ s \in Seq(Y)
    BY <1>1, <2>2, <2>5, SeqMonotonic
  <2>10. Len(cut) = Len(s) /\ \A k \in 1..Len(cut) : cut[k] = s[k]
    BY <2>5, <2>7, <2>8
  <2>11. cut = s
    BY <2>9, <2>10, SeqEqual
  <2> QED BY <2>3, <2>11 DEF cut, a
<1> HIDE DEF septets
<1>13. udh # <<>> => SText!Partial(octets) = SText!Partial(udh)
  <2>1. ASSUME udh # <<>> PROVE SText!Partial(octets) = SText!Partial(udh)
    <3>1. Len(udh) = 6
      BY <2>1, EmptySeq
    <3>2. /\ octets[1] = udh[1] /\ octets[2] = udh[2] /\ octets[3] = udh[3]
          /\ octets[5] = udh[5] /\ octets[6] = udh[6]
      BY <1>10, <3>1
    <3> QED BY <3>2, Zenon DEF SText!Partial
  <2> QED BY <2>1
<1>14. SText!Decode(p).content = m /\ SText!Decode(p).partial = IF udh # <<>> THEN SText!Partial(octets) ELSE SText!WholeMessage
  <2> DEFINE x == IF udh # <<>> THEN SText!Partial(octets) ELSE SText!WholeMessage
             y == SText!Text(SubSeq(septets, skipped + 1, Len(septets)))
  <2>1. SText!Decode(p) = [partial |-> x, content |-> y]
    BY <1>9
  <2>2. y = m
    BY <1>1, <1>11, <1>12, Zenon
  <2> HIDE DEF x, y
  <2>3. SText!Decode(p).content = y /\ SText!Decode(p).partial = x
    BY <2>1
  <2> QED BY <2>2, <2>3 DEF x
<1>15. n = Lead(udh) + SText!TotalSeptets(m)
  BY <1>1 DEF n
<1>16. udh = <<>> => SText!Decode(p).partial = SText!WholeMessage
  BY <1>14
<1>17. udh # <<>> => SText!Decode(p).partial = SText!Partial(udh)
  BY <1>13, <1>14
<1>19. SText!Decode(p).content = m
  BY <1>14
<1>20. Len(p.data) = (7 * (Lead(udh) + SText!TotalSeptets(m)) + 7) \div 8 /\ p.udl = Lead(udh) + SText!TotalSeptets(m)
  BY <1>4, <1>5, <1>6, <1>15
<1>21. IsRead(p, m, udh)
  BY <1>16, <1>17, <1>19, <1>20, Zenon DEF IsRead
<1> QED BY <1>21 DEF p

\* What is at the end of a beginning.
LEMMA CutLast ==
  ASSUME NEW S, NEW m \in Seq(S), NEW n \in 1..Len(m)
  PROVE  SubSeq(m, 1, n) = SubSeq(m, 1, n - 1) \o <<m[n]>>
<1>1. Len(m) \in Nat /\ n - 1 \in Nat /\ 0 \in Nat /\ 0 <= n - 1 /\ n - 1 <= n /\ n <= Len(m) /\ n \in Nat /\ (n - 1) + 1 = n /\ 0 + 1 = 1
  BY LenProperties
<1>2. SubSeq(m, 0 + 1, n) = SubSeq(m, 0 + 1, n - 1) \o SubSeq(m, (n - 1) + 1, n)
  BY <1>1, CutTwo
<1>3. SubSeq(m, n, n) = <<m[n]>>
  BY OneOf
<1> QED BY <1>1, <1>2, <1>3, Zenon

\* How many septets a longer text takes.
LEMMA TotalGrows ==
  ASSUME NEW m \in Seq(Plains), NEW c \in Plains
  PROVE  /\ SText!TotalSeptets(m) \in Nat
         /\ SText!TotalSeptets(Append(m, c)) = SText!TotalSeptets(m) + (IF SText!IsExt(c) THEN 2 ELSE 1)
<1> DEFINE E(s) == {i \in DOMAIN s : SText!IsExt(s[i])}
           l == Append(m, c)
           n == Len(m) + 1
<1>1. Len(m) \in Nat /\ DOMAIN m = 1..Len(m) /\ n \in Nat /\ n \notin 1..Len(m)
  BY LenProperties
<1>2. Len(l) = n /\ DOMAIN l = 1..n /\ l[n] = c /\ \A i \in 1..Len(m) : l[i] = m[i]
  <2>1. /\ l \in Seq(Plains) /\ Len(l) = Len(m) + 1 /\ l[Len(m) + 1] = c
        /\ \A i \in 1..Len(m) : l[i] = m[i]
    BY AppendProperties
  <2> HIDE DEF l
  <2> QED BY <2>1, LenProperties
<1>3. \A s : SText!TotalSeptets(s) = Len(s) + Cardinality(E(s))
  BY Totals, Zenon
<1>4. IsFiniteSet(E(m)) /\ Cardinality(E(m)) \in Nat /\ n \notin E(m)
  <2>1. IsFiniteSet(1..Len(m))
    BY <1>1, FS_Interval
  <2>2. E(m) \subseteq 1..Len(m)
    BY <1>1
  <2> HIDE DEF E, n
  <2> QED BY <1>1, <2>1, <2>2, FS_Subset, FS_CardinalityType, Zenon
<1> HIDE DEF l
<1>5. ASSUME SText!IsExt(c) PROVE SText!TotalSeptets(l) = SText!TotalSeptets(m) + 2
  <2>1. E(l) = E(m) \union {n}
    <3>1. 1..n = 1..Len(m) \union {n}
      BY <1>1
    <3>2. \A i \in 1..Len(m) : SText!IsExt(l[i]) <=> SText!IsExt(m[i])
      BY <1>2, Zenon
    <3>3. SText!IsExt(l[n])
      BY <1>2, <1>5, Zenon
    <3> HIDE DEF n
    <3> QED BY <1>1, <1>2, <3>1, <3>2, <3>3
  <2> HIDE DEF E, n
  <2>2. Cardinality(E(l)) = Cardinality(E(m)) + 1
    BY <1>4, <2>1, FS_AddElement, Zenon
  <2>3. SText!TotalSeptets(l) = (Len(m) + 1) + (Cardinality(E(m)) + 1)
    BY <1>2, <1>3, <2>2, Zenon DEF n
  <2>4. SText!TotalSeptets(m) = Len(m) + Cardinality(E(m))
    BY <1>3, Zenon
  <2>5. SText!TotalSeptets(l) = SText!TotalSeptets(m) + 2
    BY <1>1, <1>4, <2>3, <2>4
  <2> QED BY <2>5
<1>6. ASSUME ~SText!IsExt(c) PROVE SText!TotalSeptets(l) = SText!TotalSeptets(m) + 1
  <2>1. E(l) = E(m)
    <3>1. 1..n = 1..Len(m) \union {n}
      BY <1>1
    <3>2. \A i \in 1..Len(m) : SText!IsExt(l[i]) <=> SText!IsExt(m[i])
      BY <1>2, Zenon
    <3>3. ~SText!IsExt(l[n])
      BY <1>2, <1>6, Zenon
    <3> HIDE DEF n
    <3> QED BY <1>1, <1>2, <3>1, <3>2, <3>3
  <2> HIDE DEF E, n
  <2>3. SText!TotalSeptets(l) = (Len(m) + 1) + (Cardinality(E(m)))
    BY <1>2, <1>3, <2>1, Zenon DEF n
  <2>4. SText!TotalSeptets(m) = Len(m) + Cardinality(E(m))
    BY <1>3, Zenon
  <2>5. SText!TotalSeptets(l) = SText!TotalSeptets(m) + 1
    BY <1>1, <1>4, <2>3, <2>4
  <2> QED BY <2>5
<1>7. SText!TotalSeptets(m) \in Nat
  <2>1. SText!TotalSeptets(m) = Len(m) + Cardinality(E(m))
    BY <1>3, Zenon
  <2> HIDE DEF E
  <2> QED BY <1>1, <1>4, <2>1
<1> QED BY <1>5, <1>6, <1>7, Zenon DEF l

\* A part has room for two septets beside its header.
LEMMA GsmRoom == ASSUME SText!TextBounds PROVE SText!GsmMaxUdh \in Nat /\ SText!GsmMaxUdh >= 2
<1> DEFINE o == Size.text.octets
<1>1. o \in Nat /\ o >= 10
  BY DEF SText!TextBounds
<1>2. SText!GsmMaxUdh = (o * 8 - 49) \div 7
  BY Zenon DEF SText!GsmMaxUdh
<1> HIDE DEF o
<1> QED BY <1>1, <1>2

\* No text takes no septets.
LEMMA NoSeptets == SText!TotalSeptets(<<>>) = 0
<1>1. {i \in DOMAIN <<>> : SText!IsExt(<<>>[i])} = {} /\ Len(<<>>) = 0
  OBVIOUS
<1>2. Cardinality({}) = 0
  BY FS_EmptySet
<1>3. SText!TotalSeptets(<<>>) = Len(<<>>) + Cardinality({i \in DOMAIN <<>> : SText!IsExt(<<>>[i])})
  BY Totals, Zenon
<1> QED BY <1>1, <1>2, <1>3

\* A part of 7-bit text that has room for its header.
GoodSeptets == {c \in Seq(Plains) : c # <<>> /\ SText!TotalSeptets(c) <= SText!GsmMaxUdh}

\* What is so after n characters.
CutSoFar(acc, m, n) ==
    /\ acc.done \in Seq(GoodSeptets) /\ acc.tmp \in Seq(Plains) /\ acc.s = SText!TotalSeptets(acc.tmp)
    /\ acc.s <= SText!GsmMaxUdh
    /\ SText!FlattenSeq(acc.done) \o acc.tmp = SubSeq(m, 1, n)

\* One character more.
LEMMA CutOn ==
  ASSUME SText!TextBounds, NEW m \in Seq(Plains), NEW n \in 1..Len(m), NEW acc, CutSoFar(acc, m, n - 1),
         NEW next,
         LET of == IF SText!IsExt(m[n]) THEN 2 ELSE 1
         IN  IF acc.s + of > SText!GsmMaxUdh /\ acc.tmp # <<>>
             THEN next = [done |-> Append(acc.done, acc.tmp), tmp |-> <<m[n]>>, s |-> of]
             ELSE next.done = acc.done /\ next.tmp = Append(acc.tmp, m[n]) /\ next.s = acc.s + of
  PROVE  CutSoFar(next, m, n)
<1> DEFINE of == IF SText!IsExt(m[n]) THEN 2 ELSE 1
           c == m[n]
<1>1. c \in Plains
  BY ElementOfSeq
<1>2. SText!GsmMaxUdh \in Nat /\ SText!GsmMaxUdh >= 2
  BY GsmRoom
<1>3. /\ acc.done \in Seq(GoodSeptets) /\ acc.tmp \in Seq(Plains) /\ acc.s = SText!TotalSeptets(acc.tmp)
      /\ acc.s <= SText!GsmMaxUdh /\ SText!FlattenSeq(acc.done) \o acc.tmp = SubSeq(m, 1, n - 1) /\ acc.s \in Nat
  <2>1. acc.tmp \in Seq(Plains) /\ acc.s = SText!TotalSeptets(acc.tmp)
    BY Zenon DEF CutSoFar
  <2>2. acc.s \in Nat
    BY <1>1, <2>1, TotalGrows
  <2> QED BY <2>2, Zenon DEF CutSoFar
<1>4. SubSeq(m, 1, n) = SubSeq(m, 1, n - 1) \o <<c>>
  BY CutLast
<1>5. /\ <<c>> \in Seq(Plains) /\ Append(acc.tmp, c) \in Seq(Plains) /\ Append(acc.tmp, c) = acc.tmp \o <<c>>
  <2>1. \A x \in Seq(Plains) : Append(x, c) \in Seq(Plains) /\ Append(x, c) = x \o <<c>>
    BY <1>1
  <2>2. <<c>> \in Seq(Plains)
    BY <1>1
  <2> QED BY <1>3, <2>1, <2>2, Zenon
<1>6. acc.done \in Seq(Seq(Plains))
  <2>1. GoodSeptets \subseteq Seq(Plains)
    BY DEF GoodSeptets
  <2> QED BY <1>3, <2>1, SeqMonotonic
<1>7. SText!FlattenSeq(acc.done) \in Seq(Plains) /\ SText!FlattenSeq(Append(acc.done, acc.tmp)) = SText!FlattenSeq(acc.done) \o acc.tmp
  BY <1>3, <1>6, FlatAppend
<1>8. of \in {1, 2} /\ SText!TotalSeptets(<<c>>) = of /\ SText!TotalSeptets(Append(acc.tmp, c)) = acc.s + of
  <2>1. SText!TotalSeptets(Append(acc.tmp, c)) = acc.s + of
    BY <1>1, <1>3, TotalGrows
  <2>2. <<>> \in Seq(Plains) /\ Append(<<>>, c) = <<c>>
    BY <1>1
  <2>3. SText!TotalSeptets(<<>>) = 0
    BY NoSeptets
  <2>4. SText!TotalSeptets(Append(<<>>, c)) = SText!TotalSeptets(<<>>) + of
    BY <1>1, <2>2, TotalGrows
  <2> QED BY <2>1, <2>2, <2>3, <2>4
<1> HIDE DEF of
<1>9. CASE acc.s + of > SText!GsmMaxUdh /\ acc.tmp # <<>>
  <2>1. next = [done |-> Append(acc.done, acc.tmp), tmp |-> <<c>>, s |-> of]
    BY <1>9 DEF of
  <2>2. next.done = Append(acc.done, acc.tmp) /\ next.tmp = <<c>> /\ next.s = of
    BY <2>1
  <2>3. acc.tmp \in GoodSeptets
    BY <1>3, <1>9 DEF GoodSeptets
  <2>4. Append(acc.done, acc.tmp) \in Seq(GoodSeptets)
    BY <1>3, <2>3, AppendProperties
  <2>5. SText!FlattenSeq(next.done) \o next.tmp = SubSeq(m, 1, n)
    BY <1>3, <1>4, <1>7, <2>2
  <2>6. of <= SText!GsmMaxUdh
    BY <1>2, <1>8
  <2> QED BY <1>5, <1>8, <2>2, <2>4, <2>5, <2>6 DEF CutSoFar
<1>10. CASE ~(acc.s + of > SText!GsmMaxUdh /\ acc.tmp # <<>>)
  <2>1. next.done = acc.done /\ next.tmp = Append(acc.tmp, c) /\ next.s = acc.s + of
    BY <1>10 DEF of
  <2>2. acc.s + of <= SText!GsmMaxUdh
    <3>1. CASE acc.tmp = <<>>
      <4>1. SText!TotalSeptets(<<>>) = 0
        BY NoSeptets
      <4> QED BY <1>2, <1>3, <1>8, <3>1, <4>1
    <3>2. CASE acc.tmp # <<>>
      BY <1>2, <1>3, <1>8, <1>10, <3>2
    <3> QED BY <3>1, <3>2
  <2>3. SText!FlattenSeq(acc.done) \o (acc.tmp \o <<c>>) = (SText!FlattenSeq(acc.done) \o acc.tmp) \o <<c>>
    <3>1. \A x, y, z \in Seq(Plains) : x \o (y \o z) = (x \o y) \o z
      OBVIOUS
    <3> QED BY <1>3, <1>5, <1>7, <3>1, Zenon
  <2>4. SText!FlattenSeq(next.done) \o next.tmp = SubSeq(m, 1, n)
    BY <1>3, <1>4, <1>5, <2>1, <2>3, Zenon
  <2> QED BY <1>3, <1>5, <1>8, <2>1, <2>2, <2>4 DEF CutSoFar
<1> QED BY <1>9, <1>10

\* The parts of a 7-bit text have room for their header, and are the text together.
LEMMA GsmCut ==
  ASSUME SText!TextBounds, NEW m \in Seq(Plains)
  PROVE  SText!Gsm7Chunks(m) \in Seq(GoodSeptets) /\ SText!FlattenSeq(SText!Gsm7Chunks(m)) = m
<1> DEFINE size == Len(m)
           V == [done : Seq(Seq(Plains)), tmp : Seq(Plains), s : Nat]
           base == [done |-> <<>>, tmp |-> <<>>, s |-> 0]
           Of(n) == IF SText!IsExt(m[n]) THEN 2 ELSE 1
           After(acc, n) ==
               IF acc.s + Of(n) > SText!GsmMaxUdh /\ acc.tmp # <<>>
               THEN [done |-> Append(acc.done, acc.tmp), tmp |-> <<m[n]>>, s |-> Of(n)]
               ELSE [acc EXCEPT !.tmp = Append(@, m[n]), !.s = @ + Of(n)]
           step == [n \in 1..size |-> [acc \in V |-> After(acc, n)]]
           Value(g, n) == IF n = 0 THEN base ELSE After(g[n - 1], n)
           Def(g) == g = [n \in 0..size |-> Value(g, n)]
<1>1. size \in Nat
  BY LenProperties, Zenon
<1>2. base \in V
  OBVIOUS
<1>3. ASSUME NEW n \in 1..size, NEW acc \in V
      PROVE  /\ After(acc, n) \in V
             /\ IF acc.s + Of(n) > SText!GsmMaxUdh /\ acc.tmp # <<>>
                THEN After(acc, n) = [done |-> Append(acc.done, acc.tmp), tmp |-> <<m[n]>>, s |-> Of(n)]
                ELSE /\ After(acc, n).done = acc.done /\ After(acc, n).tmp = Append(acc.tmp, m[n])
                     /\ After(acc, n).s = acc.s + Of(n)
  <2>1. m[n] \in Plains /\ Of(n) \in Nat
    OBVIOUS
  <2> HIDE DEF Of
  <2>2. /\ acc.done \in Seq(Seq(Plains)) /\ acc.tmp \in Seq(Plains) /\ acc.s \in Nat
        /\ acc = [done |-> acc.done, tmp |-> acc.tmp, s |-> acc.s]
    OBVIOUS
  <2>3. /\ Append(acc.done, acc.tmp) \in Seq(Seq(Plains)) /\ <<m[n]>> \in Seq(Plains)
        /\ Append(acc.tmp, m[n]) \in Seq(Plains) /\ acc.s + Of(n) \in Nat
    BY <2>1, <2>2
  <2> DEFINE longer == [acc EXCEPT !.tmp = Append(@, m[n]), !.s = @ + Of(n)]
  <2>4. /\ longer \in V /\ longer.done = acc.done /\ longer.tmp = Append(acc.tmp, m[n])
        /\ longer.s = acc.s + Of(n)
    <3>1. \A a \in Seq(Plains), b \in Nat :
             LET x == [acc EXCEPT !.tmp = a, !.s = b]
             IN  x \in V /\ x.done = acc.done /\ x.tmp = a /\ x.s = b
      OBVIOUS
    <3> HIDE DEF V
    <3> QED BY <2>3, <3>1, Zenon
  <2>5. [done |-> Append(acc.done, acc.tmp), tmp |-> <<m[n]>>, s |-> Of(n)] \in V
    BY <2>1, <2>3
  <2> HIDE DEF V
  <2>6. CASE acc.s + Of(n) > SText!GsmMaxUdh /\ acc.tmp # <<>>
    <3>1. After(acc, n) = [done |-> Append(acc.done, acc.tmp), tmp |-> <<m[n]>>, s |-> Of(n)]
      BY <2>6, Zenon
    <3> HIDE DEF After
    <3> QED BY <2>5, <2>6, <3>1, Zenon
  <2>7. CASE ~(acc.s + Of(n) > SText!GsmMaxUdh /\ acc.tmp # <<>>)
    <3>1. After(acc, n) = longer
      BY <2>7, Zenon
    <3> HIDE DEF After, longer
    <3> QED BY <2>4, <2>7, <3>1, Zenon
  <2> QED BY <2>6, <2>7
<1> DEFINE Whole(end) == IF end.tmp = <<>> THEN end.done ELSE Append(end.done, end.tmp)
<1>4. SText!Gsm7Chunks(m) = Whole((CHOOSE g : Def(g))[size])
  BY DEF SText!Gsm7Chunks
<1> HIDE DEF V, base, After, size
<1>5. Steps(step, size, V)
  BY <1>3 DEF Steps
<1>6. \A n \in 1..size, acc \in V : step[n][acc] = After(acc, n)
  OBVIOUS
<1> HIDE DEF step
<1>7. PICK f : Iterates(f, base, step, size, V)
  BY <1>1, <1>2, <1>5, Recursion
<1>8. /\ f \in [0..size -> V] /\ f[0] = base
      /\ \A n \in 1..size : f[n] = step[n][f[n - 1]]
  BY <1>7 DEF Iterates
<1>9. \A n \in 1..size : f[n - 1] \in V /\ n \in 0..size /\ n # 0
  BY <1>1, <1>8
<1>10. Def(f)
  <2>1. ASSUME NEW n \in 0..size PROVE f[n] = Value(f, n)
    <3>1. CASE n = 0
      BY <1>8, <3>1
    <3>2. CASE n # 0
      <4>1. n \in 1..size
        BY <1>1, <3>2
      <4> QED BY <1>6, <1>8, <1>9, <3>2, <4>1
    <3> QED BY <3>1, <3>2
  <2> HIDE DEF Value
  <2> QED BY <1>8, <2>1
<1> HIDE DEF Def, Whole
<1>11. PICK g : Def(g) /\ SText!Gsm7Chunks(m) = Whole(g[size])
  BY <1>4, <1>10
<1>12. \A n \in 0..size : g[n] = Value(g, n)
  <2> HIDE DEF Value
  <2> QED BY <1>11 DEF Def
<1>13. g[0] = base /\ \A n \in 1..size : g[n] = After(g[n - 1], n)
  BY <1>1, <1>9, <1>12
<1> DEFINE A == {n \in 0..size : g[n] \in V /\ CutSoFar(g[n], m, n)}
<1>14. 0 \in A
  <2>1. CutSoFar(base, m, 0)
    <3>1. base.done = <<>> /\ base.tmp = <<>> /\ base.s = 0
      BY DEF base
    <3>2. <<>> \in Seq(GoodSeptets) /\ <<>> \in Seq(Plains) /\ <<>> \in Seq(Seq(Plains))
      OBVIOUS
    <3>3. SText!TotalSeptets(<<>>) = 0
      BY NoSeptets
    <3>4. SText!FlattenSeq(<<>>) = <<>>
      BY DEF SText!FlattenSeq
    <3>5. SubSeq(m, 1, 0) = <<>> /\ <<>> \o <<>> = <<>>
      OBVIOUS
    <3>6. 0 <= SText!GsmMaxUdh
      BY GsmRoom
    <3> QED BY <3>1, <3>2, <3>3, <3>4, <3>5, <3>6 DEF CutSoFar
  <2> QED BY <1>1, <1>2, <1>13, <2>1
<1>15. ASSUME NEW n \in 1..size, n - 1 \in A PROVE n \in A
  <2> DEFINE acc == g[n - 1]
             next == After(acc, n)
  <2>1. acc \in V /\ CutSoFar(acc, m, n - 1) /\ g[n] = next /\ n \in 0..size
    BY <1>9, <1>13, <1>15
  <2> HIDE DEF acc
  <2>2. /\ next \in V
        /\ IF acc.s + Of(n) > SText!GsmMaxUdh /\ acc.tmp # <<>>
           THEN next = [done |-> Append(acc.done, acc.tmp), tmp |-> <<m[n]>>, s |-> Of(n)]
           ELSE next.done = acc.done /\ next.tmp = Append(acc.tmp, m[n]) /\ next.s = acc.s + Of(n)
    <3> HIDE DEF Of
    <3> QED BY <1>3, <2>1
  <2> HIDE DEF next
  <2>3. CutSoFar(next, m, n)
    <3>1. n \in 1..Len(m)
      BY DEF size
    <3> QED BY <2>1, <2>2, <3>1, CutOn
  <2> QED BY <2>1, <2>2, <2>3
<1> HIDE DEF A
<1>16. \A n \in 0..size : n \in A
  BY <1>1, <1>14, <1>15, RangeInduction
<1>17. CutSoFar(g[size], m, size)
  <2>1. size \in A
    BY <1>1, <1>16
  <2> QED BY <2>1 DEF A
<1> DEFINE end == g[size]
<1>18. /\ end.done \in Seq(GoodSeptets) /\ end.tmp \in Seq(Plains) /\ end.s = SText!TotalSeptets(end.tmp)
       /\ end.s <= SText!GsmMaxUdh /\ SText!FlattenSeq(end.done) \o end.tmp = m
  <2>1. SubSeq(m, 1, size) = m
    BY DEF size
  <2> QED BY <1>17, <2>1, Zenon DEF CutSoFar
<1> HIDE DEF end
<1>19. end.done \in Seq(Seq(Plains))
  <2>1. GoodSeptets \subseteq Seq(Plains)
    BY DEF GoodSeptets
  <2> QED BY <1>18, <2>1, SeqMonotonic
<1>20. SText!FlattenSeq(end.done) \in Seq(Plains) /\ SText!FlattenSeq(Append(end.done, end.tmp)) = SText!FlattenSeq(end.done) \o end.tmp
  BY <1>18, <1>19, FlatAppend
<1>21. Whole(end) \in Seq(GoodSeptets) /\ SText!FlattenSeq(Whole(end)) = m
  <2>1. CASE end.tmp = <<>>
    <3>1. Whole(end) = end.done
      BY <2>1 DEF Whole
    <3>2. \A x \in Seq(Plains) : x \o <<>> = x
      OBVIOUS
    <3> QED BY <1>18, <1>20, <2>1, <3>1, <3>2
  <2>2. CASE end.tmp # <<>>
    <3>1. Whole(end) = Append(end.done, end.tmp)
      BY <2>2 DEF Whole
    <3>2. end.tmp \in GoodSeptets
      BY <1>18, <2>2 DEF GoodSeptets
    <3>3. Append(end.done, end.tmp) \in Seq(GoodSeptets)
      BY <1>18, <3>2, AppendProperties
    <3> QED BY <1>18, <1>20, <3>1, <3>3
  <2> QED BY <2>1, <2>2
<1> QED BY <1>11, <1>21 DEF end

\* What a text of UCS-2 is made of.
AnyUnit == SText!Chars \union {"high", "low"}

\* The halves of a pair are next to each other.
Paired(u) ==
    \A k \in 1..Len(u) :
        /\ u[k] = "high" => k < Len(u) /\ u[k + 1] = "low"
        /\ u[k] = "low" => k > 1 /\ u[k - 1] = "high"

\* Two such texts make another.
LEMMA PairedJoin ==
  ASSUME NEW a \in Seq(AnyUnit), NEW b \in Seq(AnyUnit), Paired(a), Paired(b)
  PROVE  Paired(a \o b)
<1> DEFINE w == a \o b
<1>1. /\ Len(a) \in Nat /\ Len(b) \in Nat /\ Len(w) = Len(a) + Len(b)
      /\ \A k \in 1..Len(a) : w[k] = a[k]
      /\ \A k \in 1..Len(b) : w[Len(a) + k] = b[k]
  BY Concat
<1> HIDE DEF w
<1>2. ASSUME NEW k \in 1..Len(w)
      PROVE  /\ w[k] = "high" => k < Len(w) /\ w[k + 1] = "low"
             /\ w[k] = "low" => k > 1 /\ w[k - 1] = "high"
  <2>1. CASE k \in 1..Len(a)
    <3>1. /\ a[k] = "high" => k < Len(a) /\ a[k + 1] = "low"
          /\ a[k] = "low" => k > 1 /\ a[k - 1] = "high"
      BY <2>1 DEF Paired
    <3>2. k < Len(a) => k + 1 \in 1..Len(a) /\ k < Len(w)
      BY <1>1, <2>1
    <3>3. k > 1 => k - 1 \in 1..Len(a)
      BY <1>1, <2>1
    <3> QED BY <1>1, <2>1, <3>1, <3>2, <3>3, Zenon
  <2>2. CASE k \notin 1..Len(a)
    <3> DEFINE j == k - Len(a)
    <3>1. j \in 1..Len(b) /\ Len(a) + j = k /\ Len(a) + (j + 1) = k + 1 /\ Len(a) + (j - 1) = k - 1
      BY <1>1, <2>2
    <3> HIDE DEF j
    <3>2. /\ b[j] = "high" => j < Len(b) /\ b[j + 1] = "low"
          /\ b[j] = "low" => j > 1 /\ b[j - 1] = "high"
      BY <3>1 DEF Paired
    <3>3. j < Len(b) => j + 1 \in 1..Len(b) /\ k < Len(w)
      BY <1>1, <3>1
    <3>4. j > 1 => j - 1 \in 1..Len(b) /\ k > 1
      BY <1>1, <3>1
    <3>5. w[k] = b[j] /\ (j < Len(b) => w[k + 1] = b[j + 1]) /\ (j > 1 => w[k - 1] = b[j - 1])
      BY <1>1, <3>1, <3>3, <3>4
    <3> QED BY <3>2, <3>3, <3>4, <3>5, Zenon
  <2> QED BY <2>1, <2>2
<1> QED BY <1>2 DEF Paired, w

\* The units of a character.
LEMMA UnitsOf ==
  ASSUME NEW c \in SText!Chars
  PROVE  SText!Units(c) \in Seq(AnyUnit) /\ SText!Units(c) # <<>> /\ Paired(SText!Units(c))
<1>1. CASE c = "emoji"
  <2> DEFINE u == <<"high", "low">>
  <2>1. u \in Seq(AnyUnit) /\ Len(u) = 2 /\ u[1] = "high" /\ u[2] = "low" /\ u # <<>>
    BY DEF AnyUnit
  <2>2. SText!Units(c) = u
    BY <1>1 DEF SText!Units
  <2> HIDE DEF u
  <2>3. ASSUME NEW k \in 1..Len(u)
        PROVE  /\ u[k] = "high" => k < Len(u) /\ u[k + 1] = "low"
               /\ u[k] = "low" => k > 1 /\ u[k - 1] = "high"
    <3>1. k = 1 \/ k = 2
      BY <2>1
    <3> QED BY <2>1, <3>1
  <2> QED BY <2>1, <2>2, <2>3 DEF Paired
<1>2. CASE c # "emoji"
  <2> DEFINE u == <<c>>
  <2>1. u \in Seq(AnyUnit) /\ Len(u) = 1 /\ u[1] = c /\ u # <<>>
    BY DEF AnyUnit
  <2>2. SText!Units(c) = u
    BY <1>2 DEF SText!Units
  <2>3. c # "high" /\ c # "low"
    BY DEF SText!Chars
  <2> HIDE DEF u
  <2>4. ASSUME NEW k \in 1..Len(u)
        PROVE  /\ u[k] = "high" => k < Len(u) /\ u[k + 1] = "low"
               /\ u[k] = "low" => k > 1 /\ u[k - 1] = "high"
    <3>1. k = 1
      BY <2>1
    <3> QED BY <2>1, <2>3, <3>1
  <2> QED BY <2>1, <2>2, <2>4 DEF Paired
<1> QED BY <1>1, <1>2

\* So are the units of a text.
LEMMA UnitsPaired ==
  ASSUME NEW m \in Seq(SText!Chars)
  PROVE  SText!AllUnits(m) \in Seq(AnyUnit) /\ Paired(SText!AllUnits(m)) /\ (m # <<>> => SText!AllUnits(m) # <<>>)
<1> DEFINE ss == [i \in 1..Len(m) |-> SText!Units(m[i])]
           n == Len(m)
<1>1. n \in Nat /\ DOMAIN m = 1..n /\ \A i \in 1..n : m[i] \in SText!Chars
  BY LenProperties, ElementOfSeq
<1>2. SText!AllUnits(m) = SText!FlattenSeq(ss)
  BY <1>1, Zenon DEF SText!AllUnits
<1>3. \A i \in 1..n : ss[i] = SText!Units(m[i])
  OBVIOUS
<1>4. \A i \in 1..n : ss[i] \in Seq(AnyUnit) /\ ss[i] # <<>> /\ Paired(ss[i])
  BY <1>1, <1>3, UnitsOf
<1>5. ss \in [1..n -> Seq(AnyUnit)]
  BY <1>4
<1> HIDE DEF ss, n
<1>6. ss \in Seq(Seq(AnyUnit)) /\ Len(ss) = n
  BY <1>1, <1>5, MadeSeq
<1>7. PICK F : Joins(F, ss, Seq(AnyUnit)) /\ SText!FlattenSeq(ss) = F[n]
  BY <1>6, FlatJoins
<1>8. /\ F[0] = <<>> /\ (\A i \in 0..n : F[i] \in Seq(AnyUnit)) /\ \A i \in 1..n : F[i] = F[i - 1] \o ss[i]
  BY <1>6, <1>7, Zenon DEF Joins
<1> DEFINE A == {i \in 0..n : Paired(F[i]) /\ (i # 0 => F[i] # <<>>)}
<1>9. 0 \in A
  <2>1. Paired(<<>>)
    BY DEF Paired
  <2> QED BY <1>1, <1>8, <2>1
<1>10. ASSUME NEW i \in 1..n, i - 1 \in A PROVE i \in A
  <2>1. i \in 0..n /\ i - 1 \in 0..n
    BY <1>1
  <2>2. Paired(F[i - 1]) /\ F[i - 1] \in Seq(AnyUnit) /\ F[i] = F[i - 1] \o ss[i]
    BY <1>8, <1>10, <2>1
  <2>3. Paired(F[i])
    BY <1>4, <2>2, PairedJoin
  <2>4. F[i] # <<>>
    <3>1. \A x, y \in Seq(AnyUnit) : y # <<>> => x \o y # <<>>
      OBVIOUS
    <3> QED BY <1>4, <2>2, <3>1
  <2> QED BY <2>1, <2>3, <2>4
<1> HIDE DEF A
<1>11. \A i \in 0..n : i \in A
  BY <1>1, <1>9, <1>10, RangeInduction
<1>12. Paired(F[n]) /\ F[n] \in Seq(AnyUnit) /\ (n # 0 => F[n] # <<>>)
  <2>1. n \in A /\ n \in 0..n
    BY <1>1, <1>11
  <2> QED BY <1>8, <2>1 DEF A
<1>13. m # <<>> => n # 0
  BY EmptySeq DEF n
<1> QED BY <1>2, <1>7, <1>12, <1>13

\* A part of UCS-2 text that has room for its header and cuts no pair.
GoodUnits == {c \in Seq(AnyUnit) : c # <<>> /\ Len(c) <= SText!UcsMaxUdh /\ c[1] # "low" /\ c[Len(c)] # "high"}

\* What a text without a cut pair begins and ends with.
LEMMA PairedEnds ==
  ASSUME NEW u \in Seq(AnyUnit), Paired(u), u # <<>>
  PROVE  u[1] # "low" /\ u[Len(u)] # "high"
<1>1. Len(u) \in Nat /\ Len(u) # 0
  BY EmptySeq
<1>2. 1 \in 1..Len(u) /\ Len(u) \in 1..Len(u) /\ ~(1 > 1) /\ ~(Len(u) < Len(u))
  BY <1>1
<1> QED BY <1>2, Zenon DEF Paired

\* Where a part ends.
LEMMA CutIs ==
  ASSUME SText!TextBounds, NEW u \in Seq(AnyUnit), Paired(u), NEW i \in 0..(Len(u) - 1), NEW full,
         full = IF i + SText!UcsMaxUdh < Len(u) THEN i + SText!UcsMaxUdh ELSE Len(u)
  PROVE  /\ SText!CutBefore(u, full) \in (i + 1)..Len(u) /\ SText!CutBefore(u, full) <= i + SText!UcsMaxUdh
         /\ u[SText!CutBefore(u, full)] # "high"
         /\ SText!CutBefore(u, full) < Len(u) => u[SText!CutBefore(u, full) + 1] # "low"
<1> DEFINE e == SText!CutBefore(u, full)
           size == Len(u)
           max == SText!UcsMaxUdh
<1>1. size \in Nat /\ max \in Nat /\ max >= 2
  <2>1. \A n \in Nat : n >= 10 => (n - 6) \div 2 \in Nat /\ (n - 6) \div 2 >= 2
    OBVIOUS
  <2>2. max \in Nat /\ max >= 2
    BY <2>1 DEF SText!TextBounds, SText!UcsMaxUdh
  <2> QED BY <2>2, LenProperties
<1>2. i \in 0..(size - 1)
  OBVIOUS
<1>3. full = IF i + max < size THEN i + max ELSE size
  OBVIOUS
<1> HIDE DEF size, max
<1>4. full \in (i + 1)..size /\ full <= i + max /\ (full < size => full >= i + 2)
  BY <1>1, <1>2, <1>3
<1>5. \/ e = full - 1 /\ full < size /\ u[full] = "high"
      \/ e = full /\ ~(full < size /\ u[full] = "high" /\ u[full + 1] = "low")
  BY DEF SText!CutBefore, size
<1> HIDE DEF e
<1>6. e \in (i + 1)..size /\ e <= i + max /\ e \in Nat /\ i \in Nat
  BY <1>1, <1>2, <1>4, <1>5
<1>7. \A k \in 1..size : /\ u[k] = "high" => k < size /\ u[k + 1] = "low"
                         /\ u[k] = "low" => k > 1 /\ u[k - 1] = "high"
  BY DEF Paired, size
<1>8. e \in 1..size /\ full \in 1..size
  BY <1>1, <1>2, <1>4, <1>6
<1>9. u[e] # "high"
  <2>1. CASE e = full - 1 /\ u[full] = "high"
    <3>1. e + 1 = full
      BY <1>6, <1>8, <2>1
    <3> QED BY <1>7, <1>8, <2>1, <3>1
  <2>2. CASE e = full /\ ~(full < size /\ u[full] = "high" /\ u[full + 1] = "low")
    BY <1>7, <1>8, <2>2, Zenon
  <2> QED BY <1>5, <2>1, <2>2
<1>10. e < size => u[e + 1] # "low"
  <2>1. ASSUME e < size PROVE e + 1 \in 1..size /\ (e + 1) - 1 = e
    BY <1>1, <1>8, <2>1
  <2> QED BY <1>7, <1>9, <2>1, Zenon
<1> QED BY <1>6, <1>9, <1>10 DEF e, size, max

\* The parts of a UCS-2 text have room for their header, cut no pair, and are the text together.
LEMMA UcsCut ==
  ASSUME SText!TextBounds, NEW units \in Seq(AnyUnit), Paired(units)
  PROVE  SText!Ucs2Chunks(units) \in Seq(GoodUnits) /\ SText!FlattenSeq(SText!Ucs2Chunks(units)) = units
<1> DEFINE size == Len(units)
           Full(start) == IF start + SText!UcsMaxUdh < size THEN start + SText!UcsMaxUdh ELSE size
           jump == [i \in 0..(size - 1) |-> SText!CutBefore(units, Full(i))]
           piece == [i \in 0..(size - 1) |-> SubSeq(units, i + 1, SText!CutBefore(units, Full(i)))]
           Value(g, i) == IF i = size THEN <<>>
                          ELSE <<SubSeq(units, i + 1, SText!CutBefore(units, Full(i)))>>
                                 \o g[SText!CutBefore(units, Full(i))]
           Def(g) == g = [i \in 0..size |-> Value(g, i)]
<1>1. size \in Nat
  BY LenProperties, Zenon
<1>2. SText!Ucs2Chunks(units) = (CHOOSE g : Def(g))[0]
  BY Zenon DEF SText!Ucs2Chunks
<1>3. \A i \in 0..(size - 1) : jump[i] = SText!CutBefore(units, Full(i)) /\ piece[i] = SubSeq(units, i + 1, SText!CutBefore(units, Full(i)))
  OBVIOUS
<1>4. ASSUME NEW i \in 0..(size - 1)
      PROVE  /\ jump[i] \in (i + 1)..size /\ jump[i] <= i + SText!UcsMaxUdh /\ units[jump[i]] # "high"
             /\ jump[i] < size => units[jump[i] + 1] # "low"
             /\ piece[i] = SubSeq(units, i + 1, jump[i])
  <2> DEFINE full == Full(i)
  <2>1. full = IF i + SText!UcsMaxUdh < Len(units) THEN i + SText!UcsMaxUdh ELSE Len(units)
    OBVIOUS
  <2>2. jump[i] = SText!CutBefore(units, full) /\ piece[i] = SubSeq(units, i + 1, SText!CutBefore(units, full))
    BY <1>3
  <2>3. i \in 0..(Len(units) - 1)
    OBVIOUS
  <2> HIDE DEF full, jump, piece
  <2>4. /\ SText!CutBefore(units, full) \in (i + 1)..Len(units) /\ SText!CutBefore(units, full) <= i + SText!UcsMaxUdh
        /\ units[SText!CutBefore(units, full)] # "high"
        /\ SText!CutBefore(units, full) < Len(units) => units[SText!CutBefore(units, full) + 1] # "low"
    BY <2>1, <2>3, CutIs
  <2> QED BY <2>2, <2>4
<1> HIDE DEF size, jump, piece
<1>5. \A i \in 0..(size - 1) : piece[i] \in Seq(AnyUnit) /\ jump[i] \in (i + 1)..size
  <2>1. ASSUME NEW i \in 0..(size - 1) PROVE piece[i] \in Seq(AnyUnit)
    <3> DEFINE e == jump[i]
    <3>1. piece[i] = SubSeq(units, i + 1, e) /\ e \in (i + 1)..size
      BY <1>4
    <3> HIDE DEF e
    <3>2. i \in Nat /\ e \in Nat /\ i <= e /\ e <= e /\ e <= Len(units)
      BY <1>1, <3>1 DEF size
    <3>3. SubSeq(units, i + 1, e) \in Seq(AnyUnit)
      BY <3>2, CutTwo
    <3> QED BY <3>1, <3>3
  <2> QED BY <1>4, <2>1
<1>6. PICK f : Leads(f, 0, size, piece, jump, Seq(AnyUnit))
  BY <1>1, <1>5, JumpsLead
<1>7. f[size] = <<>> /\ \A i \in 0..(size - 1) : f[i] = <<piece[i]>> \o f[jump[i]]
  BY <1>1, <1>6 DEF Leads
<1>8. \E g : Def(g)
  <2> DEFINE g == [i \in 0..size |-> f[i]]
  <2>1. ASSUME NEW i \in 0..size PROVE g[i] = Value(g, i)
    <3>1. CASE i = size
      BY <1>7, <3>1
    <3>2. CASE i # size
      <4>1. i \in 0..(size - 1)
        BY <1>1, <3>2
      <4>2. jump[i] \in 0..size
        BY <1>1, <1>4, <4>1
      <4>3. g[i] = f[i] /\ g[jump[i]] = f[jump[i]]
        BY <4>2
      <4> HIDE DEF g, Full
      <4> QED BY <1>3, <1>7, <3>2, <4>1, <4>3, Zenon
    <3> QED BY <3>1, <3>2
  <2>2. g = [i \in 0..size |-> g[i]]
    OBVIOUS
  <2> HIDE DEF g, Value
  <2> QED BY <2>1, <2>2
<1> HIDE DEF Def
<1>9. PICK g : Def(g) /\ SText!Ucs2Chunks(units) = g[0]
  BY <1>2, <1>8
<1>10. \A i \in 0..size : g[i] = Value(g, i)
  <2> HIDE DEF Value
  <2> QED BY <1>9 DEF Def
<1>11. g[size] = <<>>
  <2>1. size \in 0..size
    BY <1>1
  <2> HIDE DEF Full
  <2> QED BY <1>10, <2>1, Zenon
<1>12. \A i \in 0..(size - 1) : g[i] = <<piece[i]>> \o g[jump[i]]
  <2>1. ASSUME NEW i \in 0..(size - 1) PROVE g[i] = <<piece[i]>> \o g[jump[i]]
    <3>1. i \in 0..size /\ i # size
      BY <1>1
    <3> HIDE DEF Full
    <3> QED BY <1>3, <1>10, <3>1, Zenon
  <2> QED BY <2>1
<1> HIDE DEF Value
<1> DEFINE Holds(i) == (i < size => units[i + 1] # "low") =>
                          /\ g[i] \in Seq(GoodUnits)
                          /\ SText!FlattenSeq(g[i]) = SubSeq(units, i + 1, size)
           A == {n \in 0..size : \A i \in (size - n)..size : Holds(i)}
<1>13. Holds(size)
  <2>1. <<>> \in Seq(GoodUnits)
    OBVIOUS
  <2>2. SText!FlattenSeq(<<>>) = <<>>
    BY DEF SText!FlattenSeq
  <2>3. SubSeq(units, size + 1, size) = <<>>
    BY <1>1
  <2> QED BY <1>11, <2>1, <2>2, <2>3, Zenon
<1>14. ASSUME NEW i \in 0..(size - 1), Holds(jump[i]) PROVE Holds(i)
  <2> DEFINE e == jump[i]
  <2>1. /\ e \in (i + 1)..size /\ e <= i + SText!UcsMaxUdh /\ units[e] # "high"
        /\ e < size => units[e + 1] # "low"
        /\ piece[i] = SubSeq(units, i + 1, e)
    BY <1>4
  <2>2. g[e] \in Seq(GoodUnits) /\ SText!FlattenSeq(g[e]) = SubSeq(units, e + 1, size)
    BY <1>14, <2>1, Zenon
  <2>3. g[i] = <<piece[i]>> \o g[e]
    BY <1>12
  <2> HIDE DEF e
  <2>4. /\ i \in Nat /\ e \in Nat /\ size \in Nat /\ i <= e /\ e <= size /\ e <= Len(units) /\ e <= e /\ size <= size
        /\ size <= Len(units) /\ i < size /\ e - i \in Nat /\ e - i >= 1 /\ i + 1 \in Nat /\ i + (e - i) = e
    BY <1>1, <2>1 DEF size
  <2>5. /\ piece[i] \in Seq(AnyUnit) /\ Len(piece[i]) = e - i /\ \A k \in 1..(e - i) : piece[i][k] = units[i + k]
    BY <2>1, <2>4, CutTwo
  <2>6. SubSeq(units, i + 1, size) = piece[i] \o SubSeq(units, e + 1, size)
    BY <2>1, <2>4, CutTwo
  <2>7. ASSUME units[i + 1] # "low" PROVE piece[i] \in GoodUnits
    <3>1. piece[i] # <<>>
      BY <2>4, <2>5, EmptySeq
    <3>2. 1 \in 1..(e - i) /\ e - i \in 1..(e - i)
      BY <2>4
    <3>3. piece[i][1] # "low" /\ piece[i][e - i] # "high"
      BY <2>1, <2>4, <2>5, <2>7, <3>2
    <3>4. e - i <= SText!UcsMaxUdh
      <4>1. SText!UcsMaxUdh \in Nat
        BY DEF SText!TextBounds, SText!UcsMaxUdh
      <4> QED BY <2>1, <2>4, <4>1
    <3> QED BY <2>5, <3>1, <3>3, <3>4 DEF GoodUnits
  <2>8. ASSUME units[i + 1] # "low"
        PROVE  g[i] \in Seq(GoodUnits) /\ SText!FlattenSeq(g[i]) = SubSeq(units, i + 1, size)
    <3>1. piece[i] \in GoodUnits
      BY <2>7, <2>8
    <3>2. g[i] \in Seq(GoodUnits)
      <4>1. \A x \in GoodUnits, y \in Seq(GoodUnits) : <<x>> \o y \in Seq(GoodUnits)
        OBVIOUS
      <4> QED BY <2>2, <2>3, <3>1, <4>1
    <3>3. g[e] \in Seq(Seq(AnyUnit))
      <4>1. GoodUnits \subseteq Seq(AnyUnit)
        BY DEF GoodUnits
      <4> QED BY <2>2, <4>1, SeqMonotonic
    <3>4. SText!FlattenSeq(<<piece[i]>> \o g[e]) = piece[i] \o SText!FlattenSeq(g[e])
      BY <2>5, <3>3, FlatCons
    <3> QED BY <2>2, <2>3, <2>6, <3>2, <3>4
  <2> QED BY <2>4, <2>8
<1> HIDE DEF Holds
<1>15. 0 \in A
  <2>1. \A i \in (size - 0)..size : i = size
    BY <1>1
  <2> QED BY <1>1, <1>13, <2>1
<1>16. ASSUME NEW n \in 1..size, n - 1 \in A PROVE n \in A
  <2>1. \A i \in (size - (n - 1))..size : Holds(i)
    BY <1>16
  <2>2. ASSUME NEW i \in (size - n)..size PROVE Holds(i)
    <3>1. CASE i \in (size - (n - 1))..size
      BY <2>1, <3>1
    <3>2. CASE i \notin (size - (n - 1))..size
      <4>1. i \in 0..(size - 1) /\ i = size - n
        BY <1>1, <3>2
      <4>2. jump[i] \in (size - (n - 1))..size
        BY <1>1, <1>4, <4>1
      <4> QED BY <1>14, <2>1, <4>1, <4>2
    <3> QED BY <3>1, <3>2
  <2>3. n \in 0..size
    BY <1>1
  <2> QED BY <2>2, <2>3
<1> HIDE DEF A
<1>17. \A n \in 0..size : n \in A
  BY <1>1, <1>15, <1>16, RangeInduction
<1>18. Holds(0)
  <2>1. size \in A /\ 0 \in (size - size)..size
    BY <1>1, <1>17
  <2> QED BY <2>1 DEF A
<1>19. 0 < size => units[0 + 1] # "low"
  <2>1. ASSUME 0 < size PROVE 1 \in 1..Len(units) /\ ~(1 > 1) /\ 0 + 1 = 1
    BY <1>1, <2>1 DEF size
  <2> QED BY <2>1, Zenon DEF Paired
<1>20. g[0] \in Seq(GoodUnits) /\ SText!FlattenSeq(g[0]) = SubSeq(units, 0 + 1, size)
  BY <1>18, <1>19, Zenon DEF Holds
<1>21. SubSeq(units, 0 + 1, size) = units
  BY DEF size
<1> QED BY <1>9, <1>20, <1>21

\* What the header of part i of n says; it is counted in an octet.
LEMMA HeaderIs ==
  ASSUME NEW n \in Nat, NEW i \in 1..n
  PROVE  /\ SText!Header(n, i) \in Seq(0..255) /\ Len(SText!Header(n, i)) = 6 /\ SText!Header(n, i)[1] = 5
         /\ SText!Header(n, i) # <<>>
         /\ SText!Partial(SText!Header(n, i)).parts_count = n % 256
         /\ n <= 255 => SText!Partial(SText!Header(n, i)) = [parts_count |-> n, part_number |-> i]
<1> DEFINE h == SText!Header(n, i)
           a == n % 256
           b == i % 256
           S == 0..255
<1>1. a \in S /\ b \in S /\ 5 \in S /\ 0 \in S /\ 3 \in S /\ 1 \in S
  OBVIOUS
<1>2. n <= 255 => a = n /\ b = i
  OBVIOUS
<1>3. h = <<5, 0, 3, 1, a, b>>
  BY DEF SText!Header
<1> HIDE DEF a, b, S, h
<1>4. h \in Seq(S) /\ Len(h) = 6 /\ h[1] = 5 /\ h[2] = 0 /\ h[3] = 3 /\ h[5] = a /\ h[6] = b
  BY <1>1, <1>3
<1>5. h # <<>>
  <2>1. Len(<<>>) # 6
    OBVIOUS
  <2> QED BY <1>4, <2>1, Zenon
<1>6. SText!Partial(h) = [parts_count |-> h[5], part_number |-> h[6]]
  <2>1. h[1] >= 5 /\ h[3] >= 3
    BY <1>4
  <2> QED BY <1>4, <2>1, Zenon DEF SText!Partial
<1>7. SText!Partial(h).parts_count = a
  BY <1>4, <1>6
<1>8. n <= 255 => SText!Partial(h) = [parts_count |-> n, part_number |-> i]
  BY <1>2, <1>4, <1>6
<1> QED BY <1>4, <1>5, <1>7, <1>8 DEF h, a, S

\* Part p, number i of n, fits and is read as c.
Carries(p, c, n, i) ==
    /\ SText!Decode(p).content = c /\ SText!Decode(p).partial.parts_count = n % 256
    /\ n <= 255 => SText!Decode(p).partial = [parts_count |-> n, part_number |-> i]
    /\ IF p.enc = "UCS2" THEN p.udl <= Size.text.octets
       ELSE Len(p.data) <= Size.text.octets /\ p.udl * 7 <= Size.text.octets * 8

\* A part of units is read as what was written.
LEMMA UnitsArrive ==
  ASSUME NEW u, NEW udh, NEW p, p = SText!UserData(u, udh, "UCS2")
  PROVE  /\ p.enc = "UCS2" /\ p.udl = Len(udh) + 2 * Len(u) /\ SText!Decode(p).content = u
         /\ udh = <<>> => SText!Decode(p).partial = SText!WholeMessage
         /\ udh # <<>> => SText!Decode(p).partial = SText!Partial(udh)
<1> DEFINE headed == (udh # <<>>)
           l == Len(udh) + 2 * Len(u)
           x == IF p.udhi THEN SText!Partial(p.header) ELSE SText!WholeMessage
<1>1. p = [enc |-> "UCS2", udhi |-> headed, header |-> udh, data |-> u, udl |-> l]
  BY Zenon DEF SText!UserData
<1>2. (udh # <<>> => headed = TRUE) /\ (udh = <<>> => headed = FALSE)
  OBVIOUS
<1> HIDE DEF headed, l
<1>3. p.enc = "UCS2" /\ p.udhi = headed /\ p.header = udh /\ p.data = u /\ p.udl = l
  BY <1>1
<1>4. SText!Decode(p) = [partial |-> x, content |-> p.data]
  BY <1>3, Zenon DEF SText!Decode
<1>5. udh # <<>> => x = SText!Partial(udh)
  BY <1>2, <1>3, Zenon
<1>6. udh = <<>> => x = SText!WholeMessage
  BY <1>2, <1>3, Zenon
<1> HIDE DEF x
<1>7. SText!Decode(p).partial = x /\ SText!Decode(p).content = p.data
  BY <1>4
<1> QED BY <1>3, <1>5, <1>6, <1>7 DEF l

\* A whole message is part one of one.
LEMMA WholeIs == SText!WholeMessage.parts_count = 1 % 256 /\ SText!WholeMessage = [parts_count |-> 1, part_number |-> 1]
BY DEF SText!WholeMessage

\* A short UCS-2 text fits and is read as it is.
LEMMA UnitsWhole ==
  ASSUME SText!TextBounds, NEW u \in Seq(AnyUnit), Len(u) <= SText!UcsMax
  PROVE  Carries(SText!UserData(u, <<>>, "UCS2"), u, 1, 1)
<1> DEFINE p == SText!UserData(u, <<>>, "UCS2")
<1>0. p = SText!UserData(u, <<>>, "UCS2")
  OBVIOUS
<1> HIDE DEF p
<1>1. p.enc = "UCS2" /\ p.udl = Len(<<>>) + 2 * Len(u) /\ SText!Decode(p).content = u /\ SText!Decode(p).partial = SText!WholeMessage
  BY <1>0, UnitsArrive
<1>2. Len(u) \in Nat /\ Size.text.octets \in Nat /\ Len(u) <= Size.text.octets \div 2
  BY LenProperties DEF SText!TextBounds, SText!UcsMax
<1>3. p.udl <= Size.text.octets
  BY <1>1, <1>2
<1>4. Carries(p, u, 1, 1)
  BY <1>1, <1>3, WholeIs, Zenon DEF Carries
<1> QED BY <1>4 DEF p

\* So does a part of a long one.
LEMMA UnitsPart ==
  ASSUME SText!TextBounds, NEW u \in GoodUnits, NEW n \in Nat, NEW i \in 1..n
  PROVE  Carries(SText!UserData(u, SText!Header(n, i), "UCS2"), u, n, i)
<1> DEFINE h == SText!Header(n, i)
           p == SText!UserData(u, h, "UCS2")
<1>1. Len(h) = 6 /\ h # <<>> /\ SText!Partial(h).parts_count = n % 256
      /\ (n <= 255 => SText!Partial(h) = [parts_count |-> n, part_number |-> i])
  BY HeaderIs
<1>0. p = SText!UserData(u, h, "UCS2")
  OBVIOUS
<1> HIDE DEF h, p
<1>6. h # <<>>
  BY <1>1
<1>2. p.enc = "UCS2" /\ p.udl = Len(h) + 2 * Len(u) /\ SText!Decode(p).content = u /\ SText!Decode(p).partial = SText!Partial(h)
  BY <1>0, <1>6, UnitsArrive
<1>3. Len(u) \in Nat /\ Size.text.octets \in Nat /\ Size.text.octets >= 10 /\ Len(u) <= (Size.text.octets - 6) \div 2
  BY LenProperties DEF SText!TextBounds, SText!UcsMaxUdh, GoodUnits
<1>4. p.udl <= Size.text.octets
  BY <1>1, <1>2, <1>3
<1>5. Carries(p, u, n, i)
  BY <1>1, <1>2, <1>4, Zenon DEF Carries
<1> QED BY <1>5 DEF p, h

\* A short 7-bit text fits and is read as it is.
LEMMA SeptetsWhole ==
  ASSUME SText!TextBounds, NEW m \in Seq(Plains), SText!TotalSeptets(m) <= SText!GsmMax
  PROVE  Carries(SText!UserData(m, <<>>, "7bit"), m, 1, 1)
<1> DEFINE none == <<>>
           p == SText!UserData(m, none, "7bit")
           t == SText!TotalSeptets(m)
<1>0. none \in Seq(0..255) /\ Len(none) = 0 /\ Lead(none) = 0 /\ none = <<>>
  BY DEF Lead
<1>3. p.enc # "UCS2" /\ p = SText!UserData(m, none, "7bit")
  BY DEF SText!UserData
<1>9. t = SText!TotalSeptets(m)
  OBVIOUS
<1> HIDE DEF p, t, none
<1>1. /\ SText!Decode(p).content = m /\ SText!Decode(p).partial = SText!WholeMessage
      /\ Len(p.data) = (7 * (0 + t) + 7) \div 8 /\ p.udl = 0 + t
  <2>1. IsRead(p, m, none)
    BY <1>0, <1>3, SeptetsArrive, Zenon
  <2> QED BY <1>0, <1>9, <2>1, Zenon DEF IsRead
<1>2. t \in Nat /\ Size.text.octets \in Nat /\ t <= (Size.text.octets * 8) \div 7
  BY <1>9, TotalIs DEF SText!TextBounds, SText!GsmMax
<1>4. Len(p.data) <= Size.text.octets /\ p.udl * 7 <= Size.text.octets * 8
  <2>1. Len(p.data) = (7 * t + 7) \div 8 /\ p.udl = t
    BY <1>0, <1>1, <1>2
  <2>2. 7 * t <= 8 * Size.text.octets /\ t * 7 <= Size.text.octets * 8
    BY <1>2
  <2> QED BY <1>2, <2>1, <2>2
<1>5. Carries(p, m, 1, 1)
  BY <1>1, <1>3, <1>4, WholeIs, Zenon DEF Carries
<1> QED BY <1>5 DEF p, none

\* So does a part of a long one.
LEMMA SeptetsPart ==
  ASSUME SText!TextBounds, NEW m \in GoodSeptets, NEW n \in Nat, NEW i \in 1..n
  PROVE  Carries(SText!UserData(m, SText!Header(n, i), "7bit"), m, n, i)
<1> DEFINE h == SText!Header(n, i)
           p == SText!UserData(m, h, "7bit")
           t == SText!TotalSeptets(m)
<1>0. m \in Seq(Plains) /\ t <= SText!GsmMaxUdh
  BY DEF GoodSeptets
<1>1. h \in Seq(0..255) /\ Len(h) = 6 /\ h[1] = 5 /\ h # <<>> /\ SText!Partial(h).parts_count = n % 256
      /\ (n <= 255 => SText!Partial(h) = [parts_count |-> n, part_number |-> i])
  BY HeaderIs
<1> HIDE DEF h
<1>4. p.enc # "UCS2" /\ p = SText!UserData(m, h, "7bit")
  BY DEF SText!UserData
<1>9. t = SText!TotalSeptets(m)
  OBVIOUS
<1> HIDE DEF p, t
<1>2. /\ SText!Decode(p).content = m /\ SText!Decode(p).partial = SText!Partial(h)
      /\ Len(p.data) = (7 * (Lead(h) + t) + 7) \div 8 /\ p.udl = Lead(h) + t
  <2>1. IsRead(p, m, h)
    BY <1>0, <1>1, <1>4, SeptetsArrive, Zenon
  <2> QED BY <1>1, <1>9, <2>1, Zenon DEF IsRead
<1>3. t \in Nat /\ Size.text.octets \in Nat /\ Size.text.octets >= 10 /\ t <= (Size.text.octets * 8 - 49) \div 7 /\ Lead(h) = 7
  BY <1>0, <1>1, <1>9, TotalIs DEF SText!TextBounds, SText!GsmMaxUdh, Lead
<1>5. Len(p.data) <= Size.text.octets /\ p.udl * 7 <= Size.text.octets * 8
  <2>1. Len(p.data) = (7 * (7 + t) + 7) \div 8 /\ p.udl = 7 + t
    BY <1>2, <1>3
  <2>2. 7 * (7 + t) <= 8 * Size.text.octets /\ (7 + t) * 7 <= Size.text.octets * 8
    BY <1>3
  <2> QED BY <1>3, <2>1, <2>2
<1>6. Carries(p, m, n, i)
  BY <1>1, <1>2, <1>4, <1>5, Zenon DEF Carries
<1> QED BY <1>6 DEF p, h

\* Shows whole characters.
WholeChars(c) == c # <<>> /\ c[1] # "low" /\ c[Len(c)] # "high"

\* There are no pairs in 7-bit text.
LEMMA PlainsWhole ==
  ASSUME NEW m \in Seq(Plains), m # <<>>
  PROVE  m \in Seq(AnyUnit) /\ WholeChars(m)
<1>1. Len(m) \in Nat /\ Len(m) # 0
  BY EmptySeq
<1>2. m[1] \in Plains /\ m[Len(m)] \in Plains
  <2>1. 1 \in 1..Len(m) /\ Len(m) \in 1..Len(m)
    BY <1>1
  <2> QED BY <2>1, ElementOfSeq
<1>3. Plains \subseteq AnyUnit
  BY DEF Plains, AnyUnit, SText!Chars
<1>4. m \in Seq(AnyUnit)
  BY <1>3, SeqMonotonic
<1>5. m[1] # "low" /\ m[Len(m)] # "high"
  BY <1>2 DEF Plains
<1> QED BY <1>4, <1>5 DEF WholeChars

\* The parts ps of a text carry chunks, each whole, that make text together.
CarryAll(ps, chunks, text) ==
    /\ chunks \in Seq(Seq(AnyUnit)) /\ Len(ps) = Len(chunks) /\ Len(ps) \in Nat /\ DOMAIN ps = 1..Len(ps)
    /\ \A i \in 1..Len(ps) : Carries(ps[i], chunks[i], Len(ps), i) /\ WholeChars(chunks[i])
    /\ SText!FlattenSeq(chunks) = text

\* One part that carries a text carries it all.
LEMMA OneCarries ==
  ASSUME NEW p, NEW text \in Seq(AnyUnit), WholeChars(text), Carries(p, text, 1, 1)
  PROVE  CarryAll(<<p>>, <<text>>, text)
<1> DEFINE S == Seq(AnyUnit)
           none == <<>>
<1>1. text \in S /\ none \in Seq(S)
  OBVIOUS
<1>2. SText!FlattenSeq(Append(none, text)) = SText!FlattenSeq(none) \o text
  BY <1>1, FlatAppend
<1>3. SText!FlattenSeq(none) = <<>>
  BY DEF SText!FlattenSeq
<1>4. Append(none, text) = <<text>> /\ <<>> \o text = text
  OBVIOUS
<1>5. SText!FlattenSeq(<<text>>) = text
  BY <1>2, <1>3, <1>4, Zenon
<1>6. Len(<<p>>) = 1 /\ DOMAIN <<p>> = 1..1 /\ <<p>>[1] = p /\ Len(<<text>>) = 1 /\ <<text>>[1] = text
      /\ <<text>> \in Seq(S) /\ 1 \in Nat /\ \A i \in 1..1 : i = 1
  BY <1>1
<1> HIDE DEF S
<1> DEFINE ps == <<p>>
           chunks == <<text>>
<1> HIDE DEF ps, chunks
<1>7. Len(ps) = 1 /\ DOMAIN ps = 1..1 /\ ps[1] = p /\ Len(chunks) = 1 /\ chunks[1] = text
      /\ chunks \in Seq(S) /\ SText!FlattenSeq(chunks) = text
  BY <1>5, <1>6 DEF ps, chunks
<1>8. CarryAll(ps, chunks, text)
  BY <1>6, <1>7, Zenon DEF CarryAll, S
<1> QED BY <1>8 DEF ps, chunks

\* And so do several, each with a header.
LEMMA ManyCarry ==
  ASSUME NEW G, NEW chunks \in Seq(G), G \subseteq Seq(AnyUnit), NEW enc, NEW text, SText!FlattenSeq(chunks) = text,
         \A c \in G, n \in Nat : \A i \in 1..n : Carries(SText!UserData(c, SText!Header(n, i), enc), c, n, i),
         \A c \in G : WholeChars(c)
  PROVE  CarryAll(SText!Chunked(chunks, enc), chunks, text)
<1> DEFINE D(i) == SText!UserData(chunks[i], SText!Header(Len(chunks), i), enc)
           R == {D(i) : i \in 1..Len(chunks)}
           ps == SText!Chunked(chunks, enc)
<1>1. Len(chunks) \in Nat /\ DOMAIN chunks = 1..Len(chunks)
  BY LenProperties
<1>2. ps = [i \in 1..Len(chunks) |-> D(i)]
  BY <1>1 DEF SText!Chunked
<1>3. \A i \in 1..Len(chunks) : chunks[i] \in G
  BY ElementOfSeq
<1>4. \A i \in 1..Len(chunks) : Carries(D(i), chunks[i], Len(chunks), i) /\ WholeChars(chunks[i])
  BY <1>1, <1>3, Zenon
<1> HIDE DEF D, ps
<1>5. ps \in [1..Len(chunks) -> R] /\ \A i \in 1..Len(chunks) : ps[i] = D(i)
  BY <1>2
<1> HIDE DEF R
<1>6. Len(ps) = Len(chunks) /\ DOMAIN ps = 1..Len(ps)
  BY <1>1, <1>5, MadeSeq
<1>7. chunks \in Seq(Seq(AnyUnit))
  BY SeqMonotonic
<1>8. \A i \in 1..Len(ps) : Carries(ps[i], chunks[i], Len(ps), i) /\ WholeChars(chunks[i])
  BY <1>4, <1>5, <1>6, Zenon
<1>9. CarryAll(ps, chunks, text)
  BY <1>1, <1>6, <1>7, <1>8, Zenon DEF CarryAll
<1> QED BY <1>9 DEF ps

\* What is to arrive: the units of a text with an emoji, or its characters.
Wanted(m) == IF SText!NeedsUcs2(m) THEN SText!AllUnits(m) ELSE m

\* What is sent carries what was typed, in as many parts as were told.
LEMMA AllCarried ==
  ASSUME SText!TextBounds, NEW m \in Seq(SText!Chars), m # <<>>
  PROVE  /\ \E chunks : CarryAll(SText!SubmitParts(m), chunks, Wanted(m))
         /\ Len(SText!SubmitParts(m)) = SText!Stats(m)
<1>1. CASE SText!NeedsUcs2(m)
  <2> DEFINE u == SText!AllUnits(m)
  <2>1. u \in Seq(AnyUnit) /\ Paired(u) /\ u # <<>>
    BY UnitsPaired, Zenon
  <2>2. Wanted(m) = u
    BY <1>1, Zenon DEF Wanted
  <2> HIDE DEF u
  <2>3. CASE Len(u) <= SText!UcsMax
    <3>1. SText!SubmitParts(m) = <<SText!UserData(u, <<>>, "UCS2")>> /\ SText!Stats(m) = 1
      BY <1>1, <2>3, Zenon DEF SText!SubmitParts, SText!Stats, u
    <3>2. WholeChars(u)
      BY <2>1, PairedEnds, Zenon DEF WholeChars
    <3>3. CarryAll(<<SText!UserData(u, <<>>, "UCS2")>>, <<u>>, u)
      BY <2>1, <2>3, <3>2, UnitsWhole, OneCarries, Zenon
    <3>4. Len(<<SText!UserData(u, <<>>, "UCS2")>>) = 1
      OBVIOUS
    <3> QED BY <2>2, <3>1, <3>3, <3>4, Zenon
  <2>4. CASE ~(Len(u) <= SText!UcsMax)
    <3> DEFINE chunks == SText!Ucs2Chunks(u)
    <3>1. SText!SubmitParts(m) = SText!Chunked(chunks, "UCS2") /\ SText!Stats(m) = Len(chunks)
      BY <1>1, <2>4, Zenon DEF SText!SubmitParts, SText!Stats, u
    <3>2. chunks \in Seq(GoodUnits) /\ SText!FlattenSeq(chunks) = u
      BY <2>1, UcsCut, Zenon
    <3> HIDE DEF chunks
    <3>3. GoodUnits \subseteq Seq(AnyUnit) /\ \A c \in GoodUnits : WholeChars(c)
      BY Zenon DEF GoodUnits, WholeChars
    <3>4. CarryAll(SText!Chunked(chunks, "UCS2"), chunks, u)
      <4>1. \A c \in GoodUnits, n \in Nat : \A i \in 1..n : Carries(SText!UserData(c, SText!Header(n, i), "UCS2"), c, n, i)
        BY UnitsPart, Zenon
      <4> QED BY <3>2, <3>3, <4>1, ManyCarry, Zenon
    <3>5. Len(SText!Chunked(chunks, "UCS2")) = Len(chunks)
      BY <3>4, Zenon DEF CarryAll
    <3> QED BY <2>2, <3>1, <3>4, <3>5, Zenon
  <2> QED BY <2>3, <2>4
<1>2. CASE ~SText!NeedsUcs2(m)
  <2>1. m \in Seq(Plains)
    <3>1. ASSUME NEW i \in 1..Len(m) PROVE m[i] \in Plains
      <4>1. m[i] \in SText!Chars
        BY ElementOfSeq
      <4>2. m[i] # "emoji"
        BY <1>2, LenProperties, Zenon DEF SText!NeedsUcs2
      <4> QED BY <4>1, <4>2 DEF SText!Chars, Plains
    <3>2. m = [i \in 1..Len(m) |-> m[i]] /\ Len(m) \in Nat
      BY LenProperties
    <3>3. m \in [1..Len(m) -> Plains]
      BY <3>1, <3>2, Zenon
    <3> QED BY <3>2, <3>3, MadeSeq, Zenon
  <2>2. Wanted(m) = m /\ m \in Seq(AnyUnit) /\ WholeChars(m)
    BY <1>2, <2>1, PlainsWhole, Zenon DEF Wanted
  <2>3. CASE SText!TotalSeptets(m) <= SText!GsmMax
    <3>1. SText!SubmitParts(m) = <<SText!UserData(m, <<>>, "7bit")>> /\ SText!Stats(m) = 1
      BY <1>2, <2>3, Zenon DEF SText!SubmitParts, SText!Stats
    <3>2. CarryAll(<<SText!UserData(m, <<>>, "7bit")>>, <<m>>, m)
      BY <2>1, <2>2, <2>3, SeptetsWhole, OneCarries, Zenon
    <3>3. Len(<<SText!UserData(m, <<>>, "7bit")>>) = 1
      OBVIOUS
    <3> QED BY <2>2, <3>1, <3>2, <3>3, Zenon
  <2>4. CASE ~(SText!TotalSeptets(m) <= SText!GsmMax)
    <3> DEFINE chunks == SText!Gsm7Chunks(m)
    <3>1. SText!SubmitParts(m) = SText!Chunked(chunks, "7bit") /\ SText!Stats(m) = Len(chunks)
      BY <1>2, <2>4, Zenon DEF SText!SubmitParts, SText!Stats
    <3>2. chunks \in Seq(GoodSeptets) /\ SText!FlattenSeq(chunks) = m
      BY <2>1, GsmCut, Zenon
    <3> HIDE DEF chunks
    <3>3. GoodSeptets \subseteq Seq(AnyUnit) /\ \A c \in GoodSeptets : WholeChars(c)
      BY PlainsWhole, Zenon DEF GoodSeptets
    <3>4. CarryAll(SText!Chunked(chunks, "7bit"), chunks, m)
      <4>1. \A c \in GoodSeptets, n \in Nat : \A i \in 1..n : Carries(SText!UserData(c, SText!Header(n, i), "7bit"), c, n, i)
        BY SeptetsPart, Zenon
      <4> QED BY <3>2, <3>3, <4>1, ManyCarry, Zenon
    <3>5. Len(SText!Chunked(chunks, "7bit")) = Len(chunks)
      BY <3>4, Zenon DEF CarryAll
    <3> QED BY <2>2, <3>1, <3>4, <3>5, Zenon
  <2> QED BY <2>3, <2>4
<1> QED BY <1>1, <1>2

\* The invariant holds at the start.
LEMMA TextBegins == ASSUME SText!TextInit PROVE SText!TextInv
BY DEF SText!TextInit, SText!TextInv

\* Every step keeps it.
LEMMA TextKept == ASSUME SText!TextBounds, SText!TextInv, SText!TextNext PROVE SText!TextInv'
<1>1. ASSUME NEW c \in Size.text.typed, SText!Type(c) PROVE SText!TextInv'
  <2>1. c \in SText!Chars
    BY DEF SText!TextBounds
  <2>2. r1' \in Seq(SText!Chars) /\ r2 = <<>> /\ r2' = <<>> /\ r3' = r3
    BY <1>1, <2>1 DEF SText!Type, SText!TextInv
  <2>3. r3 \subseteq {SText!Decode(r2[i]) : i \in DOMAIN r2}
    BY DEF SText!TextInv
  <2>4. r3' = {}
    BY <2>2, <2>3
  <2> QED BY <2>2, <2>4 DEF SText!TextInv
<1>2. CASE SText!Send
  <2>1. r3 = {}
    BY <1>2 DEF SText!Send, SText!TextInv
  <2>2. r1 \in Seq(SText!Chars) /\ r1 # <<>> /\ r1' = r1 /\ r2' = SText!SubmitParts(r1) /\ r3' = r3
    BY <1>2, Zenon DEF SText!Send, SText!TextInv
  <2> QED BY <2>1, <2>2, Zenon DEF SText!TextInv
<1>3. ASSUME NEW i \in 1..Size.text.chars, SText!Deliver(i) PROVE SText!TextInv'
  <2>1. /\ i \in DOMAIN r2 /\ r3' = r3 \union {SText!Decode(r2[i])}
        /\ r1' = r1 /\ r2' = r2
    BY <1>3, Zenon DEF SText!Deliver
  <2>2. r3 \subseteq {SText!Decode(r2[j]) : j \in DOMAIN r2}
    BY Zenon DEF SText!TextInv
  <2>3. r3' \subseteq {SText!Decode(r2'[j]) : j \in DOMAIN r2'}
    BY <2>1, <2>2, Zenon
  <2> QED BY <2>1, <2>3, Zenon DEF SText!TextInv
<1> QED BY <1>1, <1>2, <1>3 DEF SText!TextNext

\* It speaks of nothing but the variables of the machine.
LEMMA TextStutters == ASSUME SText!TextInv, UNCHANGED <<r1, r2, r3>> PROVE SText!TextInv'
BY DEF SText!TextInv

\* What it says.
LEMMA TextHolds ==
  ASSUME SText!TextBounds, SText!TextInv
  PROVE  SText!TextTypeOK /\ SText!PartsFit /\ SText!ArrivesAsTyped /\ SText!WholeCharacters /\ SText!CountIsTrue
<1>1. CASE r2 = <<>>
  <2>1. DOMAIN r2 = {} /\ Len(r2) = 0
    BY <1>1
  <2>2. r3 = {}
    BY <2>1, Zenon DEF SText!TextInv
  <2>3. r1 \in Seq(SText!Chars)
    BY DEF SText!TextInv
  <2>4. Len(r2) \notin 1..255
    BY <2>1
  <2> QED BY <1>1, <2>1, <2>2, <2>3, <2>4, Zenon DEF SText!TextTypeOK, SText!PartsFit, SText!ArrivesAsTyped, SText!WholeCharacters, SText!CountIsTrue
<1>2. CASE r2 # <<>>
  <2>1. r1 \in Seq(SText!Chars) /\ r1 # <<>> /\ r2 = SText!SubmitParts(r1)
        /\ r3 \subseteq {SText!Decode(r2[i]) : i \in DOMAIN r2}
    BY <1>2, Zenon DEF SText!TextInv
  <2>2. SText!CountIsTrue
    BY <2>1, AllCarried, Zenon DEF SText!CountIsTrue
  <2>3. PICK chunks : CarryAll(r2, chunks, Wanted(r1))
    BY <2>1, AllCarried, Zenon
  <2> DEFINE n == Len(r2)
             D(i) == SText!Decode(r2[i])
  <2>4. /\ chunks \in Seq(Seq(AnyUnit)) /\ n = Len(chunks) /\ n \in Nat /\ DOMAIN r2 = 1..n
        /\ \A i \in 1..n : Carries(r2[i], chunks[i], n, i) /\ WholeChars(chunks[i])
        /\ SText!FlattenSeq(chunks) = Wanted(r1)
    BY <2>3, Zenon DEF CarryAll
  <2>5. \A i \in 1..n : /\ D(i).content = chunks[i] /\ D(i).partial.parts_count = n % 256
                        /\ n <= 255 => D(i).partial = [parts_count |-> n, part_number |-> i]
    BY <2>4, Zenon DEF Carries
  <2>6. \A r \in r3 : \E i \in 1..n : r = D(i)
    BY <2>1, <2>4, Zenon
  <2>7. SText!TextTypeOK
    <3>1. ASSUME NEW r \in r3 PROVE r.partial.parts_count = n % 256
      <4>1. PICK i \in 1..n : r = D(i)
        BY <2>6
      <4>2. D(i).partial.parts_count = n % 256
        BY <2>5
      <4> HIDE DEF D, n
      <4> QED BY <4>1, <4>2
    <3> QED BY <2>1, <3>1, Zenon DEF SText!TextTypeOK
  <2>8. SText!PartsFit
    BY <2>4, Zenon DEF SText!PartsFit, Carries
  <2>9. SText!WholeCharacters
    <3>1. ASSUME NEW r \in r3 PROVE WholeChars(r.content)
      <4>1. PICK i \in 1..n : r = D(i)
        BY <2>6
      <4>2. r.content = chunks[i]
        BY <2>5, <4>1, Zenon
      <4> QED BY <2>4, <4>2, Zenon
    <3> QED BY <3>1, Zenon DEF SText!WholeCharacters, WholeChars
  <2>10. SText!ArrivesAsTyped
    <3>1. SUFFICES ASSUME n \in 1..255, Cardinality(r3) = n PROVE SText!Joined = Wanted(r1)
      BY SameCount, Zenon DEF SText!ArrivesAsTyped, Wanted
    <3> DEFINE Of(i) == CHOOSE r \in r3 : r.partial.part_number = i
               all == {D(i) : i \in 1..n}
    <3>2. r3 \subseteq all
      BY <2>6, Zenon
    <3>3. IsFiniteSet(all) /\ Cardinality(all) <= n
      <4>1. IsFiniteSet(1..n) /\ Cardinality(1..n) = n
        <5>1. 1 \in Int /\ n \in Int /\ 1 <= n
          BY <2>4, <3>1
        <5> HIDE DEF n
        <5>2. IsFiniteSet(1..n) /\ Cardinality(1..n) = IF 1 > n THEN 0 ELSE n - 1 + 1
          BY <5>1, FS_Interval, Zenon
        <5> QED BY <5>1, <5>2
      <4> HIDE DEF n, D
      <4> HIDE DEF all
      <4> DEFINE f == [i \in 1..n |-> D(i)]
      <4>2. f \in Surjection(1..n, all)
        <5>1. f \in [1..n -> all] /\ \A r \in all : \E i \in 1..n : f[i] = r
          BY Zenon DEF all
        <5> QED BY <5>1, Zenon DEF Surjection
      <4> HIDE DEF f
      <4>3. IsFiniteSet(all) /\ Cardinality(all) <= Cardinality(1..n)
        BY <4>1, <4>2, FS_Surjection, Zenon
      <4> QED BY <4>1, <4>3, Zenon
    <3>4. r3 = all
      <4> HIDE DEF all, n
      <4>1. Cardinality(all) \in Nat /\ Cardinality(r3) <= Cardinality(all)
        BY <3>2, <3>3, FS_CardinalityType, FS_Subset, Zenon
      <4>2. Cardinality(r3) = Cardinality(all)
        BY <2>4, <3>1, <3>3, <4>1
      <4> QED BY <3>2, <3>3, <4>2, FS_Subset, Zenon
    <3>5. ASSUME NEW i \in 1..n PROVE Of(i).content = chunks[i]
      <4>1. \A j \in 1..n : D(j).partial.part_number = j
        <5>1. n <= 255
          <6> HIDE DEF n
          <6> QED BY <3>1
        <5>2. ASSUME NEW j \in 1..n PROVE D(j).partial.part_number = j
          <6>1. D(j).partial = [parts_count |-> n, part_number |-> j]
            BY <2>5, <5>1, Zenon
          <6> HIDE DEF D, n
          <6> QED BY <6>1
        <5> QED BY <5>2
      <4>2. D(i) \in r3
        BY <3>4, Zenon
      <4>3. Of(i) \in r3 /\ Of(i).partial.part_number = i
        BY <4>1, <4>2, Zenon
      <4> HIDE DEF Of
      <4>4. PICK j \in 1..n : Of(i) = D(j)
        BY <2>6, <4>3, Zenon
      <4>5. j = i
        BY <4>1, <4>3, <4>4, Zenon
      <4>6. D(i).content = chunks[i]
        BY <2>5
      <4> QED BY <4>4, <4>5, <4>6, Zenon
    <3> HIDE DEF Of
    <3>6. [i \in 1..n |-> Of(i).content] = [i \in 1..n |-> chunks[i]]
      BY <3>5, Zenon
    <3>7. [i \in 1..n |-> chunks[i]] = chunks
      BY <2>4
    <3>8. SText!Joined = SText!FlattenSeq([i \in 1..n |-> Of(i).content])
      BY Zenon DEF SText!Joined, Of
    <3> QED BY <2>4, <3>6, <3>7, <3>8, Zenon
  <2> QED BY <2>2, <2>7, <2>8, <2>9, <2>10
<1> QED BY <1>1, <1>2

-----------------------------------------------------------------------------
(* Sending a message.                                                      *)

Send == INSTANCE SmsSend WITH
    sending <- r1, chain <- r2, cmgf <- r3, cscs <- r4, job <- r5,
    stuck <- r6, sends <- r7, fails <- r8,
    Pages <- Size.send.pages, Chains <- Size.send.chains,
    MaxSends <- Size.send.sends, MaxFail <- Size.send.failed

\* What is still to do once every part is sent.
LEMMA SendNoneLeft ==
  ASSUME NEW l \in Send!ToSubmit(0), l # <<>>
  PROVE  /\ Head(l) \in {"text", "ira"} /\ Tail(l) = <<>>
         /\ l \in Send!PutsBack <=> Head(l) = "ira"
<1> USE DEF Send!ToSubmit, Send!PutsBack
<1>1. CASE l = <<"text">>
  BY <1>1
<1>2. CASE l = <<"ira">>
  BY <1>2
<1> QED BY <1>1, <1>2

\* The list of a send with one part to go, and what is left of it after its head.
LEMMA SendOneLeft ==
  ASSUME NEW l \in Send!ToSubmit(1)
  PROVE  /\ l # <<>> /\ Head(l) \in {"submit", "csca", "pdu", "pdu?", "ucs2"}
         /\ Head(l) = "submit" => Tail(l) \in Send!ToSubmit(0)
         /\ Head(l) # "submit" => Tail(l) \in Send!ToSubmit(1)
         /\ Head(l) = "pdu?" => [l EXCEPT ![1] = "pdu"] \in Send!ToSubmit(1) \ Send!PutsBack
         /\ Head(l) = "ucs2" \/ l \in Send!PutsBack => Tail(l) \in Send!PutsBack
<1> USE DEF Send!ToSubmit, Send!PutsBack
<1>1. CASE l = <<"submit">>
  BY <1>1
<1>2. CASE l = <<"csca", "submit">>
  BY <1>2
<1>3. CASE l = <<"pdu", "csca", "submit">>
  BY <1>3
<1>4. CASE l = <<"pdu?", "csca", "submit">>
  BY <1>4
<1>5. CASE l = <<"submit", "text">>
  BY <1>5
<1>6. CASE l = <<"submit", "ira">>
  BY <1>6
<1>7. CASE l = <<"ucs2", "submit", "ira">>
  BY <1>7
<1> QED BY <1>1, <1>2, <1>3, <1>4, <1>5, <1>6, <1>7

\* The same with two parts to go.
LEMMA SendTwoLeft ==
  ASSUME NEW l \in Send!ToSubmit(2)
  PROVE  /\ l # <<>> /\ Head(l) \in {"submit", "csca", "pdu", "pdu?"} /\ l \notin Send!PutsBack
         /\ Head(l) = "submit" => Tail(l) \in Send!ToSubmit(1)
         /\ Head(l) # "submit" => Tail(l) \in Send!ToSubmit(2)
         /\ Head(l) = "pdu?" => [l EXCEPT ![1] = "pdu"] \in Send!ToSubmit(2)
<1> USE DEF Send!ToSubmit, Send!PutsBack
<1>1. CASE l = <<"submit", "submit">>
  BY <1>1
<1>2. CASE l = <<"csca", "submit", "submit">>
  BY <1>2
<1>3. CASE l = <<"pdu", "csca", "submit", "submit">>
  BY <1>3
<1>4. CASE l = <<"pdu?", "csca", "submit", "submit">>
  BY <1>4
<1>5. CASE l = <<"submit", "submit", "text">>
  BY <1>5
<1>6. CASE l = <<"csca", "submit", "submit", "text">>
  BY <1>6
<1>7. CASE l = <<"pdu", "csca", "submit", "submit", "text">>
  BY <1>7
<1>8. CASE l = <<"pdu?", "csca", "submit", "submit", "text">>
  BY <1>8
<1>9. CASE l = <<"pdu", "pdu?", "csca", "submit", "submit", "text">>
  BY <1>9
<1> QED BY <1>1, <1>2, <1>3, <1>4, <1>5, <1>6, <1>7, <1>8, <1>9

\* Which lists put the character set back.
LEMMA SendHasIra ==
  ASSUME NEW l \in Send!Lists
  PROVE  (\E i \in DOMAIN l : l[i] = "ira") <=> l \in Send!PutsBack
BY DEF Send!Lists, Send!ToSubmit, Send!PutsBack

\* What a command that is done, or takes the place of another, leaves in the list.
LEMMA SendLists ==
  ASSUME NEW n \in 0..2, NEW l \in Send!ToSubmit(n), l # <<>>
  PROVE  /\ Head(l) # "mode"
         /\ Head(l) # "submit" => Tail(l) \in Send!ToSubmit(n)
         /\ Head(l) = "submit" => n - 1 \in 0..2 /\ Tail(l) \in Send!ToSubmit(n - 1)
         /\ Head(l) = "pdu?" => [l EXCEPT ![1] = "pdu"] \in Send!ToSubmit(n)
         /\ Head(l) = "ucs2" => Tail(l) \in Send!PutsBack
         /\ l \in Send!PutsBack /\ Head(l) # "ira" => Tail(l) \in Send!PutsBack /\ Head(l) # "pdu?"
<1>1. CASE n = 0
  <2>1. <<>> \in Send!ToSubmit(0)
    BY DEF Send!ToSubmit
  <2> QED BY <1>1, <2>1, SendNoneLeft
<1>2. CASE n = 1
  <2>1. Head(l) = "pdu?" => l \notin Send!PutsBack
    BY <1>2 DEF Send!ToSubmit, Send!PutsBack
  <2> QED BY <1>2, <2>1, SendOneLeft
<1>3. CASE n = 2
  BY <1>3, SendTwoLeft
<1> QED BY <1>1, <1>2, <1>3

\* A send begins with a list that submits every part.
LEMMA SendFirstLists ==
  ASSUME NEW kind \in Send!Kinds
  PROVE  /\ Send!PduSteps(kind) \in Send!ToSubmit(Send!Parts(kind)) /\ Send!TextSteps(kind) \in Send!ToSubmit(Send!Parts(kind))
         /\ Send!Parts(kind) \in 1..2
BY DEF Send!Kinds, Send!PduSteps, Send!TextSteps, Send!ToSubmit, Send!Parts

\* Those lists are lists of a send.
LEMMA SendAllLists ==
  ASSUME NEW n \in 0..2
  PROVE  Send!ToSubmit(n) \subseteq Send!Lists
<1>1. n = 0 \/ n = 1 \/ n = 2
  OBVIOUS
<1> QED BY <1>1 DEF Send!Lists

\* So are what is left of a send that failed, and the question for the mode.
LEMMA SendFailedLists ==
  /\ {<<>>, <<"ira">>} \subseteq Send!Lists /\ <<"mode">> \in Send!Lists
  /\ Tail(<<"ira">>) = <<>> /\ Head(<<"ira">>) = "ira" /\ <<"ira">> \in Send!PutsBack /\ <<>> \notin Send!PutsBack
  /\ Head(<<"mode">>) = "mode" /\ <<"mode">> \notin Send!PutsBack /\ <<"mode">> # <<>>
BY DEF Send!Lists, Send!ToSubmit, Send!PutsBack

\* The invariant holds at the start.
LEMMA SendBegins == ASSUME Send!SendBounds, Send!Init PROVE Send!SendInv
<1>1. Send!SendTypeOK
  BY DEF Send!SendBounds, Send!Init, Send!SendTypeOK, Send!Idle
<1>2. Send!Idle \in Send!ChainType
  BY SendFailedLists DEF Send!Idle, Send!ChainType, Send!Kinds
<1>3. ASSUME NEW c \in Size.send.chains PROVE Send!ChainOK(c)
  BY <1>2 DEF Send!Init, Send!ChainOK, Send!Idle
<1>4. ASSUME NEW c \in Size.send.chains PROVE Send!PartsSent(c)
  <2>1. r2[c].next = 1 /\ r2[c].sent = {} /\ r2[c].at = "idle" /\ r5.of # c /\ r5.on = FALSE
    BY DEF Send!Init, Send!Idle, Send!NoJob, Send!SendBounds
  <2> QED BY <2>1 DEF Send!PartsSent
<1>5. r5 \in Send!JobType
  BY DEF Send!Init, Send!NoJob, Send!JobType
<1> QED BY <1>1, <1>3, <1>4, <1>5 DEF Send!Init, Send!SendInv, Send!OnePerPage, Send!Idle,
                                      Send!CharsetComesBack

\* What the invariant says of one send, field by field.
LEMMA SendTypes ==
  ASSUME Send!SendInv, NEW c \in Size.send.chains
  PROVE  /\ r2[c] \in Send!ChainType
         /\ r2[c].at \in {"idle", "run", "wait", "told"} /\ r2[c].kind \in Send!Kinds
         /\ r2[c].next \in 1..3 /\ r2[c].sent \subseteq 1..2 /\ r2[c].mixed \in BOOLEAN
         /\ r2[c].todo \in Send!Lists /\ r2[c].told \in {"none", "sent", "failed"}
         /\ r2[c].at = "run" => r2[c].told # "sent"
         /\ r2[c].told = "failed" => r2[c].todo \in {<<>>, <<"ira">>}
         /\ r2[c].at = "idle" => r2[c].todo = <<>>
         /\ r2[c].at # "idle" => r2[c].page \in r1
<1>1. r2[c] \in Send!ChainType /\ Send!ChainOK(c)
  BY DEF Send!SendInv, Send!ChainOK
<1>2. r2[c].at = "idle" => r2[c].todo = <<>>
  BY <1>1 DEF Send!ChainOK, Send!Idle
<1> QED BY <1>1, <1>2 DEF Send!ChainOK, Send!ChainType

\* What the invariant says of one send.
LEMMA SendParts ==
  ASSUME Send!SendInv, NEW c \in Size.send.chains
  PROVE  Send!ChainOK(c) /\ Send!PartsSent(c)
BY DEF Send!SendInv

\* The bounds count down.
LEMMA SendCounts ==
  ASSUME Send!SendBounds, Send!SendInv, r7' \in {r7, r7 - 1}, r8' \in {r8, r8 - 1},
         r7' # r7 => r7 > 0, r8' # r8 => r8 > 0
  PROVE  r7' \in 0..Size.send.sends /\ r8' \in 0..Size.send.failed
BY DEF Send!SendBounds, Send!SendInv, Send!SendTypeOK

\* A send that another one does not touch.
LEMMA SendOther ==
  ASSUME Send!SendInv, NEW d \in Size.send.chains, r2'[d] = r2[d],
         r5'.on = r5.on /\ r5'.part = r5.part /\ r5'.ok = r5.ok,
         r5'.of = d <=> r5.of = d,
         r2[d].at # "idle" => r2[d].page \in r1'
  PROVE  Send!ChainOK(d)' /\ Send!PartsSent(d)'
BY DEF Send!SendInv, Send!ChainOK, Send!PartsSent, Send!ToGo

\* A step of one send that does not touch its page, nor the settings.
LEMMA SendSame ==
  ASSUME Send!SendInv, UNCHANGED r1,
         \A d \in Size.send.chains : /\ r2'[d].page = r2[d].page /\ (r2'[d].at = "idle" <=> r2[d].at = "idle")
                                     /\ r2'[d].at \in {"idle", "run", "wait", "told"}
  PROVE  Send!OnePerPage' /\ \A c \in Size.send.chains : r2'[c].at \in {"idle", "run", "wait", "told"}
BY DEF Send!SendInv, Send!OnePerPage

\* Who was to put the character set back still is.
LEMMA SendCharset ==
  ASSUME Send!SendInv, UNCHANGED <<r4, r6>>,
         \A d \in Size.send.chains : r2[d].todo \in Send!PutsBack => r2'[d].todo \in Send!PutsBack
  PROVE  Send!CharsetComesBack'
BY DEF Send!SendInv, Send!CharsetComesBack

\* A send whose list goes on.
LEMMA SendRuns ==
  ASSUME Send!SendInv, NEW c \in Size.send.chains, NEW t, r2[c].at = "run", Send!Goes(c, t),
         UNCHANGED <<r1, r5>>,
         r2[c].told = "failed" => t \in {<<>>, <<"ira">>},
         r2[c].told # "failed" => Send!ToGo(c) \in 0..2 /\ t \in Send!ToSubmit(Send!ToGo(c))
  PROVE  /\ r2'[c].todo = t /\ \A d \in Size.send.chains : d # c => r2'[d] = r2[d]
         /\ DOMAIN r2' = Size.send.chains /\ \A d \in Size.send.chains : Send!ChainOK(d)' /\ Send!PartsSent(d)'
         /\ \A d \in Size.send.chains : r2'[d].at \in {"idle", "run", "wait", "told"}
         /\ Send!OnePerPage'
<1>1. /\ r2'[c] = [r2[c] EXCEPT !.todo = t] /\ DOMAIN r2' = Size.send.chains
      /\ \A d \in Size.send.chains : d # c => r2'[d] = r2[d]
  BY DEF Send!SendInv, Send!Goes
<1>2. t \in Send!Lists
  BY SendFailedLists, SendAllLists
<1>3. r2[c] \in Send!ChainType
  BY SendTypes
<1>4. /\ r2'[c] \in Send!ChainType /\ r2'[c].todo = t
      /\ r2'[c].at = r2[c].at /\ r2'[c].page = r2[c].page
      /\ r2'[c].kind = r2[c].kind /\ r2'[c].next = r2[c].next
      /\ r2'[c].sent = r2[c].sent /\ r2'[c].mixed = r2[c].mixed
      /\ r2'[c].told = r2[c].told
  BY <1>1, <1>2, <1>3 DEF Send!ChainType
<1>5. Send!ChainOK(c)' /\ Send!PartsSent(c)'
  <2>1. Send!ToGo(c)' = Send!ToGo(c)
    BY <1>4 DEF Send!ToGo
  <2> QED BY <1>2, <1>4, <2>1 DEF Send!SendInv, Send!ChainOK, Send!PartsSent
<1>6. \A d \in Size.send.chains : Send!ChainOK(d)' /\ Send!PartsSent(d)'
  BY <1>1, <1>5, SendOther, SendTypes
<1>7. \A d \in Size.send.chains : r2'[d].at = r2[d].at /\ r2'[d].page = r2[d].page
  BY <1>1, <1>4
<1> QED BY <1>1, <1>4, <1>6, <1>7, SendSame, SendTypes

\* The mode is read, and set where it is another one.
LEMMA SendAsks ==
  ASSUME Send!SendBounds, Send!SendInv, NEW c \in Size.send.chains, Send!AskMode(c)
           \/ Send!AskPdu(c)
  PROVE  Send!SendInv'
<1>1. PICK t : /\ r2[c].at = "run" /\ r2[c].todo # <<>> /\ Send!Goes(c, t)
              /\ \/ Send!Cmd(c) = "mode" /\ t \in {Send!TextSteps(r2[c].kind), Send!PduSteps(r2[c].kind)}
                 \/ Send!Cmd(c) = "pdu?" /\ t \in {[r2[c].todo EXCEPT ![1] = "pdu"], Send!Rest(c)}
  BY DEF Send!AskMode, Send!AskPdu, Send!Turn
<1>2. /\ UNCHANGED <<r1, r3, r4, r5, r6, r7>>
      /\ r7' \in 0..Size.send.sends /\ r8' \in 0..Size.send.failed
  <2>1. /\ UNCHANGED <<r1, r3, r4, r5, r6, r7>>
        /\ r8' \in {r8, r8 - 1} /\ (r8' # r8 => r8 > 0)
    BY DEF Send!AskMode, Send!AskPdu, Send!Fails
  <2> QED BY <2>1, SendCounts
<1>3. r2[c].told # "failed"
  BY <1>1, SendTypes, SendFailedLists DEF Send!Cmd
<1>4. /\ Send!ToGo(c) \in 0..2 /\ t \in Send!ToSubmit(Send!ToGo(c)) /\ r2[c].todo \notin Send!PutsBack
  <2>1. CASE r2[c].todo = <<"mode">> /\ r2[c].next = 1
    <3>1. Send!Cmd(c) = "mode" /\ Send!ToGo(c) = Send!Parts(r2[c].kind)
      BY <2>1, SendFailedLists, SendFirstLists, SendTypes DEF Send!Cmd, Send!ToGo
    <3> QED BY <1>1, <2>1, <3>1, SendFirstLists, SendTypes, SendFailedLists
  <2>2. CASE Send!ToGo(c) \in 0..2 /\ r2[c].todo \in Send!ToSubmit(Send!ToGo(c))
    BY <1>1, <2>2, SendLists DEF Send!Cmd, Send!Rest
  <2> QED BY <1>1, <1>3, <2>1, <2>2 DEF Send!SendInv, Send!ChainOK
<1>5. /\ \A d \in Size.send.chains : d # c => r2'[d] = r2[d]
      /\ DOMAIN r2' = Size.send.chains /\ \A d \in Size.send.chains : Send!ChainOK(d)' /\ Send!PartsSent(d)'
      /\ \A d \in Size.send.chains : r2'[d].at \in {"idle", "run", "wait", "told"}
      /\ Send!OnePerPage'
  BY <1>1, <1>2, <1>3, <1>4, SendRuns
<1>6. Send!CharsetComesBack'
  BY <1>2, <1>4, <1>5, SendCharset
<1> QED BY <1>2, <1>5, <1>6 DEF Send!SendInv, Send!SendTypeOK

\* A command that sets something is answered.
LEMMA SendSets ==
  ASSUME Send!SendBounds, Send!SendInv, NEW c \in Size.send.chains, Send!Set(c)
  PROVE  Send!SendInv'
<1>1. /\ r2[c].at = "run" /\ r2[c].todo # <<>> /\ Send!Goes(c, Send!Rest(c))
      /\ Send!Cmd(c) \in {"pdu", "text", "ucs2", "ira", "csca"}
      /\ UNCHANGED <<r1, r5, r7>>
  BY DEF Send!Set
<1>2. /\ \/ /\ r3' \in {0, 1}
            /\ r4' = (CASE Send!Cmd(c) = "ucs2" -> "UCS2" [] Send!Cmd(c) = "ira" -> "IRA" [] OTHER -> r4)
            /\ UNCHANGED r6
         \/ /\ r6' = (r6 \/ Send!Cmd(c) = "ira") /\ UNCHANGED <<r3, r4>>
  BY DEF Send!Set, Send!SendInv, Send!SendTypeOK
<1>3. r7' \in 0..Size.send.sends /\ r8' \in 0..Size.send.failed
  <2>1. r8' \in {r8, r8 - 1} /\ (r8' # r8 => r8 > 0)
    BY DEF Send!Set, Send!Fails
  <2> QED BY <1>1, <2>1, SendCounts
<1>4. /\ r2[c].told = "failed" => Send!Rest(c) = <<>> /\ Send!Cmd(c) = "ira"
      /\ r2[c].told # "failed" => Send!ToGo(c) \in 0..2 /\ Send!Rest(c) \in Send!ToSubmit(Send!ToGo(c))
      /\ Send!Cmd(c) = "ucs2" => Send!Rest(c) \in Send!PutsBack
      /\ r2[c].todo \in Send!PutsBack /\ Send!Cmd(c) # "ira" => Send!Rest(c) \in Send!PutsBack
  <2>1. CASE r2[c].told = "failed"
    BY <1>1, <2>1, SendTypes, SendFailedLists DEF Send!Cmd, Send!Rest
  <2>2. CASE r2[c].told # "failed"
    <3>1. Send!ToGo(c) \in 0..2 /\ r2[c].todo \in Send!ToSubmit(Send!ToGo(c))
      BY <1>1, <2>2, SendFailedLists DEF Send!SendInv, Send!ChainOK, Send!Cmd
    <3> QED BY <1>1, <2>2, <3>1, SendLists DEF Send!Cmd, Send!Rest
  <2> QED BY <2>1, <2>2
<1>5. /\ r2'[c].todo = Send!Rest(c) /\ \A d \in Size.send.chains : d # c => r2'[d] = r2[d]
      /\ DOMAIN r2' = Size.send.chains /\ \A d \in Size.send.chains : Send!ChainOK(d)' /\ Send!PartsSent(d)'
      /\ \A d \in Size.send.chains : r2'[d].at \in {"idle", "run", "wait", "told"}
      /\ Send!OnePerPage'
  BY <1>1, <1>4, SendRuns
<1>6. Send!CharsetComesBack'
  <2>1. CASE Send!Cmd(c) = "ira"
    BY <1>2, <2>1 DEF Send!CharsetComesBack
  <2>2. CASE Send!Cmd(c) = "ucs2"
    BY <1>4, <1>5, <2>2 DEF Send!CharsetComesBack
  <2>3. CASE Send!Cmd(c) \notin {"ira", "ucs2"}
    <3>1. r6 \in BOOLEAN
      BY DEF Send!SendInv
    <3>2. UNCHANGED <<r4, r6>>
      BY <1>2, <2>3, <3>1
    <3> QED BY <1>4, <1>5, <2>3, <3>2, SendCharset
  <2> QED BY <2>1, <2>2, <2>3
<1>7. r3' \in {0, 1} /\ r4' \in {"IRA", "UCS2"}
  BY <1>2 DEF Send!SendInv, Send!SendTypeOK
<1>8. r1' \subseteq Size.send.pages /\ r5' \in Send!JobType
  BY <1>1 DEF Send!SendInv, Send!SendTypeOK
<1>9. r6' \in BOOLEAN
  BY <1>2 DEF Send!SendInv
<1> QED BY <1>3, <1>5, <1>6, <1>7, <1>8, <1>9 DEF Send!SendInv, Send!SendTypeOK

\* A send begins.
LEMMA SendAnew ==
  ASSUME Send!SendBounds, Send!SendInv, NEW c \in Size.send.chains, NEW p \in Size.send.pages,
         NEW k \in Send!Kinds, Send!Send(c, p, k)
  PROVE  Send!SendInv'
<1>1. /\ r2[c] = Send!Idle /\ p \notin r1 /\ r1' = r1 \union {p}
      /\ r2'[c] = [Send!Idle EXCEPT !.at = "run", !.page = p, !.kind = k, !.todo = <<"mode">>]
      /\ DOMAIN r2' = Size.send.chains /\ \A d \in Size.send.chains : d # c => r2'[d] = r2[d]
      /\ UNCHANGED <<r3, r4, r5, r6, r8>>
  BY DEF Send!Send, Send!MaySend, Send!SendInv, Send!ChainOK
<1>2. r7' \in 0..Size.send.sends /\ r8' \in 0..Size.send.failed
  BY SendCounts DEF Send!Send
<1>3. /\ r2'[c] \in Send!ChainType /\ r2'[c].at = "run" /\ r2'[c].page = p
      /\ r2'[c].todo = <<"mode">> /\ r2'[c].next = 1 /\ r2'[c].sent = {} /\ r2'[c].told = "none"
  <2>1. r2'[c] = [at |-> "run", page |-> p, kind |-> k, todo |-> <<"mode">>, next |-> 1,
                     sent |-> {}, mixed |-> FALSE, told |-> "none"]
    BY <1>1 DEF Send!Idle
  <2>2. 1 \in 1..3 /\ {} \in SUBSET (1..2) /\ FALSE \in BOOLEAN
    OBVIOUS
  <2>3. r2'[c] \in Send!ChainType
    BY <2>1, <2>2, SendFailedLists DEF Send!ChainType
  <2> QED BY <2>1, <2>3
<1>4. Send!ChainOK(c)' /\ Send!PartsSent(c)'
  <2>1. r2[c].at = "idle"
    BY <1>1 DEF Send!Idle
  <2>2. r5.of # c
    BY <2>1, SendParts DEF Send!PartsSent
  <2>3. Send!ChainOK(c)'
    BY <1>1, <1>3 DEF Send!ChainOK
  <2>4. r5'.of # c
    BY <1>1, <2>2
  <2>5. 1..(1 - 1) = {}
    OBVIOUS
  <2> QED BY <1>3, <2>3, <2>4, <2>5 DEF Send!PartsSent
<1>5. \A d \in Size.send.chains : Send!ChainOK(d)' /\ Send!PartsSent(d)'
  BY <1>1, <1>4, SendOther, SendTypes
<1>6. Send!OnePerPage'
  <2>1. \A d \in Size.send.chains : d # c /\ r2[d].at # "idle" => r2[d].page # p
    BY <1>1, SendTypes
  <2>2. ASSUME NEW d \in Size.send.chains, NEW e \in Size.send.chains, r2'[d].at # "idle", r2'[e].at # "idle",
               r2'[d].page = r2'[e].page
        PROVE  d = e
    <3>1. CASE d # c /\ e # c
      BY <1>1, <2>2, <3>1 DEF Send!SendInv, Send!OnePerPage
    <3>2. CASE d = c /\ e # c
      <4>1. r2'[e] = r2[e]
        BY <1>1, <3>2
      <4> QED BY <1>3, <2>1, <2>2, <3>2, <4>1
    <3>3. CASE d # c /\ e = c
      <4>1. r2'[d] = r2[d]
        BY <1>1, <3>3
      <4> QED BY <1>3, <2>1, <2>2, <3>3, <4>1
    <3> QED BY <3>1, <3>2, <3>3
  <2> QED BY <2>2 DEF Send!OnePerPage
<1>7. Send!CharsetComesBack'
  <2>1. r2[c].todo \notin Send!PutsBack
    BY <1>1, SendFailedLists DEF Send!Idle
  <2>2. \A d \in Size.send.chains : r2[d].todo \in Send!PutsBack => r2'[d].todo \in Send!PutsBack
    BY <1>1, <2>1
  <2> QED BY <1>1, <2>2, SendCharset
<1>8. \A d \in Size.send.chains : r2'[d].at \in {"idle", "run", "wait", "told"}
  BY <1>1, <1>3, SendTypes
<1> QED BY <1>1, <1>2, <1>5, <1>6, <1>7, <1>8 DEF Send!SendInv, Send!SendTypeOK

\* A send that has failed.
LEMMA SendGivesUp ==
  ASSUME Send!SendInv, NEW c \in Size.send.chains, r2[c].at # "idle", Send!Failed(c),
         UNCHANGED <<r1, r3, r4, r5, r6>>,
         r7' \in 0..Size.send.sends /\ r8' \in 0..Size.send.failed
  PROVE  Send!SendInv'
<1>1. /\ r2'[c] = [r2[c] EXCEPT !.at = "run", !.todo = Send!AfterFailure(c), !.told = "failed"]
      /\ DOMAIN r2' = Size.send.chains /\ \A d \in Size.send.chains : d # c => r2'[d] = r2[d]
  BY DEF Send!Failed, Send!SendInv
<1>2. Send!AfterFailure(c) = IF r2[c].todo \in Send!PutsBack THEN <<"ira">> ELSE <<>>
  BY SendHasIra, SendTypes DEF Send!AfterFailure
<1>3. Send!AfterFailure(c) \in Send!Lists
  BY <1>2, SendFailedLists
<1>4. /\ r2'[c] \in Send!ChainType /\ r2'[c].at = "run" /\ r2'[c].page = r2[c].page
      /\ r2'[c].todo = Send!AfterFailure(c) /\ r2'[c].next = r2[c].next /\ r2'[c].told = "failed"
  <2>1. r2[c] \in Send!ChainType
    BY SendTypes
  <2> QED BY <1>1, <1>3, <2>1 DEF Send!ChainType
<1>5. Send!ChainOK(c)' /\ Send!PartsSent(c)'
  <2>1. Send!ChainOK(c)'
    BY <1>2, <1>4, SendTypes DEF Send!ChainOK
  <2> QED BY <1>4, <2>1, SendParts DEF Send!PartsSent
<1>6. \A d \in Size.send.chains : Send!ChainOK(d)' /\ Send!PartsSent(d)'
  BY <1>1, <1>5, SendOther, SendTypes
<1>7. \A d \in Size.send.chains : /\ r2'[d].page = r2[d].page /\ (r2'[d].at = "idle" <=> r2[d].at = "idle")
                                  /\ r2'[d].at \in {"idle", "run", "wait", "told"}
  BY <1>1, <1>4, SendTypes
<1>8. Send!CharsetComesBack'
  BY <1>1, <1>2, <1>4, SendCharset, SendFailedLists
<1> QED BY <1>1, <1>6, <1>7, <1>8, SendSame DEF Send!SendInv, Send!SendTypeOK

\* A part is given to the service.
LEMMA SendSubmits ==
  ASSUME Send!SendBounds, Send!SendInv, NEW c \in Size.send.chains, Send!Submit(c)
  PROVE  Send!SendInv'
<1>1. /\ r2[c].at = "run" /\ r2[c].todo # <<>> /\ Send!Cmd(c) = "submit"
      /\ UNCHANGED <<r1, r3, r4, r6, r7>>
  BY DEF Send!Submit, Send!Turn
<1>2. r7' \in 0..Size.send.sends /\ r8' \in 0..Size.send.failed
  <2>1. r8' \in {r8, r8 - 1} /\ (r8' # r8 => r8 > 0)
    BY DEF Send!Submit, Send!Fails
  <2> QED BY <1>1, <2>1, SendCounts
<1>3. CASE UNCHANGED r5 /\ Send!Failed(c)
  BY <1>1, <1>2, <1>3, SendGivesUp
<1>4. CASE /\ ~r5.on
           /\ r5' = [on |-> TRUE, of |-> c, part |-> r2[c].next, ok |-> FALSE]
           /\ r2' = [d \in Size.send.chains |->
                 IF d = c THEN [r2[c] EXCEPT !.at = "wait", !.todo = Send!Rest(c),
                                               !.next = r2[c].next + 1]
                 ELSE IF r2[d].at = "wait"
                 THEN [r2[d] EXCEPT !.mixed = @ \/ r2[d].page # r2[c].page]
                 ELSE r2[d]]
  <2>1. /\ r2[c].told = "none"
        /\ Send!ToGo(c) \in 1..2 /\ Send!Rest(c) \in Send!ToSubmit(Send!ToGo(c) - 1) /\ Send!Rest(c) \in Send!Lists
        /\ r2[c].todo \in Send!PutsBack => Send!Rest(c) \in Send!PutsBack
    <3>1. r2[c].told = "none"
      BY <1>1, SendTypes, SendFailedLists DEF Send!Cmd
    <3>2. Send!ToGo(c) \in 0..2 /\ r2[c].todo \in Send!ToSubmit(Send!ToGo(c))
      BY <1>1, <3>1, SendFailedLists DEF Send!SendInv, Send!ChainOK, Send!Cmd
    <3>3. Send!ToGo(c) - 1 \in 0..2 /\ Send!Rest(c) \in Send!ToSubmit(Send!ToGo(c) - 1)
      BY <1>1, <3>2, SendLists DEF Send!Cmd, Send!Rest
    <3>4. Send!Rest(c) \in Send!Lists
      BY <3>3, SendAllLists
    <3>5. r2[c].todo \in Send!PutsBack => Send!Rest(c) \in Send!PutsBack
      BY <1>1, <3>2, SendLists DEF Send!Cmd, Send!Rest
    <3> QED BY <3>1, <3>2, <3>3, <3>4, <3>5
  <2>2. r2[c].next + 1 \in 1..3
    BY <2>1, SendTypes, SendFirstLists DEF Send!ToGo
  <2>3. /\ r2'[c] \in Send!ChainType /\ r2'[c].at = "wait" /\ r2'[c].page = r2[c].page
        /\ r2'[c].kind = r2[c].kind /\ r2'[c].todo = Send!Rest(c)
        /\ r2'[c].next = r2[c].next + 1 /\ r2'[c].sent = r2[c].sent
        /\ r2'[c].mixed = r2[c].mixed /\ r2'[c].told = r2[c].told
    <3>1. r2'[c] = [r2[c] EXCEPT !.at = "wait", !.todo = Send!Rest(c), !.next = r2[c].next + 1]
      BY <1>4
    <3> QED BY <2>1, <2>2, <3>1, SendTypes DEF Send!ChainType
  <2>4. \A d \in Size.send.chains : d # c /\ r2[d].at # "wait" => r2'[d] = r2[d]
    BY <1>4
  <2>5. ASSUME NEW d \in Size.send.chains, d # c, r2[d].at = "wait"
        PROVE  /\ r2'[d] \in Send!ChainType /\ r2'[d].at = "wait" /\ r2'[d].page = r2[d].page
               /\ r2'[d].kind = r2[d].kind /\ r2'[d].todo = r2[d].todo
               /\ r2'[d].next = r2[d].next /\ r2'[d].sent = r2[d].sent
               /\ r2'[d].mixed = TRUE /\ r2'[d].told = r2[d].told
    <3>1. r2[d].page # r2[c].page
      BY <1>1, <2>5 DEF Send!SendInv, Send!OnePerPage
    <3>2. r2'[d] = [r2[d] EXCEPT !.mixed = (r2[d].mixed \/ r2[d].page # r2[c].page)]
      BY <1>4, <2>5
    <3>3. r2'[d] = [r2[d] EXCEPT !.mixed = TRUE]
      BY <3>1, <3>2
    <3> QED BY <2>5, <3>3, SendTypes DEF Send!ChainType
  <2>6. Send!ChainOK(c)' /\ Send!PartsSent(c)'
    <3>1. Send!ToGo(c)' = Send!ToGo(c) - 1
      BY <2>1, <2>3, SendTypes, SendFirstLists DEF Send!ToGo
    <3>2. Send!ChainOK(c)'
      BY <1>1, <2>1, <2>3, <3>1, SendTypes DEF Send!ChainOK
    <3>3. ~r2[c].mixed => r2[c].sent = 1..(r2[c].next - 1)
      BY <1>1, <2>1, SendParts DEF Send!PartsSent
    <3>4. ~r2[c].mixed => r2[c].sent \union {r2[c].next} = 1..r2[c].next
      BY <3>3, SendTypes
    <3>5. r5'.of = c /\ r5'.part = r2[c].next /\ r5'.ok = FALSE
      BY <1>4
    <3>6. r5'.part \in 1..(r2'[c].next - 1) /\ r5'.part = r2'[c].next - 1
      BY <2>3, <3>5, SendTypes
    <3>7. Send!PartsSent(c)'
      BY <2>3, <3>4, <3>5, <3>6 DEF Send!PartsSent
    <3> QED BY <3>2, <3>7
  <2>7. ASSUME NEW d \in Size.send.chains, d # c PROVE Send!ChainOK(d)' /\ Send!PartsSent(d)'
    <3>1. r5'.of # d
      BY <1>4, <2>7
    <3>2. CASE r2[d].at = "wait"
      <4>1. Send!ToGo(d)' = Send!ToGo(d)
        BY <2>5, <2>7, <3>2 DEF Send!ToGo
      <4>2. Send!ChainOK(d)'
        <5>1. Send!ChainOK(d)
          BY DEF Send!SendInv
        <5> QED BY <1>1, <2>5, <2>7, <3>2, <4>1, <5>1 DEF Send!ChainOK
      <4> QED BY <2>5, <2>7, <3>1, <3>2, <4>2 DEF Send!PartsSent
    <3>3. CASE r2[d].at # "wait"
      <4>1. r2'[d] = r2[d]
        BY <2>4, <2>7, <3>3
      <4>2. Send!ChainOK(d)'
        BY <1>1, <4>1 DEF Send!SendInv, Send!ChainOK, Send!ToGo
      <4> QED BY <3>1, <3>3, <4>1, <4>2, SendParts DEF Send!PartsSent
    <3> QED BY <3>2, <3>3
  <2>8. \A d \in Size.send.chains : /\ r2'[d].page = r2[d].page /\ (r2'[d].at = "idle" <=> r2[d].at = "idle")
                                    /\ r2'[d].at \in {"idle", "run", "wait", "told"}
                                    /\ d # c => r2'[d].todo = r2[d].todo
    BY <1>1, <2>3, <2>4, <2>5, SendTypes
  <2>9. Send!CharsetComesBack'
    <3>1. \A d \in Size.send.chains : r2[d].todo \in Send!PutsBack => r2'[d].todo \in Send!PutsBack
      BY <2>1, <2>3, <2>8
    <3> QED BY <1>1, <3>1, SendCharset
  <2>10. r5' \in Send!JobType /\ DOMAIN r2' = Size.send.chains
    BY <1>4, SendTypes DEF Send!JobType
  <2>11. Send!OnePerPage' /\ Send!SendTypeOK'
    BY <1>1, <1>2, <2>8, SendSame DEF Send!SendInv, Send!SendTypeOK
  <2>12. \A d \in Size.send.chains : Send!ChainOK(d)' /\ Send!PartsSent(d)'
    BY <2>6, <2>7
  <2> QED BY <1>1, <2>9, <2>10, <2>11, <2>12 DEF Send!SendInv
<1> QED BY <1>3, <1>4 DEF Send!Submit

\* The job of the service ends.
LEMMA SendJobEnds ==
  ASSUME Send!SendBounds, Send!SendInv, Send!JobEnds
  PROVE  Send!SendInv'
<1>1. PICK ok \in BOOLEAN :
        /\ r5.on /\ r5' = [r5 EXCEPT !.on = FALSE, !.ok = ok]
        /\ r2' = IF ok /\ r5.of # 0
                    THEN [r2 EXCEPT ![r5.of].sent = @ \union {r5.part}] ELSE r2
        /\ r8' \in {r8, r8 - 1} /\ (r8' # r8 => r8 > 0)
  BY DEF Send!JobEnds, Send!Fails
<1>2. /\ UNCHANGED <<r1, r3, r4, r6, r7>> /\ r7' \in 0..Size.send.sends /\ r8' \in 0..Size.send.failed
  <2>1. UNCHANGED <<r1, r3, r4, r6, r7>>
    BY DEF Send!JobEnds
  <2> QED BY <1>1, <2>1, SendCounts
<1>3. /\ r5 \in Send!JobType /\ r5' \in Send!JobType
      /\ r5'.on = FALSE /\ r5'.of = r5.of /\ r5'.part = r5.part /\ r5'.ok = ok
  BY <1>1 DEF Send!SendInv, Send!JobType
<1>4. ASSUME NEW d \in Size.send.chains, r5.of = d
      PROVE  r5.part \in 1..2 /\ r5.part \in 1..(r2[d].next - 1) /\ r2[d].at # "idle"
  BY <1>4, SendTypes, SendParts DEF Send!PartsSent
<1>5. DOMAIN r2' = Size.send.chains
  BY <1>1 DEF Send!SendInv
<1>6. ASSUME NEW d \in Size.send.chains, ~(ok /\ d = r5.of)
      PROVE  r2'[d] = r2[d]
  BY <1>1, <1>6 DEF Send!SendInv
<1>7. ASSUME NEW d \in Size.send.chains, ok, d = r5.of
      PROVE  /\ r2'[d] \in Send!ChainType /\ r2'[d].at = r2[d].at /\ r2'[d].page = r2[d].page
             /\ r2'[d].kind = r2[d].kind /\ r2'[d].todo = r2[d].todo
             /\ r2'[d].next = r2[d].next /\ r2'[d].sent = r2[d].sent \union {r5.part}
             /\ r2'[d].mixed = r2[d].mixed /\ r2'[d].told = r2[d].told
  <2>1. d # 0
    BY DEF Send!SendBounds
  <2>2. r2'[d] = [r2[d] EXCEPT !.sent = r2[d].sent \union {r5.part}]
    BY <1>1, <1>7, <2>1 DEF Send!SendInv
  <2>3. r2[d].sent \union {r5.part} \subseteq 1..2
    BY <1>4, <1>7, SendTypes
  <2>4. r2[d] \in Send!ChainType
    BY SendTypes
  <2> QED BY <2>2, <2>3, <2>4 DEF Send!ChainType
<1>8. ASSUME NEW d \in Size.send.chains PROVE Send!ChainOK(d)' /\ Send!PartsSent(d)'
  <2>1. CASE ~(ok /\ d = r5.of)
    <3>1. Send!ChainOK(d)'
      BY <1>2, <1>6, <2>1 DEF Send!SendInv, Send!ChainOK, Send!ToGo
    <3> QED BY <1>1, <1>3, <1>6, <2>1, <3>1, SendParts DEF Send!PartsSent
  <2>2. CASE ok /\ d = r5.of
    <3>1. Send!ToGo(d)' = Send!ToGo(d)
      BY <1>7, <2>2 DEF Send!ToGo
    <3>2. Send!ChainOK(d)'
      BY <1>2, <1>4, <1>7, <2>2, <3>1 DEF Send!SendInv, Send!ChainOK
    <3>3. Send!PartsSent(d)'
      BY <1>1, <1>3, <1>7, <2>2, SendParts DEF Send!PartsSent
    <3> QED BY <3>2, <3>3
  <2> QED BY <2>1, <2>2
<1>9. \A d \in Size.send.chains : /\ r2'[d].page = r2[d].page /\ r2'[d].at = r2[d].at
                                  /\ r2'[d].todo = r2[d].todo
  BY <1>6, <1>7
<1>10. Send!OnePerPage' /\ Send!CharsetComesBack'
  BY <1>2, <1>9, SendCharset, SendSame, SendTypes
<1> QED BY <1>2, <1>3, <1>5, <1>8, <1>9, <1>10, SendTypes DEF Send!SendInv, Send!SendTypeOK

\* The page sees that it has ended.
LEMMA SendPolls ==
  ASSUME Send!SendBounds, Send!SendInv, NEW c \in Size.send.chains, Send!Poll(c)
  PROVE  Send!SendInv'
<1>1. r2[c].at = "wait" /\ UNCHANGED <<r1, r3, r4, r5, r6, r7>>
  BY DEF Send!Poll
<1>2. r7' \in 0..Size.send.sends /\ r8' \in 0..Size.send.failed
  <2>1. r8' \in {r8, r8 - 1} /\ (r8' # r8 => r8 > 0)
    BY DEF Send!Poll, Send!Fails
  <2> QED BY <1>1, <2>1, SendCounts
<1>3. CASE Send!Failed(c)
  BY <1>1, <1>2, <1>3, SendGivesUp
<1>4. CASE ~r5.on /\ r5.ok /\ r2' = [r2 EXCEPT ![c].at = "run"]
  <2>1. /\ r2'[c] = [r2[c] EXCEPT !.at = "run"]
        /\ DOMAIN r2' = Size.send.chains /\ \A d \in Size.send.chains : d # c => r2'[d] = r2[d]
    BY <1>4 DEF Send!SendInv
  <2>2. /\ r2'[c] \in Send!ChainType /\ r2'[c].at = "run" /\ r2'[c].page = r2[c].page
        /\ r2'[c].kind = r2[c].kind /\ r2'[c].todo = r2[c].todo
        /\ r2'[c].next = r2[c].next /\ r2'[c].sent = r2[c].sent
        /\ r2'[c].mixed = r2[c].mixed /\ r2'[c].told = r2[c].told
    BY <2>1, SendTypes DEF Send!ChainType
  <2>3. Send!ToGo(c)' = Send!ToGo(c)
    BY <2>2 DEF Send!ToGo
  <2>4. Send!ChainOK(c)'
    <3>1. Send!ChainOK(c)
      BY DEF Send!SendInv
    <3> QED BY <1>1, <2>2, <2>3, <3>1 DEF Send!ChainOK
  <2>5. r2[c].told # "failed" /\ ~r2[c].mixed => r2[c].sent = 1..(r2[c].next - 1)
    BY <1>1, <1>4, SendParts DEF Send!PartsSent
  <2>6. Send!PartsSent(c)'
    BY <1>1, <1>4, <2>2, <2>5, SendParts DEF Send!PartsSent
  <2>7. \A d \in Size.send.chains : Send!ChainOK(d)' /\ Send!PartsSent(d)'
    BY <1>1, <2>1, <2>4, <2>6, SendOther, SendTypes
  <2>8. \A d \in Size.send.chains : /\ r2'[d].page = r2[d].page /\ (r2'[d].at = "idle" <=> r2[d].at = "idle")
                                    /\ r2'[d].at \in {"idle", "run", "wait", "told"}
                                    /\ r2'[d].todo = r2[d].todo
    BY <1>1, <2>1, <2>2, SendTypes
  <2>9. Send!OnePerPage' /\ Send!CharsetComesBack'
    BY <1>1, <2>8, SendSame, SendCharset
  <2> QED BY <1>1, <1>2, <2>1, <2>7, <2>8, <2>9 DEF Send!SendInv, Send!SendTypeOK
<1> QED BY <1>3, <1>4 DEF Send!Poll

\* The end of a send.
LEMMA SendEndsUp ==
  ASSUME Send!SendBounds, Send!SendInv, NEW c \in Size.send.chains, Send!Ends(c)
  PROVE  Send!SendInv'
<1>1. /\ r2[c].at = "run" /\ r2[c].todo = <<>>
      /\ UNCHANGED <<r1, r3, r4, r5, r6, r7, r8>>
      /\ r2' = [r2 EXCEPT ![c].at = "told",
                     ![c].told = IF @ = "failed" THEN "failed" ELSE "sent"]
  BY DEF Send!Ends
<1>2. /\ r2'[c] = [r2[c] EXCEPT !.at = "told", !.told = IF @ = "failed" THEN "failed" ELSE "sent"]
      /\ DOMAIN r2' = Size.send.chains /\ \A d \in Size.send.chains : d # c => r2'[d] = r2[d]
  BY <1>1 DEF Send!SendInv
<1>3. /\ r2'[c] \in Send!ChainType /\ r2'[c].at = "told" /\ r2'[c].page = r2[c].page
      /\ r2'[c].kind = r2[c].kind /\ r2'[c].todo = r2[c].todo
      /\ r2'[c].next = r2[c].next /\ r2'[c].sent = r2[c].sent
      /\ r2'[c].mixed = r2[c].mixed
      /\ r2'[c].told = IF r2[c].told = "failed" THEN "failed" ELSE "sent"
  BY <1>2, SendTypes DEF Send!ChainType
<1>4. Send!ToGo(c)' = Send!ToGo(c) /\ r2[c].todo # <<"mode">>
  BY <1>1, <1>3, SendFailedLists DEF Send!ToGo
<1>5. Send!ChainOK(c)' /\ Send!PartsSent(c)'
  <2>1. Send!ChainOK(c) /\ Send!PartsSent(c)
    BY DEF Send!SendInv
  <2>2. /\ r2[c].page \in r1 /\ r2'[c].told # "none" /\ r2[c].todo = <<>> /\ r1' = r1
        /\ r2'[c].told # "failed" => r2[c].told # "failed"
    BY <1>1, <1>3, <2>1 DEF Send!ChainOK
  <2>3. Send!ChainOK(c)'
    BY <1>1, <1>3, <1>4, <2>1, <2>2 DEF Send!ChainOK
  <2>4. Send!PartsSent(c)'
    BY <1>1, <1>3, <2>1 DEF Send!PartsSent
  <2> QED BY <2>3, <2>4
<1>6. \A d \in Size.send.chains : Send!ChainOK(d)' /\ Send!PartsSent(d)'
  BY <1>1, <1>2, <1>5, SendOther, SendTypes
<1>7. \A d \in Size.send.chains : /\ r2'[d].page = r2[d].page /\ (r2'[d].at = "idle" <=> r2[d].at = "idle")
                                  /\ r2'[d].at \in {"idle", "run", "wait", "told"}
                                  /\ r2'[d].todo = r2[d].todo
  BY <1>1, <1>2, <1>3, SendTypes
<1>8. Send!OnePerPage' /\ Send!CharsetComesBack'
  BY <1>1, <1>7, SendSame, SendCharset
<1> QED BY <1>1, <1>2, <1>6, <1>7, <1>8 DEF Send!SendInv, Send!SendTypeOK

\* The message that was sent is recorded.
LEMMA SendRecords ==
  ASSUME Send!SendBounds, Send!SendInv, NEW c \in Size.send.chains, Send!Recorded(c)
  PROVE  Send!SendInv'
<1>1. /\ r2[c].at = "told" /\ r1' = r1 \ {r2[c].page}
      /\ r2' = [r2 EXCEPT ![c] = Send!Idle]
      /\ r5' = IF r5.of = c THEN [r5 EXCEPT !.of = 0] ELSE r5
      /\ UNCHANGED <<r3, r4, r6, r7, r8>>
  BY DEF Send!Recorded, Send!Lowers
<1>2. /\ r2'[c] = Send!Idle
      /\ DOMAIN r2' = Size.send.chains /\ \A d \in Size.send.chains : d # c => r2'[d] = r2[d]
  BY <1>1 DEF Send!SendInv
<1>3. /\ r5' \in Send!JobType /\ r5'.on = r5.on /\ r5'.part = r5.part /\ r5'.ok = r5.ok
      /\ \A d \in Size.send.chains : r5'.of = d <=> (r5.of = d /\ d # c)
  BY <1>1 DEF Send!SendInv, Send!JobType, Send!SendBounds
<1>4. Send!ChainOK(c)' /\ Send!PartsSent(c)'
  <2>1. Send!Idle \in Send!ChainType /\ Send!Idle.at = "idle" /\ Send!Idle.sent = {} /\ Send!Idle.next = 1 /\ Send!Idle.told = "none"
    BY SendFailedLists DEF Send!Idle, Send!ChainType, Send!Kinds
  <2>2. Send!ChainOK(c)'
    BY <1>2, <2>1 DEF Send!ChainOK
  <2>3. 1..(1 - 1) = {} /\ r5'.of # c
    BY <1>3
  <2> QED BY <1>2, <2>1, <2>2, <2>3 DEF Send!PartsSent
<1>5. ASSUME NEW d \in Size.send.chains, d # c PROVE Send!ChainOK(d)' /\ Send!PartsSent(d)'
  <2>1. r2[d].at # "idle" => r2[d].page # r2[c].page
    BY <1>1, <1>5 DEF Send!SendInv, Send!OnePerPage
  <2>2. r2[d].at # "idle" => r2[d].page \in r1'
    BY <1>1, <2>1, SendTypes
  <2> QED BY <1>2, <1>3, <1>5, <2>2, SendOther
<1>6. Send!OnePerPage' /\ \A d \in Size.send.chains : r2'[d].at \in {"idle", "run", "wait", "told"}
  <2>1. r2'[c].at = "idle"
    BY <1>2 DEF Send!Idle
  <2> QED BY <1>2, <2>1, SendTypes DEF Send!SendInv, Send!OnePerPage
<1>7. Send!CharsetComesBack'
  <2>1. r2[c].todo = <<>>
    BY <1>1 DEF Send!SendInv, Send!ChainOK
  <2> QED BY <1>1, <1>2, <2>1, SendCharset, SendFailedLists
<1> QED BY <1>1, <1>2, <1>3, <1>4, <1>5, <1>6, <1>7 DEF Send!SendInv, Send!SendTypeOK

\* Every step keeps it.
LEMMA SendKept == ASSUME Send!SendBounds, Send!SendInv, Send!Next PROVE Send!SendInv'
BY SendAnew, SendAsks, SendSets, SendSubmits, SendPolls, SendEndsUp, SendRecords, SendJobEnds
   DEF Send!Next, Send!Moves

\* It speaks of nothing but the variables of the machine.
LEMMA SendStutters ==
  ASSUME Send!SendInv, UNCHANGED <<r1, r2, r3, r4, r5, r6, r7, r8>>
  PROVE  Send!SendInv'
BY DEF Send!SendTypeOK, Send!ToGo, Send!ChainType, Send!ChainOK, Send!PartsSent, Send!OnePerPage,
       Send!CharsetComesBack,
       Send!SendInv

\* What it says.
LEMMA SendHolds ==
  ASSUME Send!SendInv
  PROVE  Send!SendTypeOK /\ Send!CharsetRestored /\ Send!SuccessIsSent
<1>1. Send!CharsetRestored
  <2> SUFFICES ASSUME \A c \in Size.send.chains : r2[c].at = "idle", ~r6, r4 # "IRA" PROVE FALSE
    BY DEF Send!CharsetRestored
  <2>1. PICK c \in Size.send.chains : r2[c].todo \in Send!PutsBack
    BY DEF Send!SendInv, Send!SendTypeOK, Send!CharsetComesBack
  <2> QED BY <2>1, SendTypes, SendFailedLists
<1>2. Send!SuccessIsSent
  <2> SUFFICES ASSUME NEW c \in Size.send.chains, r2[c].told = "sent", ~r2[c].mixed
               PROVE  r2[c].sent = 1..Send!Parts(r2[c].kind)
    BY DEF Send!SuccessIsSent
  <2>1. r2[c].at = "told" /\ r2[c].todo = <<>>
    BY DEF Send!SendInv, Send!ChainOK
  <2>2. Send!ToGo(c) \in 0..2 /\ <<>> \in Send!ToSubmit(Send!ToGo(c))
    BY <2>1, SendFailedLists DEF Send!SendInv, Send!ChainOK
  <2>3. Send!ToGo(c) = 0
    <3>1. <<>> \notin Send!ToSubmit(1) /\ <<>> \notin Send!ToSubmit(2)
      BY SendOneLeft, SendTwoLeft
    <3> QED BY <2>2, <3>1
  <2>4. r2[c].sent = 1..(r2[c].next - 1)
    BY <2>1, SendParts DEF Send!PartsSent
  <2>5. r2[c].next - 1 = Send!Parts(r2[c].kind)
    BY <2>3, SendTypes, SendFirstLists DEF Send!ToGo
  <2> QED BY <2>4, <2>5
<1> QED BY <1>1, <1>2 DEF Send!SendInv

-----------------------------------------------------------------------------
(* The messages.                                                           *)

Sms == INSTANCE SmsPage WITH
    list <- r1, selected <- r2, named <- r3, upto <- r4, badge <- r5,
    fetches <- r6, asked <- r7, retries <- r8, timer <- r9, deletes <- r10,
    store <- r11, sms <- r12, unseen <- r13, pushes <- r14, seen <- r15,
    due <- r16, overtaken <- r17, wrong <- r18, acts <- r19, replays <- r20,
    fails <- r21,
    Peers <- Size.sms.peers, Senders <- Size.sms.senders,
    Slots <- Size.sms.slots, MaxSms <- Size.sms.messages,
    Acts <- Size.sms.acts, Replays <- Size.sms.replays,
    MaxFail <- Size.sms.failed

\* The invariant holds at the start.
LEMMA SmsBegins == ASSUME Sms!SmsBounds, Sms!Init PROVE Sms!SmsInv
<1>1. /\ r1 = {} /\ r6 = {} /\ r14 = {} /\ r5 = {} /\ r16 = {} /\ r12 = <<>> /\ Len(r12) = 0
      /\ r4 = [p \in Size.sms.peers |-> 0] /\ r15 = [p \in Size.sms.peers |-> 0] /\ r11 = [s \in Size.sms.slots |-> 0]
  BY DEF Sms!Init
<1>2. /\ r12 \in Seq([peer : Size.sms.senders, sent : Nat, arrived : Nat, long : BOOLEAN]) /\ 1..0 = {}
      /\ r11 \in [Size.sms.slots -> 0..0]
  BY <1>1
<1>3. Sms!OneSlot /\ Sms!DrawnOnce /\ Sms!ReadStaysRead
  BY <1>1, <1>2 DEF Sms!OneSlot, Sms!DrawnOnce, Sms!NoneTwice, Sms!ReadStaysRead
<1>4. /\ r4 \in [Size.sms.peers -> Nat] /\ r15 = r4
      /\ r1 \subseteq Sms!Entries /\ \A l \in r6 : l \subseteq Sms!Entries /\ Sms!NoneTwice(l)
      /\ r14 \subseteq [id : 1..Len(r12), slots : SUBSET Size.sms.slots]
      /\ \A m \in r14 : r12[m.id].long => m.slots = {}
      /\ \A id \in 1..Len(r12) : r12[id].sent <= r12[id].arrived
  BY <1>1, <1>2
<1> QED BY <1>1, <1>2, <1>3, <1>4 DEF Sms!SmsInv

\* The messages that arrived, and the time.
LEMMA SmsFacts ==
  ASSUME Sms!SmsInv
  PROVE  /\ Len(r12) \in Nat
         /\ \A id \in 1..Len(r12) : /\ r12[id].sent \in Nat /\ r12[id].arrived \in Nat
                                    /\ r12[id].sent <= r12[id].arrived /\ r12[id].long \in BOOLEAN
         /\ Sms!Clock \in Nat
<1>1. r12 \in Seq([peer : Size.sms.senders, sent : Nat, arrived : Nat, long : BOOLEAN]) /\ Len(r12) \in Nat
  BY DEF Sms!SmsInv
<1>2. \A id \in 1..Len(r12) : r12[id] \in [peer : Size.sms.senders, sent : Nat, arrived : Nat, long : BOOLEAN]
  BY <1>1, ElementOfSeq
<1>3. \A id \in 1..Len(r12) : r12[id].sent <= r12[id].arrived
  BY DEF Sms!SmsInv
<1> QED BY <1>1, <1>2, <1>3 DEF Sms!Clock

\* A list that is built has the entries it is built from, and draws no badge that is
\* not due.
LEMMA SmsBuilt ==
  ASSUME Sms!SmsInv, NEW l, l \subseteq Sms!Entries, Sms!NoneTwice(l), Sms!Build(l), r12' = r12
  PROVE  /\ r4' \in [Size.sms.peers -> Nat] /\ r15' = r4' /\ Sms!ReadStaysRead'
         /\ r1' \subseteq Sms!Entries' /\ Sms!DrawnOnce'
         /\ \A m \in r1' : \E o \in l : o.id = m.id /\ o.slots = m.slots
<1>1. r4 \in [Size.sms.peers -> Nat] /\ r15 = r4 /\ Len(r12) \in Nat /\ Sms!Clock \in Nat
  BY SmsFacts DEF Sms!SmsInv
<1>2. r4' \in [Size.sms.peers -> Nat] /\ r15' = r4'
  BY <1>1 DEF Sms!Build
<1>3. Sms!ReadStaysRead'
  <2>1. ASSUME NEW p \in Sms!Badges(l) PROVE p \in r16'
    <3>1. PICK m \in Sms!Of(l, p) : r12[m.id].sent > r4[p]
      BY <2>1 DEF Sms!Badges, Sms!IsUnread, Sms!Newer, Sms!Of
    <3>2. m \in l /\ m.id \in 1..Len(r12)
      BY <3>1 DEF Sms!Of, Sms!Entries
    <3>3. p \in Size.sms.peers /\ r4[p] \in Nat
      BY <1>1, <2>1 DEF Sms!Badges
    <3>4. r12[m.id].arrived > r15[p]
      BY <1>1, <3>1, <3>2, <3>3, SmsFacts
    <3> QED BY <3>1, <3>3, <3>4 DEF Sms!Build
  <2> QED BY <2>1 DEF Sms!Build, Sms!ReadStaysRead
<1>4. ASSUME NEW m \in r1'
      PROVE  \E o \in l : o.id = m.id /\ o.slots = m.slots /\ m \in {o, [o EXCEPT !.unread = FALSE]}
  <2>1. PICK o \in l : m = IF Sms!PeerOf(o.id) = r2 THEN [o EXCEPT !.unread = FALSE] ELSE o
    BY <1>4 DEF Sms!Build
  <2>2. o \in Sms!Entries
    OBVIOUS
  <2>3. [o EXCEPT !.unread = FALSE].id = o.id /\ [o EXCEPT !.unread = FALSE].slots = o.slots
    BY <2>2 DEF Sms!Entries
  <2> QED BY <2>1, <2>3
<1>5. r1' \subseteq Sms!Entries
  BY <1>4 DEF Sms!Entries
<1>6. Sms!Entries' = Sms!Entries
  BY DEF Sms!Entries
<1>7. Sms!DrawnOnce'
  <2>1. ASSUME NEW a \in r1', NEW b \in r1', a.id = b.id PROVE a = b
    <3>1. PICK o \in l : a = IF Sms!PeerOf(o.id) = r2 THEN [o EXCEPT !.unread = FALSE] ELSE o
      BY DEF Sms!Build
    <3>2. PICK q \in l : b = IF Sms!PeerOf(q.id) = r2 THEN [q EXCEPT !.unread = FALSE] ELSE q
      BY DEF Sms!Build
    <3>3. a.id = o.id /\ b.id = q.id
      BY <3>1, <3>2 DEF Sms!Entries
    <3>4. o = q
      BY <2>1, <3>3 DEF Sms!NoneTwice
    <3> QED BY <3>1, <3>2, <3>4
  <2> QED BY <2>1 DEF Sms!DrawnOnce, Sms!NoneTwice
<1> QED BY <1>2, <1>3, <1>4, <1>5, <1>6, <1>7

\* What is drawn after a list was built is in one slot, if it was.
LEMMA SmsKeepsSlot ==
  ASSUME Sms!SmsInv, Sms!OneSlot, r12' = r12, r11' \in [Size.sms.slots -> 0..Len(r12)],
         \A s \in Size.sms.slots : r11'[s] = r11[s] \/ r11'[s] = 0 \/ r12[r11'[s]].long,
         \A m \in r1' \union r14' \union UNION r6' :
            r12[m.id].long \/ (\E o \in r1 \union r14 \union UNION r6 : o.id = m.id /\ o.slots = m.slots)
            \/ (Sms!SlotsOf(m.id) # {} /\ m.slots = Sms!SlotsOf(m.id))
  PROVE  Sms!OneSlot'
<1>1. SUFFICES ASSUME NEW id \in 1..Len(r12), ~r12[id].long
      PROVE  \E s \in Size.sms.slots :
                /\ Sms!SlotsOf(id)' \subseteq {s}
                /\ \A m \in r1' \union r14' \union UNION r6' : m.id = id => m.slots = {s}
  BY DEF Sms!OneSlot
<1>2. PICK s \in Size.sms.slots :
         /\ Sms!SlotsOf(id) \subseteq {s}
         /\ \A m \in r1 \union r14 \union UNION r6 : m.id = id => m.slots = {s}
  BY <1>1 DEF Sms!OneSlot
<1>3. Sms!SlotsOf(id)' \subseteq {s}
  BY <1>1, <1>2, SmsFacts DEF Sms!SlotsOf
<1>4. \A m \in r1' \union r14' \union UNION r6' : m.id = id => m.slots = {s}
  BY <1>1, <1>2
<1> QED BY <1>3, <1>4

\* One entry that joins a list is drawn once, if the entries of its message are the same.
LEMMA SmsMerged ==
  ASSUME NEW l, l \subseteq Sms!Entries, Sms!NoneTwice(l), NEW new \in Sms!Entries,
         \A o \in l : o.id = new.id => Sms!Same(o, new)
  PROVE  /\ Sms!Merged(l, new) \subseteq Sms!Entries /\ Sms!NoneTwice(Sms!Merged(l, new))
         /\ \A m \in Sms!Merged(l, new) : \E o \in l \union {new} : o.id = m.id /\ o.slots = m.slots
<1>1. CASE \A o \in l : ~Sms!Same(o, new)
  <2>1. Sms!Merged(l, new) = l \union {new} /\ \A o \in l : o.id # new.id
    BY <1>1 DEF Sms!Merged
  <2> QED BY <2>1 DEF Sms!NoneTwice
<1>2. CASE \E o \in l : Sms!Same(o, new)
  <2> DEFINE o == CHOOSE x \in l : Sms!Same(x, new)
             r == Sms!Richer(o, new)
  <2>1. o \in l /\ Sms!Same(o, new)
    BY <1>2
  <2> HIDE DEF o
  <2>2. Sms!Merged(l, new) = (l \ {o}) \union {r}
    BY <1>2 DEF Sms!Merged, o
  <2>3. o \in Sms!Entries
    BY <2>1
  <2>4. r \in Sms!Entries /\ r.id = o.id /\ (r.slots = o.slots \/ (r.slots = new.slots /\ new.id = o.id))
    <3>1. CASE o.slots = {} /\ new.slots # {}
      <4>1. r = [new EXCEPT !.unread = o.unread \/ new.unread] /\ o.id = new.id
        BY <2>1, <3>1 DEF Sms!Richer, Sms!Same
      <4> QED BY <2>3, <4>1 DEF Sms!Entries
    <3>2. CASE ~(o.slots = {} /\ new.slots # {})
      <4>1. r = [o EXCEPT !.unread = o.unread \/ new.unread]
        BY <3>2 DEF Sms!Richer
      <4> QED BY <2>3, <4>1 DEF Sms!Entries
    <3> QED BY <3>1, <3>2
  <2> HIDE DEF r
  <2>5. Sms!NoneTwice((l \ {o}) \union {r})
    BY <2>1, <2>4 DEF Sms!NoneTwice
  <2>6. \A m \in (l \ {o}) \union {r} : \E q \in l \union {new} : q.id = m.id /\ q.slots = m.slots
    BY <2>1, <2>4
  <2>7. (l \ {o}) \union {r} \subseteq Sms!Entries
    BY <2>4
  <2> QED BY <2>2, <2>5, <2>6, <2>7
<1> QED BY <1>1, <1>2

\* A push is drawn once, with the slot that the message has everywhere.
LEMMA SmsPushed ==
  ASSUME Sms!SmsInv, r12' = r12, NEW m, m.id \in 1..Len(r12), m.slots \subseteq Size.sms.slots,
         Sms!Pushed(m),
         IF r12[m.id].long THEN m.slots = {} ELSE m.slots # {} /\ \A o \in r1 : o.id = m.id => o.slots = m.slots
  PROVE  /\ r4' \in [Size.sms.peers -> Nat] /\ r15' = r4' /\ Sms!ReadStaysRead'
         /\ r1' \subseteq Sms!Entries' /\ Sms!DrawnOnce'
         /\ \A e \in r1' : (\E o \in r1 : o.id = e.id /\ o.slots = e.slots) \/ (e.id = m.id /\ e.slots = m.slots)
<1> DEFINE l == Sms!WithoutParts(Sms!PeerOf(m.id))
           new == [id |-> m.id, slots |-> m.slots, unread |-> Sms!PeerOf(m.id) # r2, part |-> FALSE]
<1>1. l \subseteq r1 /\ \A o \in l : ~(o.part /\ Sms!PeerOf(o.id) = Sms!PeerOf(m.id))
  BY DEF Sms!WithoutParts
<1>2. /\ l \subseteq Sms!Entries /\ Sms!NoneTwice(l) /\ new \in Sms!Entries
      /\ new.id = m.id /\ new.slots = m.slots /\ new.part = FALSE
  BY <1>1 DEF Sms!SmsInv, Sms!DrawnOnce, Sms!NoneTwice, Sms!Entries
<1>3. Sms!Build(Sms!Merged(l, new))
  BY DEF Sms!Pushed
<1> HIDE DEF l, new
<1>4. ASSUME NEW o \in l, o.id = new.id PROVE Sms!Same(o, new)
  <2>1. o.part \in BOOLEAN
    BY <1>2 DEF Sms!Entries
  <2>2. ~o.part
    BY <1>1, <1>2, <1>4
  <2>3. o.part = new.part
    BY <1>2, <2>1, <2>2
  <2>4. r12[m.id].long => new.slots = {}
    BY <1>2
  <2>5. ~r12[m.id].long => o.slots = new.slots
    BY <1>1, <1>2, <1>4
  <2> QED BY <1>4, <2>3, <2>4, <2>5 DEF Sms!Same
<1>5. /\ Sms!Merged(l, new) \subseteq Sms!Entries /\ Sms!NoneTwice(Sms!Merged(l, new))
      /\ \A e \in Sms!Merged(l, new) : \E o \in l \union {new} : o.id = e.id /\ o.slots = e.slots
  BY <1>2, <1>4, SmsMerged
<1>6. \A e \in r1' : \E o \in l \union {new} : o.id = e.id /\ o.slots = e.slots
  <2>1. \A e \in r1' : \E o \in Sms!Merged(l, new) : o.id = e.id /\ o.slots = e.slots
    BY <1>3, <1>5, SmsBuilt
  <2> QED BY <1>5, <2>1
<1>7. /\ r4' \in [Size.sms.peers -> Nat] /\ r15' = r4' /\ Sms!ReadStaysRead'
      /\ r1' \subseteq Sms!Entries' /\ Sms!DrawnOnce'
  BY <1>3, <1>5, SmsBuilt
<1> QED BY <1>1, <1>2, <1>6, <1>7

\* What the store and a fetch hold.
LEMMA SmsStored ==
  ASSUME Sms!SmsInv
  PROVE  /\ Sms!Stored \subseteq Sms!Entries /\ Sms!NoneTwice(Sms!Stored)
         /\ \A m \in Sms!Stored : Sms!SlotsOf(m.id) # {} /\ m.slots = Sms!SlotsOf(m.id)
<1>1. r11 \in [Size.sms.slots -> 0..Len(r12)] /\ Len(r12) \in Nat
  BY SmsFacts DEF Sms!SmsInv
<1>2. ASSUME NEW m \in Sms!Stored
      PROVE  /\ m.id \in 1..Len(r12) /\ Sms!SlotsOf(m.id) # {} /\ m.slots = Sms!SlotsOf(m.id)
             /\ m = [id |-> m.id, slots |-> Sms!SlotsOf(m.id), unread |-> m.id \in r13, part |-> ~Sms!Whole(m.id)]
  <2>1. PICK id \in {r11[s] : s \in Size.sms.slots} \ {0} :
           m = [id |-> id, slots |-> Sms!SlotsOf(id), unread |-> id \in r13, part |-> ~Sms!Whole(id)]
    BY DEF Sms!Stored
  <2>2. id \in 1..Len(r12) /\ Sms!SlotsOf(id) # {}
    BY <1>1, <2>1 DEF Sms!SlotsOf
  <2>3. m.id = id
    BY <2>1
  <2> QED BY <2>1, <2>2, <2>3
<1>3. Sms!Stored \subseteq Sms!Entries
  <2>1. ASSUME NEW m \in Sms!Stored PROVE m \in Sms!Entries
    <3>1. Sms!SlotsOf(m.id) \in SUBSET Size.sms.slots
      BY DEF Sms!SlotsOf
    <3>2. PICK slots \in SUBSET Size.sms.slots, id \in 1..Len(r12) : slots = Sms!SlotsOf(m.id) /\ id = m.id
      BY <1>2, <3>1
    <3>3. m = [id |-> id, slots |-> slots, unread |-> id \in r13, part |-> ~Sms!Whole(id)]
      BY <1>2, <3>2
    <3> QED BY <3>3 DEF Sms!Entries
  <2> QED BY <2>1
<1>4. Sms!NoneTwice(Sms!Stored)
  BY <1>2 DEF Sms!NoneTwice
<1> QED BY <1>2, <1>3, <1>4

\* What a step leaves as it was stays as it should be.
LEMMA SmsSame ==
  ASSUME Sms!SmsInv, UNCHANGED <<r1, r4, r5, r6, r14, r15, r16, r12>>,
         r11' \in [Size.sms.slots -> 0..Len(r12)],
         \A s \in Size.sms.slots : r11'[s] = r11[s] \/ r11'[s] = 0 \/ r12[r11'[s]].long
  PROVE  Sms!SmsInv'
<1>1. Sms!OneSlot'
  BY SmsKeepsSlot DEF Sms!SmsInv
<1>2. Sms!DrawnOnce' /\ Sms!ReadStaysRead'
  BY DEF Sms!SmsInv, Sms!DrawnOnce, Sms!ReadStaysRead, Sms!NoneTwice
<1>3. \A l \in r6' : Sms!NoneTwice(l)'
  BY DEF Sms!SmsInv, Sms!NoneTwice
<1>4. Sms!Entries' = Sms!Entries
  BY DEF Sms!Entries
<1> QED BY <1>1, <1>2, <1>3, <1>4 DEF Sms!SmsInv

\* A message that arrives takes a free slot.
LEMMA SmsArrives ==
  ASSUME Sms!SmsBounds, Sms!SmsInv, NEW p \in Size.sms.senders,
         NEW sent \in 1..Size.sms.messages + 1, NEW long \in BOOLEAN,
         Sms!Arrive(p, sent, long)
  PROVE  Sms!SmsInv'
<1>1. /\ Len(r12) \in Nat /\ Sms!Clock = Len(r12) + 1 /\ r11 \in [Size.sms.slots -> 0..Len(r12)]
      /\ r12 \in Seq([peer : Size.sms.senders, sent : Nat, arrived : Nat, long : BOOLEAN])
  BY SmsFacts DEF Sms!Clock, Sms!SmsInv
<1> DEFINE new == [peer |-> p, sent |-> sent, arrived |-> Sms!Clock + 1, long |-> long]
<1>2. /\ r12' = Append(r12, new) /\ r11' = [r11 EXCEPT ![Sms!First(Sms!Free)] = Sms!Clock]
      /\ UNCHANGED <<r1, r4, r5, r6, r14, r15, r16>> /\ Sms!Free # {} /\ sent \in {1, Sms!Clock + 1}
  BY DEF Sms!Arrive, Sms!page
<1>3. /\ new \in [peer : Size.sms.senders, sent : Nat, arrived : Nat, long : BOOLEAN]
      /\ new.sent <= new.arrived
  BY <1>1, <1>2
<1> HIDE DEF new
<1>4. /\ Len(r12') = Len(r12) + 1 /\ r12'[Len(r12) + 1] = new
      /\ \A id \in 1..Len(r12) : r12'[id] = r12[id]
      /\ r12' \in Seq([peer : Size.sms.senders, sent : Nat, arrived : Nat, long : BOOLEAN])
  BY <1>1, <1>2, <1>3
<1>5. \A id \in 1..Len(r12') : r12'[id].sent <= r12'[id].arrived
  <2>1. \A id \in 1..Len(r12) : r12[id].sent <= r12[id].arrived
    BY SmsFacts
  <2>2. \A id \in 1..Len(r12') : id \in 1..Len(r12) \/ id = Len(r12) + 1
    BY <1>1, <1>4
  <2>3. r12'[Len(r12) + 1].sent <= r12'[Len(r12) + 1].arrived
    BY <1>3, <1>4
  <2> QED BY <1>4, <2>1, <2>2, <2>3
<1>6. Sms!First(Sms!Free) \in Size.sms.slots
  <2>1. Sms!Free \in SUBSET Nat /\ Sms!Free \subseteq Size.sms.slots
    BY DEF Sms!SmsBounds, Sms!Free
  <2>2. \E s \in Sms!Free : \A t \in Sms!Free : s <= t
    BY <1>2, <2>1, LeastNumber
  <2> QED BY <2>1, <2>2 DEF Sms!First
<1>7. /\ r11' \in [Size.sms.slots -> 0..Len(r12')]
      /\ \A s \in Size.sms.slots : r11'[s] = (IF s = Sms!First(Sms!Free) THEN Len(r12) + 1 ELSE r11[s])
  <2>1. Len(r12) + 1 \in 0..Len(r12') /\ 0..Len(r12) \subseteq 0..Len(r12') /\ Sms!Clock = Len(r12) + 1
    BY <1>1, <1>4
  <2>2. r11 \in [Size.sms.slots -> 0..Len(r12')]
    BY <1>1, <2>1
  <2> HIDE <1>1, <1>4
  <2> QED BY <1>2, <1>6, <2>1, <2>2, Zenon
<1>8. /\ r1 \subseteq Sms!Entries /\ \A l \in r6 : l \subseteq Sms!Entries
      /\ r14 \subseteq [id : 1..Len(r12), slots : SUBSET Size.sms.slots]
  BY DEF Sms!SmsInv
<1>9. 1..Len(r12) \subseteq 1..Len(r12') /\ Sms!Entries \subseteq Sms!Entries'
  BY <1>1, <1>4 DEF Sms!Entries
<1>10. \A m \in r1 \union r14 \union UNION r6 : m.id \in 1..Len(r12)
  BY <1>8 DEF Sms!Entries
<1>11. Sms!OneSlot'
  <2>1. SUFFICES ASSUME NEW id \in 1..Len(r12'), ~r12'[id].long
        PROVE  \E s \in Size.sms.slots :
                  /\ Sms!SlotsOf(id)' \subseteq {s}
                  /\ \A m \in r1 \union r14 \union UNION r6 : m.id = id => m.slots = {s}
    BY <1>2 DEF Sms!OneSlot
  <2>2. CASE id \in 1..Len(r12)
    <3>1. ~r12[id].long
      BY <1>4, <2>1, <2>2
    <3>2. PICK s \in Size.sms.slots :
             /\ Sms!SlotsOf(id) \subseteq {s}
             /\ \A m \in r1 \union r14 \union UNION r6 : m.id = id => m.slots = {s}
      BY <2>2, <3>1 DEF Sms!OneSlot, Sms!SmsInv
    <3>3. Sms!SlotsOf(id)' \subseteq {s}
      <4>1. ASSUME NEW slot \in Size.sms.slots, r11'[slot] = id PROVE r11[slot] = id
        <5>1. id # Len(r12) + 1
          BY <1>1, <2>2
        <5> QED BY <1>7, <4>1, <5>1
      <4>2. Sms!SlotsOf(id)' \subseteq Sms!SlotsOf(id)
        BY <4>1 DEF Sms!SlotsOf
      <4> QED BY <3>2, <4>2
    <3> QED BY <3>2, <3>3
  <2>3. CASE id = Len(r12) + 1
    <3>1. Sms!SlotsOf(id)' \subseteq {Sms!First(Sms!Free)}
      BY <1>1, <1>7, <2>3 DEF Sms!SlotsOf
    <3>2. \A m \in r1 \union r14 \union UNION r6 : m.id # id
      BY <1>1, <1>10, <2>3
    <3> QED BY <1>6, <3>1, <3>2
  <2>4. id \in 1..Len(r12) \/ id = Len(r12) + 1
    BY <1>1, <1>4
  <2> QED BY <2>2, <2>3, <2>4
<1>12. Sms!DrawnOnce' /\ Sms!ReadStaysRead' /\ \A l \in r6' : Sms!NoneTwice(l)'
  BY <1>2 DEF Sms!SmsInv, Sms!DrawnOnce, Sms!ReadStaysRead, Sms!NoneTwice
<1>13. /\ r1' \subseteq Sms!Entries' /\ \A l \in r6' : l \subseteq Sms!Entries'
       /\ r14' \subseteq [id : 1..Len(r12'), slots : SUBSET Size.sms.slots]
  BY <1>2, <1>8, <1>9
<1>14. /\ r4' \in [Size.sms.peers -> Nat] /\ r15' = r4'
       /\ \A m \in r14' : r12'[m.id].long => m.slots = {}
  BY <1>2, <1>4, <1>10 DEF Sms!SmsInv
<1> QED BY <1>4, <1>5, <1>7, <1>11, <1>12, <1>13, <1>14 DEF Sms!SmsInv

\* Steps that change the store at most.
LEMMA SmsStores ==
  ASSUME Sms!SmsBounds, Sms!SmsInv,
         \/ \E id \in Sms!Ids : Sms!ArriveRest(id)
         \/ \E d \in r10 : Sms!DeleteOne(d) \/ Sms!DeleteFails(d) \/ Sms!Deleted(d)
         \/ Sms!Refresh \/ Sms!Retry
         \/ \E ms \in SUBSET r1 : Sms!Delete(ms)
         \/ UNCHANGED Sms!vars
  PROVE  Sms!SmsInv'
<1>1. r11 \in [Size.sms.slots -> 0..Len(r12)] /\ Len(r12) \in Nat
  BY SmsFacts DEF Sms!SmsInv
<1>2. ASSUME NEW id \in Sms!Ids, Sms!ArriveRest(id) PROVE Sms!SmsInv'
  <2>1. /\ id \in 1..Len(r12) /\ r12[id].long
        /\ r11' = [r11 EXCEPT ![Sms!First(Sms!Free)] = id]
        /\ UNCHANGED <<r1, r4, r5, r6, r14, r15, r16, r12>>
    BY <1>2, SmsFacts DEF Sms!ArriveRest, Sms!page, Sms!SmsInv
  <2>2. /\ r11' \in [Size.sms.slots -> 0..Len(r12)]
        /\ \A s \in Size.sms.slots : r11'[s] = r11[s] \/ r11'[s] = id
    <3>1. PICK at : r11' = [r11 EXCEPT ![at] = id]
      BY <2>1
    <3>2. id \in 0..Len(r12)
      BY <1>1, <2>1
    <3> QED BY <1>1, <3>1, <3>2
  <2>3. \A s \in Size.sms.slots : r11'[s] = r11[s] \/ r11'[s] = 0 \/ r12[r11'[s]].long
    BY <2>1, <2>2
  <2> QED BY <2>1, <2>2, <2>3, SmsSame
<1>3. ASSUME NEW d \in r10, Sms!DeleteOne(d) PROVE Sms!SmsInv'
  <2>1. UNCHANGED <<r1, r4, r5, r6, r14, r15, r16, r12>>
    BY <1>3 DEF Sms!DeleteOne, Sms!page
  <2>2. /\ r11' \in [Size.sms.slots -> 0..Len(r12)]
        /\ \A s \in Size.sms.slots : r11'[s] = r11[s] \/ r11'[s] = 0
    BY <1>1, <1>3 DEF Sms!DeleteOne
  <2> QED BY <2>1, <2>2, SmsSame
<1>4. ASSUME \/ Sms!Refresh \/ Sms!Retry \/ UNCHANGED Sms!vars
             \/ \E d \in r10 : Sms!DeleteFails(d) \/ Sms!Deleted(d)
             \/ \E ms \in SUBSET r1 : Sms!Delete(ms)
      PROVE  Sms!SmsInv'
  <2>1. UNCHANGED <<r1, r4, r5, r6, r14, r15, r16, r12, r11>>
    BY <1>4 DEF Sms!Refresh, Sms!Retry, Sms!DeleteFails, Sms!Deleted, Sms!Delete, Sms!vars, Sms!page
  <2> QED BY <1>1, <2>1, SmsSame
<1> QED BY <1>2, <1>3, <1>4

\* Steps that build a list.
LEMMA SmsBuilds ==
  ASSUME Sms!SmsInv, r12' = r12, r11' = r11, r6' \subseteq r6, r14' \subseteq r14,
         r4' \in [Size.sms.peers -> Nat], r15' = r4', Sms!ReadStaysRead', r1' \subseteq Sms!Entries', Sms!DrawnOnce',
         \A e \in r1' : \/ r12[e.id].long
                        \/ \E o \in r1 \union r14 \union UNION r6 : o.id = e.id /\ o.slots = e.slots
                        \/ Sms!SlotsOf(e.id) # {} /\ e.slots = Sms!SlotsOf(e.id)
  PROVE  Sms!SmsInv'
<1>1. Sms!OneSlot'
  <2>1. \A m \in r14' \union UNION r6' : m \in r1 \union r14 \union UNION r6
    OBVIOUS
  <2>2. \A m \in r1' \union r14' \union UNION r6' :
            r12[m.id].long \/ (\E o \in r1 \union r14 \union UNION r6 : o.id = m.id /\ o.slots = m.slots)
            \/ (Sms!SlotsOf(m.id) # {} /\ m.slots = Sms!SlotsOf(m.id))
    BY <2>1
  <2>3. Sms!OneSlot /\ r11' \in [Size.sms.slots -> 0..Len(r12)] /\ \A s \in Size.sms.slots : r11'[s] = r11[s]
    BY DEF Sms!SmsInv
  <2> QED BY <2>2, <2>3, SmsKeepsSlot
<1>2. \A l \in r6' : l \subseteq Sms!Entries /\ Sms!NoneTwice(l)
  BY DEF Sms!SmsInv
<1>3. \A l \in r6' : Sms!NoneTwice(l)'
  BY <1>2 DEF Sms!NoneTwice
<1>4. Sms!Entries' = Sms!Entries
  BY DEF Sms!Entries
<1>5. /\ r12' \in Seq([peer : Size.sms.senders, sent : Nat, arrived : Nat, long : BOOLEAN])
      /\ \A id \in 1..Len(r12') : r12'[id].sent <= r12'[id].arrived
      /\ r11' \in [Size.sms.slots -> 0..Len(r12')]
      /\ \A m \in r14' : r12'[m.id].long => m.slots = {}
      /\ r14' \subseteq [id : 1..Len(r12'), slots : SUBSET Size.sms.slots]
  BY DEF Sms!SmsInv
<1> QED BY <1>1, <1>2, <1>3, <1>4, <1>5 DEF Sms!SmsInv

\* A message that is whole and in the store is pushed with the slot it has.
LEMMA SmsOneSlot ==
  ASSUME Sms!SmsInv, NEW id \in 1..Len(r12), ~r12[id].long, Sms!SlotsOf(id) # {}
  PROVE  \A m \in r1 \union r14 \union UNION r6 : m.id = id => m.slots = Sms!SlotsOf(id)
<1>1. PICK s \in Size.sms.slots :
         /\ Sms!SlotsOf(id) \subseteq {s}
         /\ \A m \in r1 \union r14 \union UNION r6 : m.id = id => m.slots = {s}
  BY DEF Sms!SmsInv, Sms!OneSlot
<1>2. Sms!SlotsOf(id) = {s}
  BY <1>1
<1> QED BY <1>1, <1>2

\* Any message that is pushed, now or when a page is loaded.
LEMMA SmsDraws ==
  ASSUME Sms!SmsInv, r12' = r12, r11' = r11, r6' = r6, r14' \subseteq r14,
         NEW m, m.id \in 1..Len(r12), m.slots \subseteq Size.sms.slots, Sms!Pushed(m),
         r12[m.id].long => m.slots = {},
         m \in r14 \/ (Sms!SlotsOf(m.id) # {} /\ (~r12[m.id].long => m.slots = Sms!SlotsOf(m.id)))
  PROVE  Sms!SmsInv'
<1>1. ASSUME ~r12[m.id].long
      PROVE  m.slots # {} /\ \A o \in r1 : o.id = m.id => o.slots = m.slots
  <2>1. CASE m \in r14
    <3>1. PICK s \in Size.sms.slots :
             \A o \in r1 \union r14 \union UNION r6 : o.id = m.id => o.slots = {s}
      BY <1>1 DEF Sms!SmsInv, Sms!OneSlot
    <3>2. m.slots = {s}
      BY <2>1, <3>1
    <3> QED BY <3>1, <3>2
  <2>2. CASE Sms!SlotsOf(m.id) # {} /\ m.slots = Sms!SlotsOf(m.id)
    BY <1>1, <2>2, SmsOneSlot
  <2> QED BY <1>1, <2>1, <2>2
<1>2. IF r12[m.id].long THEN m.slots = {} ELSE m.slots # {} /\ \A o \in r1 : o.id = m.id => o.slots = m.slots
  BY <1>1
<1>3. /\ r4' \in [Size.sms.peers -> Nat] /\ r15' = r4' /\ Sms!ReadStaysRead'
      /\ r1' \subseteq Sms!Entries' /\ Sms!DrawnOnce'
      /\ \A e \in r1' : (\E o \in r1 : o.id = e.id /\ o.slots = e.slots) \/ (e.id = m.id /\ e.slots = m.slots)
  BY <1>2, SmsPushed
<1>4. \A e \in r1' : \/ r12[e.id].long
                     \/ \E o \in r1 \union r14 \union UNION r6 : o.id = e.id /\ o.slots = e.slots
                     \/ Sms!SlotsOf(e.id) # {} /\ e.slots = Sms!SlotsOf(e.id)
  <2>1. ASSUME NEW e \in r1', e.id = m.id, e.slots = m.slots, ~r12[e.id].long
        PROVE  \/ \E o \in r1 \union r14 \union UNION r6 : o.id = e.id /\ o.slots = e.slots
               \/ Sms!SlotsOf(e.id) # {} /\ e.slots = Sms!SlotsOf(e.id)
    <3>1. CASE m \in r14
      BY <2>1, <3>1
    <3>2. CASE Sms!SlotsOf(m.id) # {} /\ (~r12[m.id].long => m.slots = Sms!SlotsOf(m.id))
      BY <2>1, <3>2
    <3> QED BY <3>1, <3>2
  <2> QED BY <1>3, <2>1
<1> QED BY <1>3, <1>4, SmsBuilds

\* A push comes in.
LEMMA SmsReceives == ASSUME Sms!SmsInv, Sms!ReceivePush PROVE Sms!SmsInv'
<1>1. PICK m \in r14 : Sms!Pushed(m) /\ r14' = r14 \ {m} /\ UNCHANGED <<r6, r11, r12>>
  BY DEF Sms!ReceivePush
<1>2. m.id \in 1..Len(r12) /\ m.slots \subseteq Size.sms.slots /\ (r12[m.id].long => m.slots = {})
  BY DEF Sms!SmsInv
<1> QED BY <1>1, <1>2, SmsDraws

\* A push comes again.
LEMMA SmsReplays == ASSUME Sms!SmsInv, NEW id \in Sms!Ids, Sms!Replay(id) PROVE Sms!SmsInv'
<1> DEFINE m == [id |-> id, slots |-> IF r12[id].long THEN {} ELSE Sms!SlotsOf(id)]
<1>1. /\ id \in 1..Len(r12) /\ Sms!SlotsOf(id) # {} /\ Sms!Pushed(m)
      /\ UNCHANGED <<r6, r11, r12, r14>>
  BY SmsFacts DEF Sms!Replay, Sms!SmsInv
<1>2. m.id = id /\ m.slots = (IF r12[id].long THEN {} ELSE Sms!SlotsOf(id)) /\ m.slots \subseteq Size.sms.slots
  BY DEF Sms!SlotsOf
<1> HIDE DEF m
<1> QED BY <1>1, <1>2, SmsDraws

\* A list that was read is built.
LEMMA SmsRefreshed == ASSUME Sms!SmsInv, Sms!Refreshed PROVE Sms!SmsInv'
<1>1. PICK l \in r6 : Sms!Build(l) /\ r6' = r6 \ {l} /\ UNCHANGED <<r14, r11, r12>>
  BY DEF Sms!Refreshed
<1>2. l \subseteq Sms!Entries /\ Sms!NoneTwice(l)
  BY DEF Sms!SmsInv
<1>3. /\ r4' \in [Size.sms.peers -> Nat] /\ r15' = r4' /\ Sms!ReadStaysRead'
      /\ r1' \subseteq Sms!Entries' /\ Sms!DrawnOnce'
      /\ \A m \in r1' : \E o \in l : o.id = m.id /\ o.slots = m.slots
  BY <1>1, <1>2, SmsBuilt
<1>4. \A e \in r1' : \E o \in r1 \union r14 \union UNION r6 : o.id = e.id /\ o.slots = e.slots
  BY <1>3
<1> QED BY <1>1, <1>3, <1>4, SmsBuilds

\* A conversation is opened.
LEMMA SmsSelects == ASSUME Sms!SmsInv, NEW p \in Size.sms.peers, Sms!Select(p) PROVE Sms!SmsInv'
<1>1. /\ UNCHANGED <<r6, r14, r11, r12, r16>> /\ r5' = r5 \ {p}
      /\ r4' = [r4 EXCEPT ![p] = Sms!Clock] /\ r15' = [r15 EXCEPT ![p] = Sms!Clock]
      /\ r1' = {IF Sms!PeerOf(m.id) = p THEN [m EXCEPT !.unread = FALSE] ELSE m : m \in r1}
  BY DEF Sms!Select
<1>2. /\ r1 \subseteq Sms!Entries /\ Sms!DrawnOnce /\ Sms!ReadStaysRead /\ r4 \in [Size.sms.peers -> Nat]
      /\ r15 = r4 /\ Sms!Clock \in Nat
  BY SmsFacts DEF Sms!SmsInv
<1>3. ASSUME NEW m \in r1'
      PROVE  \E o \in r1 : /\ o.id = m.id /\ o.slots = m.slots /\ m \in Sms!Entries
                           /\ m = (IF Sms!PeerOf(o.id) = p THEN [o EXCEPT !.unread = FALSE] ELSE o)
  <2>1. PICK o \in r1 : m = IF Sms!PeerOf(o.id) = p THEN [o EXCEPT !.unread = FALSE] ELSE o
    BY <1>1
  <2>2. o \in Sms!Entries
    BY <1>2
  <2>3. /\ [o EXCEPT !.unread = FALSE].id = o.id /\ [o EXCEPT !.unread = FALSE].slots = o.slots
        /\ [o EXCEPT !.unread = FALSE] \in Sms!Entries
    BY <2>2 DEF Sms!Entries
  <2> QED BY <2>1, <2>2, <2>3
<1>4. Sms!Entries' = Sms!Entries
  BY <1>1 DEF Sms!Entries
<1>5. Sms!DrawnOnce'
  <2>1. ASSUME NEW a \in r1', NEW b \in r1', a.id = b.id PROVE a = b
    <3>1. PICK o \in r1 : a.id = o.id /\ a = (IF Sms!PeerOf(o.id) = p THEN [o EXCEPT !.unread = FALSE] ELSE o)
      BY <1>3
    <3>2. PICK q \in r1 : b.id = q.id /\ b = (IF Sms!PeerOf(q.id) = p THEN [q EXCEPT !.unread = FALSE] ELSE q)
      BY <1>3
    <3>3. o = q
      BY <1>2, <2>1, <3>1, <3>2 DEF Sms!DrawnOnce, Sms!NoneTwice
    <3> QED BY <3>1, <3>2, <3>3
  <2> QED BY <2>1 DEF Sms!DrawnOnce, Sms!NoneTwice
<1>6. /\ r4' \in [Size.sms.peers -> Nat] /\ r15' = r4' /\ Sms!ReadStaysRead'
  BY <1>1, <1>2 DEF Sms!ReadStaysRead
<1>7. \A e \in r1' : \E o \in r1 \union r14 \union UNION r6 : o.id = e.id /\ o.slots = e.slots
  BY <1>3
<1> QED BY <1>1, <1>3, <1>4, <1>5, <1>6, <1>7, SmsBuilds

\* The store is read.
LEMMA SmsListed == ASSUME Sms!SmsInv, Sms!Listed PROVE Sms!SmsInv'
<1>1. /\ UNCHANGED <<r1, r4, r5, r14, r15, r16, r12, r11>>
      /\ r6' = r6 \union {Sms!Stored} \/ r6' = r6
  BY DEF Sms!Listed, Sms!page
<1>2. /\ Sms!Stored \subseteq Sms!Entries /\ Sms!NoneTwice(Sms!Stored)
      /\ \A m \in Sms!Stored : Sms!SlotsOf(m.id) # {} /\ m.slots = Sms!SlotsOf(m.id)
  BY SmsStored
<1>3. Sms!OneSlot'
  <2>1. Sms!OneSlot /\ r11' \in [Size.sms.slots -> 0..Len(r12)] /\ \A s \in Size.sms.slots : r11'[s] = r11[s]
    BY <1>1 DEF Sms!SmsInv
  <2>2. \A m \in r1' \union r14' \union UNION r6' :
            r12[m.id].long \/ (\E o \in r1 \union r14 \union UNION r6 : o.id = m.id /\ o.slots = m.slots)
            \/ (Sms!SlotsOf(m.id) # {} /\ m.slots = Sms!SlotsOf(m.id))
    <3>1. \A m \in r1' \union r14' \union UNION r6' :
              m \in Sms!Stored \/ m \in r1 \union r14 \union UNION r6
      BY <1>1
    <3> QED BY <1>2, <3>1
  <2> QED BY <1>1, <2>1, <2>2, SmsKeepsSlot
<1>4. Sms!DrawnOnce' /\ Sms!ReadStaysRead' /\ Sms!Entries' = Sms!Entries
  BY <1>1 DEF Sms!SmsInv, Sms!DrawnOnce, Sms!ReadStaysRead, Sms!NoneTwice, Sms!Entries
<1>5. \A l \in r6' : l \subseteq Sms!Entries /\ Sms!NoneTwice(l)
  BY <1>1, <1>2 DEF Sms!SmsInv
<1>6. \A l \in r6' : Sms!NoneTwice(l)'
  BY <1>5 DEF Sms!NoneTwice
<1> QED BY <1>1, <1>3, <1>4, <1>5, <1>6 DEF Sms!SmsInv

\* The service pushes a message.
LEMMA SmsPushes == ASSUME Sms!SmsInv, NEW id \in Sms!Ids, Sms!Push(id) PROVE Sms!SmsInv'
<1> DEFINE m == [id |-> id, slots |-> IF r12[id].long THEN {} ELSE Sms!SlotsOf(id)]
<1>1. /\ Sms!SlotsOf(id) # {} /\ r14' = r14 \union {m}
      /\ UNCHANGED <<r1, r4, r5, r6, r15, r16, r12, r11>>
  BY DEF Sms!Push, Sms!page
<1>2. id \in 1..Len(r12)
  BY <1>1, SmsFacts DEF Sms!SmsInv, Sms!SlotsOf, Sms!Ids
<1>3. /\ m.id = id /\ m.slots = (IF r12[id].long THEN {} ELSE Sms!SlotsOf(id))
      /\ m \in [id : 1..Len(r12), slots : SUBSET Size.sms.slots]
  BY <1>2 DEF Sms!SlotsOf
<1> HIDE DEF m
<1>4. Sms!OneSlot'
  <2>1. Sms!OneSlot /\ r11' \in [Size.sms.slots -> 0..Len(r12)] /\ \A s \in Size.sms.slots : r11'[s] = r11[s]
    BY <1>1 DEF Sms!SmsInv
  <2>2. \A o \in r1' \union r14' \union UNION r6' :
            r12[o.id].long \/ (\E q \in r1 \union r14 \union UNION r6 : q.id = o.id /\ q.slots = o.slots)
            \/ (Sms!SlotsOf(o.id) # {} /\ o.slots = Sms!SlotsOf(o.id))
    <3>1. \A o \in r1' \union r14' \union UNION r6' :
              o = m \/ o \in r1 \union r14 \union UNION r6
      BY <1>1
    <3> QED BY <1>1, <1>3, <3>1
  <2> QED BY <1>1, <2>1, <2>2, SmsKeepsSlot
<1>5. Sms!DrawnOnce' /\ Sms!ReadStaysRead' /\ Sms!Entries' = Sms!Entries
  BY <1>1 DEF Sms!SmsInv, Sms!DrawnOnce, Sms!ReadStaysRead, Sms!NoneTwice, Sms!Entries
<1>6. \A l \in r6' : l \subseteq Sms!Entries /\ Sms!NoneTwice(l)
  BY <1>1 DEF Sms!SmsInv
<1>7. \A l \in r6' : Sms!NoneTwice(l)'
  BY <1>6 DEF Sms!NoneTwice
<1>8. \A o \in r14' : o \in [id : 1..Len(r12), slots : SUBSET Size.sms.slots] /\ (r12[o.id].long => o.slots = {})
  BY <1>1, <1>3 DEF Sms!SmsInv
<1> QED BY <1>1, <1>4, <1>5, <1>6, <1>7, <1>8 DEF Sms!SmsInv

\* Every step keeps it.
LEMMA SmsKept == ASSUME Sms!SmsBounds, Sms!SmsInv, Sms!Next PROVE Sms!SmsInv'
<1>1. ASSUME NEW p \in Size.sms.senders, NEW sent \in 1..Size.sms.messages + 1,
             NEW long \in BOOLEAN, Sms!Arrive(p, sent, long)
      PROVE  Sms!SmsInv'
  BY <1>1, SmsArrives
<1>2. ASSUME \/ \E id \in Sms!Ids : Sms!ArriveRest(id)
             \/ \E d \in r10 : Sms!DeleteOne(d) \/ Sms!DeleteFails(d) \/ Sms!Deleted(d)
             \/ Sms!Refresh \/ Sms!Retry
             \/ \E ms \in SUBSET r1 : Sms!Delete(ms)
      PROVE  Sms!SmsInv'
  BY <1>2, SmsStores
<1> QED BY <1>1, <1>2, SmsSelects, SmsReplays, SmsPushes, SmsReceives, SmsListed,
SmsRefreshed DEF Sms!Next, Sms!Moves

\* It speaks of nothing but the variables of the machine.
LEMMA SmsStutters ==
  ASSUME Sms!SmsBounds, Sms!SmsInv,
         UNCHANGED <<r1, r2, r3, r4, r5, r6, r7, r8, r9,
                    r10, r11, r12, r13, r14, r15, r16, r17, r18,
                    r19, r20, r21>>
  PROVE  Sms!SmsInv'
BY SmsStores DEF Sms!vars, Sms!page

\* What it says.
LEMMA SmsHolds == ASSUME Sms!SmsInv PROVE Sms!ReadStaysRead /\ Sms!DrawnOnce
BY DEF Sms!SmsInv

-----------------------------------------------------------------------------
(* The messages, once more: what was given stays.                          *)

\* What is built has the entries it is built from.
LEMMA StaysBuilt ==
  ASSUME NEW l, l \subseteq Sms!Entries, Sms!Build(l)
  PROVE  \A o \in l : \E e \in r1' : e.id = o.id /\ e.slots = o.slots /\ e.part = o.part
<1>1. r1' = {IF Sms!PeerOf(m.id) = r2 THEN [m EXCEPT !.unread = FALSE] ELSE m : m \in l}
  BY DEF Sms!Build
<1>2. ASSUME NEW o \in l PROVE \E e \in r1' : e.id = o.id /\ e.slots = o.slots /\ e.part = o.part
  <2> DEFINE e == IF Sms!PeerOf(o.id) = r2 THEN [o EXCEPT !.unread = FALSE] ELSE o
  <2>1. o \in Sms!Entries
    OBVIOUS
  <2>2. [o EXCEPT !.unread = FALSE].id = o.id /\ [o EXCEPT !.unread = FALSE].slots = o.slots
        /\ [o EXCEPT !.unread = FALSE].part = o.part
    BY <2>1 DEF Sms!Entries
  <2>3. e.id = o.id /\ e.slots = o.slots /\ e.part = o.part
    BY <2>2
  <2>4. e \in r1'
    BY <1>1
  <2> QED BY <2>3, <2>4
<1> QED BY <1>2

\* The entries of l are all there; and the new one is, or one with its slots keeps
\* it out.
KeepsAll(r, l) ==
    \A o \in l : \E e \in r : e.id = o.id /\ e.part = o.part /\ (o.slots # {} => e.slots = o.slots)
LetsIn(r, l, new) ==
    \E e \in r :
        \/ e.id = new.id /\ e.part = new.part
        \/ /\ e.slots = new.slots /\ new.slots # {}
           /\ \E o \in l : e.id = o.id /\ e.part = o.part /\ Sms!PeerOf(o.id) = Sms!PeerOf(new.id)

\* With a message that joins, nobody else leaves the list.
LEMMA StaysMerged ==
  ASSUME NEW l, l \subseteq Sms!Entries, NEW new \in Sms!Entries
  PROVE  Sms!Merged(l, new) \subseteq Sms!Entries /\ KeepsAll(Sms!Merged(l, new), l)
         /\ LetsIn(Sms!Merged(l, new), l, new)
<1>1. CASE \A o \in l : ~Sms!Same(o, new)
  <2>1. Sms!Merged(l, new) = l \union {new}
    BY <1>1 DEF Sms!Merged
  <2> QED BY <2>1 DEF KeepsAll, LetsIn
<1>2. CASE \E o \in l : Sms!Same(o, new)
  <2> DEFINE o == CHOOSE x \in l : Sms!Same(x, new)
             r == Sms!Richer(o, new)
  <2>1. o \in l /\ Sms!Same(o, new)
    BY <1>2
  <2> HIDE DEF o
  <2>2. Sms!Merged(l, new) = (l \ {o}) \union {r}
    BY <1>2 DEF Sms!Merged, o
  <2>3. o \in Sms!Entries
    BY <2>1
  <2>4. CASE o.slots = {} /\ new.slots # {}
    <3>1. r = [new EXCEPT !.unread = o.unread \/ new.unread] /\ o.id = new.id /\ o.part = new.part
      BY <2>1, <2>4 DEF Sms!Richer, Sms!Same
    <3>2. r \in Sms!Entries /\ r.id = new.id /\ r.part = new.part
      BY <2>3, <3>1 DEF Sms!Entries
    <3> HIDE DEF r
    <3> QED BY <2>2, <2>4, <3>1, <3>2 DEF KeepsAll, LetsIn
  <2>5. CASE ~(o.slots = {} /\ new.slots # {})
    <3>1. r = [o EXCEPT !.unread = o.unread \/ new.unread]
      BY <2>5 DEF Sms!Richer
    <3>2. r \in Sms!Entries /\ r.id = o.id /\ r.part = o.part /\ r.slots = o.slots
      BY <2>3, <3>1 DEF Sms!Entries
    <3> HIDE DEF r
    <3>3. KeepsAll(Sms!Merged(l, new), l)
      BY <2>2, <3>2 DEF KeepsAll
    <3>4. CASE o.slots # {} /\ new.slots # {}
      <4>1. o.slots = new.slots /\ Sms!PeerOf(o.id) = Sms!PeerOf(new.id)
        BY <2>1, <3>4 DEF Sms!Same
      <4>2. Sms!Merged(l, new) \subseteq Sms!Entries
        BY <2>2, <3>2
      <4>3. LetsIn(Sms!Merged(l, new), l, new)
        BY <2>1, <2>2, <3>2, <3>4, <4>1 DEF LetsIn
      <4> QED BY <3>3, <4>2, <4>3
    <3>5. CASE ~(o.slots # {} /\ new.slots # {})
      <4>1. o.id = new.id /\ o.part = new.part
        BY <2>1, <3>5 DEF Sms!Same
      <4>2. Sms!Merged(l, new) \subseteq Sms!Entries
        BY <2>2, <3>2
      <4>3. LetsIn(Sms!Merged(l, new), l, new)
        BY <2>2, <3>2, <4>1 DEF LetsIn
      <4> QED BY <3>3, <4>2, <4>3
    <3> QED BY <3>4, <3>5
  <2> QED BY <2>4, <2>5
<1> QED BY <1>1, <1>2

\* What was given now was given before, if nothing took it back.
LEMMA StaysGiven ==
  ASSUME NEW id, Sms!Given(id)', r12'[id] = r12[id], \A s \in Size.sms.slots : r11'[s] = id
           => r11[s] = id,
         r17 \subseteq r17', id \in r13 => id \in r13', \A m \in r14 : m.id = id => m \in r14'
  PROVE  Sms!Given(id)
<1>1. Sms!SlotsOf(id)' \subseteq Sms!SlotsOf(id)
  BY DEF Sms!SlotsOf
<1>2. id \notin r17 /\ id \notin r13 /\ \A m \in r14 : m.id # id
  BY DEF Sms!Given
<1>3. Sms!SlotsOf(id) # {} /\ Sms!Whole(id)
  BY <1>1 DEF Sms!Given, Sms!Whole
<1> QED BY <1>2, <1>3 DEF Sms!Given

\* The list is as it was.
LEMMA StaysHeld ==
  ASSUME Sms!SmsInv, Sms!StaysInv, NEW id \in 1..Len(r12), Sms!Given(id), Sms!Given(id)',
         r12'[id] = r12[id],
         \A s \in Size.sms.slots : r11'[s] = id => r11[s] = id, r1' = r1,
         \A l \in r6' : l \in r6 \/ Sms!Stands(id, l)
  PROVE  /\ Sms!Stands(id, r1') \/ Sms!Blocked(id)'
         /\ \A l \in r6' : Sms!Stands(id, l)
<1>1. Sms!Stands(id, r1) \/ Sms!Blocked(id)
  BY DEF Sms!StaysInv
<1>2. \A l \in r6' : Sms!Stands(id, l)
  BY DEF Sms!StaysInv
<1>3. ASSUME Sms!Blocked(id) PROVE Sms!Blocked(id)'
  <2>1. PICK o \in r1, s \in Size.sms.slots : o.id # id /\ ~o.part /\ o.slots = {s} /\ r11[s] = id
    BY <1>3 DEF Sms!Blocked
  <2>2. ~r12[id].long
    BY <1>3 DEF Sms!Blocked
  <2>3. PICK t \in Size.sms.slots : Sms!SlotsOf(id) \subseteq {t}
    BY <2>2 DEF Sms!SmsInv, Sms!OneSlot
  <2>4. t = s
    BY <2>1, <2>3 DEF Sms!SlotsOf
  <2>5. PICK u \in Size.sms.slots : r11'[u] = id
    BY DEF Sms!Given, Sms!SlotsOf
  <2>6. r11[u] = id /\ u = s
    BY <2>3, <2>4, <2>5 DEF Sms!SlotsOf
  <2> QED BY <2>1, <2>2, <2>5, <2>6 DEF Sms!Blocked
<1> QED BY <1>1, <1>2, <1>3

\* A push is built into the list.
LEMMA StaysPushed ==
  ASSUME Sms!SmsInv, Sms!StaysInv, NEW m, m.id \in 1..Len(r12), m.slots \subseteq Size.sms.slots,
         Sms!Pushed(m),
         UNCHANGED <<r12, r11, r6>>,
         r12[m.id].long => m.slots = {}, ~r12[m.id].long /\ Sms!SlotsOf(m.id) # {}
           => m.slots = Sms!SlotsOf(m.id),
         NEW id \in 1..Len(r12), Sms!SlotsOf(id) # {},
         Sms!Given(id) \/ (id = m.id /\ \A l \in r6 : Sms!Stands(id, l))
  PROVE  /\ Sms!Stands(id, r1') \/ Sms!Blocked(id)'
         /\ \A l \in r6' : Sms!Stands(id, l)
<1> DEFINE l == Sms!WithoutParts(Sms!PeerOf(m.id))
           new == [id |-> m.id, slots |-> m.slots, unread |-> Sms!PeerOf(m.id) # r2, part |-> FALSE]
           all == Sms!Merged(l, new)
<1>1. \A f \in r6' : Sms!Stands(id, f)
  BY DEF Sms!StaysInv
<1>2. l \subseteq r1 /\ (\A o \in l : ~(o.part /\ Sms!PeerOf(o.id) = Sms!PeerOf(m.id)))
      /\ \A o \in r1 : ~o.part => o \in l
  BY DEF Sms!WithoutParts
<1>3. /\ l \subseteq Sms!Entries /\ new \in Sms!Entries /\ new.id = m.id /\ new.slots = m.slots
         /\ ~new.part
  BY <1>2 DEF Sms!SmsInv, Sms!Entries
<1>4. Sms!Build(all)
  BY DEF Sms!Pushed
<1> HIDE DEF l, new
<1>5. all \subseteq Sms!Entries /\ KeepsAll(all, l) /\ LetsIn(all, l, new)
  BY <1>3, StaysMerged
<1> HIDE DEF all
<1>6. \A o \in all : \E e \in r1' : e.id = o.id /\ e.slots = o.slots /\ e.part = o.part
  BY <1>4, <1>5, StaysBuilt
<1>7. \A o \in l : \E e \in r1' : e.id = o.id /\ e.part = o.part /\ (o.slots # {} => e.slots = o.slots)
  BY <1>5, <1>6 DEF KeepsAll
<1>8. CASE id = m.id
  <2>1. PICK e \in all :
           \/ e.id = m.id /\ e.part = new.part
           \/ /\ e.slots = m.slots /\ m.slots # {}
              /\ \E o \in l : e.id = o.id /\ e.part = o.part /\ Sms!PeerOf(o.id) = Sms!PeerOf(m.id)
    BY <1>3, <1>5 DEF LetsIn
  <2>2. PICK f \in r1' : f.id = e.id /\ f.slots = e.slots /\ f.part = e.part
    BY <1>6
  <2>3. CASE e.id = m.id /\ e.part = new.part
    <3>1. f.id = id /\ ~f.part
      BY <1>3, <1>8, <2>2, <2>3
    <3> QED BY <1>1, <3>1 DEF Sms!Stands
  <2>4. ASSUME e.slots = m.slots, m.slots # {}, NEW o \in l, e.id = o.id, e.part = o.part,
               Sms!PeerOf(o.id) = Sms!PeerOf(m.id)
        PROVE  Sms!Stands(id, r1') \/ Sms!Blocked(id)'
    <3>1. ~o.part /\ ~f.part
      BY <1>2, <2>2, <2>4
    <3>2. CASE e.id = id
      BY <2>2, <3>1, <3>2 DEF Sms!Stands
    <3>3. CASE e.id # id
      <4>1. ~r12[id].long /\ f.slots = Sms!SlotsOf(id)
        BY <1>8, <2>2, <2>4
      <4>2. PICK s \in Size.sms.slots : Sms!SlotsOf(id) \subseteq {s}
        BY <4>1 DEF Sms!SmsInv, Sms!OneSlot
      <4>3. Sms!SlotsOf(id) = {s} /\ r11[s] = id
        BY <4>2 DEF Sms!SlotsOf
      <4> QED BY <2>2, <3>1, <3>3, <4>1, <4>3 DEF Sms!Blocked
    <3> QED BY <3>2, <3>3
  <2> QED BY <1>1, <2>1, <2>3, <2>4
<1>9. CASE Sms!Given(id)
  <2>1. CASE Sms!Stands(id, r1)
    <3>1. PICK o \in r1 : o.id = id /\ ~o.part
      BY <2>1 DEF Sms!Stands
    <3>2. PICK e \in r1' : e.id = o.id /\ e.part = o.part
      BY <1>2, <1>7, <3>1
    <3> QED BY <1>1, <3>1, <3>2 DEF Sms!Stands
  <2>2. CASE Sms!Blocked(id)
    <3>1. PICK o \in r1, s \in Size.sms.slots : o.id # id /\ ~o.part /\ o.slots = {s} /\ r11[s] = id
      BY <2>2 DEF Sms!Blocked
    <3>2. PICK e \in r1' : e.id = o.id /\ e.part = o.part /\ (o.slots # {} => e.slots = o.slots)
      BY <1>2, <1>7, <3>1
    <3>3. e.id # id /\ ~e.part /\ e.slots = {s}
      BY <3>1, <3>2
    <3> QED BY <1>1, <2>2, <3>1, <3>3 DEF Sms!Blocked
  <2> QED BY <1>9, <2>1, <2>2 DEF Sms!StaysInv
<1> QED BY <1>8, <1>9

\* A list that was read is built.
LEMMA StaysRefreshed == ASSUME Sms!SmsInv, Sms!StaysInv, Sms!Refreshed PROVE Sms!StaysInv'
<1>1. PICK f \in r6 : /\ Sms!Build(f) /\ r6' = r6 \ {f} /\ UNCHANGED <<r12, r11, r14, r13>>
                      /\ r17 \subseteq r17'
  BY DEF Sms!Refreshed
<1>2. f \subseteq Sms!Entries
  BY <1>1 DEF Sms!SmsInv
<1>3. ASSUME NEW id \in 1..Len(r12'), Sms!Given(id)'
      PROVE  (Sms!Stands(id, r1') \/ Sms!Blocked(id)') /\ \A l \in r6' : Sms!Stands(id, l)
  <2>1. Sms!Given(id)
    BY <1>1, <1>3, StaysGiven
  <2>2. \A l \in r6 : Sms!Stands(id, l)
    BY <1>1, <2>1 DEF Sms!StaysInv
  <2>3. PICK o \in f : o.id = id /\ ~o.part
    BY <1>1, <2>2 DEF Sms!Stands
  <2>4. PICK e \in r1' : e.id = o.id /\ e.part = o.part
    BY <1>1, <1>2, StaysBuilt
  <2> QED BY <1>1, <2>2, <2>3, <2>4 DEF Sms!Stands
<1> QED BY <1>3 DEF Sms!StaysInv

\* A push comes, unless a list is on its way that may not have it.
LEMMA StaysReceived == ASSUME Sms!SmsInv, Sms!StaysInv, Sms!ReceivePush PROVE Sms!StaysInv'
<1>1. PICK m \in r14 : /\ Sms!Pushed(m) /\ r14' = r14 \ {m} /\ UNCHANGED <<r6, r11, r12, r13>>
                       /\ r17' = r17 \union {i \in {m.id} : r6 # {} \/ r7 > 0}
  BY DEF Sms!ReceivePush
<1>2. m.id \in 1..Len(r12) /\ m.slots \subseteq Size.sms.slots /\ (r12[m.id].long => m.slots = {})
  BY <1>1 DEF Sms!SmsInv
<1>3. ~r12[m.id].long /\ Sms!SlotsOf(m.id) # {} => m.slots = Sms!SlotsOf(m.id)
  BY <1>1, <1>2, SmsOneSlot
<1>4. ASSUME NEW id \in 1..Len(r12'), Sms!Given(id)'
      PROVE  (Sms!Stands(id, r1') \/ Sms!Blocked(id)') /\ \A l \in r6' : Sms!Stands(id, l)
  <2>1. Sms!SlotsOf(id) # {}
    BY <1>1, <1>4 DEF Sms!Given, Sms!SlotsOf
  <2>2. CASE id = m.id
    <3>1. r6 = {}
      BY <1>1, <1>4, <2>2 DEF Sms!Given
    <3> QED BY <1>1, <1>2, <1>3, <2>1, <2>2, <3>1, StaysPushed
  <2>3. CASE id # m.id
    <3>1. Sms!Given(id)
      BY <1>1, <1>4, <2>3, StaysGiven
    <3> QED BY <1>1, <1>2, <1>3, <2>1, <3>1, StaysPushed
  <2> QED BY <2>2, <2>3
<1> QED BY <1>4 DEF Sms!StaysInv

\* A push of before comes once more.
LEMMA StaysReplayed ==
  ASSUME Sms!SmsInv, Sms!StaysInv, NEW n \in Sms!Ids, Sms!Replay(n)
  PROVE  Sms!StaysInv'
<1> DEFINE m == [id |-> n, slots |-> IF r12[n].long THEN {} ELSE Sms!SlotsOf(n)]
<1>1. /\ n \in 1..Len(r12) /\ Sms!Pushed(m) /\ UNCHANGED <<r6, r11, r12, r13, r14, r17>>
  BY SmsFacts DEF Sms!Replay, Sms!SmsInv
<1>2. m.id = n /\ m.slots \subseteq Size.sms.slots /\ (r12[n].long => m.slots = {})
      /\ (~r12[n].long => m.slots = Sms!SlotsOf(n))
  BY DEF Sms!SlotsOf
<1> HIDE DEF m
<1>3. ASSUME NEW id \in 1..Len(r12'), Sms!Given(id)'
      PROVE  (Sms!Stands(id, r1') \/ Sms!Blocked(id)') /\ \A l \in r6' : Sms!Stands(id, l)
  <2>1. Sms!SlotsOf(id) # {}
    BY <1>1, <1>3 DEF Sms!Given, Sms!SlotsOf
  <2>2. Sms!Given(id)
    BY <1>1, <1>3, StaysGiven
  <2> QED BY <1>1, <1>2, <2>1, <2>2, StaysPushed
<1> QED BY <1>3 DEF Sms!StaysInv


\* What does not touch the list: an entry that stands for a message that was given
\* is still there.
LEMMA StaysQuiet ==
  ASSUME Sms!SmsInv, Sms!StaysInv, r1' = r1, r17 \subseteq r17', r14 \subseteq r14',
         r13 \subseteq r13', UNCHANGED r12, r6' = r6,
         \A s \in Size.sms.slots, id \in 1..Len(r12) : r11'[s] = id => r11[s] = id
  PROVE  Sms!StaysInv'
<1>1. ASSUME NEW id \in 1..Len(r12'), Sms!Given(id)'
      PROVE  (Sms!Stands(id, r1') \/ Sms!Blocked(id)') /\ \A l \in r6' : Sms!Stands(id, l)
  <2>1. id \in 1..Len(r12) /\ r12'[id] = r12[id] /\ \A s \in Size.sms.slots : r11'[s] = id
          => r11[s] = id
    OBVIOUS
  <2>2. Sms!Given(id)
    BY <1>1, <2>1, StaysGiven
  <2> QED BY <1>1, <2>1, <2>2, StaysHeld
<1> QED BY <1>1 DEF Sms!StaysInv

\* A conversation is opened.
LEMMA StaysSelected ==
  ASSUME Sms!SmsInv, Sms!StaysInv, NEW p \in Size.sms.peers, Sms!Select(p)
  PROVE  Sms!StaysInv'
<1>1. /\ r1' = {IF Sms!PeerOf(m.id) = p THEN [m EXCEPT !.unread = FALSE] ELSE m : m \in r1}
      /\ UNCHANGED <<r6, r11, r12, r13, r14, r17>>
  BY DEF Sms!Select
<1>2. ASSUME NEW o \in r1 PROVE \E e \in r1' : e.id = o.id /\ e.slots = o.slots /\ e.part = o.part
  <2> DEFINE e == IF Sms!PeerOf(o.id) = p THEN [o EXCEPT !.unread = FALSE] ELSE o
  <2>1. o \in Sms!Entries
    BY DEF Sms!SmsInv
  <2>2. [o EXCEPT !.unread = FALSE].id = o.id /\ [o EXCEPT !.unread = FALSE].slots = o.slots
        /\ [o EXCEPT !.unread = FALSE].part = o.part
    BY <2>1 DEF Sms!Entries
  <2>3. e.id = o.id /\ e.slots = o.slots /\ e.part = o.part
    BY <2>2
  <2>4. e \in r1'
    BY <1>1
  <2> QED BY <2>3, <2>4
<1>3. ASSUME NEW id \in 1..Len(r12'), Sms!Given(id)'
      PROVE  (Sms!Stands(id, r1') \/ Sms!Blocked(id)') /\ \A l \in r6' : Sms!Stands(id, l)
  <2>1. Sms!Given(id) /\ id \in 1..Len(r12)
    BY <1>1, <1>3, StaysGiven
  <2>2. CASE Sms!Stands(id, r1)
    <3>1. Sms!Stands(id, r1')
      BY <1>2, <2>2 DEF Sms!Stands
    <3> QED BY <1>1, <2>1, <3>1 DEF Sms!StaysInv
  <2>3. CASE Sms!Blocked(id)
    <3>1. PICK o \in r1, s \in Size.sms.slots : o.id # id /\ ~o.part /\ o.slots = {s} /\ r11[s] = id
      BY <2>3 DEF Sms!Blocked
    <3>2. PICK e \in r1' : e.id = o.id /\ e.slots = o.slots /\ e.part = o.part
      BY <1>2
    <3>3. Sms!Blocked(id)'
      BY <1>1, <2>3, <3>1, <3>2 DEF Sms!Blocked
    <3> QED BY <1>1, <2>1, <3>3 DEF Sms!StaysInv
  <2> QED BY <2>1, <2>2, <2>3 DEF Sms!StaysInv
<1> QED BY <1>3 DEF Sms!StaysInv

\* A message arrives: it is not the page's yet.
LEMMA StaysArrived ==
  ASSUME Sms!SmsBounds, Sms!SmsInv, Sms!StaysInv, NEW p \in Size.sms.senders,
         NEW sent \in 1..Size.sms.messages + 1, NEW long \in BOOLEAN,
         Sms!Arrive(p, sent, long)
  PROVE  Sms!StaysInv'
<1>1. /\ r12' = Append(r12, [peer |-> p, sent |-> sent, arrived |-> Sms!Clock + 1, long |-> long])
      /\ r11' = [r11 EXCEPT ![Sms!First(Sms!Free)] = Sms!Clock] /\ r13' = r13 \union {Sms!Clock}
      /\ UNCHANGED <<r1, r6, r14, r17>>
  BY DEF Sms!Arrive, Sms!page
<1>2. r12 \in Seq([peer : Size.sms.senders, sent : Nat, arrived : Nat, long : BOOLEAN])
      /\ r11 \in [Size.sms.slots -> 0..Len(r12)]
  BY DEF Sms!SmsInv
<1>3. Len(r12) \in Nat
  BY <1>2, LenProperties
<1>4. Len(r12') = Len(r12) + 1 /\ \A i \in 1..Len(r12) : r12'[i] = r12[i]
  BY <1>1, <1>2, <1>3
<1>5. ASSUME NEW id \in 1..Len(r12'), Sms!Given(id)'
      PROVE  (Sms!Stands(id, r1') \/ Sms!Blocked(id)') /\ \A l \in r6' : Sms!Stands(id, l)
  <2>1. id \notin r13'
    BY <1>5 DEF Sms!Given
  <2>2. id # Sms!Clock
    BY <1>1, <2>1
  <2>3. id \in 1..Len(r12)
    BY <1>3, <1>4, <2>2 DEF Sms!Clock
  <2>4. ASSUME NEW s \in Size.sms.slots, r11'[s] = id PROVE r11[s] = id
    BY <1>1, <1>2, <2>2, <2>4
  <2>5. Sms!Given(id)
    BY <1>1, <1>4, <1>5, <2>3, <2>4, StaysGiven
  <2> QED BY <1>1, <1>4, <1>5, <2>3, <2>4, <2>5, StaysHeld
<1> QED BY <1>5 DEF Sms!StaysInv

\* Its other part arrives: it is to be handed out again.
LEMMA StaysJoined ==
  ASSUME Sms!SmsInv, Sms!StaysInv, NEW n \in Sms!Ids, Sms!ArriveRest(n)
  PROVE  Sms!StaysInv'
<1>1. /\ r11' = [r11 EXCEPT ![Sms!First(Sms!Free)] = n] /\ r13' = r13 \union {n}
      /\ UNCHANGED <<r1, r6, r14, r17, r12>>
  BY DEF Sms!ArriveRest, Sms!page
<1>2. r11 \in [Size.sms.slots -> 0..Len(r12)]
  BY DEF Sms!SmsInv
<1>3. ASSUME NEW id \in 1..Len(r12'), Sms!Given(id)'
      PROVE  (Sms!Stands(id, r1') \/ Sms!Blocked(id)') /\ \A l \in r6' : Sms!Stands(id, l)
  <2>1. id # n
    BY <1>1, <1>3 DEF Sms!Given
  <2>2. ASSUME NEW s \in Size.sms.slots, r11'[s] = id PROVE r11[s] = id
    BY <1>1, <1>2, <2>1, <2>2
  <2>3. Sms!Given(id)
    BY <1>1, <1>3, <2>2, StaysGiven
  <2> QED BY <1>1, <1>3, <2>2, <2>3, StaysHeld
<1> QED BY <1>3 DEF Sms!StaysInv

\* The service hands a message out: its push is on its way.
LEMMA StaysHandedOut ==
  ASSUME Sms!SmsInv, Sms!StaysInv, NEW n \in Sms!Ids, Sms!Push(n)
  PROVE  Sms!StaysInv'
<1> DEFINE m == [id |-> n, slots |-> IF r12[n].long THEN {} ELSE Sms!SlotsOf(n)]
<1>1. /\ r13' = r13 \ {n} /\ r14' = r14 \union {m}
      /\ UNCHANGED <<r1, r6, r17, r12, r11>>
  BY DEF Sms!Push, Sms!page
<1>2. m.id = n
  OBVIOUS
<1> HIDE DEF m
<1>3. ASSUME NEW id \in 1..Len(r12'), Sms!Given(id)'
      PROVE  (Sms!Stands(id, r1') \/ Sms!Blocked(id)') /\ \A l \in r6' : Sms!Stands(id, l)
  <2>1. id # n
    BY <1>1, <1>2, <1>3 DEF Sms!Given
  <2>2. Sms!Given(id)
    BY <1>1, <1>3, <2>1, StaysGiven
  <2> QED BY <1>1, <1>3, <2>2, StaysHeld
<1> QED BY <1>3 DEF Sms!StaysInv

\* The store is read as it is, and what was given is in it.
LEMMA StaysListed == ASSUME Sms!SmsInv, Sms!StaysInv, Sms!Listed PROVE Sms!StaysInv'
<1>1. UNCHANGED <<r1, r17, r14, r13, r12, r11>> /\ (r6' = r6 \union {Sms!Stored} \/ r6' = r6)
  BY DEF Sms!Listed, Sms!page
<1>2. ASSUME NEW id \in 1..Len(r12'), Sms!Given(id)'
      PROVE  (Sms!Stands(id, r1') \/ Sms!Blocked(id)') /\ \A l \in r6' : Sms!Stands(id, l)
  <2>1. Sms!Given(id)
    BY <1>1, <1>2, StaysGiven
  <2>2. PICK s \in Size.sms.slots : r11[s] = id
    BY <2>1 DEF Sms!Given, Sms!SlotsOf
  <2>3. id \in {r11[t] : t \in Size.sms.slots} \ {0} /\ Sms!Whole(id)
    BY <1>1, <2>1, <2>2 DEF Sms!Given
  <2>4. [id |-> id, slots |-> Sms!SlotsOf(id), unread |-> id \in r13,
        part |-> ~Sms!Whole(id)] \in Sms!Stored
    BY <2>3 DEF Sms!Stored
  <2>5. Sms!Stands(id, Sms!Stored)
    BY <2>3, <2>4 DEF Sms!Stands
  <2> QED BY <1>1, <1>2, <2>1, <2>5, StaysHeld
<1> QED BY <1>2 DEF Sms!StaysInv

\* A slot is emptied.
LEMMA StaysDeleted == ASSUME Sms!SmsInv, Sms!StaysInv, NEW d, Sms!DeleteOne(d) PROVE Sms!StaysInv'
<1>1. PICK m \in d.left : /\ r11' = [s \in Size.sms.slots |-> IF s \in Sms!AllOf(m) THEN 0 ELSE r11[s]]
                          /\ UNCHANGED <<r1, r17, r14, r13, r12, r6>>
  BY DEF Sms!DeleteOne, Sms!page
<1>2. \A s \in Size.sms.slots, id \in 1..Len(r12) : r11'[s] = id => r11[s] = id
  BY <1>1, SmsFacts
<1> QED BY <1>1, <1>2, StaysQuiet

\* The invariant holds at the start.
LEMMA StaysBegins == Sms!Init => Sms!StaysInv
<1> SUFFICES ASSUME Sms!Init PROVE Sms!StaysInv
  OBVIOUS
<1>1. r12 = <<>>
  BY DEF Sms!Init
<1>2. Len(r12) = 0
  BY <1>1, EmptySeq
<1> QED BY <1>2 DEF Sms!StaysInv

\* Every step keeps it.
LEMMA StaysKept == Sms!SmsBounds /\ Sms!SmsInv /\ Sms!StaysInv /\ Sms!Next => Sms!StaysInv'
<1> SUFFICES ASSUME Sms!SmsBounds, Sms!SmsInv, Sms!StaysInv, Sms!Next PROVE Sms!StaysInv'
  OBVIOUS
<1>1. CASE UNCHANGED <<r1, r6, r11, r12, r13, r14, r17>>
  BY <1>1, StaysQuiet
<1>2. ASSUME NEW p \in Size.sms.peers, Sms!Select(p) PROVE Sms!StaysInv'
  BY <1>2, StaysSelected
<1>3. ASSUME NEW p \in Size.sms.senders, NEW sent \in 1..Size.sms.messages + 1,
             NEW long \in BOOLEAN, Sms!Arrive(p, sent, long) PROVE Sms!StaysInv'
  BY <1>3, StaysArrived
<1>4. ASSUME NEW id \in Sms!Ids, Sms!ArriveRest(id) PROVE Sms!StaysInv'
  BY <1>4, StaysJoined
<1>5. ASSUME NEW id \in Sms!Ids, Sms!Replay(id) PROVE Sms!StaysInv'
  BY <1>5, StaysReplayed
<1>6. CASE Sms!Refresh
  BY <1>1, <1>6 DEF Sms!Refresh, Sms!page
<1>7. ASSUME NEW ms \in SUBSET r1, Sms!Delete(ms) PROVE Sms!StaysInv'
  BY <1>1, <1>7 DEF Sms!Delete, Sms!page
<1>8. CASE Sms!Moves
  <2>1. ASSUME NEW id \in Sms!Ids, Sms!Push(id) PROVE Sms!StaysInv'
    BY <2>1, StaysHandedOut
  <2>2. CASE Sms!ReceivePush
    BY <2>2, StaysReceived
  <2>3. CASE Sms!Retry
    BY <1>1, <2>3 DEF Sms!Retry
  <2>4. CASE Sms!Listed
    BY <2>4, StaysListed
  <2>5. CASE Sms!Refreshed
    BY <2>5, StaysRefreshed
  <2>6. ASSUME NEW d \in r10, Sms!DeleteOne(d) PROVE Sms!StaysInv'
    BY <2>6, StaysDeleted
  <2>7. ASSUME NEW d \in r10, Sms!DeleteFails(d) PROVE Sms!StaysInv'
    BY <1>1, <2>7 DEF Sms!DeleteFails, Sms!page
  <2>8. ASSUME NEW d \in r10, Sms!Deleted(d) PROVE Sms!StaysInv'
    BY <1>1, <2>8 DEF Sms!Deleted, Sms!page
  <2> QED BY <1>8, <2>1, <2>2, <2>3, <2>4, <2>5, <2>6, <2>7, <2>8 DEF Sms!Moves
<1> QED BY <1>2, <1>3, <1>4, <1>5, <1>6, <1>7, <1>8 DEF Sms!Next

\* It speaks of nothing but the variables of the machine.
LEMMA StaysStutters ==
  Sms!SmsInv /\ Sms!StaysInv
  /\ UNCHANGED <<r1, r2, r3, r4, r5, r6, r7, r8, r9, r10, r11, r12, r13, r14, r15, r16, r17, r18, r19,
     r20, r21>> => Sms!StaysInv'
<1> SUFFICES ASSUME Sms!SmsInv, Sms!StaysInv,
                    UNCHANGED <<r1, r2, r3, r4, r5, r6, r7, r8, r9, r10, r11, r12, r13, r14, r15, r16,
                    r17, r18, r19, r20, r21>> PROVE Sms!StaysInv'
  OBVIOUS
<1>1. UNCHANGED <<r1, r6, r11, r12, r13, r14, r17>>
  BY DEF Sms!vars, Sms!page
<1> QED BY <1>1, StaysQuiet

\* What it says.
LEMMA StaysHolds == Sms!SmsInv /\ Sms!StaysInv => Sms!GivenStays
<1> SUFFICES ASSUME Sms!SmsInv, Sms!StaysInv, NEW id \in DOMAIN r12, Sms!Given(id),
                    Sms!Quiet PROVE Sms!Stands(id, r1)
  BY DEF Sms!GivenStays
<1>1. DOMAIN r12 = 1..Len(r12)
  BY LenProperties DEF Sms!SmsInv
<1>2. ~Sms!Blocked(id)
  <2> SUFFICES ASSUME Sms!Blocked(id) PROVE FALSE
    OBVIOUS
  <2>1. PICK o \in r1, s \in Size.sms.slots : o.id # id /\ o.slots = {s} /\ r11[s] = id
    BY DEF Sms!Blocked
  <2>2. o.slots \subseteq Sms!SlotsOf(o.id)
    BY DEF Sms!Quiet
  <2> QED BY <2>1, <2>2 DEF Sms!SlotsOf
<1> QED BY <1>1, <1>2 DEF Sms!StaysInv

-----------------------------------------------------------------------------
(* The settings of messages.                                               *)

SmsSet == INSTANCE SmsSettings WITH
    imsChk <- r1, smsChk <- r2, center <- r3, smsAt <- r4, smsTo <- r5,
    steps <- r6, imsAt <- r7, imsTo <- r8, loading <- r9, staged <- r10,
    clearAt <- r11, todo <- r12, missed <- r13, listed <- r14,
    strayed <- r15, told <- r16, ims <- r17, radio <- r18, csca <- r19,
    mem <- r20, full <- r21, clicks <- r22, fails <- r23,
    Numbers <- Size.smsset.numbers, Clicks <- Size.smsset.clicks,
    MaxFail <- Size.smsset.failed

\* The invariant holds at the start.
LEMMA SmsSetBegins == ASSUME SmsSet!SmsSetBounds, SmsSet!Init PROVE SmsSet!SmsSetInv
BY DEF SmsSet!SmsSetBounds, SmsSet!Init, SmsSet!SmsSetInv, SmsSet!PassedIsEmpty

\* What leaves the clearing and what it looks at as they are, or empties more.
LEMMA SmsSetRests ==
  ASSUME SmsSet!SmsSetInv, r23' \in Nat, r17' \in BOOLEAN, r8' \in BOOLEAN, r5' \in BOOLEAN,
         r1' \in BOOLEAN, r2' \in BOOLEAN,
         UNCHANGED <<SmsSet!clearVars, r20>>, r21' \subseteq r21
  PROVE  SmsSet!SmsSetInv'
<1>1. SmsSet!PassedIsEmpty'
  BY DEF SmsSet!SmsSetInv, SmsSet!PassedIsEmpty, SmsSet!clearVars
<1> QED BY <1>1 DEF SmsSet!SmsSetInv, SmsSet!clearVars

\* The number of failures left counts down.
LEMMA SmsSetFails == ASSUME SmsSet!SmsSetInv, SmsSet!Fails \/ UNCHANGED r23 PROVE r23' \in Nat
BY DEF SmsSet!SmsSetInv, SmsSet!Fails

\* Every step keeps it.
LEMMA SmsSetKept == ASSUME SmsSet!SmsSetInv, SmsSet!Next PROVE SmsSet!SmsSetInv'
<1>1. ASSUME SmsSet!LoadIMS PROVE SmsSet!SmsSetInv'
  <2>1. r23' \in Nat
    BY <1>1, SmsSetFails DEF SmsSet!LoadIMS
  <2>2. /\ r1' \in BOOLEAN /\ r2' \in BOOLEAN
        /\ UNCHANGED <<r17, r8, r5, SmsSet!clearVars, r20, r21>>
    BY <1>1 DEF SmsSet!LoadIMS, SmsSet!SmsSetInv, SmsSet!pageVars, SmsSet!seriesVars,
                SmsSet!imsVars, SmsSet!modemVars
  <2> QED BY <2>1, <2>2, SmsSetRests DEF SmsSet!SmsSetInv
<1>2. ASSUME SmsSet!FlipIms PROVE SmsSet!SmsSetInv'
  <2>1. /\ r1' \in BOOLEAN /\ r8' \in BOOLEAN
        /\ UNCHANGED <<r17, r2, r5, SmsSet!clearVars, r20, r21, r23>>
    BY <1>2 DEF SmsSet!FlipIms, SmsSet!SmsSetInv, SmsSet!seriesVars, SmsSet!modemVars
  <2> QED BY <2>1, SmsSetRests DEF SmsSet!SmsSetInv
<1>3. ASSUME SmsSet!ImsAccepted PROVE SmsSet!SmsSetInv'
  <2>1. r23' \in Nat
    BY <1>3, SmsSetFails DEF SmsSet!ImsAccepted, SmsSet!Carries, SmsSet!Ignores
  <2>2. r17' \in BOOLEAN
    BY <1>3 DEF SmsSet!ImsAccepted, SmsSet!Carries, SmsSet!Ignores, SmsSet!SmsSetInv
  <2>3. UNCHANGED <<r1, r2, r8, r5, SmsSet!clearVars, r20, r21>>
    BY <1>3 DEF SmsSet!ImsAccepted, SmsSet!pageVars, SmsSet!seriesVars
  <2> QED BY <2>1, <2>2, <2>3, SmsSetRests DEF SmsSet!SmsSetInv
<1>4. ASSUME SmsSet!ImsRefused PROVE SmsSet!SmsSetInv'
  <2>1. r23' \in Nat
    BY <1>4, SmsSetFails DEF SmsSet!ImsRefused
  <2>2. r1' \in BOOLEAN /\ UNCHANGED <<r17, r2, r8, r5, SmsSet!clearVars, r20, r21>>
    BY <1>4 DEF SmsSet!ImsRefused, SmsSet!seriesVars, SmsSet!modemVars
  <2> QED BY <2>1, <2>2, SmsSetRests DEF SmsSet!SmsSetInv
<1>5. ASSUME SmsSet!ImsVerified PROVE SmsSet!SmsSetInv'
  <2>1. r23' \in Nat
    BY <1>5, SmsSetFails DEF SmsSet!ImsVerified, SmsSet!ReadIms
  <2>2. UNCHANGED <<r17, r1, r2, r8, r5, SmsSet!clearVars, r20, r21>>
    BY <1>5 DEF SmsSet!ImsVerified, SmsSet!pageVars, SmsSet!seriesVars, SmsSet!modemVars
  <2> QED BY <2>1, <2>2, SmsSetRests DEF SmsSet!SmsSetInv
<1>6. ASSUME NEW b \in BOOLEAN, SmsSet!ToggleSms(b) PROVE SmsSet!SmsSetInv'
  <2>1. r2' \in BOOLEAN /\ r5' \in BOOLEAN
    BY <1>6 DEF SmsSet!ToggleSms, SmsSet!SmsSetInv, SmsSet!seriesVars
  <2>2. UNCHANGED <<r1, r17, r8, SmsSet!clearVars, r20, r21, r23>>
    BY <1>6 DEF SmsSet!ToggleSms, SmsSet!imsVars, SmsSet!modemVars
  <2> QED BY <2>1, <2>2, SmsSetRests DEF SmsSet!SmsSetInv
<1>7. ASSUME SmsSet!Step PROVE SmsSet!SmsSetInv'
  <2>1. SmsSet!Fails \/ UNCHANGED r23
    BY <1>7 DEF SmsSet!Step, SmsSet!Carries, SmsSet!Ignores
  <2>2. r17' \in {r17, r5}
    BY <1>7 DEF SmsSet!Step, SmsSet!Carries, SmsSet!Ignores
  <2>3. r21' \subseteq r21
    BY <1>7 DEF SmsSet!Step
  <2>4. UNCHANGED <<r1, r2, r8, r5, SmsSet!clearVars, r20>>
    BY <1>7 DEF SmsSet!Step, SmsSet!pageVars, SmsSet!imsVars
  <2>5. r23' \in Nat
    BY <2>1, SmsSetFails
  <2>6. r17' \in BOOLEAN
    BY <2>2 DEF SmsSet!SmsSetInv
  <2> QED BY <2>3, <2>4, <2>5, <2>6, SmsSetRests DEF SmsSet!SmsSetInv
<1>8. ASSUME SmsSet!StepRefused PROVE SmsSet!SmsSetInv'
  <2>1. r23' \in Nat
    BY <1>8, SmsSetFails DEF SmsSet!StepRefused
  <2>2. UNCHANGED <<r17, r1, r2, r8, r5, SmsSet!clearVars, r20, r21>>
    BY <1>8 DEF SmsSet!StepRefused, SmsSet!pageVars, SmsSet!imsVars, SmsSet!modemVars
  <2> QED BY <2>1, <2>2, SmsSetRests DEF SmsSet!SmsSetInv
<1>9. ASSUME SmsSet!SmsVerified PROVE SmsSet!SmsSetInv'
  <2>1. r23' \in Nat
    BY <1>9, SmsSetFails DEF SmsSet!SmsVerified, SmsSet!ReadIms
  <2>2. r2' \in {r2, r5}
    BY <1>9 DEF SmsSet!SmsVerified
  <2>3. UNCHANGED <<r17, r1, r8, r5, SmsSet!clearVars, r20, r21>>
    BY <1>9 DEF SmsSet!SmsVerified, SmsSet!imsVars, SmsSet!modemVars
  <2>4. r2' \in BOOLEAN
    BY <2>2 DEF SmsSet!SmsSetInv
  <2> QED BY <2>1, <2>3, <2>4, SmsSetRests DEF SmsSet!SmsSetInv
<1>10. ASSUME SmsSet!CenterRead PROVE SmsSet!SmsSetInv'
  <2>1. r23' \in Nat
    BY <1>10, SmsSetFails DEF SmsSet!CenterRead
  <2>2. UNCHANGED <<r17, r1, r2, r8, r5, SmsSet!clearVars, r20, r21>>
    BY <1>10 DEF SmsSet!CenterRead, SmsSet!imsVars, SmsSet!modemVars
  <2> QED BY <2>1, <2>2, SmsSetRests DEF SmsSet!SmsSetInv
<1>11. ASSUME NEW n \in Size.smsset.numbers \union {SmsSet!Empty},
              SmsSet!TypeCenter(n) PROVE SmsSet!SmsSetInv'
  <2>1. UNCHANGED <<r17, r1, r2, r8, r5, SmsSet!clearVars, r20, r21, r23>>
    BY <1>11 DEF SmsSet!TypeCenter, SmsSet!seriesVars, SmsSet!imsVars, SmsSet!modemVars
  <2> QED BY <2>1, SmsSetRests DEF SmsSet!SmsSetInv
<1>12. ASSUME NEW m \in SmsSet!Stores, SmsSet!StageStorage(m) PROVE SmsSet!SmsSetInv'
  <2>1. UNCHANGED <<r17, r1, r2, r8, r5, SmsSet!clearVars, r20, r21, r23>>
    BY <1>12 DEF SmsSet!StageStorage, SmsSet!pageVars, SmsSet!seriesVars, SmsSet!imsVars,
                 SmsSet!modemVars
  <2> QED BY <2>1, SmsSetRests DEF SmsSet!SmsSetInv
<1>13. ASSUME SmsSet!ApplyStaged PROVE SmsSet!SmsSetInv'
  <2>1. /\ UNCHANGED <<r17, r1, r2, r8, r5, r11, r12, r13, r14, r21, r23>>
        /\ r15' = (r15 \/ (r11 # "idle" /\ r20' # r20))
    BY <1>13 DEF SmsSet!ApplyStaged, SmsSet!pageVars, SmsSet!seriesVars, SmsSet!imsVars
  <2>2. r15' \in BOOLEAN
    BY <2>1
  <2>3. SmsSet!PassedIsEmpty'
    BY <2>1 DEF SmsSet!SmsSetInv, SmsSet!PassedIsEmpty
  <2> QED BY <2>1, <2>2, <2>3 DEF SmsSet!SmsSetInv
<1>14. ASSUME SmsSet!ClearAll PROVE SmsSet!SmsSetInv'
  <2>1. r23' \in Nat
    BY <1>14, SmsSetFails DEF SmsSet!ClearAll
  <2>2. /\ UNCHANGED <<r17, r1, r2, r8, r5, r21>>
        /\ r11' = "select" /\ r13' = FALSE /\ r15' = FALSE /\ r14' = r12'
    BY <1>14 DEF SmsSet!ClearAll, SmsSet!pageVars, SmsSet!seriesVars, SmsSet!imsVars,
                 SmsSet!modemVars
  <2>3. SmsSet!PassedIsEmpty'
    BY <2>2 DEF SmsSet!PassedIsEmpty
  <2> QED BY <2>1, <2>2, <2>3 DEF SmsSet!SmsSetInv
<1>15. ASSUME SmsSet!Select PROVE SmsSet!SmsSetInv'
  <2>1. /\ UNCHANGED <<r17, r1, r2, r8, r5, r13, r14, r21>>
        /\ r11 = "select" /\ r11' = "delete"
    BY <1>15 DEF SmsSet!Select, SmsSet!pageVars, SmsSet!seriesVars, SmsSet!imsVars
  <2>2. PICK s \in r12 : /\ r12' = r12 \ {s}
                         /\ \/ r20' = s /\ UNCHANGED <<r23, r15>>
                            \/ SmsSet!Fails /\ r15' = TRUE /\ UNCHANGED r20
    BY <1>15 DEF SmsSet!Select
  <2>3. r23' \in Nat
    BY <2>2, SmsSetFails
  <2>4. r15' \in BOOLEAN
    BY <2>2 DEF SmsSet!SmsSetInv
  <2>5. SmsSet!PassedIsEmpty'
    BY <2>1, <2>2 DEF SmsSet!SmsSetInv, SmsSet!PassedIsEmpty
  <2> QED BY <2>1, <2>3, <2>4, <2>5 DEF SmsSet!SmsSetInv
<1>16. ASSUME SmsSet!Delete PROVE SmsSet!SmsSetInv'
  <2>1. /\ UNCHANGED <<r17, r1, r2, r8, r5, r14, r12, r15, r20>>
        /\ r11 = "delete" /\ r11' = "select"
        /\ \/ r21' = r21 \ {r20} /\ r13' = r13 /\ UNCHANGED r23
           \/ SmsSet!Fails /\ r13' = TRUE /\ UNCHANGED r21
    BY <1>16 DEF SmsSet!Delete, SmsSet!Counts, SmsSet!SmsSetInv, SmsSet!pageVars,
                 SmsSet!seriesVars, SmsSet!imsVars
  <2>2. r23' \in Nat
    BY <2>1, SmsSetFails
  <2>3. r13' \in BOOLEAN
    BY <2>1 DEF SmsSet!SmsSetInv
  <2>4. SmsSet!PassedIsEmpty'
    BY <2>1 DEF SmsSet!SmsSetInv, SmsSet!PassedIsEmpty
  <2> QED BY <2>1, <2>2, <2>3, <2>4 DEF SmsSet!SmsSetInv
<1>17. ASSUME SmsSet!Cleared PROVE SmsSet!SmsSetInv'
  <2>1. /\ UNCHANGED <<r17, r1, r2, r8, r5, r13, r15, r23>>
        /\ r11' = "idle"
    BY <1>17 DEF SmsSet!Cleared, SmsSet!pageVars, SmsSet!seriesVars, SmsSet!imsVars,
                 SmsSet!modemVars
  <2>2. SmsSet!PassedIsEmpty'
    BY <2>1 DEF SmsSet!PassedIsEmpty
  <2> QED BY <2>1, <2>2 DEF SmsSet!SmsSetInv
<1> QED BY <1>1, <1>2, <1>3, <1>4, <1>5, <1>6, <1>7, <1>8, <1>9, <1>10, <1>11, <1>12, <1>13,
           <1>14, <1>15, <1>16, <1>17 DEF SmsSet!Next, SmsSet!Moves

\* It speaks of nothing but the variables of the machine.
LEMMA SmsSetStutters ==
  ASSUME SmsSet!SmsSetInv,
         UNCHANGED <<r1, r2, r3, r4, r5, r6, r7, r8, r9, r10, r11, r12, r13, r14, r15, r16,
                     r17, r18, r19, r20, r21, r22, r23>>
  PROVE  SmsSet!SmsSetInv'
BY SmsSetRests DEF SmsSet!SmsSetInv, SmsSet!clearVars

\* A switch is told of as it was read.
LEMMA SmsSetSwitched == ASSUME SmsSet!SmsSetInv, SmsSet!Next PROVE SmsSet!SwitchedIsRead
<1> SUFFICES ASSUME r16' # r16, r23' = r23
             PROVE  /\ r16' \in {"imsOn", "smsOn"} => r17
                    /\ r16' \in {"imsOff", "smsOff"} => ~r17
  BY DEF SmsSet!SwitchedIsRead
<1>1. ~SmsSet!Fails
  BY DEF SmsSet!Fails, SmsSet!SmsSetInv
<1>2. ASSUME NEW got, NEW want \in BOOLEAN, SmsSet!ReadIms(got),
             SmsSet!Verdict(want, got) # "ignored"
      PROVE  SmsSet!Verdict(want, got) = "ok" /\ r17 = want
  <2>1. got = (IF r17 THEN "on" ELSE "off")
    BY <1>1, <1>2 DEF SmsSet!ReadIms
  <2>2. SmsSet!Verdict(want, got) = IF (got = "on") = want THEN "ok" ELSE "ignored"
    BY <2>1 DEF SmsSet!Verdict
  <2>3. SmsSet!Verdict(want, got) = "ok" /\ (got = "on") = want
    BY <1>2, <2>2
  <2>4. (got = "on") = r17
    BY <2>1 DEF SmsSet!SmsSetInv
  <2> QED BY <2>3, <2>4
<1>3. CASE SmsSet!ImsVerified
  <2>1. PICK got \in {"on", "off", "unread"} :
          /\ SmsSet!ReadIms(got)
          /\ r16' = [ok |-> IF r8 THEN "imsOn" ELSE "imsOff", unknown |-> "imsUnverified",
                      ignored |-> "imsIgnored"][SmsSet!Verdict(r8, got)]
    BY <1>3 DEF SmsSet!ImsVerified
  <2>2. r8 \in BOOLEAN
    BY DEF SmsSet!SmsSetInv
  <2>3. CASE SmsSet!Verdict(r8, got) = "ignored"
    <3>1. r16' = "imsIgnored"
      BY <2>1, <2>3
    <3> QED BY <3>1
  <2>4. CASE SmsSet!Verdict(r8, got) # "ignored"
    <3>1. SmsSet!Verdict(r8, got) = "ok" /\ r17 = r8
      BY <1>2, <2>1, <2>2, <2>4
    <3>2. r16' = IF r8 THEN "imsOn" ELSE "imsOff"
      BY <2>1, <3>1
    <3> QED BY <3>1, <3>2
  <2> QED BY <2>3, <2>4
<1>4. CASE SmsSet!SmsVerified
  <2>1. PICK got \in {"on", "off", "unread"} :
          /\ SmsSet!ReadIms(got)
          /\ IF SmsSet!Verdict(r5, got) = "ignored"
             THEN r16' = "smsIgnored"
             ELSE r16' = (IF r5 THEN "smsOn" ELSE "smsOff")
    BY <1>4 DEF SmsSet!SmsVerified
  <2>2. r5 \in BOOLEAN
    BY DEF SmsSet!SmsSetInv
  <2>3. CASE SmsSet!Verdict(r5, got) = "ignored"
    BY <2>1, <2>3
  <2>4. CASE SmsSet!Verdict(r5, got) # "ignored"
    <3>1. r17 = r5
      BY <1>2, <2>1, <2>2, <2>4
    <3> QED BY <2>1, <2>4, <3>1
  <2> QED BY <2>3, <2>4
<1>5. CASE ~SmsSet!ImsVerified /\ ~SmsSet!SmsVerified
  <2>1. r16' \in {"imsFailed", "smsFailed", "cleared", "clearFailed"}
    BY <1>5 DEF SmsSet!Next, SmsSet!Moves, SmsSet!LoadIMS, SmsSet!FlipIms, SmsSet!ImsAccepted,
                SmsSet!ImsRefused, SmsSet!ToggleSms, SmsSet!Step, SmsSet!StepRefused,
           SmsSet!CenterRead, SmsSet!TypeCenter, SmsSet!StageStorage, SmsSet!ApplyStaged,
           SmsSet!ClearAll, SmsSet!Select, SmsSet!Delete, SmsSet!Cleared
  <2> QED BY <2>1
<1> QED BY <1>3, <1>4, <1>5

\* A store that is said to be empty is.
LEMMA SmsSetCleared == ASSUME SmsSet!SmsSetInv, SmsSet!Next PROVE SmsSet!ClearedIsEmpty
<1> SUFFICES ASSUME r11 # "idle", r16' = "cleared", r11' = "idle", ~r15
             PROVE  r14 \intersect r21 = {}
  BY DEF SmsSet!ClearedIsEmpty
<1>1. SmsSet!Cleared
  BY DEF SmsSet!Next, SmsSet!Moves, SmsSet!LoadIMS, SmsSet!FlipIms, SmsSet!ImsAccepted,
         SmsSet!ImsRefused, SmsSet!ImsVerified, SmsSet!ToggleSms, SmsSet!Step,
         SmsSet!StepRefused, SmsSet!SmsVerified, SmsSet!CenterRead, SmsSet!TypeCenter,
         SmsSet!StageStorage, SmsSet!ApplyStaged, SmsSet!ClearAll, SmsSet!Select,
         SmsSet!Delete, SmsSet!clearVars
<1>2. r11 = "select" /\ r12 = {} /\ ~r13
  BY <1>1 DEF SmsSet!Cleared
<1> QED BY <1>2 DEF SmsSet!SmsSetInv, SmsSet!PassedIsEmpty

\* At the start the modem has its service centre.
LEMMA SmsCenterBegins == ASSUME SmsSet!Init PROVE SmsSet!CenterInv
BY DEF SmsSet!Init, SmsSet!CenterInv

\* The steps of a series.
LEMMA StepsWriteNumbers ==
  ASSUME NEW on \in BOOLEAN, NEW number \in Size.smsset.numbers \union {SmsSet!Empty}
  PROVE  SmsSet!Steps(on, number)
         \in Seq(Size.smsset.numbers \union {"ceus", "ims", "radio", "bearer", "wipe"})
<1> DEFINE S == Size.smsset.numbers \union {"ceus", "ims", "radio", "bearer", "wipe"}
<1>1. <<"ceus", "ims", "radio", "bearer">> \in Seq(S) /\ <<"ceus", "ims", "radio", "wipe">> \in Seq(S)
  OBVIOUS
<1>2. (IF number = SmsSet!Empty THEN <<>> ELSE <<number>>) \in Seq(S)
  <2>1. <<>> \in Seq(S) /\ (number # SmsSet!Empty => <<number>> \in Seq(S))
    OBVIOUS
  <2> HIDE DEF S
  <2> QED BY <2>1, Zenon
<1> HIDE DEF S
<1>3. <<"ceus", "ims", "radio",
      "bearer">> \o (IF number = SmsSet!Empty THEN <<>> ELSE <<number>>) \in Seq(S)
  BY <1>1, <1>2
<1> QED BY <1>1, <1>3, Zenon DEF SmsSet!Steps, S

\* Every step keeps it.
LEMMA SmsCenterKept ==
  ASSUME SmsSet!SmsSetBounds, SmsSet!SmsSetInv, SmsSet!CenterInv, SmsSet!Next
  PROVE  SmsSet!CenterInv'
<1>1. ASSUME UNCHANGED <<r19, r3, r10, r6>> PROVE SmsSet!CenterInv'
  BY <1>1 DEF SmsSet!CenterInv
<1>2. CASE SmsSet!LoadIMS
  BY <1>2 DEF SmsSet!LoadIMS, SmsSet!CenterInv, SmsSet!pageVars, SmsSet!seriesVars, SmsSet!modemVars
<1>3. ASSUME SmsSet!FlipIms \/ SmsSet!ImsAccepted \/ SmsSet!ImsRefused \/ SmsSet!ImsVerified
               \/ SmsSet!SmsVerified \/ SmsSet!ClearAll
             \/ SmsSet!Select \/ SmsSet!Delete \/ SmsSet!Cleared
      PROVE  SmsSet!CenterInv'
  BY <1>1, <1>3 DEF SmsSet!FlipIms, SmsSet!ImsAccepted, SmsSet!ImsRefused, SmsSet!ImsVerified,
                    SmsSet!SmsVerified, SmsSet!ClearAll,
     SmsSet!Select, SmsSet!Delete, SmsSet!Cleared, SmsSet!pageVars, SmsSet!seriesVars,
     SmsSet!modemVars
<1>4. ASSUME NEW b \in BOOLEAN, SmsSet!ToggleSms(b) PROVE SmsSet!CenterInv'
  <2>1. r6' = r6 \/ r6' = SmsSet!Steps(~r2, r3)
    BY <1>4 DEF SmsSet!ToggleSms, SmsSet!seriesVars
  <2>2. r6' \in Seq(Size.smsset.numbers \union {"ceus", "ims", "radio", "bearer", "wipe"})
    <3>1. r3 \in Size.smsset.numbers \union {SmsSet!Empty}
      BY DEF SmsSet!CenterInv
    <3>2. SmsSet!Steps(~r2, r3)
          \in Seq(Size.smsset.numbers \union {"ceus", "ims", "radio", "bearer", "wipe"})
      BY <3>1, StepsWriteNumbers, Zenon
    <3> QED BY <2>1, <3>2 DEF SmsSet!CenterInv
  <2> QED BY <1>4, <2>2 DEF SmsSet!ToggleSms, SmsSet!CenterInv, SmsSet!modemVars
<1>5. CASE SmsSet!Step
  <2> DEFINE S == Size.smsset.numbers \union {"ceus", "ims", "radio", "bearer", "wipe"}
  <2>1. r6 \in Seq(S) /\ r6 # <<>> /\ r6' = Tail(r6)
    BY <1>5 DEF SmsSet!Step, SmsSet!CenterInv
  <2>2. r6' \in Seq(S) /\ Head(r6) \in S
    <3> HIDE DEF S
    <3> QED BY <2>1
  <2>3. Head(r6) \in Size.smsset.numbers \union {SmsSet!Empty} => Head(r6) \in Size.smsset.numbers
    BY <2>2 DEF SmsSet!Empty
  <2>4. r19' = r19 \/ (r19' = Head(r6) /\ Head(r6) \in Size.smsset.numbers \union {SmsSet!Empty})
    BY <1>5 DEF SmsSet!Step
  <2> QED BY <1>5, <2>2, <2>3, <2>4 DEF SmsSet!Step, SmsSet!CenterInv, SmsSet!pageVars
<1>6. CASE SmsSet!StepRefused
  BY <1>6 DEF SmsSet!StepRefused, SmsSet!CenterInv, SmsSet!pageVars, SmsSet!modemVars
<1>7. CASE SmsSet!CenterRead
  BY <1>7 DEF SmsSet!CenterRead, SmsSet!CenterInv, SmsSet!modemVars
<1>8. ASSUME NEW n \in Size.smsset.numbers \union {SmsSet!Empty},
             SmsSet!TypeCenter(n) PROVE SmsSet!CenterInv'
  BY <1>8 DEF SmsSet!TypeCenter, SmsSet!CenterInv, SmsSet!seriesVars, SmsSet!modemVars
<1>9. ASSUME NEW m \in SmsSet!Stores, SmsSet!StageStorage(m) PROVE SmsSet!CenterInv'
  BY <1>9 DEF SmsSet!StageStorage, SmsSet!CenterInv, SmsSet!pageVars, SmsSet!seriesVars,
              SmsSet!modemVars
<1>10. CASE SmsSet!ApplyStaged
  BY <1>10 DEF SmsSet!ApplyStaged, SmsSet!CenterInv, SmsSet!pageVars, SmsSet!seriesVars
<1> QED BY <1>2, <1>3, <1>4, <1>5, <1>6, <1>7, <1>8, <1>9, <1>10 DEF SmsSet!Next, SmsSet!Moves

\* It speaks of nothing but the variables of the machine.
LEMMA SmsCenterStutters ==
  ASSUME SmsSet!CenterInv, UNCHANGED <<r19, r3, r10, r6>> PROVE SmsSet!CenterInv'
BY DEF SmsSet!CenterInv

\* What it says.
LEMMA SmsCenterHolds == ASSUME SmsSet!SmsSetBounds, SmsSet!CenterInv PROVE SmsSet!CenterIsKept
BY DEF SmsSet!SmsSetBounds, SmsSet!CenterInv, SmsSet!CenterIsKept

-----------------------------------------------------------------------------
(* Long messages that arrive.                                              *)

Long == INSTANCE LongSms WITH
    partials <- r1, age <- r2, keyOf <- r3, come <- r4, lost <- r5,
    told <- r6, arrivals <- r7,
    Messages <- Size.long.messages, Keys <- Size.long.keys,
    Total <- Size.long.total, MaxPartial <- Size.long.partial,
    MaxArrivals <- Size.long.arrivals

\* The invariant holds at the start.
LEMMA LongBegins == ASSUME Long!LongBounds, Long!LongInit PROVE Long!LongInv
<1>1. Long!Empty \in Long!Parts /\ \A n \in 1..(Size.long.total + 1) : Long!Empty[n] = Long!NoPart
  BY DEF Long!Empty, Long!Parts
<1>2. \A k \in Size.long.keys : r1[k] = Long!Empty
  BY DEF Long!LongInit
<1>3. \A k \in Size.long.keys : Long!OfOneKey(r1[k], k)
  BY <1>1, <1>2 DEF Long!OfOneKey
<1> QED BY <1>1, <1>3 DEF Long!LongInit, Long!LongInv

\* A part arrives.
LEMMA LongArrives ==
  ASSUME Long!LongBounds, Long!LongInv, NEW m \in Size.long.messages,
         NEW n \in 1..(Size.long.total + 1), Long!Arrives(m, n)
  PROVE  Long!LongInv'
<1>0. /\ r3 \in [Size.long.messages -> Size.long.keys] /\ r3' = r3
      /\ r1 \in [Size.long.keys -> Long!Parts] /\ \A k \in Size.long.keys : Long!OfOneKey(r1[k], k)
      /\ \A t \in r6 : t \in [1..Size.long.total -> Size.long.messages] /\ \E k \in Size.long.keys : \A i \in 1..Size.long.total : r3[t[i]] = k
  BY DEF Long!LongInv, Long!Arrives
<1> DEFINE k == r3[m]
<1>1. PICK left :
      LET entry == [Long!Entry(k, left) EXCEPT ![n] = m]
          kept == [j \in Size.long.keys |-> IF j \in Long!Range(left) THEN r1[j] ELSE Long!Empty]
      IN  IF Long!Complete(entry)
          THEN r6' = r6 \union {[i \in 1..Size.long.total |-> entry[i]]} /\ r1' = [kept EXCEPT ![k] = Long!Empty]
          ELSE UNCHANGED r6 /\ r1' = [kept EXCEPT ![k] = entry]
  BY DEF Long!Arrives
<1> DEFINE entry == [Long!Entry(k, left) EXCEPT ![n] = m]
           kept == [j \in Size.long.keys |-> IF j \in Long!Range(left) THEN r1[j] ELSE Long!Empty]
<1>2. Long!Empty \in Long!Parts /\ \A i \in 1..(Size.long.total + 1) : Long!Empty[i] = Long!NoPart
  BY DEF Long!Empty, Long!Parts
<1>3. k \in Size.long.keys
  BY <1>0
<1>4. /\ Long!Entry(k, left) \in Long!Parts /\ Long!OfOneKey(Long!Entry(k, left), k)
      /\ kept \in [Size.long.keys -> Long!Parts] /\ \A j \in Size.long.keys : Long!OfOneKey(kept[j], j)
  BY <1>0, <1>2, <1>3 DEF Long!Entry, Long!OfOneKey
<1>5. entry \in Long!Parts /\ Long!OfOneKey(entry, k)
  <2> DEFINE old == Long!Entry(k, left)
  <2> HIDE DEF old
  <2>1. [old EXCEPT ![n] = m] \in Long!Parts /\ Long!OfOneKey([old EXCEPT ![n] = m], k)
    BY <1>4 DEF Long!Parts, Long!OfOneKey, old
  <2> QED BY <2>1 DEF old
<1>6. r1' \in {[kept EXCEPT ![k] = Long!Empty], [kept EXCEPT ![k] = entry]}
  BY <1>1
<1> HIDE DEF kept, entry, k
<1>7. r1' \in [Size.long.keys -> Long!Parts] /\ \A j \in Size.long.keys : r1'[j] \in {kept[j], Long!Empty} \/ (j = k /\ r1'[j] = entry)
  BY <1>2, <1>3, <1>4, <1>5, <1>6
<1>8. \A j \in Size.long.keys : Long!OfOneKey(r1'[j], j)
  BY <1>2, <1>4, <1>5, <1>7 DEF Long!OfOneKey
<1>9. \A t \in r6' : t \in [1..Size.long.total -> Size.long.messages] /\ \E j \in Size.long.keys : \A i \in 1..Size.long.total : r3[t[i]] = j
  <2>1. CASE r6' = r6
    BY <1>0, <2>1
  <2>2. CASE Long!Complete(entry) /\ r6' = r6 \union {[i \in 1..Size.long.total |-> entry[i]]}
    <3>1. \A i \in 1..Size.long.total : entry[i] \in Size.long.messages /\ r3[entry[i]] = k
      <4>1. \A i \in 1..Size.long.total : i \in 1..(Size.long.total + 1)
        BY DEF Long!LongBounds
      <4> QED BY <1>5, <2>2, <4>1 DEF Long!Complete, Long!Parts, Long!OfOneKey
    <3> QED BY <1>0, <1>3, <2>2, <3>1
  <2> QED BY <1>1, <2>1, <2>2 DEF entry, k
<1>10. \A j \in Size.long.keys : Long!OfOneKey(r1[j], j)'
  BY <1>0, <1>8 DEF Long!OfOneKey
<1> QED BY <1>0, <1>7, <1>9, <1>10 DEF Long!LongInv, Long!Parts

\* Every step keeps it.
LEMMA LongKept == ASSUME Long!LongBounds, Long!LongInv, Long!LongNext PROVE Long!LongInv'
BY LongArrives DEF Long!LongNext

\* It speaks of nothing but the variables of the machine.
LEMMA LongStutters ==
  ASSUME Long!LongInv, UNCHANGED <<r1, r2, r3, r4, r5, r6, r7>>
  PROVE  Long!LongInv'
BY DEF Long!LongInv, Long!OfOneKey, Long!Parts

\* What it says.
LEMMA LongHolds == ASSUME Long!LongBounds, Long!LongInv PROVE Long!ToldIsWhole
<1>1. SUFFICES ASSUME NEW t \in r6, NEW m \in Size.long.messages, Long!Alone(m), NEW n \in 1..Size.long.total, t[n] = m
               PROVE  t = Long!All(m)
  BY DEF Long!ToldIsWhole
<1>2. t \in [1..Size.long.total -> Size.long.messages]
  BY DEF Long!LongInv
<1>3. PICK k \in Size.long.keys : \A i \in 1..Size.long.total : r3[t[i]] = k
  BY DEF Long!LongInv
<1>4. \A i \in 1..Size.long.total : t[i] = m
  BY <1>1, <1>2, <1>3 DEF Long!Alone
<1> QED BY <1>2, <1>4 DEF Long!All

\* A key at the end of the order.
Grows(t, s, k) ==
    /\ DOMAIN t = 1..(Len(s) + 1) /\ DOMAIN s = 1..Len(s) /\ Len(s) \in Nat
    /\ t[Len(s) + 1] = k
    /\ \A i \in 1..Len(s) : t[i] = s[i]

\* Append puts it there.
LEMMA OrderGrows ==
  ASSUME NEW S, NEW s \in Seq(S), NEW k \in S
  PROVE  Append(s, k) \in Seq(S) /\ Grows(Append(s, k), s, k)
BY DEF Grows

\* Whichever have expired, and whether there is room or not.
LEMMA OrderShrinks ==
  ASSUME NEW S, r2 \in Seq(S), NEW n \in 0..Len(r2), Size.long.partial \in Nat \ {0}
  PROVE  Long!RoomMade(Long!Expired(n)) \in Seq(S)
<1>1. Len(r2) \in Nat
  BY LenProperties
<1>2. Long!Expired(n) \in Seq(S)
  BY <1>1, SubSeqProperties DEF Long!Expired
<1>3. CASE Len(Long!Expired(n)) >= Size.long.partial
  <2>1. Long!Expired(n) # <<>>
    BY <1>2, <1>3, EmptySeq
  <2>2. Tail(Long!Expired(n)) \in Seq(S)
    BY <1>2, <2>1
  <2> QED BY <1>3, <2>2 DEF Long!RoomMade
<1>4. CASE ~(Len(Long!Expired(n)) >= Size.long.partial)
  BY <1>2, <1>4 DEF Long!RoomMade
<1> QED BY <1>3, <1>4

\* Taking a key out of the order leaves the others in it.
LEMMA WithoutKeeps ==
  ASSUME NEW S, NEW order \in Seq(S), NEW k \in S
  PROVE  /\ Long!Without(order, k) \in Seq(S)
         /\ \A j \in Long!Range(order) : j # k => j \in Long!Range(Long!Without(order, k))
<1>1. Len(order) \in Nat /\ DOMAIN order = 1..Len(order)
  BY LenProperties
<1>2. CASE k \notin Long!Range(order)
  BY <1>2 DEF Long!Without
<1>3. CASE k \in Long!Range(order)
  <2> DEFINE i == CHOOSE n \in DOMAIN order : order[n] = k
             before == SubSeq(order, 1, i - 1)
             after == SubSeq(order, i + 1, Len(order))
  <2>1. i \in 1..Len(order) /\ order[i] = k
    BY <1>1, <1>3 DEF Long!Range
  <2>2. Long!Without(order, k) = before \o after
    BY <1>3 DEF Long!Without
  <2> HIDE DEF i
  <2>3. /\ before \in Seq(S) /\ Len(before) = i - 1
        /\ \A n \in 1..(i - 1) : before[n] = order[n]
    BY <1>1, <2>1, SubSeqProperties
  <2>4. /\ after \in Seq(S) /\ Len(after) = Len(order) - i
        /\ \A n \in 1..(Len(order) - i) : after[n] = order[i + n]
    <3> DEFINE low == i + 1
               high == Len(order)
    <3>1. low \in Int /\ high \in Int /\ \A p \in low..high : order[p] \in S
      BY <1>1, <2>1
    <3>2. high - low + 1 = Len(order) - i /\ \A n \in 1..(Len(order) - i) : low + n - 1 = i + n
      BY <1>1, <2>1
    <3>3. low <= high \/ Len(order) - i = 0
      <4>1. Len(order) \in Int /\ i \in Int /\ i <= Len(order)
        BY <1>1, <2>1
      <4> HIDE DEF high
      <4>2. high = Len(order)
        BY DEF high
      <4> QED BY <4>1, <4>2
    <3>4. after = SubSeq(order, low, high)
      OBVIOUS
    <3> HIDE DEF low, high, after
    <3>5. /\ after \in Seq(S) /\ Len(after) = IF low <= high THEN high - low + 1 ELSE 0
          /\ \A n \in 1..(high - low + 1) : after[n] = order[low + n - 1]
      BY <3>1, <3>4, SubSeqProperties
    <3> QED BY <3>2, <3>3, <3>5
  <2> HIDE DEF before, after
  <2>5. ASSUME NEW j \in Long!Range(order), j # k PROVE j \in Long!Range(before \o after)
    <3>1. PICK n \in 1..Len(order) : order[n] = j
      BY <1>1 DEF Long!Range
    <3>2. CASE n < i
      <4>1. n \in DOMAIN (before \o after) /\ (before \o after)[n] = j
        BY <1>1, <2>1, <2>3, <2>4, <3>1, <3>2
      <4> QED BY <4>1 DEF Long!Range
    <3>3. CASE n > i
      <4>1. n - i \in 1..(Len(order) - i) /\ i + (n - i) = n
        BY <1>1, <2>1, <3>1, <3>3
      <4>2. n - 1 \in DOMAIN (before \o after) /\ (before \o after)[n - 1] = after[n - i]
        BY <1>1, <2>1, <2>3, <2>4, <3>1, <3>3
      <4> QED BY <2>4, <3>1, <4>1, <4>2 DEF Long!Range
    <3> QED BY <1>1, <2>1, <2>5, <3>1, <3>2, <3>3
  <2> QED BY <2>2, <2>3, <2>4, <2>5
<1> QED BY <1>2, <1>3

\* At the start nothing waits.
LEMMA LongWaitBegins == ASSUME Long!LongBounds, Long!LongInit PROVE Long!WaitInv
<1>1. ~Long!Complete(Long!Empty)
  BY DEF Long!Complete, Long!Empty, Long!LongBounds
<1>2. \A k \in Size.long.keys : r1[k] = Long!Empty
  BY DEF Long!LongInit
<1> QED BY <1>1, <1>2 DEF Long!LongInit, Long!WaitInv, Long!Range

\* A part arrives.
LEMMA LongWaitArrives ==
  ASSUME Long!LongBounds, Long!LongInv, Long!WaitInv, NEW m \in Size.long.messages,
         NEW n \in 1..(Size.long.total + 1), Long!Arrives(m, n)
  PROVE  Long!WaitInv'
<1> DEFINE k == r3[m]
<1>1. /\ r3 \in [Size.long.messages -> Size.long.keys] /\ r3' = r3 /\ r4' = r4 \union {<<m, n>>}
      /\ r1 \in [Size.long.keys -> Long!Parts] /\ \A j \in Size.long.keys : Long!OfOneKey(r1[j], j)
      /\ r2 \in Seq(Size.long.keys) /\ Size.long.total \in Nat \ {0}
         /\ Long!NoPart \notin Size.long.messages
  BY DEF Long!LongInv, Long!WaitInv, Long!Arrives, Long!LongBounds
<1>2. PICK old \in 0..Len(r2) :
      LET left == Long!RoomMade(Long!Expired(old))
          entry == [Long!Entry(k, left) EXCEPT ![n] = m]
          kept == [j \in Size.long.keys |-> IF j \in Long!Range(left) THEN r1[j] ELSE Long!Empty]
          gone == Long!Range(r2) \ Long!Range(left)
      IN  /\ r5' = r5 \union {o \in Size.long.messages : r3[o] \in gone}
          /\ IF Long!Complete(entry)
             THEN /\ r6' = r6 \union {[i \in 1..Size.long.total |-> entry[i]]}
                  /\ r1' = [kept EXCEPT ![k] = Long!Empty]
                  /\ r2' = Long!Without(left, k)
             ELSE /\ UNCHANGED r6
                  /\ r1' = [kept EXCEPT ![k] = entry]
                  /\ r2' = IF k \in Long!Range(left) THEN left ELSE Append(left, k)
  BY Zenon DEF Long!Arrives
<1> DEFINE left == Long!RoomMade(Long!Expired(old))
           entry == [Long!Entry(k, left) EXCEPT ![n] = m]
           kept == [j \in Size.long.keys |-> IF j \in Long!Range(left) THEN r1[j] ELSE Long!Empty]
<1>3. left \in Seq(Size.long.keys)
  BY <1>1, <1>2, OrderShrinks DEF Long!LongBounds
<1>4. Long!Empty \in Long!Parts /\ ~Long!Complete(Long!Empty)
  <2>1. 1 \in 1..Size.long.total /\ 1 \in 1..(Size.long.total + 1)
    BY <1>1
  <2>2. Long!Empty[1] = Long!NoPart
    BY <2>1 DEF Long!Empty
  <2>3. ~Long!Complete(Long!Empty)
    BY <2>1, <2>2 DEF Long!Complete
  <2> QED BY <2>3 DEF Long!Empty, Long!Parts
<1>5. k \in Size.long.keys
  BY <1>1
<1> HIDE DEF left
<1>6. /\ Long!Entry(k, left) \in Long!Parts /\ Long!OfOneKey(Long!Entry(k, left), k)
      /\ k \in Long!Range(left) => Long!Entry(k, left) = r1[k]
  BY <1>1, <1>4, <1>5 DEF Long!Entry, Long!OfOneKey, Long!Empty
<1>7. /\ entry \in Long!Parts /\ entry[n] = m
      /\ \A i \in 1..(Size.long.total + 1) : i # n => entry[i] = Long!Entry(k, left)[i]
      /\ Long!OfOneKey(entry, k)
  <2> DEFINE was == Long!Entry(k, left)
  <2> HIDE DEF was
  <2>1. LET e == [was EXCEPT ![n] = m] IN
           e \in Long!Parts /\ e[n] = m /\ (\A i \in 1..(Size.long.total + 1) : i # n => e[i] = was[i])
           /\ Long!OfOneKey(e, k)
    BY <1>6 DEF Long!Parts, Long!OfOneKey, was
  <2> QED BY <2>1 DEF was
<1>8. /\ kept \in [Size.long.keys -> Long!Parts]
         /\ \A j \in Size.long.keys : kept[j] = IF j \in Long!Range(left) THEN r1[j] ELSE Long!Empty
  BY <1>1, <1>4
<1> HIDE DEF kept, entry
<1>9. r5' = r5 \union {o \in Size.long.messages : r3[o] \in Long!Range(r2) \ Long!Range(left)}
  BY <1>2 DEF left
<1>12. ASSUME NEW o \in Size.long.messages \ r5', o # m, Long!Alone(o), Long!All(o) \notin r6,
              NEW p \in 1..Size.long.total, <<o, p>> \in r4'
       PROVE  r3[o] \in Size.long.keys /\ r3[o] # k /\ kept[r3[o]][p] = o
  <2>1. <<o, p>> \in r4 /\ o \notin r5 /\ r3[o] \in Size.long.keys /\ r3[o] # k
    BY <1>1, <1>9, <1>12 DEF Long!Alone
  <2>2. r1[r3[o]][p] = o
    BY <1>12, <2>1 DEF Long!WaitInv
  <2>3. r1[r3[o]] # Long!Empty
    <3>1. p \in 1..(Size.long.total + 1)
      BY <1>1
    <3> QED BY <1>1, <2>2, <3>1 DEF Long!Empty
  <2>4. r3[o] \in Long!Range(left)
    BY <1>9, <1>12, <2>1, <2>3 DEF Long!WaitInv
  <2> QED BY <1>8, <2>1, <2>2, <2>4
<1>13. ASSUME r2' \in Seq(Size.long.keys), \A j \in Size.long.keys : r1'[j] # Long!Empty
                => j \in Long!Range(r2'),
              \A j \in Size.long.keys : ~Long!Complete(r1'[j]),
              \A o \in Size.long.messages \ r5' : Long!Alone(o) /\ Long!All(o) \notin r6' =>
                 \A p \in 1..Size.long.total : <<o, p>> \in r4' => r1'[r3[o]][p] = o
       PROVE  Long!WaitInv'
  <2>1. \A o \in Size.long.messages : Long!Alone(o)' = Long!Alone(o)
    BY <1>1 DEF Long!Alone
  <2> QED BY <1>1, <1>13, <2>1 DEF Long!WaitInv, Long!Empty, Long!Complete, Long!All, Long!Range
<1>10. CASE Long!Complete(entry)
  <2>1. /\ r6' = r6 \union {[i \in 1..Size.long.total |-> entry[i]]}
        /\ r1' = [kept EXCEPT ![k] = Long!Empty] /\ r2' = Long!Without(left, k)
    BY <1>2, <1>10 DEF left, entry, kept
  <2>2. \A j \in Size.long.keys : r1'[j] = IF j = k THEN Long!Empty ELSE kept[j]
    BY <1>8, <2>1
  <2>3. r2' \in Seq(Size.long.keys) /\ \A j \in Long!Range(left) : j # k => j \in Long!Range(r2')
    BY <1>3, <1>5, <2>1, WithoutKeeps
  <2>4. \A j \in Size.long.keys : r1'[j] # Long!Empty => j \in Long!Range(r2')
    BY <1>8, <2>2, <2>3
  <2>5. \A j \in Size.long.keys : ~Long!Complete(r1'[j])
    BY <1>4, <1>8, <2>2 DEF Long!WaitInv
  <2>6. Long!Alone(m) => Long!All(m) \in r6'
    <3>1. ASSUME Long!Alone(m), NEW i \in 1..Size.long.total PROVE entry[i] = m
      <4>1. i \in 1..(Size.long.total + 1) /\ entry[i] # Long!NoPart
        BY <1>1, <1>10 DEF Long!Complete
      <4>2. entry[i] \in Size.long.messages /\ r3[entry[i]] = k
        BY <1>7, <4>1 DEF Long!Parts, Long!OfOneKey
      <4> QED BY <3>1, <4>2 DEF Long!Alone
    <3> QED BY <2>1, <3>1 DEF Long!All
  <2>7. \A o \in Size.long.messages \ r5' : Long!Alone(o) /\ Long!All(o) \notin r6' =>
           \A p \in 1..Size.long.total : <<o, p>> \in r4' => r1'[r3[o]][p] = o
    BY <1>12, <2>1, <2>2, <2>6
  <2> QED BY <1>13, <2>3, <2>4, <2>5, <2>7
<1>11. CASE ~Long!Complete(entry)
  <2>1. /\ r6' = r6 /\ r1' = [kept EXCEPT ![k] = entry]
        /\ r2' = IF k \in Long!Range(left) THEN left ELSE Append(left, k)
    BY <1>2, <1>11 DEF left, entry, kept
  <2>2. \A j \in Size.long.keys : r1'[j] = IF j = k THEN entry ELSE kept[j]
    BY <1>8, <2>1
  <2>3. r2' \in Seq(Size.long.keys) /\ k \in Long!Range(r2')
        /\ \A j \in Long!Range(left) : j \in Long!Range(r2')
    <3>1. CASE k \in Long!Range(left)
      BY <1>3, <2>1, <3>1
    <3>2. CASE k \notin Long!Range(left)
      <4> DEFINE t == Append(left, k)
      <4>1. t \in Seq(Size.long.keys) /\ Grows(t, left, k)
        BY <1>3, <1>5, OrderGrows
      <4>2. r2' = t
        BY <2>1, <3>2
      <4> HIDE DEF t, k
      <4>3. Len(left) + 1 \in DOMAIN t /\ t[Len(left) + 1] = k
            /\ \A i \in DOMAIN left : i \in DOMAIN t /\ t[i] = left[i]
        BY <4>1 DEF Grows
      <4>4. k \in Long!Range(t) /\ \A j \in Long!Range(left) : j \in Long!Range(t)
        BY <4>3 DEF Long!Range
      <4> QED BY <4>1, <4>2, <4>4
    <3> QED BY <3>1, <3>2
  <2>4. \A j \in Size.long.keys : r1'[j] # Long!Empty => j \in Long!Range(r2')
    BY <1>8, <2>2, <2>3
  <2>5. \A j \in Size.long.keys : ~Long!Complete(r1'[j])
    BY <1>4, <1>8, <1>11, <2>2 DEF Long!WaitInv
  <2>6. ASSUME m \notin r5', Long!Alone(m), Long!All(m) \notin r6, NEW p \in 1..Size.long.total,
               <<m, p>> \in r4'
        PROVE  entry[p] = m
    <3>1. CASE p = n
      BY <1>7, <3>1
    <3>2. CASE p # n
      <4>1. <<m, p>> \in r4 /\ p \in 1..(Size.long.total + 1)
        BY <1>1, <2>6, <3>2
      <4>2. m \notin r5 /\ r1[k][p] = m
        BY <1>9, <2>6, <4>1 DEF Long!WaitInv
      <4>3. k \in Long!Range(left)
        <5>1. r1[k] # Long!Empty
          BY <1>1, <4>1, <4>2 DEF Long!Empty
        <5> QED BY <1>5, <1>9, <2>6, <5>1 DEF Long!WaitInv
      <4> QED BY <1>6, <1>7, <3>2, <4>1, <4>2, <4>3
    <3> QED BY <3>1, <3>2
  <2>7. \A o \in Size.long.messages \ r5' : Long!Alone(o) /\ Long!All(o) \notin r6' =>
           \A p \in 1..Size.long.total : <<o, p>> \in r4' => r1'[r3[o]][p] = o
    BY <1>5, <1>12, <2>1, <2>2, <2>6
  <2> QED BY <1>13, <2>3, <2>4, <2>5, <2>7
<1> QED BY <1>10, <1>11

\* Every step keeps it.
LEMMA LongWaitKept ==
  ASSUME Long!LongBounds, Long!LongInv, Long!WaitInv, Long!LongNext
  PROVE  Long!WaitInv'
BY LongWaitArrives DEF Long!LongNext

\* It speaks of nothing but the variables of the machine.
LEMMA LongWaitStutters ==
  ASSUME Long!WaitInv, UNCHANGED <<r1, r2, r3, r4, r5, r6, r7>> PROVE Long!WaitInv'
<1>1. (\A m \in Size.long.messages : Long!Alone(m)' = Long!Alone(m))
  BY DEF Long!Alone
<1> QED BY <1>1 DEF Long!WaitInv, Long!Empty, Long!Complete, Long!All, Long!Range

\* What it says.
LEMMA LongWaitHolds == ASSUME Long!LongBounds, Long!LongInv, Long!WaitInv PROVE Long!PartsMakeWhole
<1>1. ASSUME NEW m \in Size.long.messages \ r5, Long!Alone(m),
             \A n \in 1..Size.long.total : <<m, n>> \in r4
      PROVE  Long!All(m) \in r6
  <2>1. SUFFICES ASSUME Long!All(m) \notin r6 PROVE FALSE
    OBVIOUS
  <2>2. \A n \in 1..Size.long.total : r1[r3[m]][n] = m
    BY <1>1, <2>1 DEF Long!WaitInv
  <2>3. r3[m] \in Size.long.keys /\ m # Long!NoPart
    BY DEF Long!LongInv, Long!LongBounds
  <2>4. Long!Complete(r1[r3[m]])
    BY <2>2, <2>3 DEF Long!Complete
  <2> QED BY <2>3, <2>4 DEF Long!WaitInv
<1> QED BY <1>1 DEF Long!PartsMakeWhole

-----------------------------------------------------------------------------
(* Incoming calls.                                                         *)

Incoming == INSTANCE CallWatch WITH
    number <- r1, recent <- r2, ringing <- r3, lines <- r4, caller <- r5,
    going <- r6, named <- r7, rung <- r8, ends <- r9, outlasted <- r10,
    dropped <- r11, written <- r12,
    Numbers <- Size.calls.numbers, MaxCalls <- Size.calls.calls,
    MaxLines <- Size.calls.lines, UrcCap <- Size.calls.cap

\* The invariant holds at the start.
LEMMA CallBegins == ASSUME Incoming!CallBounds, Incoming!CallInit PROVE Incoming!CallInv
<1>1. /\ r4 = <<>> /\ r5 = <<>> /\ r6 = "over" /\ r7 = {} /\ r1 = Incoming!Withheld
      /\ r8 = [c \in Incoming!Calls |-> 0] /\ r9 = [c \in Incoming!Calls |-> <<>>]
  BY DEF Incoming!CallInit
<1>2. /\ Len(r4) = 0 /\ Len(r5) = 0 /\ Incoming!Current = 0
      /\ \A c \in Incoming!Calls : r8[c] = 0 /\ r9[c] = <<>>
      /\ <<>> \in Seq(Size.calls.numbers \union {Incoming!Withheld})
      /\ r4 \in Seq([kind : {"ring", "clip", "end"}, call : Incoming!Calls])
  BY <1>1 DEF Incoming!Current
<1>3. r8 \in [Incoming!Calls -> Nat] /\ r9 \in [Incoming!Calls -> Seq(Size.calls.numbers \union {Incoming!Withheld})]
  BY <1>1, <1>2
<1>4. Incoming!LinesInOrder /\ Incoming!Announced /\ Incoming!NoneDropped
  BY <1>1, <1>2 DEF Incoming!LinesInOrder, Incoming!Announced, Incoming!NoneDropped,
                    Incoming!EachEnds, Incoming!Calls
<1>5. r11 \in BOOLEAN
  BY DEF Incoming!CallInit
<1>6. r1 \in Size.calls.numbers \union {Incoming!Withheld}
  BY <1>1
<1> QED BY <1>1, <1>2, <1>3, <1>4, <1>5, <1>6 DEF Incoming!CallInv, Incoming!CallBounds,
                                                  Incoming!Current

\* The number of calls, and the types of what the dispatcher keeps.
LEMMA CallFacts ==
  ASSUME Incoming!CallBounds, Incoming!CallInv
  PROVE  /\ Size.calls.calls \in Nat /\ Incoming!Current \in Nat /\ Incoming!Current <= Size.calls.calls /\ Len(r4) \in Nat
         /\ \A c \in Incoming!Calls : c \in Nat /\ c >= 1
         /\ \A c \in Nat : c >= 1 /\ c <= Size.calls.calls => c \in Incoming!Calls
         /\ \A i \in 1..Len(r4) : r4[i].call \in Incoming!Calls /\ r4[i].kind \in {"ring", "clip", "end"}
         /\ (r6 # "over" => Incoming!Current > 0)
<1>1. /\ Size.calls.calls \in Nat /\ \A c \in Incoming!Calls : c \in Nat /\ c >= 1
      /\ \A c \in Nat : c >= 1 /\ c <= Size.calls.calls => c \in Incoming!Calls
  BY DEF Incoming!CallBounds, Incoming!Calls
<1>2. Len(r5) \in Nat /\ Len(r4) \in Nat /\ Len(r5) <= Size.calls.calls
  BY DEF Incoming!CallInv, Incoming!Current
<1>3. \A i \in 1..Len(r4) : r4[i] \in [kind : {"ring", "clip", "end"}, call : Incoming!Calls]
  <2>1. r4 \in Seq([kind : {"ring", "clip", "end"}, call : Incoming!Calls])
    BY DEF Incoming!CallInv
  <2> QED BY <2>1, ElementOfSeq
<1>4. \A i \in 1..Len(r4) : r4[i].call \in Incoming!Calls /\ r4[i].kind \in {"ring", "clip", "end"}
  BY <1>3
<1>5. r6 # "over" => Len(r5) > 0
  BY DEF Incoming!CallInv, Incoming!Current
<1>6. Len(r5) = Incoming!Current
  BY DEF Incoming!Current
<1> QED BY <1>1, <1>2, <1>4, <1>5, <1>6

\* What is left of the queue is the queue without its first line.
LEMMA CallTail ==
  ASSUME Incoming!CallInv, r4 # <<>>
  PROVE  /\ Len(r4) \in Nat \ {0} /\ Len(Tail(r4)) = Len(r4) - 1
         /\ Head(r4) = r4[1]
         /\ \A i \in 1..Len(Tail(r4)) : Tail(r4)[i] = r4[i + 1]
         /\ Tail(r4) \in Seq([kind : {"ring", "clip", "end"}, call : Incoming!Calls])
BY DEF Incoming!CallInv

\* Of the calls that were announced nothing is forgotten that does not matter.
LEMMA CallsStayAnnounced ==
  ASSUME Incoming!Announced, r10' = r10, r8' = r8,
         \A c \in Incoming!Calls : (Incoming!NoneBefore(c) => Incoming!NoneBefore(c)') /\ (Incoming!Over(c) => Incoming!Over(c)')
                          /\ (r8[c] = 1 /\ Incoming!Known(c) => Incoming!Known(c)' \/ Incoming!Over(c)')
  PROVE  Incoming!Announced'
BY DEF Incoming!Announced, Incoming!Calls

\* A step that leaves the dispatcher and the calls so far alone leaves the ends right.
LEMMA CallsStayHeld ==
  ASSUME Incoming!NoneDropped, Incoming!EachEnds', r1' = r1, r8' = r8, r9' = r9, r7' = r7,
         Incoming!Current <= Incoming!Current', Incoming!Current \in Nat,
         Incoming!Current' \in Nat, \A c \in Incoming!Calls : c \in Nat,
         \A c \in 1..Incoming!Current : r5'[c] = r5[c],
         \A c \in Incoming!Calls : (Incoming!EndAhead(c, 0) => Incoming!EndAhead(c, 0)') /\ (Incoming!Over(c) => Incoming!Over(c)')
                          /\ (Incoming!NameWaits(c) => Incoming!NameWaits(c)'),
         r7 \subseteq Incoming!Calls
  PROVE  Incoming!NoneDropped'
BY DEF Incoming!NoneDropped, Incoming!Holds, Incoming!ToldRight, Incoming!Calls

\* An end that is ahead of a line stays ahead of it when the first line is taken.
LEMMA CallShift ==
  ASSUME Incoming!CallInv, r4 # <<>>, r4' = Tail(r4), UNCHANGED <<r5, r6>>,
         NEW c, NEW i \in Nat, Incoming!EndAhead(c, i + 1)
  PROVE  Incoming!EndAhead(c, i)'
<1>1. /\ Len(r4) \in Nat \ {0} /\ Len(r4') = Len(r4) - 1
      /\ \A j \in 1..Len(r4') : r4'[j] = r4[j + 1]
      /\ Incoming!Current' = Incoming!Current
  BY CallTail DEF Incoming!Current
<1>2. CASE \E k \in (i + 2)..Len(r4) :
             /\ r4[k].kind = "end" /\ r4[k].call = c
             /\ \A j \in (i + 2)..(k - 1) : r4[j].call = c
  <2>1. PICK k \in (i + 2)..Len(r4) :
             /\ r4[k].kind = "end" /\ r4[k].call = c
             /\ \A j \in (i + 2)..(k - 1) : r4[j].call = c
    BY <1>2
  <2>2. /\ k - 1 \in (i + 1)..Len(r4') /\ r4'[k - 1].kind = "end" /\ r4'[k - 1].call = c
        /\ \A j \in (i + 1)..((k - 1) - 1) : r4'[j].call = c
    BY <1>1, <2>1
  <2> QED BY <2>2 DEF Incoming!EndAhead
<1>3. CASE /\ c = Incoming!Current /\ r6 = "rings"
           /\ \A j \in (i + 2)..Len(r4) : r4[j].call = c
  <2>1. \A j \in (i + 1)..Len(r4') : r4'[j].call = c
    BY <1>1, <1>3
  <2> QED BY <1>1, <1>3, <2>1 DEF Incoming!EndAhead
<1>4. i + 1 + 1 = i + 2
  OBVIOUS
<1> QED BY <1>2, <1>3, <1>4 DEF Incoming!EndAhead

\* A line that is taken leaves the queue in order.
LEMMA CallTaken ==
  ASSUME Incoming!CallBounds, Incoming!CallInv, r4 # <<>>, r4' = Tail(r4), UNCHANGED <<r5, r6>>
  PROVE  /\ Incoming!LinesInOrder'
         /\ \A c \in Incoming!Calls : (Incoming!Over(c) => Incoming!Over(c)') /\ (Incoming!NoneBefore(c) => Incoming!NoneBefore(c)')
         /\ \A i \in 1..Len(r4') : r4'[i] = r4[i + 1]
         /\ Incoming!EachEnds => Incoming!EachEnds'
<1>1. /\ Len(r4) \in Nat \ {0} /\ Len(r4') = Len(r4) - 1
      /\ \A j \in 1..Len(r4') : r4'[j] = r4[j + 1] /\ j + 1 \in 1..Len(r4)
      /\ Incoming!Current' = Incoming!Current
  BY CallTail DEF Incoming!Current
<1>2. Incoming!LinesInOrder'
  BY <1>1 DEF Incoming!CallInv, Incoming!LinesInOrder
<1>3. ASSUME NEW c \in Incoming!Calls PROVE (Incoming!Over(c) => Incoming!Over(c)') /\ (Incoming!NoneBefore(c) => Incoming!NoneBefore(c)')
  <2>1. Incoming!Over(c) => Incoming!Over(c)'
    BY <1>1 DEF Incoming!Over
  <2>2. Incoming!NoneBefore(c) => Incoming!NoneBefore(c)'
    BY <1>1 DEF Incoming!NoneBefore
  <2> QED BY <2>1, <2>2
<1>4. ASSUME Incoming!EachEnds PROVE Incoming!EachEnds'
  <2>1. ASSUME NEW i \in 1..Len(r4'), r4'[i].kind # "end", NEW c, c = r4'[i].call
        PROVE  Incoming!EndAhead(c, i)'
    <3>1. Incoming!EndAhead(c, i + 1) /\ i \in Nat
      BY <1>1, <1>4, <2>1 DEF Incoming!EachEnds
    <3> QED BY <3>1, CallShift
  <2> QED BY <2>1 DEF Incoming!EachEnds
<1> QED BY <1>1, <1>2, <1>3, <1>4

\* The modem writes a line, or drops it.
LEMMA CallWritten ==
  ASSUME Incoming!CallBounds, Incoming!CallInv, NEW kind \in {"ring", "clip", "end"},
         Incoming!Write(kind),
         UNCHANGED <<r5, r10>>, UNCHANGED Incoming!dispatcher,
         kind = "end" => r6 # "over" /\ r6' \in {"ends", "over"},
         kind # "end" => r6 = "rings" /\ r6' = r6,
         r7' = IF kind = "clip" /\ Incoming!Fits THEN r7 \union {Incoming!Current} ELSE r7
  PROVE  Incoming!CallInv'
<1>1. /\ Incoming!Current' = Incoming!Current /\ r5' = r5
      /\ r1' = r1 /\ r2' = r2 /\ r3' = r3 /\ r8' = r8 /\ r9' = r9
      /\ r10' = r10
  BY DEF Incoming!Current, Incoming!dispatcher
<1>2. /\ Incoming!Current \in Incoming!Calls /\ Incoming!Current \in Nat /\ Len(r4) \in Nat
      /\ \A i \in 1..Len(r4) : r4[i].call \in Nat
      /\ \A c \in Incoming!Calls : c \in Nat
  BY CallFacts
<1>3. r6' # "rings" \/ r6' = r6
  OBVIOUS
<1>4. r6' \in {"rings", "ends", "over"} /\ r7' \subseteq Incoming!Calls /\ (r6' # "over" => Incoming!Current > 0)
  BY <1>2, CallFacts DEF Incoming!CallInv
<1>5. /\ \A c \in Incoming!Calls : Incoming!Known(c) => Incoming!Known(c)'
      /\ Incoming!Announced /\ r8' = r8 /\ r10' = r10
  BY <1>1 DEF Incoming!Known, Incoming!SameCall, Incoming!CallInv
<1>6. CASE ~Incoming!Fits
  <2>1. r4' = r4 /\ r11' = TRUE /\ r7' = r7
    BY <1>6 DEF Incoming!Write
  <2>2. \A c \in Incoming!Calls : (Incoming!NoneBefore(c) => Incoming!NoneBefore(c)') /\ (Incoming!Over(c) => Incoming!Over(c)')
    BY <1>1, <1>3, <2>1 DEF Incoming!Over, Incoming!NoneBefore
  <2>3. Incoming!LinesInOrder'
    BY <1>1, <1>3, <2>1 DEF Incoming!CallInv, Incoming!LinesInOrder
  <2>4. Incoming!Announced'
    BY <1>5, <2>2, CallsStayAnnounced
  <2> QED BY <1>1, <1>4, <2>1, <2>3, <2>4 DEF Incoming!CallInv
<1>7. CASE Incoming!Fits
  <2> DEFINE new == [kind |-> kind, call |-> Incoming!Current]
  <2>1. /\ r4' = Append(r4, new) /\ r11' = r11
        /\ new \in [kind : {"ring", "clip", "end"}, call : Incoming!Calls]
    BY <1>2, <1>7 DEF Incoming!Write, Incoming!CallInv
  <2>2. /\ Len(r4') = Len(r4) + 1 /\ r4'[Len(r4) + 1] = new
        /\ \A i \in 1..Len(r4) : r4'[i] = r4[i]
        /\ r4' \in Seq([kind : {"ring", "clip", "end"}, call : Incoming!Calls])
    BY <2>1 DEF Incoming!CallInv
  <2>3. r4'[Len(r4) + 1].kind = kind /\ r4'[Len(r4) + 1].call = Incoming!Current
    BY <2>2
  <2> HIDE DEF new
  <2>4. Incoming!LinesInOrder'
    <3> DEFINE n == Len(r4)
    <3>1. /\ \A i \in 1..n : r4[i].call <= Incoming!Current
          /\ \A i, j \in 1..n : i < j => r4[i].call <= r4[j].call
          /\ \A i, j \in 1..n :
                i < j /\ r4[i].call = r4[j].call /\ r4[i].kind = "end" => r4[j].kind = "end"
          /\ \A i \in 1..n : r4[i].call = Incoming!Current /\ r4[i].kind = "end" => r6 # "rings"
      BY DEF Incoming!CallInv, Incoming!LinesInOrder
    <3>2. (\A i \in 1..Len(r4) : r4[i].call <= Incoming!Current)'
      BY <1>1, <1>2, <2>2, <2>3, <3>1
    <3>3. ASSUME NEW i \in 1..Len(r4'), NEW j \in 1..Len(r4'), i < j
          PROVE  /\ r4'[i].call <= r4'[j].call
                 /\ r4'[i].call = r4'[j].call /\ r4'[i].kind = "end" => r4'[j].kind = "end"
      <4>1. i \in 1..n /\ r4'[i] = r4[i] /\ (j \in 1..n \/ j = n + 1)
        BY <1>2, <2>2, <3>3
      <4>2. CASE j \in 1..n
        <5>1. r4'[j] = r4[j]
          BY <2>2, <4>2
        <5> QED BY <3>1, <3>3, <4>1, <4>2, <5>1
      <4>3. CASE j = n + 1
        <5>1. r4'[j].call = Incoming!Current /\ r4'[j].kind = kind
          BY <2>3, <4>3
        <5>2. r4'[i].call = r4'[j].call /\ r4'[i].kind = "end" => r6 # "rings"
          BY <3>1, <4>1, <5>1
        <5> QED BY <3>1, <4>1, <5>1, <5>2
      <4> QED BY <4>1, <4>2, <4>3
    <3>5. (\A i \in 1..Len(r4) : r4[i].call = Incoming!Current /\ r4[i].kind = "end" => r6 # "rings")'
      BY <1>1, <1>2, <1>3, <2>2, <2>3, <3>1
    <3> QED BY <3>2, <3>3, <3>5 DEF Incoming!LinesInOrder
  <2>5. ASSUME NEW c \in Incoming!Calls PROVE (Incoming!NoneBefore(c) => Incoming!NoneBefore(c)') /\ (Incoming!Over(c) => Incoming!Over(c)')
    <3>1. Incoming!NoneBefore(c) => Incoming!NoneBefore(c)'
      BY <1>1, <1>2, <2>2, <2>3 DEF Incoming!NoneBefore
    <3>2. Incoming!Over(c) => Incoming!Over(c)'
      BY <1>1, <1>2, <1>3, <2>2, <2>3 DEF Incoming!Over
    <3> QED BY <3>1, <3>2
  <2>6. Incoming!Announced'
    BY <1>5, <2>5, CallsStayAnnounced
  <2>7. ASSUME NEW c, NEW i \in 0..Len(r4), Incoming!EndAhead(c, i) PROVE Incoming!EndAhead(c, i)'
    <3>1. CASE \E k \in (i + 1)..Len(r4) :
                 /\ r4[k].kind = "end" /\ r4[k].call = c
                 /\ \A j \in (i + 1)..(k - 1) : r4[j].call = c
      <4>1. PICK k \in (i + 1)..Len(r4) :
                 /\ r4[k].kind = "end" /\ r4[k].call = c
                 /\ \A j \in (i + 1)..(k - 1) : r4[j].call = c
        BY <3>1
      <4>2. /\ k \in (i + 1)..Len(r4') /\ r4'[k].kind = "end" /\ r4'[k].call = c
            /\ \A j \in (i + 1)..(k - 1) : r4'[j].call = c
        BY <1>2, <2>2, <4>1
      <4> QED BY <4>2 DEF Incoming!EndAhead
    <3>2. CASE /\ c = Incoming!Current /\ r6 = "rings"
               /\ \A j \in (i + 1)..Len(r4) : r4[j].call = c
      <4>1. \A j \in (i + 1)..Len(r4') : r4'[j].call = c
        BY <1>2, <2>2, <2>3, <3>2
      <4>2. CASE kind = "end"
        <5>1. Len(r4) + 1 \in (i + 1)..Len(r4') /\ r4'[Len(r4) + 1].kind = "end"
              /\ r4'[Len(r4) + 1].call = c
              /\ \A j \in (i + 1)..((Len(r4) + 1) - 1) : r4'[j].call = c
          BY <1>2, <2>2, <2>3, <3>2, <4>1, <4>2
        <5> QED BY <5>1 DEF Incoming!EndAhead
      <4>3. CASE kind # "end"
        BY <1>1, <3>2, <4>1, <4>3 DEF Incoming!EndAhead
      <4> QED BY <4>2, <4>3
    <3> QED BY <2>7, <3>1, <3>2 DEF Incoming!EndAhead
  <2>8. ASSUME Incoming!NoneDropped PROVE Incoming!NoneDropped'
    <3>1. Incoming!EachEnds'
      <4>1. ASSUME NEW i \in 1..Len(r4'), r4'[i].kind # "end", NEW c, c = r4'[i].call
            PROVE  Incoming!EndAhead(c, i)'
        <5>1. CASE i \in 1..Len(r4)
          <6>1. i \in 0..Len(r4) /\ Incoming!EndAhead(c, i)
            BY <1>2, <2>2, <2>8, <4>1, <5>1 DEF Incoming!NoneDropped, Incoming!EachEnds
          <6> QED BY <2>7, <6>1
        <5>2. CASE i = Len(r4) + 1
          <6>1. c = Incoming!Current /\ r6' = "rings" /\ \A j \in (i + 1)..Len(r4') : FALSE
            BY <1>2, <2>2, <2>3, <4>1, <5>2
          <6> QED BY <1>1, <6>1 DEF Incoming!EndAhead
        <5> QED BY <1>2, <2>2, <5>1, <5>2
      <4> QED BY <4>1 DEF Incoming!EachEnds
    <3>2. \A c \in Incoming!Calls : Incoming!NameWaits(c) => Incoming!NameWaits(c)'
      BY <1>2, <2>2 DEF Incoming!NameWaits
    <3>3. kind = "clip" => Incoming!NameWaits(Incoming!Current)'
      BY <1>1, <1>2, <2>2, <2>3 DEF Incoming!NameWaits
    <3>4. (r1 # Incoming!Withheld => \E c \in Incoming!Calls : Incoming!Holds(c) /\ Incoming!EndAhead(c, 0))'
      <4>1. \A c \in Incoming!Calls : Incoming!Holds(c) => Incoming!Holds(c)'
        BY <1>1 DEF Incoming!Holds
      <4>2. \A c \in Incoming!Calls : Incoming!EndAhead(c, 0) => Incoming!EndAhead(c, 0)'
        BY <1>2, <2>7
      <4> QED BY <1>1, <2>8, <4>1, <4>2 DEF Incoming!NoneDropped, Incoming!Calls
    <3>5. (\A c \in Incoming!Calls : r9[c] # <<>> => Incoming!Over(c) /\ Incoming!ToldRight(c))'
      BY <1>1, <2>5, <2>8 DEF Incoming!NoneDropped, Incoming!ToldRight, Incoming!Calls
    <3>6. (\A c \in r7 : c <= Incoming!Current /\ (r5[c] # Incoming!Withheld => r8[c] > 0 \/ Incoming!NameWaits(c)))'
      <4>1. r7' \subseteq r7 \union {Incoming!Current} /\ (Incoming!Current \in r7' \ r7 => kind = "clip")
            /\ r7 \subseteq Incoming!Calls
        BY DEF Incoming!CallInv
      <4>2. ASSUME NEW c \in r7 PROVE c <= Incoming!Current /\ (r5[c] # Incoming!Withheld => r8[c] > 0 \/ Incoming!NameWaits(c)')
        BY <2>8, <3>2, <4>1, <4>2 DEF Incoming!NoneDropped
      <4>3. CASE r7' = r7
        BY <1>1, <4>2, <4>3
      <4>4. CASE r7' = r7 \union {Incoming!Current} /\ kind = "clip"
        BY <1>1, <1>2, <3>3, <4>2, <4>4
      <4> QED BY <4>3, <4>4
    <3> QED BY <3>1, <3>4, <3>5, <3>6 DEF Incoming!NoneDropped
  <2> QED BY <1>1, <1>4, <2>1, <2>2, <2>4, <2>6, <2>8 DEF Incoming!CallInv, Incoming!Calls
<1> QED BY <1>6, <1>7

\* The next call comes.
LEMMA CallComes ==
  ASSUME Incoming!CallBounds, Incoming!CallInv,
         NEW n \in Size.calls.numbers \union {Incoming!Withheld}, Incoming!Comes(n)
  PROVE  Incoming!CallInv'
<1>1. /\ r6 # "rings" /\ Incoming!Current < Size.calls.calls /\ r5' = Append(r5, n) /\ r6' = "rings"
      /\ r1' = r1 /\ r2' = r2 /\ r3' = r3 /\ r8' = r8 /\ r9' = r9
      /\ UNCHANGED <<r4, r7, r10, r11>>
  BY DEF Incoming!Comes, Incoming!dispatcher
<1>2. /\ Incoming!Current \in Nat /\ Len(r4) \in Nat /\ \A i \in 1..Len(r4) : r4[i].call \in Nat
      /\ \A c \in Incoming!Calls : c \in Nat /\ c >= 1
      /\ Size.calls.calls \in Nat
  BY CallFacts
<1>3. /\ Incoming!Current' = Incoming!Current + 1 /\ \A c \in 1..Incoming!Current : r5'[c] = r5[c]
      /\ r5' \in Seq(Size.calls.numbers \union {Incoming!Withheld})
  <2>1. /\ \A c \in 1..Len(r5) : Append(r5, n)[c] = r5[c]
        /\ Len(Append(r5, n)) = Len(r5) + 1
        /\ Append(r5, n) \in Seq(Size.calls.numbers \union {Incoming!Withheld})
    BY DEF Incoming!CallInv
  <2> QED BY <1>1, <2>1 DEF Incoming!Current
<1>4. ASSUME NEW c \in Incoming!Calls
      PROVE  /\ Incoming!Over(c) => Incoming!Over(c)' /\ c <= Incoming!Current
             /\ Incoming!NoneBefore(c) => Incoming!NoneBefore(c)' /\ c <= Incoming!Current
  BY <1>1, <1>2, <1>3 DEF Incoming!Over, Incoming!NoneBefore
<1>5. Incoming!LinesInOrder'
  <2>1. Incoming!LinesInOrder
    BY DEF Incoming!CallInv
  <2> QED BY <1>1, <1>2, <1>3, <2>1 DEF Incoming!LinesInOrder
<1>6. Incoming!Announced'
  <2>1. ASSUME NEW c \in Incoming!Calls, c <= Incoming!Current,
               Incoming!Known(c) PROVE Incoming!Known(c)'
    <3>1. r5'[c] = r5[c]
      BY <1>2, <1>3, <2>1
    <3>2. r1 = r5[c] /\ r2 /\ r3
      BY <2>1 DEF Incoming!Known, Incoming!SameCall
    <3> QED BY <1>1, <3>1, <3>2 DEF Incoming!Known, Incoming!SameCall
  <2>2. Incoming!Announced /\ \A c \in Incoming!Calls : r8[c] = 1 => r8[c] > 0
    BY DEF Incoming!CallInv
  <2> QED BY <1>1, <1>4, <2>1, <2>2, CallsStayAnnounced DEF Incoming!Announced
<1>7. ASSUME Incoming!NoneDropped PROVE Incoming!NoneDropped'
  <2>1. ASSUME NEW c, NEW i \in 0..Len(r4), Incoming!EndAhead(c, i) PROVE Incoming!EndAhead(c, i)'
    BY <1>1, <2>1 DEF Incoming!EndAhead
  <2>2. Incoming!EachEnds'
    BY <1>1, <1>2, <1>7, <2>1 DEF Incoming!NoneDropped, Incoming!EachEnds
  <2>3. \A c \in Incoming!Calls : (Incoming!EndAhead(c, 0) => Incoming!EndAhead(c, 0)') /\ (Incoming!NameWaits(c) => Incoming!NameWaits(c)')
    BY <1>1, <1>2, <2>1 DEF Incoming!NameWaits
  <2>4. Incoming!Current <= Incoming!Current' /\ Incoming!Current' \in Nat /\ r7 \subseteq Incoming!Calls
    BY <1>2, <1>3 DEF Incoming!CallInv
  <2> QED BY <1>1, <1>2, <1>3, <1>4, <1>7, <2>2, <2>3, <2>4, CallsStayHeld
<1> QED BY <1>1, <1>2, <1>3, <1>5, <1>6, <1>7 DEF Incoming!CallInv, Incoming!Calls

\* What holds when the dispatcher has taken a line.
LEMMA CallLine ==
  ASSUME Incoming!CallBounds, Incoming!CallInv, NEW kind, Incoming!Takes(kind)
  PROVE  /\ r4 # <<>> /\ r4' = Tail(r4) /\ UNCHANGED <<r5, r6, r7, r10, r11>>
         /\ Incoming!Current' = Incoming!Current /\ Incoming!Current \in Nat
         /\ Incoming!The \in Incoming!Calls /\ Incoming!The <= Incoming!Current /\ r4[1].call = Incoming!The /\ r4[1].kind = kind
         /\ 1 \in 1..Len(r4)
         /\ \A c \in Incoming!Calls : c \in Nat /\ c >= 1
<1>1. r4 # <<>> /\ r4' = Tail(r4) /\ UNCHANGED <<r5, r6, r7, r10, r11>>
  BY DEF Incoming!Takes, Incoming!modem
<1>2. 1 \in 1..Len(r4) /\ Head(r4) = r4[1]
  BY <1>1, CallTail
<1>3. r4[1].kind = kind /\ r4[1].call = Incoming!The
  BY <1>2 DEF Incoming!Takes, Incoming!The
<1>4. r4[1].call \in Incoming!Calls /\ r4[1].call <= Incoming!Current
  BY <1>2, CallFacts DEF Incoming!CallInv, Incoming!LinesInOrder
<1> QED BY <1>1, <1>2, <1>3, <1>4, CallFacts DEF Incoming!Current

\* What a taken line changes about the calls that were begun.
LEMMA CallPast ==
  ASSUME Incoming!CallBounds, Incoming!CallInv, NEW kind, Incoming!Takes(kind), NEW at,
         at = Incoming!The
  PROVE  /\ Incoming!LinesInOrder' /\ r4' \in Seq([kind : {"ring", "clip", "end"}, call : Incoming!Calls])
         /\ Incoming!NoneDropped => Incoming!EachEnds' /\ (kind = "end" \/ Incoming!EndAhead(at, 0)')
         /\ \A c \in Incoming!Calls : /\ Incoming!Over(c) => Incoming!Over(c)'
                                      /\ Incoming!NoneBefore(c) => Incoming!NoneBefore(c)' /\ (c # at => Incoming!Over(c)')
                                      /\ Incoming!NameWaits(c) => Incoming!NameWaits(c)' \/ (kind = "clip" /\ c = at)
                                      /\ Incoming!EndAhead(c, 0) => c = at
         /\ (kind = "end" => Incoming!Over(at)') /\ (kind = "end" \/ ~Incoming!Over(at))
         /\ Incoming!NoneBefore(at)'
<1>1. /\ r4 # <<>> /\ r4' = Tail(r4) /\ UNCHANGED <<r5, r6>> /\ Incoming!Current' = Incoming!Current
      /\ Incoming!Current \in Nat /\ at \in Incoming!Calls /\ at \in Nat /\ at <= Incoming!Current /\ 1 \in 1..Len(r4)
      /\ r4[1].call = at /\ r4[1].kind = kind
  BY CallLine
<1>2. /\ Incoming!LinesInOrder'
      /\ \A c \in Incoming!Calls : (Incoming!Over(c) => Incoming!Over(c)') /\ (Incoming!NoneBefore(c) => Incoming!NoneBefore(c)')
      /\ Incoming!EachEnds => Incoming!EachEnds'
  BY <1>1, CallTaken
<1>3. /\ Len(r4) \in Nat \ {0} /\ Len(r4') = Len(r4) - 1
      /\ \A j \in 1..Len(r4') : r4'[j] = r4[j + 1] /\ j + 1 \in 1..Len(r4)
      /\ \A j \in 1..Len(r4) : j = 1 \/ (j - 1 \in 1..Len(r4') /\ r4'[j - 1] = r4[j])
      /\ r4' \in Seq([kind : {"ring", "clip", "end"}, call : Incoming!Calls])
  BY <1>1, CallTail
<1>4. \A i \in 1..Len(r4) : r4[i].call \in Nat
  BY CallFacts
<1>5. /\ \A i \in 1..Len(r4') : at <= r4'[i].call
      /\ kind = "end" => \A i \in 1..Len(r4') : r4'[i].call = at => r4'[i].kind = "end"
      /\ kind = "end" /\ at = Incoming!Current => r6 # "rings"
  <2>1. /\ \A i, j \in 1..Len(r4) : i < j => r4[i].call <= r4[j].call
        /\ \A i, j \in 1..Len(r4) :
              i < j /\ r4[i].call = r4[j].call /\ r4[i].kind = "end" => r4[j].kind = "end"
        /\ \A i \in 1..Len(r4) : r4[i].call = Incoming!Current /\ r4[i].kind = "end" => r6 # "rings"
    BY DEF Incoming!CallInv, Incoming!LinesInOrder
  <2>2. kind = "end" /\ at = Incoming!Current => r6 # "rings"
    BY <1>1, <2>1
  <2>3. ASSUME NEW i \in 1..Len(r4')
        PROVE  /\ at <= r4'[i].call
               /\ kind = "end" /\ r4'[i].call = at => r4'[i].kind = "end"
    <3>1. i + 1 \in 1..Len(r4) /\ r4'[i] = r4[i + 1] /\ 1 < i + 1
      BY <1>3
    <3>2. r4[1].call <= r4[i + 1].call
      BY <1>1, <2>1, <3>1
    <3>3. r4[1].call = r4[i + 1].call /\ r4[1].kind = "end" => r4[i + 1].kind = "end"
      BY <1>1, <2>1, <3>1
    <3> QED BY <1>1, <3>1, <3>2, <3>3
  <2> QED BY <2>2, <2>3
<1>6. ASSUME NEW c \in Incoming!Calls, Incoming!NoneBefore(c), c # at PROVE Incoming!Over(c)'
  <2>1. c \in Nat /\ c <= at
    BY <1>1, <1>6, CallFacts DEF Incoming!NoneBefore
  <2>2. c < Incoming!Current /\ \A i \in 1..Len(r4') : r4'[i].call # c
    BY <1>1, <1>3, <1>4, <1>5, <1>6, <2>1
  <2> QED BY <1>1, <2>2 DEF Incoming!Over
<1>7. ASSUME NEW c \in Incoming!Calls, Incoming!NameWaits(c),
             ~(kind = "clip" /\ c = at) PROVE Incoming!NameWaits(c)'
  <2>1. PICK i \in 1..Len(r4) : r4[i].kind = "clip" /\ r4[i].call = c
    BY <1>7 DEF Incoming!NameWaits
  <2>2. i # 1
    BY <1>1, <1>7, <2>1
  <2>3. i - 1 \in 1..Len(r4') /\ r4'[i - 1] = r4[i]
    BY <1>3, <2>2
  <2> QED BY <2>1, <2>3 DEF Incoming!NameWaits
<1>8. ASSUME NEW c \in Incoming!Calls, Incoming!EndAhead(c, 0) PROVE c = at
  BY <1>1, <1>3, <1>8 DEF Incoming!EndAhead
<1>9. IF kind = "end" THEN Incoming!Over(at)' ELSE ~Incoming!Over(at)
  <2>1. ASSUME kind = "end" PROVE Incoming!Over(at)'
    <3>1. (at < Incoming!Current \/ (at = Incoming!Current /\ r6 # "rings"))
      BY <1>1, <1>5, <2>1
    <3>2. \A i \in 1..Len(r4') : r4'[i].call = at => r4'[i].kind = "end"
      BY <1>5, <2>1
    <3> QED BY <1>1, <3>1, <3>2 DEF Incoming!Over
  <2>2. ASSUME kind # "end" PROVE ~Incoming!Over(at)
    BY <1>1, <2>2 DEF Incoming!Over
  <2> QED BY <2>1, <2>2
<1>10. Incoming!NoneBefore(at)'
  BY <1>1, <1>5 DEF Incoming!NoneBefore
<1>11. ASSUME Incoming!NoneDropped, kind # "end" PROVE Incoming!EndAhead(at, 0)'
  <2>1. Incoming!EndAhead(at, 0 + 1)
    BY <1>1, <1>11 DEF Incoming!NoneDropped, Incoming!EachEnds
  <2> QED BY <1>1, <2>1, CallShift
<1> QED BY <1>2, <1>3, <1>6, <1>7, <1>8, <1>9, <1>10, <1>11 DEF Incoming!NoneDropped

\* RING is taken.
LEMMA CallRings ==
  ASSUME Incoming!CallBounds, Incoming!CallInv, Incoming!HandleRing
  PROVE  Incoming!CallInv'
<1>1. /\ Incoming!Takes("ring") /\ r3' = TRUE
      /\ r1' = r1 /\ r2' = r2 /\ r8' = r8 /\ r9' = r9
      /\ UNCHANGED <<r5, r6, r7, r10, r11>> /\ Incoming!Current' = Incoming!Current
  BY CallLine DEF Incoming!HandleRing
<1>2. PICK at : at = Incoming!The
  OBVIOUS
<1>3. /\ Incoming!LinesInOrder' /\ r4' \in Seq([kind : {"ring", "clip", "end"}, call : Incoming!Calls])
      /\ Incoming!NoneDropped => Incoming!EachEnds' /\ Incoming!EndAhead(at, 0)'
      /\ \A c \in Incoming!Calls : /\ (Incoming!Over(c) => Incoming!Over(c)') /\ (Incoming!NoneBefore(c) => Incoming!NoneBefore(c)')
                                   /\ (Incoming!NameWaits(c) => Incoming!NameWaits(c)') /\ (Incoming!EndAhead(c, 0) => c = at)
  <2>1. Incoming!Takes("ring") /\ at = Incoming!The
    BY <1>1, <1>2
  <2>2. Incoming!LinesInOrder' /\ r4' \in Seq([kind : {"ring", "clip", "end"}, call : Incoming!Calls])
        /\ (Incoming!NoneDropped => Incoming!EachEnds')
    BY <2>1, CallPast
  <2>3. \A c \in Incoming!Calls : (Incoming!Over(c) => Incoming!Over(c)') /\ (Incoming!NoneBefore(c) => Incoming!NoneBefore(c)' /\ (c # at => Incoming!Over(c)'))
    BY <2>1, CallPast
  <2>4. \A c \in Incoming!Calls : Incoming!NameWaits(c) => Incoming!NameWaits(c)'
    \/ ("ring" = "clip" /\ c = at)
    BY <2>1, CallPast
  <2>5. \A c \in Incoming!Calls : Incoming!EndAhead(c, 0) => c = at
    BY <2>1, CallPast
  <2>6. Incoming!NoneDropped => ("ring" = "end" \/ Incoming!EndAhead(at, 0)')
    BY <2>1, CallPast
  <2> QED BY <2>2, <2>3, <2>4, <2>5, <2>6
<1>4. \A c \in Incoming!Calls : Incoming!Known(c) => Incoming!Known(c)'
  BY <1>1 DEF Incoming!Known, Incoming!SameCall
<1>5. Incoming!Announced'
  BY <1>1, <1>3, <1>4, CallsStayAnnounced DEF Incoming!CallInv
<1>6. ASSUME Incoming!NoneDropped PROVE Incoming!NoneDropped'
  <2>1. Incoming!Current \in Nat /\ r7 \subseteq Incoming!Calls /\ \A c \in Incoming!Calls : c \in Nat
    BY CallFacts DEF Incoming!CallInv
  <2>2. \A c \in Incoming!Calls : Incoming!EndAhead(c, 0) => Incoming!EndAhead(c, 0)'
    BY <1>3, <1>6
  <2>3. Incoming!EachEnds' /\ Incoming!Current <= Incoming!Current' /\ \A c \in 1..Incoming!Current : r5'[c] = r5[c]
    BY <1>1, <1>3, <1>6, <2>1
  <2> QED BY <1>1, <1>3, <1>6, <2>1, <2>2, <2>3, CallsStayHeld
<1> QED BY <1>1, <1>3, <1>5, <1>6 DEF Incoming!CallInv, Incoming!Calls

\* A number is taken.
LEMMA CallClips ==
  ASSUME Incoming!CallBounds, Incoming!CallInv, Incoming!HandleClip
  PROVE  Incoming!CallInv'
<1>1. /\ Incoming!Takes("clip") /\ r9' = r9
      /\ UNCHANGED <<r5, r6, r7, r10, r11>> /\ Incoming!Current' = Incoming!Current
      /\ Incoming!The \in Incoming!Calls /\ Incoming!The <= Incoming!Current /\ Incoming!Current \in Nat /\ \A c \in Incoming!Calls : c \in Nat
  BY CallLine DEF Incoming!HandleClip, Incoming!dispatcher
<1>2. PICK at : at = Incoming!The
  OBVIOUS
<1>3. /\ Incoming!LinesInOrder' /\ r4' \in Seq([kind : {"ring", "clip", "end"}, call : Incoming!Calls])
      /\ Incoming!NoneDropped => Incoming!EachEnds' /\ Incoming!EndAhead(at, 0)'
      /\ \A c \in Incoming!Calls : /\ Incoming!Over(c) => Incoming!Over(c)'
                                   /\ Incoming!NoneBefore(c) => Incoming!NoneBefore(c)' /\ (c # at => Incoming!Over(c)')
                                   /\ Incoming!NameWaits(c) => Incoming!NameWaits(c)' \/ c = at
                                   /\ Incoming!EndAhead(c, 0) => c = at
      /\ ~Incoming!Over(at) /\ Incoming!NoneBefore(at)'
  <2>1. Incoming!Takes("clip") /\ at = Incoming!The
    BY <1>1, <1>2
  <2>2. Incoming!LinesInOrder' /\ r4' \in Seq([kind : {"ring", "clip", "end"}, call : Incoming!Calls])
        /\ (Incoming!NoneDropped => Incoming!EachEnds')
    BY <2>1, CallPast
  <2>3. \A c \in Incoming!Calls : (Incoming!Over(c) => Incoming!Over(c)') /\ (Incoming!NoneBefore(c) => Incoming!NoneBefore(c)' /\ (c # at => Incoming!Over(c)'))
    BY <2>1, CallPast
  <2>4. \A c \in Incoming!Calls : Incoming!NameWaits(c) => Incoming!NameWaits(c)'
    \/ ("clip" = "clip" /\ c = at)
    BY <2>1, CallPast
  <2>5. \A c \in Incoming!Calls : Incoming!EndAhead(c, 0) => c = at
    BY <2>1, CallPast
  <2>6. Incoming!NoneDropped => ("clip" = "end" \/ Incoming!EndAhead(at, 0)')
    BY <2>1, CallPast
  <2>7. ("clip" = "end" \/ ~Incoming!Over(at)) /\ Incoming!NoneBefore(at)'
    BY <2>1, CallPast
  <2> QED BY <2>2, <2>3, <2>4, <2>5, <2>6, <2>7
<1>4. r5 \in Seq(Size.calls.numbers \union {Incoming!Withheld}) /\ r8 \in [Incoming!Calls -> Nat] /\ r7 \subseteq Incoming!Calls
      /\ Incoming!Announced
  BY DEF Incoming!CallInv
<1>5. CASE Incoming!SameCall(r5[Incoming!The])
  <2>1. /\ r1' = r1 /\ r2' = r2 /\ r3' = r3 /\ r8' = r8
    BY <1>5 DEF Incoming!HandleClip, Incoming!dispatcher
  <2>2. \A c \in Incoming!Calls : Incoming!Known(c) => Incoming!Known(c)'
    BY <1>1, <2>1 DEF Incoming!Known, Incoming!SameCall
  <2>3. Incoming!Announced'
    BY <1>1, <1>3, <1>4, <2>1, <2>2, CallsStayAnnounced
  <2>4. ASSUME Incoming!NoneDropped PROVE Incoming!NoneDropped'
    <3>1. r5[at] # Incoming!Withheld => r8[at] > 0
      <4>1. SUFFICES ASSUME r1 # Incoming!Withheld PROVE r8[at] > 0
        BY <1>2, <1>5 DEF Incoming!SameCall
      <4>2. PICK c \in Incoming!Calls : Incoming!Holds(c) /\ Incoming!EndAhead(c, 0)
        BY <2>4, <4>1 DEF Incoming!NoneDropped
      <4> QED BY <1>3, <4>2 DEF Incoming!Holds
    <3>2. (r1 # Incoming!Withheld => \E c \in Incoming!Calls : Incoming!Holds(c) /\ Incoming!EndAhead(c, 0))'
      <4>1. \A c \in Incoming!Calls : Incoming!Holds(c) /\ Incoming!EndAhead(c, 0) => Incoming!Holds(c)' /\ Incoming!EndAhead(c, 0)'
        BY <1>1, <1>3, <2>1, <2>4 DEF Incoming!Holds
      <4> QED BY <2>1, <2>4, <4>1 DEF Incoming!NoneDropped, Incoming!Calls
    <3>3. (\A c \in Incoming!Calls : r9[c] # <<>> => Incoming!Over(c) /\ Incoming!ToldRight(c))'
      BY <1>1, <1>3, <2>4 DEF Incoming!NoneDropped, Incoming!ToldRight, Incoming!Calls
    <3>4. (\A c \in r7 : c <= Incoming!Current /\ (r5[c] # Incoming!Withheld => r8[c] > 0 \/ Incoming!NameWaits(c)))'
      <4>1. ASSUME NEW c \in r7 PROVE c <= Incoming!Current /\ (r5[c] # Incoming!Withheld => r8[c] > 0 \/ Incoming!NameWaits(c)')
        BY <1>3, <1>4, <2>4, <3>1, <4>1 DEF Incoming!NoneDropped
      <4> QED BY <1>1, <2>1, <4>1
    <3> QED BY <1>3, <2>4, <3>2, <3>3, <3>4 DEF Incoming!NoneDropped
  <2>5. r1' = r1 /\ r8' = r8
    BY <2>1
  <2> QED BY <1>1, <1>3, <2>3, <2>4, <2>5 DEF Incoming!CallInv, Incoming!Calls
<1>6. CASE ~Incoming!SameCall(r5[Incoming!The])
  <2>1. r1' = r5[at] /\ r2' = TRUE /\ r3' = TRUE /\ r8' = [r8 EXCEPT ![at] = @ + 1]
    BY <1>2, <1>6 DEF Incoming!HandleClip
  <2>2. /\ r8' \in [Incoming!Calls -> Nat] /\ r8'[at] = r8[at] + 1 /\ r8[at] \in Nat
        /\ \A c \in Incoming!Calls : c # at => r8'[c] = r8[c]
        /\ \A c \in Incoming!Calls : r8'[c] \in Nat /\ r8'[c] >= r8[c]
    BY <1>1, <1>2, <1>4, <2>1
  <2>3. ~Incoming!Known(at) /\ Incoming!Known(at)'
    BY <1>1, <1>2, <1>6, <2>1 DEF Incoming!Known, Incoming!SameCall
  <2>4. Incoming!Announced'
    <3>1. \A c \in Incoming!Calls : r8'[c] > 0 => Incoming!NoneBefore(c)'
      BY <1>3, <1>4, <2>2 DEF Incoming!Announced
    <3>2. ASSUME ~r10, NEW c \in Incoming!Calls
          PROVE  r8'[c] <= 1 /\ (r8'[c] = 1 => Incoming!Known(c)' \/ Incoming!Over(c)')
      <4>1. CASE c = at
        <5>1. r8[at] <= 1 /\ r8[at] # 1
          BY <1>3, <1>4, <2>3, <3>2, <4>1 DEF Incoming!Announced
        <5>2. r8[at] = 0
          BY <2>2, <5>1
        <5> QED BY <2>2, <2>3, <4>1, <5>2
      <4>2. CASE c # at
        <5>1. r8'[c] = r8[c] /\ r8[c] <= 1 /\ (r8[c] = 1 => Incoming!NoneBefore(c))
          BY <1>4, <2>2, <3>2, <4>2 DEF Incoming!Announced
        <5> QED BY <1>3, <4>2, <5>1
      <4> QED BY <4>1, <4>2
    <3> QED BY <1>1, <3>1, <3>2 DEF Incoming!Announced, Incoming!Calls
  <2>5. ASSUME Incoming!NoneDropped PROVE Incoming!NoneDropped'
    <3>1. Incoming!Holds(at)' /\ Incoming!EndAhead(at, 0)'
      <4>1. r9[at] = <<>>
        BY <1>1, <1>2, <1>3, <2>5 DEF Incoming!NoneDropped
      <4> QED BY <1>1, <1>2, <1>3, <2>1, <2>2, <2>5, <4>1 DEF Incoming!Holds
    <3>2. (r1 # Incoming!Withheld => \E c \in Incoming!Calls : Incoming!Holds(c) /\ Incoming!EndAhead(c, 0))'
      BY <1>1, <1>2, <3>1 DEF Incoming!Calls
    <3>3. (\A c \in Incoming!Calls : r9[c] # <<>> => Incoming!Over(c) /\ Incoming!ToldRight(c))'
      BY <1>1, <1>3, <2>5 DEF Incoming!NoneDropped, Incoming!ToldRight, Incoming!Calls
    <3>4. (\A c \in r7 : c <= Incoming!Current /\ (r5[c] # Incoming!Withheld => r8[c] > 0 \/ Incoming!NameWaits(c)))'
      <4>1. ASSUME NEW c \in r7 PROVE c <= Incoming!Current /\ (r5[c] # Incoming!Withheld => r8'[c] > 0 \/ Incoming!NameWaits(c)')
        <5>1. c \in Incoming!Calls /\ c <= Incoming!Current /\ (r5[c] # Incoming!Withheld => r8[c] > 0 \/ Incoming!NameWaits(c))
          BY <1>4, <2>5 DEF Incoming!NoneDropped
        <5>2. r8[c] > 0 => r8'[c] > 0
          BY <1>4, <2>2, <5>1
        <5>3. c = at => r8'[c] > 0
          BY <2>2
        <5> QED BY <1>3, <5>1, <5>2, <5>3
      <4> QED BY <1>1, <4>1
    <3> QED BY <1>3, <2>5, <3>2, <3>3, <3>4 DEF Incoming!NoneDropped
  <2>6. r1' \in Size.calls.numbers \union {Incoming!Withheld}
    BY <1>1, <1>2, <1>4, <2>1, CallFacts DEF Incoming!Current
  <2> QED BY <1>1, <1>3, <2>2, <2>4, <2>5, <2>6 DEF Incoming!CallInv, Incoming!Calls
<1> QED BY <1>5, <1>6

\* An end is taken.
LEMMA CallEnds ==
  ASSUME Incoming!CallBounds, Incoming!CallInv, Incoming!HandleEnd
  PROVE  Incoming!CallInv'
<1>1. /\ Incoming!Takes("end") /\ r8' = r8 /\ r1' = Incoming!Withheld /\ r2' = TRUE /\ r3' = FALSE
      /\ UNCHANGED <<r5, r6, r7, r10, r11>> /\ Incoming!Current' = Incoming!Current
      /\ Incoming!The \in Incoming!Calls /\ Incoming!The <= Incoming!Current /\ Incoming!Current \in Nat /\ \A c \in Incoming!Calls : c \in Nat
  BY CallLine DEF Incoming!HandleEnd, Incoming!AfterEnd
<1>2. PICK at : at = Incoming!The
  OBVIOUS
<1>3. /\ Incoming!LinesInOrder' /\ r4' \in Seq([kind : {"ring", "clip", "end"}, call : Incoming!Calls])
      /\ Incoming!NoneDropped => Incoming!EachEnds'
      /\ \A c \in Incoming!Calls : /\ Incoming!Over(c) => Incoming!Over(c)'
                                   /\ Incoming!NoneBefore(c) => Incoming!NoneBefore(c)' /\ (c # at => Incoming!Over(c)')
                                   /\ Incoming!NameWaits(c) => Incoming!NameWaits(c)'
                                   /\ Incoming!EndAhead(c, 0) => c = at
      /\ Incoming!Over(at)'
  <2>1. Incoming!Takes("end") /\ at = Incoming!The
    BY <1>1, <1>2
  <2>2. Incoming!LinesInOrder' /\ r4' \in Seq([kind : {"ring", "clip", "end"}, call : Incoming!Calls])
        /\ (Incoming!NoneDropped => Incoming!EachEnds')
    BY <2>1, CallPast
  <2>3. \A c \in Incoming!Calls : (Incoming!Over(c) => Incoming!Over(c)') /\ (Incoming!NoneBefore(c) => Incoming!NoneBefore(c)' /\ (c # at => Incoming!Over(c)'))
    BY <2>1, CallPast
  <2>4. \A c \in Incoming!Calls : Incoming!NameWaits(c) => Incoming!NameWaits(c)'
    \/ ("end" = "clip" /\ c = at)
    BY <2>1, CallPast
  <2>5. \A c \in Incoming!Calls : Incoming!EndAhead(c, 0) => c = at
    BY <2>1, CallPast
  <2>6. Incoming!Over(at)'
    BY <2>1, CallPast
  <2> QED BY <2>2, <2>3, <2>4, <2>5, <2>6
<1>4. /\ r9 \in [Incoming!Calls -> Seq(Size.calls.numbers \union {Incoming!Withheld})] /\ r7 \subseteq Incoming!Calls
      /\ Incoming!Announced
  BY DEF Incoming!CallInv
<1>5. Incoming!Announced'
  <2>1. ASSUME NEW c \in Incoming!Calls, r8[c] = 1 PROVE Incoming!Over(c)' \/ (~Incoming!Known(c) /\ ~Incoming!Over(c)) \/ r10
    BY <1>3, <1>4, <2>1 DEF Incoming!Announced
  <2>2. ASSUME NEW c \in Incoming!Calls, r8[c] = 1, Incoming!Announced, ~r10 PROVE Incoming!Known(c)' \/ Incoming!Over(c)'
    BY <2>1, <2>2 DEF Incoming!Announced
  <2>3. \A c \in Incoming!Calls : r8[c] > 0 => Incoming!NoneBefore(c)'
    BY <1>3, <1>4 DEF Incoming!Announced
  <2>4. ~r10 => \A c \in Incoming!Calls : r8[c] <= 1
    BY <1>4 DEF Incoming!Announced
  <2> QED BY <1>1, <1>4, <2>2, <2>3, <2>4 DEF Incoming!Announced, Incoming!Calls
<1>6. /\ r9' = IF r1 = Incoming!Withheld THEN r9 ELSE [r9 EXCEPT ![at] = Append(@, r1)]
  BY <1>2 DEF Incoming!HandleEnd
<1>7. /\ r9' \in [Incoming!Calls -> Seq(Size.calls.numbers \union {Incoming!Withheld})]
      /\ \A c \in Incoming!Calls : c # at => r9'[c] = r9[c]
  <2>1. r1 \in Size.calls.numbers \union {Incoming!Withheld}
    BY DEF Incoming!CallInv
  <2>2. \A c \in Incoming!Calls : Append(r9[c], r1) \in Seq(Size.calls.numbers \union {Incoming!Withheld})
    BY <1>4, <2>1
  <2> QED BY <1>4, <1>6, <2>2
<1>8. ASSUME Incoming!NoneDropped
      PROVE  IF r1 = Incoming!Withheld THEN r9' = r9 ELSE r9'[at] = <<r5[at]>> /\ at <= Incoming!Current
  <2>1. CASE r1 = Incoming!Withheld
    BY <1>6, <2>1
  <2>2. CASE r1 # Incoming!Withheld
    <3>1. PICK c \in Incoming!Calls : Incoming!Holds(c) /\ Incoming!EndAhead(c, 0)
      BY <1>8, <2>2 DEF Incoming!NoneDropped
    <3>2. c = at /\ r1 = r5[at] /\ r9[at] = <<>> /\ at <= Incoming!Current /\ at \in Incoming!Calls
      BY <1>3, <3>1 DEF Incoming!Holds
    <3>3. r5[at] \in Size.calls.numbers \union {Incoming!Withheld}
      BY <3>2 DEF Incoming!CallInv
    <3>4. Append(<<>>, r5[at]) = <<r5[at]>>
      BY <3>3
    <3> QED BY <1>4, <1>6, <2>2, <3>2, <3>4
  <2> QED BY <2>1, <2>2
<1>9. ASSUME Incoming!NoneDropped PROVE Incoming!NoneDropped'
  <2>1. (\A c \in Incoming!Calls : r9[c] # <<>> => Incoming!Over(c) /\ Incoming!ToldRight(c))'
    <3>1. ASSUME NEW c \in Incoming!Calls, r9'[c] # <<>> PROVE Incoming!Over(c)' /\ Incoming!ToldRight(c)'
      <4>1. CASE c # at \/ r1 = Incoming!Withheld
        <5>1. r9'[c] = r9[c]
          BY <1>7, <1>8, <1>9, <4>1
        <5>2. Incoming!Over(c) /\ Incoming!ToldRight(c)
          BY <1>9, <3>1, <5>1 DEF Incoming!NoneDropped
        <5> QED BY <1>1, <1>3, <5>1, <5>2 DEF Incoming!ToldRight
      <4>2. CASE c = at /\ r1 # Incoming!Withheld
        BY <1>1, <1>3, <1>8, <1>9, <4>2 DEF Incoming!ToldRight
      <4> QED BY <4>1, <4>2
    <3> QED BY <3>1 DEF Incoming!Calls
  <2>2. (\A c \in r7 : c <= Incoming!Current /\ (r5[c] # Incoming!Withheld => r8[c] > 0 \/ Incoming!NameWaits(c)))'
    <3>1. ASSUME NEW c \in r7 PROVE c <= Incoming!Current /\ (r5[c] # Incoming!Withheld => r8[c] > 0 \/ Incoming!NameWaits(c)')
      BY <1>3, <1>4, <1>9, <3>1 DEF Incoming!NoneDropped
    <3> QED BY <1>1, <3>1
  <2>3. Incoming!EachEnds' /\ r1' = Incoming!Withheld
    BY <1>1, <1>3, <1>9
  <2> QED BY <2>1, <2>2, <2>3 DEF Incoming!NoneDropped, Incoming!Withheld
<1>10. /\ r8' = r8 /\ r1' \in Size.calls.numbers \union {Incoming!Withheld}
       /\ UNCHANGED <<r5, r6, r7, r10, r11>> /\ Incoming!Current' = Incoming!Current
       /\ Incoming!LinesInOrder' /\ r4' \in Seq([kind : {"ring", "clip", "end"}, call : Incoming!Calls])
  BY <1>1, <1>3
<1> QED BY <1>5, <1>7, <1>9, <1>10 DEF Incoming!CallInv, Incoming!Calls

\* The window of the deduplication runs out, or nothing happens.
LEMMA CallWindow ==
  ASSUME Incoming!CallBounds, Incoming!CallInv, Incoming!WindowEnds \/ UNCHANGED Incoming!vars
  PROVE  Incoming!CallInv'
<1>1. /\ UNCHANGED <<r1, r8, r9, r4, r5, r6, r7, r11>> /\ Incoming!Current' = Incoming!Current
      /\ r10' = TRUE \/ (UNCHANGED <<r2, r3, r10>>)
  BY DEF Incoming!WindowEnds, Incoming!vars, Incoming!dispatcher, Incoming!modem, Incoming!Current
<1>2. Incoming!LinesInOrder'
  BY <1>1 DEF Incoming!CallInv, Incoming!LinesInOrder
<1>3. /\ \A c \in Incoming!Calls : (Incoming!Over(c) => Incoming!Over(c)') /\ (Incoming!NoneBefore(c) => Incoming!NoneBefore(c)')
                          /\ (Incoming!Holds(c) => Incoming!Holds(c)') /\ (Incoming!ToldRight(c) => Incoming!ToldRight(c)')
                          /\ (Incoming!EndAhead(c, 0) => Incoming!EndAhead(c, 0)') /\ (Incoming!NameWaits(c) => Incoming!NameWaits(c)')
      /\ Incoming!EachEnds => Incoming!EachEnds'
  <2>1. ASSUME NEW c \in Incoming!Calls PROVE (Incoming!Over(c) => Incoming!Over(c)') /\ (Incoming!NoneBefore(c) => Incoming!NoneBefore(c)')
    BY <1>1 DEF Incoming!Over, Incoming!NoneBefore
  <2>2. ASSUME NEW c \in Incoming!Calls PROVE (Incoming!Holds(c) => Incoming!Holds(c)') /\ (Incoming!ToldRight(c) => Incoming!ToldRight(c)')
    BY <1>1 DEF Incoming!Holds, Incoming!ToldRight
  <2>3. ASSUME NEW c, NEW i PROVE Incoming!EndAhead(c, i) => Incoming!EndAhead(c, i)'
    BY <1>1 DEF Incoming!EndAhead
  <2>4. ASSUME NEW c \in Incoming!Calls PROVE Incoming!NameWaits(c) => Incoming!NameWaits(c)'
    BY <1>1 DEF Incoming!NameWaits
  <2>5. Incoming!EachEnds => Incoming!EachEnds'
    BY <1>1, <2>3 DEF Incoming!EachEnds
  <2> QED BY <2>1, <2>2, <2>3, <2>4, <2>5
<1>4. Incoming!Announced'
  <2>1. CASE r10' = TRUE
    BY <1>1, <1>3, <2>1 DEF Incoming!CallInv, Incoming!Announced, Incoming!Calls
  <2>2. CASE UNCHANGED <<r2, r3, r10>>
    <3>1. \A c \in Incoming!Calls : Incoming!Known(c) => Incoming!Known(c)'
      BY <1>1, <2>2 DEF Incoming!Known, Incoming!SameCall
    <3> QED BY <1>1, <1>3, <2>2, <3>1, CallsStayAnnounced DEF Incoming!CallInv
  <2> QED BY <1>1, <2>1, <2>2
<1>5. ASSUME Incoming!NoneDropped PROVE Incoming!NoneDropped'
  <2>1. (r1 # Incoming!Withheld => \E c \in Incoming!Calls : Incoming!Holds(c) /\ Incoming!EndAhead(c, 0))'
    BY <1>1, <1>3, <1>5 DEF Incoming!NoneDropped, Incoming!Calls
  <2>2. (\A c \in Incoming!Calls : r9[c] # <<>> => Incoming!Over(c) /\ Incoming!ToldRight(c))'
    BY <1>1, <1>3, <1>5 DEF Incoming!NoneDropped, Incoming!Calls
  <2>3. (\A c \in r7 : c <= Incoming!Current /\ (r5[c] # Incoming!Withheld => r8[c] > 0 \/ Incoming!NameWaits(c)))'
    <3>1. \A c \in r7 : Incoming!NameWaits(c) => Incoming!NameWaits(c)'
      BY <1>3 DEF Incoming!CallInv
    <3> QED BY <1>1, <1>5, <3>1 DEF Incoming!NoneDropped
  <2>4. Incoming!EachEnds'
    BY <1>3, <1>5 DEF Incoming!NoneDropped
  <2> QED BY <2>1, <2>2, <2>3, <2>4 DEF Incoming!NoneDropped
<1> QED BY <1>1, <1>2, <1>4, <1>5 DEF Incoming!CallInv, Incoming!Calls

\* The lines of the modem, and the dispatcher that takes them.
LEMMA CallKept ==
  ASSUME Incoming!CallBounds, Incoming!CallInv, Incoming!CallNext
  PROVE  Incoming!CallInv'
<1>1. ASSUME Incoming!Rings \/ Incoming!Names \/ Incoming!Ends PROVE Incoming!CallInv'
  <2>1. /\ r6 \in {"rings", "ends", "over"} /\ UNCHANGED <<r5, r10>> /\ UNCHANGED Incoming!dispatcher
    BY <1>1 DEF Incoming!Rings, Incoming!Names, Incoming!Ends, Incoming!modem, Incoming!CallInv
  <2>2. CASE Incoming!Rings
    <3>1. Incoming!Write("ring") /\ r6 = "rings" /\ r6' = r6 /\ r7' = r7
      BY <2>2 DEF Incoming!Rings, Incoming!modem
    <3> QED BY <2>1, <3>1, CallWritten
  <2>3. CASE Incoming!Names
    <3>1. Incoming!Write("clip") /\ r6 = "rings" /\ r6' = r6
          /\ r7' = IF Incoming!Fits THEN r7 \union {Incoming!Current} ELSE r7
      BY <2>3 DEF Incoming!Names
    <3> QED BY <2>1, <3>1, CallWritten
  <2>4. CASE Incoming!Ends
    <3>1. Incoming!Write("end") /\ r6 # "over" /\ r6' \in {"ends", "over"} /\ r7' = r7
      BY <2>4 DEF Incoming!Ends
    <3> QED BY <2>1, <3>1, CallWritten
  <2> QED BY <1>1, <2>2, <2>3, <2>4
<1> QED BY <1>1, CallComes, CallWindow, CallRings, CallClips, CallEnds DEF Incoming!CallNext

\* It speaks of nothing but the variables of the machine.
LEMMA CallStutters ==
  ASSUME Incoming!CallBounds, Incoming!CallInv,
         UNCHANGED <<r1, r2, r3, r4, r5, r6, r7, r8, r9,
                    r10, r11, r12>>
  PROVE  Incoming!CallInv'
BY CallWindow DEF Incoming!vars, Incoming!dispatcher, Incoming!modem

\* What is wanted follows.
LEMMA CallHolds ==
  ASSUME Incoming!CallBounds, Incoming!CallInv
  PROVE  Incoming!RingsOnce /\ Incoming!EndsAreRight /\ Incoming!CallsAreAnnounced
<1>1. Incoming!RingsOnce
  <2>1. Incoming!Announced /\ r8 \in [Incoming!Calls -> Nat] /\ 1 \in Nat
    BY DEF Incoming!CallInv
  <2>2. ASSUME NEW c \in Incoming!Calls, r8[c] > 1 PROVE r10
    <3>1. ~(r8[c] <= 1)
      BY <2>1, <2>2
    <3> QED BY <2>1, <3>1 DEF Incoming!Announced
  <2> QED BY <2>2 DEF Incoming!RingsOnce
<1>2. ~r11 => Incoming!NoneDropped
  BY DEF Incoming!CallInv
<1>3. Incoming!EndsAreRight
  BY <1>2 DEF Incoming!EndsAreRight, Incoming!NoneDropped, Incoming!ToldRight
<1>4. Incoming!CallsAreAnnounced
  BY <1>2 DEF Incoming!CallsAreAnnounced, Incoming!NoneDropped, Incoming!NameWaits, Incoming!Handled
<1> QED BY <1>1, <1>3, <1>4

-----------------------------------------------------------------------------
(* The notices that go out.                                                *)

Notices == INSTANCE Notifier WITH
    phase <- r1, queue <- r2, pending <- r3, since <- r4, batches <- r5,
    made <- r6, arrived <- r7, refused <- r8, overflow <- r9,
    givenUp <- r10,
    QueueSize <- Size.notify.queue, MaxPending <- Size.notify.pending,
    MaxTries <- Size.notify.tries, Window <- Size.notify.window,
    MaxNotices <- Bound.notices

\* Sequences of notices.
LEMMA NoticesTail ==
  ASSUME NEW S, NEW s \in Seq(S), S \subseteq Int, s # <<>>, Notices!Rising(s)
  PROVE  /\ Tail(s) \in Seq(S) /\ Notices!Rising(Tail(s)) /\ Head(s) \in S
            /\ Head(s) \in Notices!Range(s)
         /\ Notices!Range(s) = {Head(s)} \union Notices!Range(Tail(s))
         /\ \A n \in Notices!Range(Tail(s)) : Head(s) < n
<1> DEFINE t == Tail(s)
<1>1. Len(s) \in Nat /\ Len(s) >= 1 /\ DOMAIN s = 1..Len(s)
  <2>1. Len(s) # 0
    BY EmptySeq
  <2> QED BY <2>1, LenProperties
<1>2. t \in Seq(S) /\ Head(s) = s[1] /\ Len(t) = Len(s) - 1
      /\ \A i \in 1..(Len(s) - 1) : t[i] = s[i + 1]
  BY <1>1
<1> HIDE DEF t
<1>3. DOMAIN t = 1..(Len(s) - 1)
  BY <1>2, LenProperties
<1>4. Notices!Rising(t)
  <2>1. ASSUME NEW i \in DOMAIN t, NEW j \in DOMAIN t, i < j PROVE t[i] < t[j]
    <3>1. i + 1 \in DOMAIN s /\ j + 1 \in DOMAIN s /\ i + 1 < j + 1 /\ t[i] = s[i + 1]
          /\ t[j] = s[j + 1]
      BY <1>1, <1>2, <1>3, <2>1
    <3> QED BY <3>1 DEF Notices!Rising
  <2> QED BY <2>1 DEF Notices!Rising
<1>5. 1 \in DOMAIN s /\ s[1] \in S
  BY <1>1
<1>6. \A i \in DOMAIN s : i = 1 \/ (i - 1 \in DOMAIN t /\ t[i - 1] = s[i])
  BY <1>1, <1>2, <1>3
<1>7. \A i \in DOMAIN t : i + 1 \in DOMAIN s /\ t[i] = s[i + 1] /\ 1 < i + 1
  BY <1>1, <1>2, <1>3
<1>8. Notices!Range(s) = {s[1]} \union Notices!Range(t)
  BY <1>5, <1>6, <1>7 DEF Notices!Range
<1>9. \A n \in Notices!Range(t) : s[1] < n
  BY <1>5, <1>7 DEF Notices!Range, Notices!Rising
<1> QED BY <1>2, <1>4, <1>5, <1>8, <1>9 DEF t

\* What a sequence holds.
Has(s, T) == Notices!Range(s) = T

\* A greatest notice is put at the end.
LEMMA NoticesAppend ==
  ASSUME NEW S, NEW s \in Seq(S), S \subseteq Int, NEW n \in S, Notices!Rising(s),
         \A m \in Notices!Range(s) : m < n
  PROVE  Append(s, n) \in Seq(S) /\ Notices!Rising(Append(s, n))
         /\ Has(Append(s, n), Notices!Range(s) \union {n})
<1> DEFINE t == Append(s, n)
<1>1. Len(s) \in Nat /\ DOMAIN s = 1..Len(s)
  BY LenProperties
<1>2. t \in Seq(S) /\ Len(t) = Len(s) + 1 /\ t[Len(s) + 1] = n /\ \A i \in 1..Len(s) : t[i] = s[i]
  BY <1>1
<1> HIDE DEF t
<1>3. DOMAIN t = 1..(Len(s) + 1)
  BY <1>2, LenProperties
<1>4. \A i \in DOMAIN t : i = Len(s) + 1 \/ (i \in DOMAIN s /\ t[i] = s[i])
  BY <1>1, <1>2, <1>3
<1>5. (\A i \in DOMAIN s : i \in DOMAIN t /\ t[i] = s[i] /\ i < Len(s) + 1) /\ Len(s) + 1 \in DOMAIN t
  BY <1>1, <1>2, <1>3
<1>6. Notices!Range(t) = Notices!Range(s) \union {n}
  BY <1>2, <1>4, <1>5 DEF Notices!Range
<1>7. \A i \in DOMAIN s : s[i] < n
  BY DEF Notices!Range
<1>8. Notices!Rising(t)
  <2>1. ASSUME NEW i \in DOMAIN t, NEW j \in DOMAIN t, i < j PROVE t[i] < t[j]
    <3>1. i \in DOMAIN s
      BY <1>1, <1>3, <2>1
    <3>2. CASE j = Len(s) + 1
      BY <1>2, <1>5, <1>7, <3>1, <3>2
    <3>3. CASE j # Len(s) + 1
      BY <1>4, <2>1, <3>1, <3>3, <1>5 DEF Notices!Rising
    <3> QED BY <3>2, <3>3
  <2> QED BY <2>1 DEF Notices!Rising
<1> QED BY <1>2, <1>6, <1>8 DEF t, Has

\* One sequence behind another one whose notices come before.
LEMMA NoticesJoin ==
  ASSUME NEW S, NEW s \in Seq(S), NEW r \in Seq(S), S \subseteq Int, Notices!Rising(s),
         Notices!Rising(r),
         Notices!Before(Notices!Range(s), Notices!Range(r))
  PROVE  s \o r \in Seq(S) /\ Notices!Rising(s \o r)
         /\ Has(s \o r, Notices!Range(s) \union Notices!Range(r))
<1> DEFINE t == s \o r
           n == Len(s)
           m == Len(r)
<1>1. n \in Nat /\ DOMAIN s = 1..n /\ m \in Nat /\ DOMAIN r = 1..m
  BY LenProperties
<1>2. /\ t \in Seq(S) /\ Len(t) = n + m /\ \A i \in 1..n : t[i] = s[i]
      /\ \A i \in (n + 1)..(n + m) : t[i] = r[i - n]
  BY <1>1
<1> HIDE DEF t, n, m
<1>3. DOMAIN t = 1..(n + m)
  BY <1>2, LenProperties
<1>4. \A i \in DOMAIN t : (i \in DOMAIN s /\ t[i] = s[i])
      \/ (i > n /\ i - n \in DOMAIN r /\ t[i] = r[i - n])
  BY <1>1, <1>2, <1>3
<1>5. /\ \A i \in DOMAIN s : i \in DOMAIN t /\ t[i] = s[i]
      /\ \A i \in DOMAIN r : i + n \in DOMAIN t /\ t[i + n] = r[i]
  <2>1. ASSUME NEW i \in DOMAIN s PROVE i \in DOMAIN t /\ t[i] = s[i]
    BY <1>1, <1>2, <1>3
  <2>2. ASSUME NEW i \in DOMAIN r PROVE i + n \in DOMAIN t /\ t[i + n] = r[i]
    <3>1. i + n \in (n + 1)..(n + m) /\ (i + n) - n = i
      BY <1>1
    <3>2. i + n \in DOMAIN t
      BY <1>1, <1>3
    <3> QED BY <1>2, <3>1, <3>2
  <2> QED BY <2>1, <2>2
<1>6. Notices!Range(t) = Notices!Range(s) \union Notices!Range(r)
  BY <1>4, <1>5 DEF Notices!Range
<1>7. Notices!Rising(t)
  <2>1. ASSUME NEW i \in DOMAIN t, NEW j \in DOMAIN t, i < j PROVE t[i] < t[j]
    <3>1. CASE i \in DOMAIN s /\ j \in DOMAIN s
      BY <1>5, <2>1, <3>1 DEF Notices!Rising
    <3>2. CASE i \in DOMAIN s /\ j \notin DOMAIN s
      <4>1. j - n \in DOMAIN r /\ t[j] = r[j - n] /\ t[i] = s[i]
        BY <1>4, <1>5, <3>2
      <4> QED BY <3>2, <4>1 DEF Notices!Before, Notices!Range
    <3>3. CASE i \notin DOMAIN s
      <4>1. i > n /\ i - n \in DOMAIN r /\ t[i] = r[i - n]
        BY <1>4, <3>3
      <4>2. j \notin DOMAIN s
        BY <1>1, <1>3, <2>1, <4>1
      <4>3. j - n \in DOMAIN r /\ t[j] = r[j - n] /\ i - n < j - n
        BY <1>1, <1>3, <1>4, <2>1, <4>2
      <4> QED BY <4>1, <4>3 DEF Notices!Rising
    <3> QED BY <3>1, <3>2, <3>3
  <2> QED BY <2>1 DEF Notices!Rising
<1> QED BY <1>2, <1>6, <1>7 DEF t, Has

\* Those of a batch that have not come before.
LEMMA NoticesNew ==
  ASSUME NEW S, NEW s \in Seq(S), S \subseteq Int, Notices!Rising(s)
  PROVE  Notices!New(s) \in Seq(S) /\ Notices!Rising(Notices!New(s))
         /\ Notices!Range(Notices!New(s)) = Notices!Range(s) \ Notices!Range(r7)
<1> DEFINE I == {k \in DOMAIN s : s[k] \notin Notices!Range(r7)}
           Value(n, f) == IF n = 0 THEN <<>> ELSE IF n \in I THEN Append(f[n - 1], s[n]) ELSE f[n - 1]
           Def(f) == f = [n \in 0..Len(s) |-> Value(n, f)]
<1>1. Notices!New(s) = (CHOOSE f : Def(f))[Len(s)]
  BY DEF Notices!New, Notices!Picked
<1>2. \A f : Gathers(f, s, I) <=> Def(f)
  BY DEF Gathers
<1>3. \A x : (\E i \in I \intersect DOMAIN s : s[i] = x) <=> x \in Notices!Range(s) \ Notices!Range(r7)
  BY DEF Notices!Range
<1> HIDE DEF Def, I
<1>4. \E f : Gathers(f, s, I)
  BY PickExists
<1>5. PICK g : g = (CHOOSE f : Def(f)) /\ Gathers(g, s, I)
  BY <1>2, <1>4
<1>6. g[Len(s)] \in Seq(S) /\ HoldsThose(g[Len(s)], s, I)
      /\ (S \subseteq Int /\ Rises(s) => Rises(g[Len(s)]))
  BY <1>5, PickTells
<1>7. Notices!New(s) = g[Len(s)]
  BY <1>1, <1>5
<1>8. Notices!Rising(Notices!New(s))
  BY <1>6, <1>7 DEF Rises, Notices!Rising
<1>9. \A x : (\E i \in DOMAIN Notices!New(s) : Notices!New(s)[i] = x)
        <=> \E i \in I \intersect DOMAIN s : s[i] = x
  BY <1>6, <1>7, Zenon DEF HoldsThose
<1>10. \A x : x \in Notices!Range(Notices!New(s))
         <=> \E i \in DOMAIN Notices!New(s) : Notices!New(s)[i] = x
  BY DEF Notices!Range
<1> QED BY <1>3, <1>6, <1>7, <1>8, <1>9, <1>10

\* No batch, or one.
LEMMA NoticesNone ==
  /\ Notices!Range(<<>>) = {} /\ Notices!Rising(<<>>) /\ \A S : <<>> \in Seq(S)
  /\ \A b : Notices!Without(<<b>>, 1) = <<>> /\ <<b>> # <<>> /\ DOMAIN <<b>> = {1} /\ <<b>>[1] = b
<1>1. DOMAIN <<>> = {} /\ \A S : <<>> \in Seq(S)
  OBVIOUS
<1>2. Notices!Range(<<>>) = {} /\ Notices!Rising(<<>>)
  BY <1>1 DEF Notices!Range, Notices!Rising
<1>3. ASSUME NEW b PROVE Notices!Without(<<b>>, 1) = <<>> /\ <<b>> # <<>> /\ DOMAIN <<b>> = {1}
             /\ <<b>>[1] = b
  <2>1. <<b>> \in Seq({b}) /\ Len(<<b>>) = 1 /\ <<b>>[1] = b /\ <<b>> # <<>> /\ DOMAIN <<b>> = {1}
    OBVIOUS
  <2>2. SubSeq(<<b>>, 1, 0) = <<>> /\ SubSeq(<<b>>, 2, 1) = <<>>
    <3>1. /\ SubSeq(<<b>>, 1, 0) \in Seq({b}) /\ Len(SubSeq(<<b>>, 1, 0)) = 0
          /\ SubSeq(<<b>>, 2, 1) \in Seq({b}) /\ Len(SubSeq(<<b>>, 2, 1)) = 0
      BY <2>1
    <3> QED BY <3>1, EmptySeq
  <2>3. Notices!Without(<<b>>, 1) = <<>> \o <<>>
    BY <2>1, <2>2 DEF Notices!Without
  <2> QED BY <2>1, <2>3
<1> QED BY <1>1, <1>2, <1>3

\* A notice is in one of the places, or has left them.
LEMMA NoticesHere ==
  /\ r5 = <<>> => Notices!Here = Notices!Range(r2) \union Notices!Range(r3)
  /\ \A b : r5 = <<b>> => Notices!Here = Notices!Range(r2) \union Notices!Range(r3)
     \union Notices!Range(b.notices)
<1>1. ASSUME r5 = <<>> PROVE Notices!Here = Notices!Range(r2) \union Notices!Range(r3)
  BY <1>1 DEF Notices!Here
<1>2. ASSUME NEW b,
             r5 = <<b>> PROVE Notices!Here = Notices!Range(r2) \union Notices!Range(r3)
             \union Notices!Range(b.notices)
  <2>1. {Notices!Range(r5[i].notices) : i \in DOMAIN r5} = {Notices!Range(b.notices)}
    BY <1>2, NoticesNone
  <2> QED BY <2>1 DEF Notices!Here
<1> QED BY <1>1, <1>2

\* The invariant holds at the start.
LEMMA NoticesBegins == ASSUME Notices!NoticeBounds, Notices!NotifierInit PROVE Notices!NoticesInv
<1>1. /\ r1 = "runs" /\ r2 = <<>> /\ r3 = <<>> /\ r4 = Size.notify.window /\ r5 = <<>>
      /\ r6 = 0 /\ r7 = <<>> /\ r8 = {} /\ r9 = {} /\ r10 = {}
  BY DEF Notices!NotifierInit
<1>2. Notices!OrderInv
  BY <1>1, NoticesNone DEF Notices!OrderInv, Notices!Before
<1>3. Notices!BatchInv
  BY <1>1 DEF Notices!BatchInv, Notices!NoticeBounds
<1>4. Notices!NoticesKept
  <2>1. Notices!Here = {}
    BY <1>1, NoticesHere, NoticesNone
  <2> QED BY <1>1, <2>1, NoticesNone DEF Notices!NoticesKept
<1>5. Notices!DropsOldest
  BY <1>1 DEF Notices!DropsOldest
<1> QED BY <1>2, <1>3, <1>4, <1>5 DEF Notices!NoticesInv

\* What the properties ask of a state of the service.
LEMMA NoticesHolds ==
  ASSUME Notices!NoticesInv
  PROVE  Notices!NoticesKept /\ Notices!ArriveInOrder /\ Notices!DropsOldest
<1>1. Notices!NoticesKept /\ Notices!DropsOldest
  BY DEF Notices!NoticesInv, Notices!NoticesKept
<1>2. ASSUME r1 = "runs" PROVE Len(r5) <= 1 /\ Notices!Rising(r7)
  <2>1. Notices!OrderInv /\ Notices!BatchInv
    BY <1>2 DEF Notices!NoticesInv
  <2>2. \A b : Len(<<b>>) = 1
    OBVIOUS
  <2>3. Len(r5) <= 1
    <3>1. r5 = <<>> \/ r5 = <<r5[1]>>
      BY <2>1 DEF Notices!BatchInv
    <3>2. Len(<<>>) = 0
      OBVIOUS
    <3> DEFINE n == Len(r5)
    <3>3. n = 0 \/ n = 1
      BY <2>2, <3>1, <3>2, Zenon
    <3> HIDE DEF n
    <3>4. n <= 1
      BY <3>3
    <3> QED BY <3>4 DEF n
  <2> QED BY <2>1, <2>3 DEF Notices!OrderInv
<1> QED BY <1>1, <1>2 DEF Notices!ArriveInOrder, Notices!Rising

\* The set of the elements of a sequence.
LEMMA NoticesInside == ASSUME NEW S, NEW s \in Seq(S) PROVE Notices!Range(s) \subseteq S
<1>1. DOMAIN s = 1..Len(s)
  BY LenProperties
<1>2. \A i \in DOMAIN s : s[i] \in S
  BY <1>1
<1> QED BY <1>2 DEF Notices!Range

\* The parts of the invariant, as they are used.
LEMMA NoticesOrder ==
  ASSUME Notices!OrderInv
  PROVE  /\ r6 \in Nat /\ 1..r6 \subseteq Int /\ r9 \subseteq 1..r6
         /\ r7 \in Seq(1..r6) /\ r3 \in Seq(1..r6) /\ r2 \in Seq(1..r6)
         /\ Notices!Rising(r7) /\ Notices!Rising(r3) /\ Notices!Rising(r2)
         /\ Notices!Range(r7) \subseteq 1..r6 /\ Notices!Range(r3) \subseteq 1..r6
            /\ Notices!Range(r2) \subseteq 1..r6
<1>1. \A s \in Seq(1..r6) : Notices!Range(s) \subseteq 1..r6
  BY NoticesInside
<1> QED BY <1>1 DEF Notices!OrderInv

\* A notice is made.
LEMMA NoticesMade == ASSUME Notices!NoticesInv, Notices!Notify PROVE Notices!NoticesInv'
<1>1. /\ r6' = r6 + 1 /\ UNCHANGED <<r1, r3, r4, r5, r7, r10, r9>>
      /\ \/ r2' = Append(r2, r6') /\ r8' = r8
         \/ r2' = r2 /\ r8' = r8 \union {r6'}
  BY DEF Notices!Notify, Notices!taken
<1>2. Notices!DropsOldest'
  BY <1>1 DEF Notices!NoticesInv, Notices!DropsOldest
<1>3. ASSUME r1 = "runs" PROVE Notices!OrderInv' /\ Notices!BatchInv' /\ Notices!NoticesKept'
  <2>1. Notices!OrderInv /\ Notices!BatchInv /\ Notices!NoticesKept
    BY <1>3 DEF Notices!NoticesInv
  <2>2. /\ r6 \in Nat /\ 1..r6 \subseteq 1..r6' /\ r6' \in 1..r6' /\ 1..r6' \subseteq Int
        /\ 1..r6' = 1..r6 \union {r6'} /\ \A n \in 1..r6 : n < r6'
    <3>1. r6 \in Nat
      BY <2>1, NoticesOrder
    <3> QED BY <1>1, <3>1
  <2>3. \A s \in Seq(1..r6) : s \in Seq(1..r6')
    BY <2>2
  <2>4. r2' \in Seq(1..r6') /\ Notices!Rising(r2')
        /\ (Notices!Range(r2') = Notices!Range(r2) \/ Notices!Range(r2') = Notices!Range(r2) \union {r6'})
        /\ Notices!Range(r2') \union r8' = Notices!Range(r2) \union r8 \union {r6'}
    <3>1. CASE r2' = r2 /\ r8' = r8 \union {r6'}
      BY <2>1, <2>3, <3>1 DEF Notices!OrderInv
    <3>2. CASE r2' = Append(r2, r6') /\ r8' = r8
      <4>1. r2 \in Seq(1..r6') /\ Notices!Rising(r2) /\ \A n \in Notices!Range(r2) : n < r6'
        BY <2>1, <2>2, <2>3, NoticesOrder
      <4>2. Append(r2, r6') \in Seq(1..r6') /\ Notices!Rising(Append(r2, r6'))
            /\ Notices!Range(Append(r2, r6')) = Notices!Range(r2) \union {r6'}
        BY <2>2, <4>1, NoticesAppend DEF Has
      <4> QED BY <3>2, <4>2
    <3> QED BY <1>1, <3>1, <3>2
  <2>5. Notices!OrderInv'
    <3>1. r6' \in Nat /\ r9' \subseteq 1..r6'
      BY <1>1, <2>1, <2>2 DEF Notices!OrderInv
    <3>2. \A s \in {r7', r3', r2'} : s \in Seq(1..r6') /\ Notices!Rising(s)
      BY <1>1, <2>1, <2>3, <2>4, NoticesOrder
    <3>3. Notices!Before(Notices!Range(r7'), Notices!Range(r3'))
      BY <1>1, <2>1 DEF Notices!OrderInv
    <3>4. Notices!Before(Notices!Range(r7'), Notices!Range(r2'))
          /\ Notices!Before(Notices!Range(r3'), Notices!Range(r2'))
             /\ Notices!Before(r9', Notices!Range(r2'))
      BY <1>1, <2>1, <2>2, <2>4, NoticesOrder DEF Notices!OrderInv, Notices!Before
    <3> QED BY <3>1, <3>2, <3>3, <3>4 DEF Notices!OrderInv
  <2>6. ASSUME NEW s, Notices!InTurn(s, r6, r7, r3, r2) PROVE Notices!InTurn(s, r6', r7, r3, r2')
    <3>1. s \in Seq(1..r6) /\ Notices!Range(s) \subseteq 1..r6
      BY <2>6, NoticesInside DEF Notices!InTurn
    <3>2. Notices!Before(Notices!Range(s), Notices!Range(r2'))
      BY <2>2, <2>4, <2>6, <3>1 DEF Notices!InTurn, Notices!Before
    <3> QED BY <2>3, <2>6, <3>1, <3>2 DEF Notices!InTurn
  <2>7. Notices!BatchInv'
    BY <1>1, <2>1, <2>6 DEF Notices!BatchInv
  <2>8. Notices!NoticesKept'
    <3>1. 1..r6 = Notices!Here \union Notices!Range(r7) \union r8 \union r9 \union r10
      BY <1>3, <2>1 DEF Notices!NoticesKept
    <3>2. Notices!Here' \union r8' = Notices!Here \union r8 \union {r6'}
      BY <1>1, <2>4 DEF Notices!Here
    <3> QED BY <1>1, <2>2, <3>1, <3>2 DEF Notices!NoticesKept
  <2> QED BY <2>5, <2>7, <2>8
<1> QED BY <1>1, <1>2, <1>3 DEF Notices!NoticesInv

\* A notice joins the list, which may drop its oldest.
LEMMA NoticesCollected ==
  ASSUME Notices!NoticeBounds, Notices!NoticesInv, Notices!Receive
  PROVE  Notices!NoticesInv'
<1> DEFINE next == Head(r2)
           S == 1..r6
           full == Len(r3) >= Size.notify.pending
           rest == IF full THEN Tail(r3) ELSE r3
<1>1. /\ r1 = "runs" /\ r2 # <<>> /\ r2' = Tail(r2) /\ r3' = Append(rest, next)
      /\ r9' = IF full THEN r9 \union {Head(r3)} ELSE r9
      /\ UNCHANGED <<r1, r4, r5, r6, r7, r10, r8>>
  BY DEF Notices!Receive, Notices!Collected, Notices!taken
<1>2. Notices!OrderInv /\ Notices!BatchInv /\ Notices!NoticesKept /\ Notices!DropsOldest
  BY <1>1 DEF Notices!NoticesInv
<1>3. /\ r6 \in Nat /\ S \subseteq Int /\ r9 \subseteq S
      /\ r7 \in Seq(S) /\ r3 \in Seq(S) /\ r2 \in Seq(S)
      /\ Notices!Rising(r7) /\ Notices!Rising(r3) /\ Notices!Rising(r2)
  BY <1>2, NoticesOrder
<1> HIDE DEF S, next, full
<1>4. /\ r2' \in Seq(S) /\ Notices!Rising(r2') /\ next \in S /\ next \in Notices!Range(r2)
      /\ Notices!Range(r2) = {next} \union Notices!Range(r2') /\ \A m \in Notices!Range(r2') : next < m
  BY <1>1, <1>3, NoticesTail DEF next
<1>5. \A m \in Notices!Range(r3) : m < next
  BY <1>2, <1>4 DEF Notices!OrderInv, Notices!Before
<1>6. /\ rest \in Seq(S) /\ Notices!Rising(rest) /\ Notices!Range(rest) \subseteq Notices!Range(r3)
         /\ r9' \subseteq S
      /\ Notices!Range(rest) \union r9' = Notices!Range(r3) \union r9
      /\ \A d \in r9' : d \in r9 \/ (d \in Notices!Range(r3) /\ \A m \in Notices!Range(rest) : d < m)
  <2>1. CASE ~full
    BY <1>1, <1>3, <2>1
  <2>2. CASE full
    <3>1. r3 # <<>>
      <4>1. Len(r3) # 0
        BY <1>3, <2>2, LenProperties DEF Notices!NoticeBounds, full
      <4>2. Len(<<>>) = 0
        OBVIOUS
      <4> QED BY <4>1, <4>2
    <3>2. /\ Tail(r3) \in Seq(S) /\ Notices!Rising(Tail(r3)) /\ Head(r3) \in S
             /\ Head(r3) \in Notices!Range(r3)
          /\ Notices!Range(r3) = {Head(r3)} \union Notices!Range(Tail(r3))
          /\ \A m \in Notices!Range(Tail(r3)) : Head(r3) < m
      BY <1>3, <3>1, NoticesTail
    <3>3. rest = Tail(r3) /\ r9' = r9 \union {Head(r3)}
      BY <1>1, <2>2
    <3> HIDE DEF rest
    <3> QED BY <1>3, <3>2, <3>3
  <2> QED BY <2>1, <2>2
<1> HIDE DEF rest
<1>7. r3' \in Seq(S) /\ Notices!Rising(r3') /\ Notices!Range(r3') = Notices!Range(rest) \union {next}
  <2>1. \A m \in Notices!Range(rest) : m < next
    BY <1>5, <1>6
  <2>2. Append(rest, next) \in Seq(S) /\ Notices!Rising(Append(rest, next))
        /\ Notices!Range(Append(rest, next)) = Notices!Range(rest) \union {next}
    <3>1. rest \in Seq(S) /\ Notices!Rising(rest) /\ S \subseteq Int /\ next \in S
      BY <1>3, <1>4, <1>6
    <3>2. Append(rest, next) \in Seq(S) /\ Notices!Rising(Append(rest, next))
          /\ Has(Append(rest, next), Notices!Range(rest) \union {next})
      BY <2>1, <3>1, NoticesAppend
    <3> QED BY <3>2 DEF Has
  <2> QED BY <1>1, <2>2
<1>8. Notices!Range(r2) \subseteq Int /\ Notices!Range(r3) \subseteq Int /\ r9 \subseteq Int
  BY <1>3, NoticesInside
<1>9. Notices!OrderInv'
  <2>1. \A s \in {r7', r3', r2'} : s \in Seq(1..r6') /\ Notices!Rising(s)
    BY <1>1, <1>3, <1>4, <1>7 DEF S
  <2>2. Notices!Before(Notices!Range(r7'), Notices!Range(r3'))
        /\ Notices!Before(Notices!Range(r7'), Notices!Range(r2'))
    BY <1>1, <1>2, <1>4, <1>6, <1>7 DEF Notices!OrderInv, Notices!Before
  <2>3. Notices!Before(Notices!Range(r3'), Notices!Range(r2'))
    BY <1>2, <1>4, <1>6, <1>7 DEF Notices!OrderInv, Notices!Before
  <2>4. Notices!Before(r9', Notices!Range(r2'))
    BY <1>2, <1>4, <1>6 DEF Notices!OrderInv, Notices!Before
  <2> QED BY <1>1, <1>3, <1>6, <2>1, <2>2, <2>3, <2>4 DEF Notices!OrderInv, S
<1>10. ASSUME NEW s, Notices!InTurn(s, r6, r7, r3, r2) PROVE Notices!InTurn(s, r6, r7, r3', r2')
  <2>1. Notices!Before(Notices!Range(s), Notices!Range(r3'))
        /\ Notices!Before(Notices!Range(s), Notices!Range(r2'))
    BY <1>4, <1>6, <1>7, <1>10 DEF Notices!InTurn, Notices!Before
  <2> QED BY <1>10, <2>1 DEF Notices!InTurn
<1>11. Notices!BatchInv'
  BY <1>1, <1>2, <1>10 DEF Notices!BatchInv
<1>12. Notices!DropsOldest'
  <2>1. ASSUME NEW d \in r9', NEW m \in Notices!Range(r3') PROVE d < m
    <3>1. CASE m = next
      BY <1>2, <1>4, <1>5, <1>6, <3>1 DEF Notices!OrderInv, Notices!Before
    <3>2. CASE m \in Notices!Range(rest)
      BY <1>2, <1>6, <3>2 DEF Notices!DropsOldest
    <3> QED BY <1>7, <2>1, <3>1, <3>2
  <2> QED BY <2>1 DEF Notices!DropsOldest
<1>13. Notices!NoticesKept'
  <2>1. 1..r6 = Notices!Here \union Notices!Range(r7) \union r8 \union r9 \union r10
    BY <1>1, <1>2 DEF Notices!NoticesKept
  <2>2. Notices!Here' \union r9' = Notices!Here \union r9
    BY <1>1, <1>4, <1>6, <1>7 DEF Notices!Here
  <2> QED BY <1>1, <2>1, <2>2 DEF Notices!NoticesKept
<1> QED BY <1>9, <1>11, <1>12, <1>13 DEF Notices!NoticesInv

\* The list becomes a batch: none is under way, for the tries of the last one are
\* over before the window is.
LEMMA NoticesFlushed ==
  ASSUME Notices!NoticeBounds, Notices!NoticesInv, Notices!WindowEnds
  PROVE  Notices!NoticesInv'
<1> DEFINE b == [notices |-> r3, tries |-> 0, time |-> 0]
<1>1. /\ r1 = "runs" /\ r4 >= Size.notify.window /\ r4' = 0 /\ r3' = <<>> /\ r5' = Append(r5, b)
      /\ UNCHANGED <<r1, r2, r6, r7, r10, r8, r9>>
  BY DEF Notices!WindowEnds, Notices!Flushes, Notices!SinceBatch, Notices!history, Notices!taken
<1>2. Notices!OrderInv /\ Notices!BatchInv /\ Notices!NoticesKept /\ Notices!DropsOldest
  BY <1>1 DEF Notices!NoticesInv
<1>3. r5 = <<>>
  <2>1. SUFFICES ASSUME Notices!InTime(r5[1], r4) PROVE FALSE
    BY <1>2 DEF Notices!BatchInv
  <2>2. r4 \in Int
    BY <1>2 DEF Notices!BatchInv
  <2> QED BY <1>1, <2>1, <2>2 DEF Notices!InTime, Notices!NoticeBounds
<1>4. /\ r6 \in Nat /\ r3 \in Seq(1..r6) /\ Notices!Rising(r3) /\ Notices!Range(r3') = {}
      /\ r3' \in Seq(1..r6) /\ Notices!Rising(r3')
  BY <1>1, <1>2, NoticesOrder, NoticesNone
<1>5. r5' = <<b>> /\ r5' = <<r5'[1]>> /\ r5'[1] = b
  BY <1>1, <1>3
<1>6. Notices!OrderInv'
  <2>1. \A s \in {r7', r3', r2'} : s \in Seq(1..r6') /\ Notices!Rising(s)
    BY <1>1, <1>2, <1>4 DEF Notices!OrderInv
  <2>2. /\ Notices!Before(Notices!Range(r7'), Notices!Range(r3'))
           /\ Notices!Before(Notices!Range(r7'), Notices!Range(r2'))
        /\ Notices!Before(Notices!Range(r3'), Notices!Range(r2'))
           /\ Notices!Before(r9', Notices!Range(r2'))
    BY <1>1, <1>2, <1>4 DEF Notices!OrderInv, Notices!Before
  <2> QED BY <1>1, <1>2, <2>1, <2>2 DEF Notices!OrderInv
<1>7. Notices!BatchInv'
  <2>1. Notices!InTime(b, 0)
    BY DEF Notices!InTime, Notices!NoticeBounds
  <2>2. Notices!InTurn(r3, r6, r7, r3', r2)
    BY <1>2, <1>4 DEF Notices!InTurn, Notices!OrderInv, Notices!Before
  <2>3. b.notices = r3
    OBVIOUS
  <2> HIDE DEF b
  <2> QED BY <1>1, <1>5, <2>1, <2>2, <2>3 DEF Notices!BatchInv
<1>8. Notices!DropsOldest'
  BY <1>4 DEF Notices!DropsOldest
<1>9. Notices!NoticesKept'
  <2>1. 1..r6 = Notices!Here \union Notices!Range(r7) \union r8 \union r9 \union r10
    BY <1>1, <1>2 DEF Notices!NoticesKept
  <2>2. Notices!Here = Notices!Range(r2) \union Notices!Range(r3)
    BY <1>3, NoticesHere
  <2>3. Notices!Here' = Notices!Here
    <3>1. b.notices = r3
      OBVIOUS
    <3> HIDE DEF b
    <3>2. {Notices!Range(r5'[i].notices) : i \in DOMAIN r5'} = {Notices!Range(r3)}
      BY <1>5, <3>1, NoticesNone
    <3>3. Notices!Here' = Notices!Range(r2') \union Notices!Range(r3') \union Notices!Range(r3)
      BY <3>2 DEF Notices!Here
    <3> QED BY <1>1, <1>4, <2>2, <3>3
  <2> QED BY <1>1, <2>1, <2>3 DEF Notices!NoticesKept
<1> QED BY <1>6, <1>7, <1>8, <1>9 DEF Notices!NoticesInv

\* The stop and what comes after it.
LEMMA NoticesStop ==
  ASSUME Notices!NoticesInv, Notices!Stop \/ Notices!Off
  PROVE  Notices!NoticesInv'
<1>1. r1' # "runs" /\ r9' = r9 /\ (r3' = r3 \/ r3' = <<>>)
  BY DEF Notices!Stop, Notices!Off, Notices!Flushes, Notices!history
<1>2. Notices!DropsOldest'
  BY <1>1, NoticesNone DEF Notices!NoticesInv, Notices!DropsOldest
<1> QED BY <1>1, <1>2 DEF Notices!NoticesInv

\* Time passes.
LEMMA NoticesPass ==
  ASSUME Notices!NoticeBounds, Notices!NoticesInv, Notices!Pass
  PROVE  Notices!NoticesInv'
<1>1. /\ r1 = "runs" /\ r4' = r4 + 1 /\ \A i \in DOMAIN r5 : r5[i].time = 0
      /\ r5' = [i \in DOMAIN r5 |-> [r5[i] EXCEPT !.time = 1]]
      /\ UNCHANGED <<r1, r2, r3, r6, r7, r10, r8, r9>>
  BY DEF Notices!Pass, Notices!history, Notices!taken
<1>2. Notices!OrderInv /\ Notices!BatchInv /\ Notices!NoticesKept /\ Notices!DropsOldest
  BY <1>1 DEF Notices!NoticesInv
<1>3. Notices!OrderInv' /\ Notices!DropsOldest'
  BY <1>1, <1>2 DEF Notices!OrderInv, Notices!DropsOldest
<1>4. r4' \in Int
  BY <1>1, <1>2 DEF Notices!BatchInv
<1>5. CASE r5 = <<>>
  <2>1. r5' = <<>>
    BY <1>1, <1>5
  <2>2. Notices!BatchInv'
    BY <1>4, <2>1 DEF Notices!BatchInv
  <2>3. Notices!Here' = Notices!Here
    BY <1>1, <1>5, <2>1 DEF Notices!Here
  <2>4. Notices!NoticesKept'
    BY <1>1, <1>2, <2>3 DEF Notices!NoticesKept
  <2> QED BY <1>2, <1>3, <2>2, <2>4 DEF Notices!NoticesInv
<1>6. ASSUME r5 = <<r5[1]>>, Notices!InTime(r5[1], r4),
             Notices!InTurn(r5[1].notices, r6, r7, r3, r2)
      PROVE  Notices!NoticesInv'
  <2> DEFINE b == r5[1]
             c == [notices |-> b.notices, tries |-> b.tries, time |-> 1]
  <2>1. b = [notices |-> b.notices, tries |-> b.tries, time |-> 0] /\ b.tries \in Nat /\ r4 <= b.tries
    <3>1. b.time = 0
      BY <1>1, <1>6, NoticesNone
    <3> QED BY <1>2, <1>6, <3>1 DEF Notices!InTime, Notices!BatchInv
  <2>2. [b EXCEPT !.time = 1] = c
    BY <2>1
  <2>3. r5' = <<c>> /\ r5'[1] = c /\ r5' = <<r5'[1]>>
    <3>1. r5' = [i \in {1} |-> [b EXCEPT !.time = 1]]
      <4>1. r5 = <<b>> /\ DOMAIN r5 = {1} /\ r5[1] = b
        BY <1>6, NoticesNone
      <4> QED BY <1>1, <4>1
    <3> HIDE DEF c
    <3> QED BY <2>2, <3>1
  <2>4. Notices!InTime(c, r4')
    BY <1>1, <1>2, <1>6, <2>1 DEF Notices!InTime, Notices!BatchInv
  <2>5. c.notices = b.notices
    OBVIOUS
  <2> HIDE DEF c
  <2>6. Notices!BatchInv'
    BY <1>1, <1>4, <1>6, <2>3, <2>4, <2>5 DEF Notices!BatchInv
  <2>7. Notices!Here' = Notices!Here
    <3>1. Notices!Here = Notices!Range(r2) \union Notices!Range(r3) \union Notices!Range(b.notices)
      BY <1>6, NoticesHere
    <3>2. {Notices!Range(r5'[i].notices) : i \in DOMAIN r5'} = {Notices!Range(b.notices)}
      BY <2>3, <2>5, NoticesNone
    <3> QED BY <1>1, <3>1, <3>2 DEF Notices!Here
  <2>8. Notices!NoticesKept'
    BY <1>1, <1>2, <2>7 DEF Notices!NoticesKept
  <2> QED BY <1>2, <1>3, <2>6, <2>8 DEF Notices!NoticesInv
<1> QED BY <1>2, <1>5, <1>6 DEF Notices!BatchInv

\* What the batch brings: the others go on behind it.
LEMMA NoticesCome ==
  ASSUME Notices!OrderInv, NEW s, Notices!InTurn(s, r6, r7, r3, r2), r7' = r7 \o Notices!New(s)
  PROVE  /\ r7' \in Seq(1..r6) /\ Notices!Rising(r7')
            /\ Notices!Range(r7') = Notices!Range(r7) \union Notices!Range(s)
         /\ Notices!Before(Notices!Range(r7'), Notices!Range(r3))
            /\ Notices!Before(Notices!Range(r7'), Notices!Range(r2))
         /\ Notices!InTurn(s, r6, r7', r3, r2)
<1> DEFINE S == 1..r6
           fresh == Notices!New(s)
<1>1. S \subseteq Int /\ r7 \in Seq(S) /\ Notices!Rising(r7) /\ s \in Seq(S) /\ Notices!Rising(s)
  BY NoticesOrder DEF Notices!InTurn
<1> HIDE DEF S
<1>2. fresh \in Seq(S) /\ Notices!Rising(fresh)
      /\ Notices!Range(fresh) = Notices!Range(s) \ Notices!Range(r7)
  BY <1>1, NoticesNew
<1> HIDE DEF fresh
<1>3. Notices!Before(Notices!Range(r7), Notices!Range(fresh))
  BY <1>2 DEF Notices!InTurn, Notices!Before
<1>4. r7 \o fresh \in Seq(S) /\ Notices!Rising(r7 \o fresh)
      /\ Notices!Range(r7 \o fresh) = Notices!Range(r7) \union Notices!Range(fresh)
  <2>1. r7 \o fresh \in Seq(S) /\ Notices!Rising(r7 \o fresh)
        /\ Has(r7 \o fresh, Notices!Range(r7) \union Notices!Range(fresh))
    BY <1>1, <1>2, <1>3, NoticesJoin
  <2> QED BY <2>1 DEF Has
<1>5. r7' = r7 \o fresh
  BY DEF fresh
<1>6. r7' \in Seq(S) /\ Notices!Rising(r7')
      /\ Notices!Range(r7') = Notices!Range(r7) \union Notices!Range(s)
  BY <1>2, <1>4, <1>5
<1>7. Notices!Before(Notices!Range(r7'), Notices!Range(r3))
      /\ Notices!Before(Notices!Range(r7'), Notices!Range(r2))
  BY <1>6 DEF Notices!OrderInv, Notices!InTurn, Notices!Before
<1>8. Notices!InTurn(s, r6, r7', r3, r2)
  BY <1>6 DEF Notices!InTurn
<1> QED BY <1>6, <1>7, <1>8 DEF S

\* A try ends: the batch has arrived, is given up, or will be tried again.
LEMMA NoticesTried ==
  ASSUME Notices!NoticeBounds, Notices!NoticesInv, NEW i \in DOMAIN r5, Notices!Arrives(i)
           \/ Notices!Fails(i)
  PROVE  Notices!NoticesInv'
<1>1. CASE r1 # "runs"
  <2>1. UNCHANGED <<r1, r3, r9>>
    BY DEF Notices!Arrives, Notices!Fails
  <2> QED BY <1>1, <2>1 DEF Notices!NoticesInv, Notices!DropsOldest
<1>2. CASE r1 = "runs"
  <2> DEFINE b == r5[1]
             s == b.notices
             c == [notices |-> b.notices, tries |-> b.tries + 1, time |-> 0]
  <2>1. Notices!OrderInv /\ Notices!BatchInv /\ Notices!NoticesKept /\ Notices!DropsOldest
    BY <1>2 DEF Notices!NoticesInv
  <2>2. r5 = <<b>> /\ Notices!InTime(b, r4) /\ Notices!InTurn(s, r6, r7, r3, r2) /\ r4 \in Int
    <3>1. r5 # <<>>
      <4>1. DOMAIN <<>> = {}
        OBVIOUS
      <4> QED BY <4>1
    <3> QED BY <2>1, <3>1 DEF Notices!BatchInv
  <2>3. i = 1 /\ Notices!Without(r5, i) = <<>> /\ r5[i] = b
    <3>1. DOMAIN <<b>> = {1} /\ Notices!Without(<<b>>, 1) = <<>>
      BY NoticesNone
    <3>2. i = 1
      BY <2>2, <3>1
    <3> QED BY <2>2, <3>1, <3>2
  <2>4. /\ UNCHANGED <<r1, r2, r3, r4, r6, r8, r9>>
        /\ r7' = r7 \/ r7' = r7 \o Notices!New(s)
        /\ \/ r5' = <<>> /\ r10' = r10 /\ r7' = r7 \o Notices!New(s)
           \/ r5' = <<>> /\ r10' = r10 \union Notices!Range(s)
           \/ r5' = <<c>> /\ r10' = r10 /\ b.tries + 1 < Size.notify.tries
    <3>1. CASE Notices!Arrives(i)
      BY <2>3, <3>1 DEF Notices!Arrives, Notices!Comes, Notices!Ended
    <3>2. CASE Notices!Fails(i)
      <4>1. UNCHANGED <<r1, r2, r3, r4, r6, r8, r9>>
        BY <3>2 DEF Notices!Fails
      <4>2. r7' = r7 \/ r7' = r7 \o Notices!New(s)
        BY <2>3, <3>2 DEF Notices!Fails, Notices!Comes
      <4>3. CASE Notices!Tried(b.tries + 1)
        <5>1. r5' = [r5 EXCEPT ![i] = [notices |-> @.notices, tries |-> @.tries + 1, time |-> 0]]
              /\ r10' = r10
          BY <2>3, <3>2, <4>3 DEF Notices!Fails
        <5>3. r5' = <<c>>
          <6>1. r5' = [k \in {1} |-> IF k = 1 THEN c ELSE r5[k]]
            BY <2>2, <2>3, <5>1, NoticesNone
          <6> HIDE DEF c
          <6> QED BY <6>1
        <5> QED BY <4>1, <4>2, <4>3, <5>1, <5>3 DEF Notices!Tried
      <4>4. CASE ~Notices!Tried(b.tries + 1)
        BY <2>3, <3>2, <4>1, <4>2, <4>4 DEF Notices!Fails, Notices!Ended
      <4> QED BY <4>3, <4>4
    <3> QED BY <3>1, <3>2
  <2>5. /\ r7' \in Seq(1..r6) /\ Notices!Rising(r7')
        /\ Notices!Before(Notices!Range(r7'), Notices!Range(r3))
           /\ Notices!Before(Notices!Range(r7'), Notices!Range(r2))
        /\ Notices!InTurn(s, r6, r7', r3, r2)
        /\ Notices!Range(r7') = Notices!Range(r7)
           \/ Notices!Range(r7') = Notices!Range(r7) \union Notices!Range(s)
        /\ r7' = r7 \o Notices!New(s) => Notices!Range(r7') = Notices!Range(r7) \union Notices!Range(s)
    <3>1. CASE r7' = r7 \o Notices!New(s)
      BY <2>1, <2>2, <3>1, NoticesCome
    <3>2. CASE r7' = r7 /\ r7' # r7 \o Notices!New(s)
      BY <2>1, <2>2, <3>2 DEF Notices!OrderInv
    <3> QED BY <2>4, <3>1, <3>2
  <2>6. Notices!OrderInv'
    BY <2>1, <2>4, <2>5 DEF Notices!OrderInv
  <2>7. Notices!DropsOldest'
    BY <2>1, <2>4 DEF Notices!DropsOldest
  <2>8. Notices!Here = Notices!Range(r2) \union Notices!Range(r3) \union Notices!Range(s)
    BY <2>2, NoticesHere
  <2>9. 1..r6 = Notices!Here \union Notices!Range(r7) \union r8 \union r9 \union r10
    BY <1>2, <2>1 DEF Notices!NoticesKept
  <2>10. CASE r5' = <<>>
    <3>1. Notices!BatchInv'
      BY <2>2, <2>4, <2>10 DEF Notices!BatchInv
    <3>2. Notices!Here' = Notices!Range(r2) \union Notices!Range(r3)
      <4>1. {Notices!Range(r5'[k].notices) : k \in DOMAIN r5'} = {}
        <5>1. DOMAIN <<>> = {}
          OBVIOUS
        <5> QED BY <2>10, <5>1
      <4> QED BY <2>4, <4>1 DEF Notices!Here
    <3>3. \A x : <<x>> # <<>>
      BY NoticesNone
    <3>4. Notices!Range(s) \subseteq Notices!Range(r7') \union r10'
      BY <2>4, <2>5, <2>10, <3>3
    <3>5. Notices!Range(r7) \subseteq Notices!Range(r7')
          /\ Notices!Range(r7') \subseteq Notices!Range(r7) \union Notices!Range(s)
          /\ r10 \subseteq r10' /\ r10' \subseteq r10 \union Notices!Range(s)
      BY <2>4, <2>5
    <3>6. 1..r6 = Notices!Here' \union Notices!Range(r7') \union r8 \union r9 \union r10'
      BY <2>8, <2>9, <3>2, <3>4, <3>5
    <3>7. Notices!NoticesKept'
      BY <2>4, <3>6 DEF Notices!NoticesKept
    <3> QED BY <2>6, <2>7, <3>1, <3>7 DEF Notices!NoticesInv
  <2>11. CASE r5' = <<c>> /\ r10' = r10 /\ b.tries + 1 < Size.notify.tries
    <3>1. Notices!InTime(c, r4)
      <4>1. b.tries \in Nat /\ b.time \in {0, 1} /\ r4 <= b.tries + b.time
        BY <2>2 DEF Notices!InTime
      <4> QED BY <2>2, <2>11, <4>1 DEF Notices!InTime
    <3>2. c.notices = s
      OBVIOUS
    <3> HIDE DEF c, s
    <3>3. r5' = <<r5'[1]>> /\ r5'[1] = c
      BY <2>11, NoticesNone
    <3>4. Notices!BatchInv'
      BY <2>2, <2>4, <2>5, <3>1, <3>2, <3>3 DEF Notices!BatchInv
    <3>5. {Notices!Range(r5'[k].notices) : k \in DOMAIN r5'} = {Notices!Range(s)}
      BY <3>2, <2>11, NoticesNone
    <3>6. Notices!Here' = Notices!Here
      BY <2>4, <2>8, <3>5 DEF Notices!Here
    <3>7. Notices!Range(r7) \subseteq Notices!Range(r7')
          /\ Notices!Range(r7') \subseteq Notices!Range(r7) \union Notices!Here
      BY <2>5, <2>8
    <3>8. Notices!NoticesKept'
      BY <2>4, <2>9, <2>11, <3>6, <3>7 DEF Notices!NoticesKept
    <3> QED BY <2>6, <2>7, <3>4, <3>8 DEF Notices!NoticesInv
  <2> QED BY <2>4, <2>10, <2>11
<1> QED BY <1>1, <1>2

\* Every step keeps it.
LEMMA NoticesKept ==
  ASSUME Notices!NoticeBounds, Notices!NoticesInv, Notices!NotifierNext
  PROVE  Notices!NoticesInv'
BY NoticesMade, NoticesCollected, NoticesFlushed, NoticesStop, NoticesPass, NoticesTried
   DEF Notices!NotifierNext, Notices!NotifierMoves

\* It speaks of nothing but the variables of the machine.
LEMMA NoticesStutters ==
  ASSUME Notices!NoticesInv, UNCHANGED <<r1, r2, r3, r4, r5, r6, r7, r8, r9, r10>>
  PROVE  Notices!NoticesInv'
<1>1. Notices!OrderInv => Notices!OrderInv'
  BY DEF Notices!vars, Notices!history, Notices!taken, Notices!OrderInv
<1>2. Notices!BatchInv => Notices!BatchInv'
  BY DEF Notices!vars, Notices!history, Notices!taken, Notices!BatchInv
<1>3. Notices!NoticesKept => Notices!NoticesKept'
  BY DEF Notices!vars, Notices!history, Notices!taken, Notices!NoticesKept, Notices!Here
<1>4. Notices!DropsOldest => Notices!DropsOldest'
  BY DEF Notices!vars, Notices!history, Notices!taken, Notices!DropsOldest
<1> QED BY <1>1, <1>2, <1>3, <1>4 DEF Notices!NoticesInv, Notices!vars

-----------------------------------------------------------------------------
\* What the bounds of these machines are.
ASSUME MessageAssumption ==
    /\ Send!SendBounds
    /\ Sms!SmsBounds
    /\ Incoming!CallBounds
    /\ SmsSet!SmsSetBounds
    /\ Long!LongBounds
    /\ SText!TextBounds
    /\ Notices!NoticeBounds
=============================================================================
