----------------------------- MODULE FoldLemmas -----------------------------
(***************************************************************************)
(* What FlattenSeq and MapThenSumSet return, for the proofs about the      *)
(* seeder's plans and about the hours of the work queue.                   *)
(***************************************************************************)
EXTENDS Integers, Sequences, SequencesExt, FiniteSetsExt, SequenceTheorems,
        FiniteSetTheorems, WellFoundedInduction, TLAPS

(***************************************************************************)
(* Induction by the least counterexample, in which no operator is passed.  *)
(***************************************************************************)

\* A set of naturals that is not empty has a least element.
LEMMA Least ==
  ASSUME NEW T \in SUBSET Nat, T # {}
  PROVE  \E m \in T : \A n \in T : m <= n
<1>1. IsWellFoundedOn(OpToRel(<,Nat), Nat)
  BY NatLessThanWellFounded
<1>2. PICK m \in T : \A n \in T : ~ (<<n, m>> \in OpToRel(<,Nat))
  BY <1>1, WFMin
<1>3. \A n \in T : ~ (n < m)
  BY <1>2 DEF OpToRel
<1> QED BY <1>3

\* The function FlattenSeq is defined by: its n-th value is the first n
\* sequences of ss, one after the other.
Flat(g, ss, n) ==
  g = [i \in 1..n |-> IF i = 1 THEN ss[i] ELSE g[i-1] \o ss[i]]

\* There is such a function, for any number of sequences.
LEMMA FlatExists ==
  ASSUME NEW ss, NEW m \in Nat \ {0}
  PROVE  \E g : Flat(g, ss, m)
<1> DEFINE Bad == {n \in 1..m : ~ \E g : Flat(g, ss, n)}
<1> SUFFICES ASSUME Bad # {} PROVE FALSE
  OBVIOUS
<1>1. PICK n \in Bad : \A k \in Bad : n <= k
  BY Least, Bad \in SUBSET Nat
<1>2. CASE n = 1
  <2>1. Flat([i \in 1..1 |-> ss[i]], ss, 1)
    BY DEF Flat
  <2> QED BY <1>2, <2>1
<1>3. CASE n # 1
  <2>1. n \in 2..m /\ n-1 \in 1..m /\ n-1 \notin Bad
    BY <1>1, <1>3
  <2>2. PICK g : Flat(g, ss, n-1)
    BY <2>1
  <2> DEFINE last == g[n-1] \o ss[n]
  <2> DEFINE h == [i \in 1..n |-> IF i = n THEN last ELSE g[i]]
  <2>3. \A i \in 1..n : h[i] = IF i = 1 THEN ss[i] ELSE h[i-1] \o ss[i]
    <3> TAKE i \in 1..n
    <3>1. CASE i = n
      <4>1. h[n] = last /\ h[n-1] = g[n-1]
        <5> HIDE DEF last
        <5> QED BY <2>1
      <4>2. h[n] = h[n-1] \o ss[n]
        <5> HIDE DEF h
        <5> QED BY <4>1, Zenon
      <4>3. n # 1
        BY <2>1
      <4> HIDE DEF h
      <4> QED BY <3>1, <4>2, <4>3, Zenon
    <3>2. CASE i # n
      <4>1. i \in 1..(n-1) /\ h[i] = g[i]
        BY <3>2, <2>1
      <4>2. g[i] = IF i = 1 THEN ss[i] ELSE g[i-1] \o ss[i]
        BY <4>1, <2>2 DEF Flat
      <4>3. i # 1 => h[i-1] = g[i-1]
        BY <4>1
      <4> HIDE DEF h
      <4> QED BY <4>1, <4>2, <4>3
    <3> QED BY <3>1, <3>2
  <2>4. Flat(h, ss, n)
    BY <2>3 DEF Flat
  <2> QED BY <2>4, <1>1
<1> QED BY <1>2, <1>3

\* FlattenSeq is its last value.
LEMMA FlattenIs ==
  ASSUME NEW ss, Len(ss) \in Nat \ {0}
  PROVE  \E f : Flat(f, ss, Len(ss)) /\ FlattenSeq(ss) = f[Len(ss)]
<1>1. PICK g : Flat(g, ss, Len(ss))
  BY FlatExists
<1> DEFINE f == CHOOSE f : f = [i \in 1..Len(ss) |->
                                  IF i = 1 THEN ss[i] ELSE f[i-1] \o ss[i]]
<1>2. f = [i \in 1..Len(ss) |-> IF i = 1 THEN ss[i] ELSE f[i-1] \o ss[i]]
  BY <1>1, Zenon DEF Flat
<1>3. FlattenSeq(ss) = f[Len(ss)]
  <2>1. Len(ss) # 0
    OBVIOUS
  <2> QED BY <2>1, Zenon DEF FlattenSeq
<1>4. Flat(f, ss, Len(ss))
  <2> HIDE DEF f
  <2> QED BY <1>2 DEF Flat
<1> QED BY <1>3, <1>4

\* One after the other, sequences over S are a sequence over S.
LEMMA FlattenType ==
  ASSUME NEW S, NEW R, NEW seq \in Seq(R), NEW ss,
         DOMAIN ss = DOMAIN seq, ss = [k \in DOMAIN seq |-> ss[k]],
         \A k \in DOMAIN seq : ss[k] \in Seq(S)
  PROVE  FlattenSeq(ss) \in Seq(S)
<1>1. ss \in [1..Len(seq) -> Seq(S)] /\ Len(seq) \in Nat
  BY LenProperties
<1>2. ss \in Seq(Seq(S)) /\ Len(ss) = Len(seq)
  BY <1>1
<1>3. CASE Len(ss) = 0
  <2>1. FlattenSeq(ss) = <<>>
    BY <1>2, <1>3, EmptySeq DEF FlattenSeq
  <2> QED BY <2>1
<1>4. CASE Len(ss) # 0
  <2>1. PICK f : Flat(f, ss, Len(ss)) /\ FlattenSeq(ss) = f[Len(ss)]
    BY <1>1, <1>2, <1>4, FlattenIs
  <2> DEFINE Bad == {i \in 1..Len(ss) : f[i] \notin Seq(S)}
  <2>2. Bad = {}
    <3> SUFFICES ASSUME Bad # {} PROVE FALSE
      OBVIOUS
    <3>1. PICK n \in Bad : \A k \in Bad : n <= k
      BY Least, Bad \in SUBSET Nat
    <3>2. f[n] = IF n = 1 THEN ss[n] ELSE f[n-1] \o ss[n]
      BY <2>1 DEF Flat
    <3>3. n = 1 \/ f[n-1] \in Seq(S)
      BY <3>1, <1>1, <1>2
    <3>4. ss[n] \in Seq(S)
      BY <1>1, <1>2
    <3> QED BY <3>2, <3>3, <3>4, ConcatProperties
  <2> QED BY <2>1, <2>2, <1>4, <1>1, <1>2
<1> QED BY <1>3, <1>4
\* Where the elements of out are in the sequences of ss: out[i] is element
\* pos[i] of sequence blk[i].
Places(out, ss, n, blk, pos) ==
  /\ \A i \in DOMAIN out : /\ blk[i] \in 1..n /\ pos[i] \in DOMAIN ss[blk[i]]
                           /\ out[i] = ss[blk[i]][pos[i]]
  /\ \A i, j \in DOMAIN out :
       i < j => blk[i] < blk[j] \/ (blk[i] = blk[j] /\ pos[i] < pos[j])
  /\ \A m \in 1..n : \A o \in DOMAIN ss[m] :
       \E i \in DOMAIN out : blk[i] = m /\ pos[i] = o

\* One more sequence at the end takes the places after the others.
LEMMA PlacesOneMore ==
  ASSUME NEW S, NEW ss, NEW n \in Nat, NEW out \in Seq(S), ss[n+1] \in Seq(S),
         NEW blk, NEW pos, Places(out, ss, n, blk, pos)
  PROVE  \E b, p : Places(out \o ss[n+1], ss, n+1, b, p)
<1> DEFINE new == ss[n+1]
           len == Len(out)
           all == out \o new
           b == [i \in DOMAIN all |-> IF i \in DOMAIN out THEN blk[i] ELSE n+1]
           p == [i \in DOMAIN all |-> IF i \in DOMAIN out THEN pos[i] ELSE i - len]
<1>1. /\ len \in Nat /\ Len(new) \in Nat /\ DOMAIN out = 1..len
      /\ DOMAIN new = 1..Len(new)
      /\ DOMAIN all = 1..(len + Len(new))
      /\ \A i \in 1..len : all[i] = out[i]
      /\ \A i \in DOMAIN all \ DOMAIN out : all[i] = new[i - len]
  <2>1. /\ all \in Seq(S) /\ Len(all) = Len(out) + Len(new)
        /\ \A i \in 1..(Len(out) + Len(new)) : all[i] =
             IF i <= Len(out) THEN out[i] ELSE new[i - Len(out)]
    BY ConcatProperties
  <2>2. len \in Nat /\ Len(new) \in Nat /\ DOMAIN out = 1..len
          /\ DOMAIN new = 1..Len(new) /\ DOMAIN all = 1..Len(all)
    BY <2>1, LenProperties
  <2> HIDE DEF all, new
  <2> QED BY <2>1, <2>2
<1>2. \A i \in DOMAIN out : b[i] = blk[i] /\ p[i] = pos[i]
  <2> HIDE DEF all
  <2> QED BY <1>1
<1>3. \A i \in DOMAIN all \ DOMAIN out :
        b[i] = n+1 /\ p[i] = i - len /\ i - len \in DOMAIN new /\ i > len
  <2> HIDE DEF all, new
  <2> QED BY <1>1
<1> HIDE DEF b, p, all
<1>4. \A i \in DOMAIN all : /\ b[i] \in 1..(n+1) /\ p[i] \in DOMAIN ss[b[i]]
                            /\ all[i] = ss[b[i]][p[i]]
  <2> TAKE i \in DOMAIN all
  <2>1. CASE i \in DOMAIN out
    <3>1. blk[i] \in 1..n /\ pos[i] \in DOMAIN ss[blk[i]]
            /\ out[i] = ss[blk[i]][pos[i]]
      BY <2>1 DEF Places
    <3> QED BY <1>1, <1>2, <2>1, <3>1
  <2>2. CASE i \notin DOMAIN out
    <3>1. b[i] = n+1 /\ p[i] = i - len /\ p[i] \in DOMAIN new
      BY <1>3, <2>2
    <3>2. all[i] = new[p[i]]
      BY <1>1, <2>2, <3>1
    <3> QED BY <3>1, <3>2
  <2> QED BY <2>1, <2>2
<1>5. \A i, j \in DOMAIN all :
        i < j => b[i] < b[j] \/ (b[i] = b[j] /\ p[i] < p[j])
  <2> SUFFICES ASSUME NEW i \in DOMAIN all, NEW j \in DOMAIN all, i < j
               PROVE  b[i] < b[j] \/ (b[i] = b[j] /\ p[i] < p[j])
    OBVIOUS
  <2>1. CASE j \in DOMAIN out
    <3>1. i \in DOMAIN out
      BY <1>1, <2>1
    <3>2. blk[i] < blk[j] \/ (blk[i] = blk[j] /\ pos[i] < pos[j])
      BY <2>1, <3>1 DEF Places
    <3> QED BY <1>2, <2>1, <3>1, <3>2
  <2>2. CASE j \notin DOMAIN out /\ i \in DOMAIN out
    <3>1. b[i] \in 1..n
      BY <1>2, <2>2 DEF Places
    <3> QED BY <1>3, <2>2, <3>1
  <2>3. CASE j \notin DOMAIN out /\ i \notin DOMAIN out
    <3>1. b[i] = n+1 /\ b[j] = n+1 /\ p[i] = i - len /\ p[j] = j - len
      BY <1>3, <2>3
    <3> QED BY <1>1, <3>1
  <2> QED BY <2>1, <2>2, <2>3
<1>6. ASSUME NEW m \in 1..(n+1), NEW o \in DOMAIN ss[m]
      PROVE  \E i \in DOMAIN all : b[i] = m /\ p[i] = o
  <2>1. CASE m \in 1..n
    <3>1. PICK i \in DOMAIN out : blk[i] = m /\ pos[i] = o
      BY <2>1 DEF Places
    <3>2. i \in DOMAIN all
      BY <1>1
    <3> QED BY <1>2, <3>1, <3>2
  <2>2. CASE m \notin 1..n
    <3>1. m = n+1 /\ o \in 1..Len(new)
      BY <1>1, <2>2
    <3>2. len + o \in DOMAIN all \ DOMAIN out
      BY <1>1, <3>1
    <3>3. b[len + o] = n+1 /\ p[len + o] = (len + o) - len
      BY <1>3, <3>2
    <3>4. (len + o) - len = o
      BY <1>1, <3>1
    <3> QED BY <3>1, <3>2, <3>3, <3>4
  <2> QED BY <2>1, <2>2
<1>7. Places(all, ss, n+1, b, p)
  BY <1>4, <1>5, <1>6 DEF Places
<1> QED BY <1>7 DEF all

\* An empty sequence has none.
LEMMA NoPlaces ==
  ASSUME NEW ss, NEW n, n = 0
  PROVE  Places(<<>>, ss, n, <<>>, <<>>)
<1>1. \A i : i \notin DOMAIN <<>>
  BY EmptySeq, LenProperties, DOMAIN <<>> = 1..0
<1>2. \A m : m \notin 1..n
  OBVIOUS
<1> QED BY <1>1, <1>2, Zenon DEF Places

\* The elements of a flattened sequence have their places in its parts.
LEMMA FlattenPlaces ==
  ASSUME NEW S, NEW R, NEW seq \in Seq(R), NEW ss,
         DOMAIN ss = DOMAIN seq, ss = [k \in DOMAIN seq |-> ss[k]],
         \A k \in DOMAIN seq : ss[k] \in Seq(S)
  PROVE  \E blk, pos : Places(FlattenSeq(ss), ss, Len(seq), blk, pos)
<1>1. ss \in [1..Len(seq) -> Seq(S)] /\ Len(seq) \in Nat
  BY LenProperties
<1>2. ss \in Seq(Seq(S)) /\ Len(ss) = Len(seq)
  BY <1>1
<1>3. CASE Len(ss) = 0
  <2>1. FlattenSeq(ss) = <<>>
    BY <1>2, <1>3, EmptySeq DEF FlattenSeq
  <2>2. Places(<<>>, ss, Len(seq), <<>>, <<>>)
    BY <1>2, <1>3, NoPlaces
  <2> QED BY <2>1, <2>2
<1>4. CASE Len(ss) # 0
  <2>1. PICK f : Flat(f, ss, Len(ss)) /\ FlattenSeq(ss) = f[Len(ss)]
    BY <1>1, <1>2, <1>4, FlattenIs
  <2> DEFINE Placed(i) == \E blk, pos : Places(f[i], ss, i, blk, pos)
             Bad == {i \in 1..Len(ss) : ~(f[i] \in Seq(S) /\ Placed(i))}
  <2>2. Bad = {}
    <3> SUFFICES ASSUME Bad # {} PROVE FALSE
      OBVIOUS
    <3>1. PICK n \in Bad : \A k \in Bad : n <= k
      BY Least, Bad \in SUBSET Nat
    <3>2. f[n] = IF n = 1 THEN ss[n] ELSE f[n-1] \o ss[n]
      BY <2>1 DEF Flat
    <3>3. ss[n] \in Seq(S) /\ n \in 1..Len(ss)
      BY <1>1, <1>2
    <3>4. PICK before \in Seq(S) : /\ f[n] = before \o ss[n]
                                   /\ \E blk, pos : Places(before, ss, n-1, blk, pos)
      <4>1. CASE n = 1
        <5>1. Places(<<>>, ss, n-1, <<>>, <<>>)
          BY <4>1, NoPlaces
        <5>2. f[n] = <<>> \o ss[n] /\ <<>> \in Seq(S)
          BY <3>2, <3>3, <4>1, ConcatEmptySeq
        <5> QED BY <5>1, <5>2
      <4>2. CASE n # 1
        <5>1. n-1 \in 1..Len(ss) /\ n-1 \notin Bad
          <6>1. n \in 1..Len(ss) /\ Len(ss) \in Nat /\ \A k \in Bad : n <= k
            BY <3>1, <3>3, <1>1, <1>2
          <6> HIDE DEF Bad
          <6> QED BY <4>2, <6>1
        <5>2. f[n-1] \in Seq(S) /\ Placed(n-1)
          BY <5>1
        <5> QED BY <3>2, <4>2, <5>2
      <4> QED BY <4>1, <4>2
    <3>5. PICK blk, pos : Places(before, ss, n-1, blk, pos)
      BY <3>4
    <3>6. n-1 \in Nat /\ (n-1)+1 = n
      BY <3>3
    <3>7. \E b, p : Places(before \o ss[(n-1)+1], ss, (n-1)+1, b, p)
      <4> DEFINE m == n-1
      <4>1. m \in Nat /\ ss[m+1] \in Seq(S) /\ Places(before, ss, m, blk, pos)
        BY <3>3, <3>5, <3>6
      <4> HIDE DEF m
      <4>2. \E b, p : Places(before \o ss[m+1], ss, m+1, b, p)
        BY <4>1, PlacesOneMore
      <4> QED BY <4>2 DEF m
    <3>8. Placed(n)
      BY <3>4, <3>6, <3>7
    <3>9. f[n] \in Seq(S)
      BY <3>3, <3>4, ConcatProperties
    <3> QED BY <3>1, <3>8, <3>9
  <2>3. Len(ss) \in 1..Len(ss)
    BY <1>1, <1>2, <1>4
  <2>4. Placed(Len(ss))
    BY <2>2, <2>3
  <2> QED BY <1>2, <2>1, <2>4
<1> QED BY <1>3, <1>4

\* What is kept of a sequence is in its order.
Follows(out, seq, ss, f) ==
  /\ \A i \in DOMAIN out : /\ f[i] \in DOMAIN seq /\ ss[f[i]] # <<>>
                           /\ out[i] = seq[f[i]]
  /\ \A i, j \in DOMAIN out : i < j => f[i] < f[j]
  /\ \A k \in DOMAIN seq : ss[k] # <<>> => \E i \in DOMAIN out : f[i] = k

LEMMA KeepFollows ==
  ASSUME NEW S, NEW seq \in Seq(S), NEW ss,
         DOMAIN ss = DOMAIN seq, ss = [k \in DOMAIN seq |-> ss[k]],
         \A k \in DOMAIN seq : ss[k] = <<seq[k]>> \/ ss[k] = <<>>
  PROVE  \E f : Follows(FlattenSeq(ss), seq, ss, f)
<1> DEFINE out == FlattenSeq(ss)
<1>0. \A k \in DOMAIN seq : <<seq[k]>> \in Seq(S) /\ <<>> \in Seq(S)
  BY LenProperties, ElementOfSeq
<1>1. \A k \in DOMAIN seq : ss[k] \in Seq(S)
  BY <1>0
<1>2. PICK blk, pos : Places(out, ss, Len(seq), blk, pos)
  BY <1>1, FlattenPlaces
<1>3. DOMAIN seq = 1..Len(seq) /\ Len(seq) \in Nat
  BY LenProperties
<1>4. \A k \in DOMAIN seq :
        /\ ss[k] # <<>> => ss[k] = <<seq[k]>> /\ 1 \in DOMAIN ss[k]
        /\ \A o \in DOMAIN ss[k] : ss[k] # <<>> /\ o = 1 /\ ss[k][o] = seq[k]
  <2> TAKE k \in DOMAIN seq
  <2>1. CASE ss[k] = <<seq[k]>>
    <3>1. PICK x : x = seq[k]
      OBVIOUS
    <3>2. \A y : /\ 1 \in DOMAIN <<y>> /\ <<y>> # <<>>
                 /\ \A o \in DOMAIN <<y>> : o = 1 /\ <<y>>[o] = y
      OBVIOUS
    <3> QED BY <2>1, <3>1, <3>2
  <2>2. CASE ss[k] = <<>>
    BY <2>2
  <2> QED BY <2>1, <2>2
<1> HIDE DEF out
<1>5. \A i \in DOMAIN out : /\ blk[i] \in DOMAIN seq /\ ss[blk[i]] # <<>>
                            /\ out[i] = seq[blk[i]] /\ pos[i] = 1
  BY <1>2, <1>3, <1>4 DEF Places
<1>6. ASSUME NEW i \in DOMAIN out, NEW j \in DOMAIN out, i < j
      PROVE  blk[i] < blk[j]
  <2>1. blk[i] < blk[j] \/ (blk[i] = blk[j] /\ pos[i] < pos[j])
    BY <1>2, <1>6 DEF Places
  <2>2. pos[i] = 1 /\ pos[j] = 1
    BY <1>5, Zenon
  <2> QED BY <2>1, <2>2
<1>7. \A k \in DOMAIN seq : ss[k] # <<>> => \E i \in DOMAIN out : blk[i] = k
  BY <1>2, <1>3, <1>4 DEF Places
<1>8. Follows(out, seq, ss, blk)
  BY <1>5, <1>6, <1>7 DEF Follows
<1> QED BY <1>8 DEF out
-----------------------------------------------------------------------------
(***************************************************************************)
(* Sums over finite sets.                                                  *)
(***************************************************************************)

\* Of a set of subsets of a finite set one has no smaller one by an element.
LEMMA LeastSet ==
  ASSUME NEW U, IsFiniteSet(U), NEW T \in SUBSET (SUBSET U), T # {}
  PROVE  \E s \in T : \A x \in s : s \ {x} \notin T
<1> DEFINE Sizes == {Cardinality(s) : s \in T}
<1>1. \A s \in T : IsFiniteSet(s) /\ Cardinality(s) \in Nat
  BY FS_Subset, FS_CardinalityType
<1>2. PICK m \in Sizes : \A n \in Sizes : m <= n
  <2>1. Sizes \in SUBSET Nat /\ Sizes # {}
    BY <1>1
  <2> HIDE DEF Sizes
  <2> QED BY <2>1, Least
<1>3. PICK s \in T : Cardinality(s) = m
  BY <1>2
<1>4. ASSUME NEW x \in s, s \ {x} \in T PROVE FALSE
  <2>1. Cardinality(s \ {x}) = Cardinality(s) - 1
    BY <1>1, FS_RemoveElement
  <2>2. m <= Cardinality(s \ {x})
    BY <1>2, <1>4
  <2> QED BY <1>1, <1>3, <2>1, <2>2
<1> QED BY <1>4

\* The function MapThenSumSet is defined by, on the sets of a family.
Chosen(s) == CHOOSE x \in s : TRUE
Adds(f, h, family) ==
  f = [s \in family |-> IF s = {} THEN 0 ELSE h[Chosen(s)] + f[s \ {Chosen(s)}]]

Small(U, n) == {s \in SUBSET U : Cardinality(s) <= n}

\* There is such a function for the subsets of a finite set.
LEMMA AddsExists ==
  ASSUME NEW U, IsFiniteSet(U), NEW h
  PROVE  \E f : Adds(f, h, SUBSET U)
<1>1. Cardinality(U) \in Nat
        /\ \A s \in SUBSET U : /\ IsFiniteSet(s) /\ Cardinality(s) \in Nat
                              /\ Cardinality(s) <= Cardinality(U)
  BY FS_Subset, FS_CardinalityType
<1> DEFINE Bad == {n \in 0..Cardinality(U) : ~ \E f : Adds(f, h, Small(U, n))}
<1>2. Bad = {}
  <2> SUFFICES ASSUME Bad # {} PROVE FALSE
    OBVIOUS
  <2>1. PICK n \in Bad : \A k \in Bad : n <= k
    BY <1>1, Least, Bad \in SUBSET Nat
  <2>2. CASE n = 0
    <3>1. \A s \in Small(U, 0) : s = {}
      BY <1>1, FS_EmptySet DEF Small
    <3>2. Adds([s \in Small(U, 0) |-> 0], h, Small(U, 0))
      BY <3>1 DEF Adds
    <3> QED BY <2>1, <2>2, <3>2
  <2>3. CASE n # 0
    <3>1. n \in Nat /\ n-1 \in 0..Cardinality(U) /\ n-1 \notin Bad
      BY <1>1, <2>1, <2>3
    <3>2. PICK g : Adds(g, h, Small(U, n-1))
      BY <3>1
    <3> DEFINE Val(s) == IF s = {} THEN 0 ELSE h[Chosen(s)] + g[s \ {Chosen(s)}]
               f == [s \in Small(U, n) |-> Val(s)]
    <3>3. \A s \in Small(U, n-1) : f[s] = g[s]
      <4>1. Small(U, n-1) \subseteq Small(U, n)
        BY <1>1, <3>1 DEF Small
      <4>2. \A s \in Small(U, n-1) : g[s] = Val(s)
        BY <3>2, Zenon DEF Adds
      <4> HIDE DEF Val
      <4> QED BY <4>1, <4>2
    <3>4. \A s \in Small(U, n) : s # {} => s \ {Chosen(s)} \in Small(U, n-1)
      <4> TAKE s \in Small(U, n)
      <4> HAVE s # {}
      <4>1. Chosen(s) \in s
        BY DEF Chosen
      <4>2. Cardinality(s \ {Chosen(s)}) = Cardinality(s) - 1
        BY <1>1, <4>1, FS_RemoveElement DEF Small
      <4> QED BY <1>1, <3>1, <4>2 DEF Small
    <3>5. \A s \in Small(U, n) :
            f[s] = IF s = {} THEN 0 ELSE h[Chosen(s)] + f[s \ {Chosen(s)}]
      <4> TAKE s \in Small(U, n)
      <4>1. f[s] = Val(s)
        OBVIOUS
      <4> HIDE DEF f
      <4> QED BY <4>1, <3>3, <3>4, Zenon
    <3>6. Adds(f, h, Small(U, n))
      <4>1. f = [s \in Small(U, n) |-> f[s]]
        OBVIOUS
      <4> HIDE DEF f
      <4> QED BY <3>5, <4>1, Zenon DEF Adds
    <3> QED BY <2>1, <3>6
  <2> QED BY <2>2, <2>3
<1>3. Small(U, Cardinality(U)) = SUBSET U
  BY <1>1 DEF Small
<1>4. Cardinality(U) \notin Bad /\ Cardinality(U) \in 0..Cardinality(U)
  BY <1>1, <1>2
<1> QED BY <1>3, <1>4

\* Adding an element to a set adds its number to the sum.
Additive(f, h, U) ==
  /\ f[{}] = 0
  /\ \A s \in SUBSET U : f[s] \in Int
  /\ \A s \in SUBSET U : \A x \in U \ s : f[s \cup {x}] = h[x] + f[s]

\* Such a function is additive.
LEMMA AddsOne ==
  ASSUME NEW U, IsFiniteSet(U), NEW h \in [U -> Int], NEW f,
         Adds(f, h, SUBSET U)
  PROVE  Additive(f, h, U)
<1>1. \A s \in SUBSET U :
        f[s] = IF s = {} THEN 0 ELSE h[Chosen(s)] + f[s \ {Chosen(s)}]
  BY Zenon DEF Adds
<1>2. \A s \in SUBSET U : s # {} => Chosen(s) \in s
  BY DEF Chosen
<1>0. f[{}] = 0
  <2>1. {} \in SUBSET U
    OBVIOUS
  <2> QED BY <1>1, <2>1, Zenon
<1>3. \A s \in SUBSET U : f[s] \in Int
  <2> DEFINE Bad == {s \in SUBSET U : f[s] \notin Int}
  <2> SUFFICES ASSUME Bad # {} PROVE FALSE
    OBVIOUS
  <2>1. PICK s \in Bad : \A x \in s : s \ {x} \notin Bad
    BY LeastSet, Bad \in SUBSET (SUBSET U)
  <2>2. s # {}
    <3>1. 0 \in Int /\ f[s] \notin Int
      BY <2>1
    <3> QED BY <1>0, <3>1, Zenon
  <2>3. f[s \ {Chosen(s)}] \in Int /\ h[Chosen(s)] \in Int
    BY <1>2, <2>1, <2>2
  <2>4. f[s] = h[Chosen(s)] + f[s \ {Chosen(s)}]
    BY <1>1, <2>1, <2>2, Zenon
  <2> QED BY <2>1, <2>3, <2>4
<1>4. \A s \in SUBSET U : \A x \in U \ s : f[s \cup {x}] = h[x] + f[s]
  <2> DEFINE Bad == {s \in SUBSET U :
                       \E x \in U \ s : f[s \cup {x}] # h[x] + f[s]}
  <2> SUFFICES ASSUME Bad # {} PROVE FALSE
    OBVIOUS
  <2>1. PICK s \in Bad : \A x \in s : s \ {x} \notin Bad
    BY LeastSet, Bad \in SUBSET (SUBSET U)
  <2>2. PICK x \in U \ s : f[s \cup {x}] # h[x] + f[s]
    BY <2>1
  <2> DEFINE c == Chosen(s \cup {x})
             t == s \ {c}
  <2>3. c \in s \cup {x}
    BY <1>2, <2>1, <2>2
  <2>4. f[s \cup {x}] = h[c] + f[(s \cup {x}) \ {c}]
    BY <1>1, <2>1, <2>2
  <2> HIDE DEF c
  <2>5. CASE c = x
    <3>1. (s \cup {x}) \ {c} = s
      BY <2>2, <2>5
    <3> QED BY <2>2, <2>4, <2>5, <3>1
  <2>6. CASE c # x
    <3>1. c \in s /\ t \in SUBSET U /\ t \notin Bad /\ c \in U \ t /\ x \in U \ t
      BY <2>1, <2>2, <2>3, <2>6
    <3>2. f[t \cup {x}] = h[x] + f[t] /\ f[t \cup {c}] = h[c] + f[t]
      BY <3>1
    <3>3. t \cup {c} = s /\ t \cup {x} = (s \cup {x}) \ {c}
      BY <2>2, <2>6, <3>1
    <3>4. h[x] \in Int /\ h[c] \in Int /\ f[t] \in Int
      BY <1>3, <3>1
    <3>5. f[s \cup {x}] = h[c] + (h[x] + f[t]) /\ f[s] = h[c] + f[t]
      BY <2>4, <3>2, <3>3
    <3> QED BY <2>2, <3>4, <3>5
  <2> QED BY <2>5, <2>6
<1> QED BY <1>0, <1>3, <1>4 DEF Additive

\* A sum of naturals is a natural.
LEMMA AddsNat ==
  ASSUME NEW U, IsFiniteSet(U), NEW h \in [U -> Nat], NEW f,
         Additive(f, h, U)
  PROVE  \A s \in SUBSET U : f[s] \in Nat
<1> DEFINE Bad == {s \in SUBSET U : f[s] \notin Nat}
<1> SUFFICES ASSUME Bad # {} PROVE FALSE
  OBVIOUS
<1>1. PICK s \in Bad : \A x \in s : s \ {x} \notin Bad
  BY LeastSet, Bad \in SUBSET (SUBSET U)
<1>2. s # {}
  <2>1. f[{}] = 0 /\ 0 \in Nat /\ f[s] \notin Nat
    BY <1>1 DEF Additive
  <2> QED BY <2>1, Zenon
<1>3. PICK x \in s : TRUE
  BY <1>2
<1>4. f[s \ {x}] \in Nat /\ h[x] \in Nat
  BY <1>1, <1>3
<1>5. (s \ {x}) \cup {x} = s /\ x \in U \ (s \ {x}) /\ s \ {x} \in SUBSET U
  BY <1>1, <1>3
<1>6. f[(s \ {x}) \cup {x}] = h[x] + f[s \ {x}]
  BY <1>5 DEF Additive
<1>7. f[s] = h[x] + f[s \ {x}]
  BY <1>5, <1>6, Zenon
<1> QED BY <1>1, <1>4, <1>7

\* Two such functions of the same numbers agree.
Agree(k, h, S) == \A x \in S : k[x] = h[x]

LEMMA AddsSame ==
  ASSUME NEW U, IsFiniteSet(U), NEW h, NEW f, Adds(f, h, SUBSET U),
         NEW S, S \subseteq U, NEW k, NEW g, Adds(g, k, SUBSET S),
         Agree(k, h, S)
  PROVE  Agree(g, f, SUBSET S)
<1> DEFINE Bad == {s \in SUBSET S : g[s] # f[s]}
<1> SUFFICES ASSUME Bad # {} PROVE FALSE
  BY DEF Agree
<1>1. PICK s \in Bad : \A x \in s : s \ {x} \notin Bad
  <2>1. IsFiniteSet(S)
    BY FS_Subset
  <2> QED BY <2>1, LeastSet, Bad \in SUBSET (SUBSET S)
<1>2. s \in SUBSET S /\ s \in SUBSET U /\ g[s] # f[s]
  OBVIOUS
<1>3. /\ g[s] = IF s = {} THEN 0 ELSE k[Chosen(s)] + g[s \ {Chosen(s)}]
      /\ f[s] = IF s = {} THEN 0 ELSE h[Chosen(s)] + f[s \ {Chosen(s)}]
  BY <1>2, Zenon DEF Adds
<1>4. s # {}
  BY <1>2, <1>3
<1>5. Chosen(s) \in s /\ s \ {Chosen(s)} \in SUBSET S
  BY <1>2, <1>4 DEF Chosen
<1>6. k[Chosen(s)] = h[Chosen(s)] /\ g[s \ {Chosen(s)}] = f[s \ {Chosen(s)}]
  BY <1>1, <1>2, <1>5 DEF Agree
<1> QED BY <1>2, <1>3, <1>4, <1>6
=============================================================================
