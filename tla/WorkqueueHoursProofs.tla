------------------------ MODULE WorkqueueHoursProofs -------------------------
(***************************************************************************)
(* Nobody is taken over the weekly cap, and only an approval gives         *)
(* overtime, when one handler runs at a time and any of them may be cut    *)
(* off by its client.  WeekHours is a fold over the rows of the table, so  *)
(* what one written row does to it comes first.                            *)
(***************************************************************************)
EXTENDS WorkqueueSerialProofs, FoldLemmas

(***************************************************************************)
(* The hours of a worker, as a sum over rows of the table.                 *)
(***************************************************************************)

\* The hours of the rows S, and the worker's rows in the week of a date.
HoursOf(tab, S) == MapThenSumSet(LAMBDA s : tab[s].end - tab[s].start, S)
Booked(tab, w, day) ==
  {s \in DOMAIN tab : tab[s].worker = w /\ Week(tab[s].day) = Week(day)}

\* WeekHours, of a table.
WeekOf(tab, w, day) == HoursOf(tab, Booked(tab, w, day))

\* MapThenSumSet is such a sum, whatever finite set that is defined over.
LEMMA HoursAreSum ==
  ASSUME NEW tab, NEW U, IsFiniteSet(U), NEW f,
         Adds(f, [s \in U |-> tab[s].end - tab[s].start], SUBSET U),
         NEW S \in SUBSET U
  PROVE  HoursOf(tab, S) = f[S]
<1> DEFINE h == [s \in S |-> tab[s].end - tab[s].start]
           Val(g, s) == IF s = {} THEN 0
                        ELSE LET x == CHOOSE x \in s : TRUE
                             IN  tab[x].end - tab[x].start + g[s \ {x}]
           g == CHOOSE g : g = [s \in SUBSET S |-> Val(g, s)]
<1>1. IsFiniteSet(S)
  BY FS_Subset
<1>2. ASSUME NEW e
      PROVE  e = [s \in SUBSET S |-> Val(e, s)] <=> Adds(e, h, SUBSET S)
  <2>1. \A s \in SUBSET S :
          Val(e, s) = IF s = {} THEN 0 ELSE h[Chosen(s)] + e[s \ {Chosen(s)}]
    <3> TAKE s \in SUBSET S
    <3>1. s # {} => Chosen(s) \in s /\ h[Chosen(s)] = tab[Chosen(s)].end - tab[Chosen(s)].start
      BY DEF Chosen
    <3> HIDE DEF h
    <3> QED BY <3>1 DEF Chosen
  <2> HIDE DEF Val, h
  <2> QED BY <2>1 DEF Adds
<1>3. \E e : e = [s \in SUBSET S |-> Val(e, s)]
  <2>1. PICK e : Adds(e, h, SUBSET S)
    BY <1>1, AddsExists
  <2> HIDE DEF Val, h
  <2> QED BY <1>2, <2>1
<1>4. g = [s \in SUBSET S |-> Val(g, s)]
  <2> HIDE DEF Val
  <2> QED BY <1>3, Zenon
<1>5. HoursOf(tab, S) = g[S]
  BY Zenon DEF HoursOf, MapThenSumSet, MapThenFoldSet
<1>6. Adds(g, h, SUBSET S)
  <2> HIDE DEF g, Val, h
  <2> QED BY <1>2, <1>4
<1>7. Agree(g, f, SUBSET S)
  <2> DEFINE whole == [s \in U |-> tab[s].end - tab[s].start]
  <2>1. Agree(h, whole, S)
    BY DEF Agree
  <2>2. Adds(f, whole, SUBSET U)
    OBVIOUS
  <2> HIDE DEF g, h, whole
  <2> QED BY <1>6, <2>1, <2>2, AddsSame
<1> QED BY <1>5, <1>7 DEF Agree

\* What the proofs about hours need of it.
LEMMA HoursFacts ==
  ASSUME NEW tab, NEW U, IsFiniteSet(U),
         \A s \in U : tab[s].start \in Int /\ tab[s].end \in Int
  PROVE  /\ HoursOf(tab, {}) = 0
         /\ \A S \in SUBSET U : HoursOf(tab, S) \in Int
         /\ \A S \in SUBSET U : \A s \in U \ S :
              HoursOf(tab, S \cup {s})
                = HoursOf(tab, S) + (tab[s].end - tab[s].start)
         /\ (\A s \in U : tab[s].start <= tab[s].end)
              => \A S \in SUBSET U : HoursOf(tab, S) \in Nat
<1> DEFINE h == [s \in U |-> tab[s].end - tab[s].start]
<1>1. PICK f : Adds(f, h, SUBSET U)
  BY AddsExists
<1>2. h \in [U -> Int]
  OBVIOUS
<1>3. \A S \in SUBSET U : HoursOf(tab, S) = f[S]
  BY <1>1, HoursAreSum
<1>4. Additive(f, h, U)
  <2> HIDE DEF h
  <2> QED BY <1>1, <1>2, AddsOne
<1>5. \A S \in SUBSET U : \A s \in U \ S :
        HoursOf(tab, S \cup {s}) = HoursOf(tab, S) + (tab[s].end - tab[s].start)
  <2> TAKE S \in SUBSET U
  <2> TAKE s \in U \ S
  <2>1. f[S \cup {s}] = h[s] + f[S] /\ h[s] = tab[s].end - tab[s].start
    BY <1>4 DEF Additive
  <2>2. HoursOf(tab, S \cup {s}) = f[S \cup {s}] /\ HoursOf(tab, S) = f[S]
    BY <1>3
  <2>3. f[S] \in Int /\ tab[s].end - tab[s].start \in Int
    BY <1>4 DEF Additive
  <2> QED BY <2>1, <2>2, <2>3
<1>6. (\A s \in U : tab[s].start <= tab[s].end)
        => \A S \in SUBSET U : HoursOf(tab, S) \in Nat
  <2> HAVE \A s \in U : tab[s].start <= tab[s].end
  <2>1. h \in [U -> Nat]
    OBVIOUS
  <2>2. \A S \in SUBSET U : f[S] \in Nat
    <3> HIDE DEF h
    <3> QED BY <1>4, <2>1, AddsNat
  <2> QED BY <1>3, <2>2
<1>7. HoursOf(tab, {}) = 0 /\ \A S \in SUBSET U : HoursOf(tab, S) \in Int
  <2>1. f[{}] = 0 /\ \A S \in SUBSET U : f[S] \in Int
    BY <1>4 DEF Additive
  <2>2. HoursOf(tab, {}) = f[{}]
    BY <1>3
  <2> QED BY <1>3, <2>1, <2>2
<1> QED BY <1>5, <1>6, <1>7

\* The sum depends on the hours of its rows only.
LEMMA HoursSame ==
  ASSUME NEW tab, NEW new, NEW S, IsFiniteSet(S),
         \A s \in S : new[s].end - new[s].start = tab[s].end - tab[s].start
  PROVE  HoursOf(new, S) = HoursOf(tab, S)
<1>1. [s \in S |-> new[s].end - new[s].start]
        = [s \in S |-> tab[s].end - tab[s].start]
  OBVIOUS
<1>2. PICK f : Adds(f, [s \in S |-> tab[s].end - tab[s].start], SUBSET S)
  BY AddsExists
<1>3. HoursOf(tab, S) = f[S] /\ HoursOf(new, S) = f[S]
  BY <1>1, <1>2, HoursAreSum
<1> QED BY <1>3

\* The handler's own list of blocks: Length, as such a sum.
BlockHours(bs, S) == MapThenSumSet(LAMBDA k : bs[k][2] - bs[k][1], S)

LEMMA BlocksAreSum ==
  ASSUME NEW bs, NEW U, IsFiniteSet(U), NEW f,
         Adds(f, [k \in U |-> bs[k][2] - bs[k][1]], SUBSET U),
         NEW S \in SUBSET U
  PROVE  BlockHours(bs, S) = f[S]
<1> DEFINE h == [k \in S |-> bs[k][2] - bs[k][1]]
           Val(g, s) == IF s = {} THEN 0
                        ELSE LET x == CHOOSE x \in s : TRUE
                             IN  bs[x][2] - bs[x][1] + g[s \ {x}]
           g == CHOOSE g : g = [s \in SUBSET S |-> Val(g, s)]
<1>1. IsFiniteSet(S)
  BY FS_Subset
<1>2. ASSUME NEW e
      PROVE  e = [s \in SUBSET S |-> Val(e, s)] <=> Adds(e, h, SUBSET S)
  <2>1. \A s \in SUBSET S :
          Val(e, s) = IF s = {} THEN 0 ELSE h[Chosen(s)] + e[s \ {Chosen(s)}]
    <3> TAKE s \in SUBSET S
    <3>1. s # {} => Chosen(s) \in s /\ h[Chosen(s)] = bs[Chosen(s)][2] - bs[Chosen(s)][1]
      BY DEF Chosen
    <3> HIDE DEF h
    <3> QED BY <3>1 DEF Chosen
  <2> HIDE DEF Val, h
  <2> QED BY <2>1 DEF Adds
<1>3. \E e : e = [s \in SUBSET S |-> Val(e, s)]
  <2>1. PICK e : Adds(e, h, SUBSET S)
    BY <1>1, AddsExists
  <2> HIDE DEF Val, h
  <2> QED BY <1>2, <2>1
<1>4. g = [s \in SUBSET S |-> Val(g, s)]
  <2> HIDE DEF Val
  <2> QED BY <1>3, Zenon
<1>5. BlockHours(bs, S) = g[S]
  BY Zenon DEF BlockHours, MapThenSumSet, MapThenFoldSet
<1>6. Adds(g, h, SUBSET S)
  <2> HIDE DEF g, Val, h
  <2> QED BY <1>2, <1>4
<1>7. Agree(g, f, SUBSET S)
  <2> DEFINE whole == [k \in U |-> bs[k][2] - bs[k][1]]
  <2>1. Agree(h, whole, S)
    BY DEF Agree
  <2>2. Adds(f, whole, SUBSET U)
    OBVIOUS
  <2> HIDE DEF g, h, whole
  <2> QED BY <1>6, <2>1, <2>2, AddsSame
<1> QED BY <1>5, <1>7 DEF Agree

-----------------------------------------------------------------------------
\* What the proofs need of it.
LEMMA BlockFacts ==
  ASSUME NEW bs \in Seq(Block)
  PROVE  /\ BlockHours(bs, {}) = 0
         /\ \A S \in SUBSET DOMAIN bs : BlockHours(bs, S) \in Int
         /\ \A S \in SUBSET DOMAIN bs : \A k \in DOMAIN bs \ S :
              BlockHours(bs, S \cup {k})
                = BlockHours(bs, S) + (bs[k][2] - bs[k][1])
         /\ (\A k \in DOMAIN bs : bs[k][1] <= bs[k][2])
              => \A S \in SUBSET DOMAIN bs : BlockHours(bs, S) \in Nat
<1> DEFINE U == DOMAIN bs
           h == [k \in U |-> bs[k][2] - bs[k][1]]
<1>0. IsFiniteSet(U) /\ \A k \in U : bs[k][1] \in Int /\ bs[k][2] \in Int
  <2>1. U = 1..Len(bs) /\ Len(bs) \in Nat
    BY LenProperties
  <2>2. \A k \in U : bs[k] \in Block
    BY ElementOfSeq
  <2>3. IsFiniteSet(U)
    BY <2>1, FS_Interval
  <2>4. \A k \in U : bs[k][1] \in Int /\ bs[k][2] \in Int
    BY <2>2 DEF Block
  <2> QED BY <2>3, <2>4
<1>1. PICK f : Adds(f, h, SUBSET U)
  BY <1>0, AddsExists
<1>2. h \in [U -> Int]
  BY <1>0
<1>3. \A S \in SUBSET U : BlockHours(bs, S) = f[S]
  <2> HIDE DEF U
  <2> QED BY <1>0, <1>1, BlocksAreSum
<1>4. Additive(f, h, U)
  <2> HIDE DEF h, U
  <2> QED BY <1>0, <1>1, <1>2, AddsOne
<1>5. \A S \in SUBSET U : \A k \in U \ S :
        BlockHours(bs, S \cup {k}) = BlockHours(bs, S) + (bs[k][2] - bs[k][1])
  <2> TAKE S \in SUBSET U
  <2> TAKE k \in U \ S
  <2>1. f[S \cup {k}] = h[k] + f[S] /\ h[k] = bs[k][2] - bs[k][1]
    BY <1>4 DEF Additive
  <2>2. BlockHours(bs, S \cup {k}) = f[S \cup {k}] /\ BlockHours(bs, S) = f[S]
    BY <1>3
  <2>3. f[S] \in Int /\ bs[k][2] - bs[k][1] \in Int
    BY <1>0, <1>4 DEF Additive
  <2> QED BY <2>1, <2>2, <2>3
<1>6. (\A k \in U : bs[k][1] <= bs[k][2])
        => \A S \in SUBSET U : BlockHours(bs, S) \in Nat
  <2> HAVE \A k \in U : bs[k][1] <= bs[k][2]
  <2>1. h \in [U -> Nat]
    BY <1>0
  <2>2. \A S \in SUBSET U : f[S] \in Nat
    <3> HIDE DEF h
    <3> QED BY <1>0, <1>4, <2>1, AddsNat
  <2> QED BY <1>3, <2>2
<1>7. BlockHours(bs, {}) = 0 /\ \A S \in SUBSET U : BlockHours(bs, S) \in Int
  <2>1. f[{}] = 0 /\ \A S \in SUBSET U : f[S] \in Int
    BY <1>4 DEF Additive
  <2>2. BlockHours(bs, {}) = f[{}]
    BY <1>3
  <2> QED BY <1>3, <2>1, <2>2
<1> QED BY <1>5, <1>6, <1>7

\* The hours of the first m blocks after the first.
LEMMA LengthFrom ==
  ASSUME NEW bs \in Seq(Block), bs # <<>>
  PROVE  \A m \in 0 .. Len(bs) - 1 :
           BlockHours(bs, 1 .. m + 1)
             = (bs[1][2] - bs[1][1]) + BlockHours(Tail(bs), 1 .. m)
<1> DEFINE tl == Tail(bs)
           Bad == {m \in 0 .. Len(bs) - 1 :
                     BlockHours(bs, 1 .. m + 1)
                       # (bs[1][2] - bs[1][1]) + BlockHours(tl, 1 .. m)}
<1>1. /\ Len(bs) \in Nat \ {0} /\ DOMAIN bs = 1 .. Len(bs)
      /\ tl \in Seq(Block) /\ Len(tl) = Len(bs) - 1
      /\ DOMAIN tl = 1 .. Len(bs) - 1
      /\ \A k \in 1 .. Len(bs) - 1 : tl[k] = bs[k + 1]
      /\ \A k \in 1 .. Len(bs) : bs[k][1] \in Int /\ bs[k][2] \in Int
  BY DEF Block
<1> HIDE DEF tl
<1> SUFFICES ASSUME Bad # {} PROVE FALSE
  BY DEF tl
<1>2. PICK m \in Bad : \A n \in Bad : m <= n
  BY <1>1, Least, Bad \in SUBSET Nat
<1>3. CASE m = 0
  <2>1. 1 .. m + 1 = {} \cup {1} /\ 1 .. m = {} /\ 1 \in DOMAIN bs \ {}
    BY <1>1, <1>3
  <2>2. BlockHours(bs, {} \cup {1}) = BlockHours(bs, {}) + (bs[1][2] - bs[1][1])
    BY <2>1, BlockFacts
  <2>3. BlockHours(bs, {}) = 0 /\ BlockHours(tl, {}) = 0
    BY <1>1, BlockFacts
  <2>4. BlockHours(bs, 1 .. m + 1) = 0 + (bs[1][2] - bs[1][1])
    BY <2>1, <2>2, <2>3, Zenon
  <2>5. BlockHours(tl, 1 .. m) = 0
    BY <2>1, <2>3, Zenon
  <2> QED BY <1>1, <2>4, <2>5
<1>4. CASE m # 0
  <2>1. m \in Nat \ {0} /\ m <= Len(bs) - 1 /\ m - 1 \notin Bad
        /\ m - 1 \in 0 .. Len(bs) - 1
    BY <1>1, <1>2, <1>4
  <2>2. /\ 1 .. m + 1 = (1 .. m) \cup {m + 1} /\ m + 1 \in DOMAIN bs \ (1 .. m)
        /\ 1 .. m \in SUBSET DOMAIN bs
        /\ 1 .. m = (1 .. m - 1) \cup {m} /\ m \in DOMAIN tl \ (1 .. m - 1)
        /\ 1 .. m - 1 \in SUBSET DOMAIN tl
    BY <1>1, <2>1
  <2>3. BlockHours(bs, (1 .. m) \cup {m + 1})
          = BlockHours(bs, 1 .. m) + (bs[m + 1][2] - bs[m + 1][1])
    <3>1. \A S \in SUBSET DOMAIN bs : \A k \in DOMAIN bs \ S :
            BlockHours(bs, S \cup {k})
              = BlockHours(bs, S) + (bs[k][2] - bs[k][1])
      BY BlockFacts
    <3> QED BY <2>2, <3>1
  <2>4. BlockHours(tl, (1 .. m - 1) \cup {m})
          = BlockHours(tl, 1 .. m - 1) + (tl[m][2] - tl[m][1])
    <3>1. \A S \in SUBSET DOMAIN tl : \A k \in DOMAIN tl \ S :
            BlockHours(tl, S \cup {k})
              = BlockHours(tl, S) + (tl[k][2] - tl[k][1])
      BY <1>1, BlockFacts
    <3> QED BY <2>2, <3>1
  <2>5. BlockHours(bs, 1 .. m)
          = (bs[1][2] - bs[1][1]) + BlockHours(tl, 1 .. m - 1)
    <3>1. (m - 1) + 1 = m
      BY <2>1
    <3> QED BY <2>1, <3>1
  <2>6. tl[m] = bs[m + 1] /\ BlockHours(tl, 1 .. m - 1) \in Int
        /\ BlockHours(bs, 1 .. m) \in Int
    BY <1>1, <2>1, <2>2, BlockFacts
  <2>7. /\ BlockHours(bs, 1 .. m + 1)
             = BlockHours(bs, 1 .. m) + (bs[m + 1][2] - bs[m + 1][1])
        /\ BlockHours(tl, 1 .. m)
             = BlockHours(tl, 1 .. m - 1) + (bs[m + 1][2] - bs[m + 1][1])
    BY <2>2, <2>3, <2>4, <2>6, Zenon
  <2>8. bs[1][2] \in Int /\ bs[1][1] \in Int /\ bs[m + 1][2] \in Int
        /\ bs[m + 1][1] \in Int
    BY <1>1, <2>1
  <2>9. BlockHours(bs, 1 .. m + 1)
          = (bs[1][2] - bs[1][1]) + BlockHours(tl, 1 .. m)
    <3> DEFINE first == bs[1][2] - bs[1][1]
               last == bs[m + 1][2] - bs[m + 1][1]
               all == BlockHours(bs, 1 .. m + 1)
               most == BlockHours(bs, 1 .. m)
               rest == BlockHours(tl, 1 .. m)
               part == BlockHours(tl, 1 .. m - 1)
    <3>1. first \in Int /\ last \in Int /\ part \in Int
      <4>1. \A a, b \in Int : b - a \in Int
        OBVIOUS
      <4> QED BY <2>6, <2>8, <4>1, Zenon
    <3>2. most = first + part /\ all = most + last /\ rest = part + last
      BY <2>5, <2>7, Zenon
    <3> HIDE DEF first, last, all, most, rest, part
    <3>3. all = first + rest
      BY <3>1, <3>2
    <3> QED BY <3>3 DEF first, all, rest
  <2> QED BY <1>2, <2>9
<1> QED BY <1>3, <1>4

\* The hours of a list are those of its first block and of the rest.
LEMMA LengthFacts ==
  ASSUME NEW bs \in Seq(Block)
  PROVE  /\ Length(bs) \in Int
         /\ (\A k \in DOMAIN bs : bs[k][1] <= bs[k][2]) => Length(bs) \in Nat
         /\ bs # <<>> => /\ Length(bs) = (Head(bs)[2] - Head(bs)[1])
                                           + Length(Tail(bs))
                         /\ Length(Tail(bs)) \in Int
         /\ bs = <<Head(bs)>> => Length(bs) = Head(bs)[2] - Head(bs)[1]
<1>1. \A cs : Length(cs) = BlockHours(cs, DOMAIN cs)
  BY DEF Length, BlockHours
<1>2. Length(bs) \in Int
      /\ ((\A k \in DOMAIN bs : bs[k][1] <= bs[k][2]) => Length(bs) \in Nat)
  BY <1>1, BlockFacts, DOMAIN bs \in SUBSET DOMAIN bs
<1>3. ASSUME bs # <<>>
      PROVE  /\ Length(bs) = (Head(bs)[2] - Head(bs)[1]) + Length(Tail(bs))
             /\ Length(Tail(bs)) \in Int
  <2>1. /\ Len(bs) \in Nat \ {0} /\ DOMAIN bs = 1 .. Len(bs)
        /\ Tail(bs) \in Seq(Block) /\ DOMAIN Tail(bs) = 1 .. Len(bs) - 1
        /\ Head(bs) = bs[1]
    BY <1>3
  <2>2. Len(bs) - 1 \in 0 .. Len(bs) - 1 /\ (Len(bs) - 1) + 1 = Len(bs)
    BY <2>1
  <2>3. BlockHours(bs, 1 .. Len(bs))
          = (bs[1][2] - bs[1][1]) + BlockHours(Tail(bs), 1 .. Len(bs) - 1)
    BY <1>3, <2>2, LengthFrom
  <2>4. Length(Tail(bs)) \in Int
    BY <1>1, <2>1, BlockFacts, DOMAIN Tail(bs) \in SUBSET DOMAIN Tail(bs)
  <2> QED BY <1>1, <2>1, <2>3, <2>4
<1>4. ASSUME bs = <<Head(bs)>>
      PROVE  Length(bs) = Head(bs)[2] - Head(bs)[1]
  <2>1. DOMAIN bs = {} \cup {1} /\ 1 \in DOMAIN bs \ {} /\ bs[1] = Head(bs)
    BY <1>4
  <2>2. BlockHours(bs, {} \cup {1}) = BlockHours(bs, {}) + (bs[1][2] - bs[1][1])
    BY <2>1, BlockFacts
  <2>3. BlockHours(bs, {}) = 0
    BY BlockFacts
  <2>4. Length(bs) = 0 + (Head(bs)[2] - Head(bs)[1])
    BY <1>1, <2>1, <2>2, <2>3, Zenon
  <2>5. bs[1] \in Block
    BY <2>1
  <2> QED BY <2>1, <2>4, <2>5 DEF Block
<1> QED BY <1>2, <1>3, <1>4

-----------------------------------------------------------------------------
\* What a row adds to the hours of a worker in a week.
Share(tab, s, w, day) ==
  IF s \in Booked(tab, w, day) THEN tab[s].end - tab[s].start ELSE 0

\* The sum with one row taken out of it.
LEMMA WithoutRow ==
  ASSUME NEW tab, IsFiniteSet(DOMAIN tab),
         \A s \in DOMAIN tab : tab[s].start \in Int /\ tab[s].end \in Int,
         NEW s, NEW w, NEW day
  PROVE  /\ WeekOf(tab, w, day) = HoursOf(tab, Booked(tab, w, day) \ {s})
                                    + Share(tab, s, w, day)
         /\ WeekOf(tab, w, day) \in Int
         /\ HoursOf(tab, Booked(tab, w, day) \ {s}) \in Int
         /\ Share(tab, s, w, day) \in Int
<1> DEFINE B == Booked(tab, w, day)
<1>1. B \in SUBSET DOMAIN tab /\ B \ {s} \in SUBSET DOMAIN tab
  BY DEF Booked
<1>2. HoursOf(tab, B) \in Int /\ HoursOf(tab, B \ {s}) \in Int
  BY <1>1, HoursFacts
<1>3. CASE s \in B
  <2>1. B = (B \ {s}) \cup {s} /\ s \in DOMAIN tab \ (B \ {s})
    BY <1>1, <1>3
  <2>2. HoursOf(tab, (B \ {s}) \cup {s})
          = HoursOf(tab, B \ {s}) + (tab[s].end - tab[s].start)
    <3>1. \A S \in SUBSET DOMAIN tab : \A x \in DOMAIN tab \ S :
            HoursOf(tab, S \cup {x})
              = HoursOf(tab, S) + (tab[x].end - tab[x].start)
      BY HoursFacts
    <3> HIDE DEF B
    <3> QED BY <1>1, <2>1, <3>1
  <2>3. HoursOf(tab, B) = HoursOf(tab, B \ {s}) + (tab[s].end - tab[s].start)
    BY <2>1, <2>2, Zenon
  <2>4. Share(tab, s, w, day) = tab[s].end - tab[s].start /\ s \in DOMAIN tab
    BY <1>1, <1>3 DEF Share
  <2> QED BY <1>2, <2>3, <2>4 DEF WeekOf
<1>4. CASE s \notin B
  <2>1. B \ {s} = B
    BY <1>4
  <2>2. Share(tab, s, w, day) = 0
    BY <1>4 DEF Share
  <2> HIDE DEF B
  <2>3. HoursOf(tab, B \ {s}) = HoursOf(tab, B)
    BY <2>1, Zenon
  <2> QED BY <1>2, <2>2, <2>3 DEF WeekOf, B
<1> QED BY <1>3, <1>4

\* A statement on one row, old or new, changes the hours by what it adds.
LEMMA OneRow ==
  ASSUME NEW tab, NEW new, NEW s, IsFiniteSet(DOMAIN tab),
         DOMAIN new = DOMAIN tab \cup {s},
         \A x \in DOMAIN tab : tab[x].start \in Int /\ tab[x].end \in Int,
         \A x \in DOMAIN new : new[x].start \in Int /\ new[x].end \in Int,
         \A x \in DOMAIN tab \ {s} : new[x] = tab[x],
         NEW w, NEW day
  PROVE  /\ WeekOf(new, w, day) = (WeekOf(tab, w, day) - Share(tab, s, w, day))
                                    + Share(new, s, w, day)
         /\ WeekOf(tab, w, day) \in Int /\ WeekOf(new, w, day) \in Int
         /\ Share(tab, s, w, day) \in Int /\ Share(new, s, w, day) \in Int
<1>1. IsFiniteSet(DOMAIN new)
  BY FS_AddElement
<1>2. Booked(new, w, day) \ {s} = Booked(tab, w, day) \ {s}
  BY DEF Booked
<1> DEFINE rest == Booked(tab, w, day) \ {s}
<1>3. HoursOf(new, rest) = HoursOf(tab, rest)
  <2>1. IsFiniteSet(rest)
    BY FS_Subset, rest \in SUBSET DOMAIN tab DEF Booked
  <2>2. \A x \in rest : new[x] = tab[x]
    BY DEF Booked
  <2> HIDE DEF rest
  <2> QED BY <2>1, <2>2, HoursSame
<1>4. /\ WeekOf(tab, w, day) = HoursOf(tab, rest) + Share(tab, s, w, day)
      /\ WeekOf(tab, w, day) \in Int /\ HoursOf(tab, rest) \in Int
      /\ Share(tab, s, w, day) \in Int
  BY WithoutRow
<1>5. /\ WeekOf(new, w, day) = HoursOf(new, Booked(new, w, day) \ {s})
                                 + Share(new, s, w, day)
      /\ WeekOf(new, w, day) \in Int
      /\ Share(new, s, w, day) \in Int
  BY <1>1, WithoutRow
<1>6. HoursOf(new, Booked(new, w, day) \ {s}) = HoursOf(tab, rest)
  BY <1>2, <1>3, Zenon
<1> HIDE DEF rest
<1> QED BY <1>4, <1>5, <1>6

\* WeekHours is that sum, now and after the step.
LEMMA WeekHoursIs ==
  ASSUME NEW w, NEW day
  PROVE  /\ WeekHours(w, day) = WeekOf(shifts, w, day)
         /\ WeekHours(w, day)' = WeekOf(shifts', w, day)
<1>1. WeekHours(w, day) = WeekOf(shifts, w, day)
  BY DEF WeekHours, WeekOf, HoursOf, Booked
<1>2. WeekHours(w, day)' = WeekOf(shifts', w, day)
  BY Zenon DEF WeekHours, WeekOf, HoursOf, Booked, MapThenSumSet, MapThenFoldSet
<1> QED BY <1>1, <1>2

-----------------------------------------------------------------------------
(***************************************************************************)
(* A handler hands out only what it checked.                               *)
(***************************************************************************)

\* Shifts, templates and blocks start and end on a grid of hours P, and do not
\* end before they start; the blocks of a list are cells of the grid.
HoursOnGrid(P) ==
  /\ P \subseteq Int /\ IsFiniteSet(Roots)
  /\ \A row \in {InitShifts[s] : s \in Roots} \cup NewShifts \cup Templates :
       row.start \in P /\ row.end \in P /\ row.start <= row.end
  /\ \A b \in AssignBlocks : {b[1], b[2]} \subseteq P
  /\ \A bs \in BlockLists : \A k \in DOMAIN bs :
       /\ {bs[k][1], bs[k][2]} \subseteq P
       /\ \A p \in P : p <= bs[k][1] \/ bs[k][2] <= p

Forward(P, row) == row.start \in P /\ row.end \in P /\ row.start <= row.end

RowsOnGrid(P, tab) ==
  IsFiniteSet(DOMAIN tab) /\ \A s \in DOMAIN tab : Forward(P, tab[s])

\* How far a handler may take the worker: only an approval, and the weekly
\* template, past the regular hours.
Limit(d, op) == IF op \in {"approve", "weekly"} THEN Cap(d) ELSE Regular(d)

Asking  == {"settings", "hours"}
Handing == {"take", "next", "template", "generate"} \cup Cutting

\* What the handler asks for.
AsksFor(P, tab, f) ==
  /\ f.op \in {"pick", "approve"} =>
       /\ f.day = tab[f.shift].day
       /\ f.blocks = << <<tab[f.shift].start, tab[f.shift].end>> >>
  /\ f.op = "assign" =>
       /\ f.day = tab[f.row].day /\ f.blocks = <<Head(f.blocks)>>
       /\ Fits(P, Head(f.blocks), tab[f.row])
  /\ f.op = "blocks" => /\ f.day = tab[f.shift].day
                        /\ \A k \in DOMAIN f.blocks : IsCell(P, f.blocks[k])
  /\ f.op = "weekly" =>
       /\ f.blocks = <<Head(f.blocks)>>
       /\ Head(f.blocks)[1] \in P /\ Head(f.blocks)[2] \in P
       /\ Head(f.blocks)[1] <= Head(f.blocks)[2]

\* The row that will be cut for a list of blocks is nobody's.
CutsOpen(P, tab, f) ==
  /\ tab[f.row].day = f.day /\ tab[f.row].status = "open"
  /\ Fits(P, Head(f.blocks), tab[f.row])

\* The hours in use and those still to be handed out stay below the limit.
Within(P, tab, det, f) ==
  /\ f.op = "weekly" => Templates # {}
  /\ f.pc \in Asking \cup Handing => AsksFor(P, tab, f)
  /\ f.pc \in Cutting /\ f.op = "blocks" => CutsOpen(P, tab, f)
  /\ f.pc = "hours" => f.details = det[f.worker]
  /\ f.pc \in Handing =>
       WeekOf(tab, f.worker, f.day) + Length(f.blocks)
         <= Limit(det[f.worker], f.op)

WithinInv(P) ==
  /\ RowsOnGrid(P, shifts)
  /\ \A i \in Slots : Within(P, shifts, details, frames[i])

\* Hours go up only by a handler that hands them out, within its limit.
GivesWithin ==
  \A w \in Workers, monday \in Mondays :
    WeekHours(w, monday)' > WeekHours(w, monday) =>
      \E i \in Slots : /\ frames[i].worker = w
                       /\ frames[i].pc \in {"take", "put", "generate"}
                       /\ WeekHours(w, monday)'
                            <= Limit(details[w], frames[i].op)

-----------------------------------------------------------------------------
\* The verdicts, and the limits.
LEMMA Verdict ==
  ASSUME NEW d \in AllDetails
  PROVE  /\ Regular(d) \in Int /\ Cap(d) \in Int /\ Regular(d) <= Cap(d)
         /\ \A op : Limit(d, op) \in Int /\ Limit(d, op) <= Cap(d)
         /\ \A used, hours \in Int :
              /\ Allowance(d, used, hours) \in Verdicts
              /\ Allowance(d, used, hours) = "allowed"
                   => used + hours <= Regular(d)
              /\ Allowance(d, used, hours) = "pending"
                   => used + hours <= Cap(d)
<1>1. /\ Regular(d) \in Int /\ Cap(d) \in Int /\ Regular(d) <= Cap(d)
  BY DEF AllDetails, WorkerTypes, Regular, Cap, Overtime
<1>2. ASSUME NEW used \in Int, NEW hours \in Int
      PROVE  /\ Allowance(d, used, hours) \in Verdicts
             /\ Allowance(d, used, hours) = "allowed"
                  => used + hours <= Regular(d)
             /\ Allowance(d, used, hours) = "pending"
                  => used + hours <= Cap(d)
  BY <1>1 DEF Allowance, Verdicts
<1>3. \A op : Limit(d, op) \in Int /\ Limit(d, op) <= Cap(d)
  BY <1>1 DEF Limit
<1> QED BY <1>1, <1>2, <1>3

\* Rows on the grid can be summed.
LEMMA GridRows ==
  ASSUME NEW P, P \subseteq Int, NEW tab, RowsOnGrid(P, tab)
  PROVE  /\ IsFiniteSet(DOMAIN tab)
         /\ \A s \in DOMAIN tab : /\ tab[s].start \in Int /\ tab[s].end \in Int
                                  /\ tab[s].start <= tab[s].end
         /\ \A w, day : WeekOf(tab, w, day) \in Nat
<1>1. /\ IsFiniteSet(DOMAIN tab)
      /\ \A s \in DOMAIN tab : /\ tab[s].start \in Int /\ tab[s].end \in Int
                               /\ tab[s].start <= tab[s].end
  BY DEF RowsOnGrid, Forward
<1>2. ASSUME NEW w, NEW day
      PROVE  WeekOf(tab, w, day) \in Nat
  <2>1. Booked(tab, w, day) \in SUBSET DOMAIN tab
    BY DEF Booked
  <2>2. \A S \in SUBSET DOMAIN tab : HoursOf(tab, S) \in Nat
    BY <1>1, HoursFacts
  <2> QED BY <2>1, <2>2 DEF WeekOf
<1> QED BY <1>1, <1>2

\* Writing one row keeps the others on the grid.
LEMMA RowsAfter ==
  ASSUME NEW P, NEW tab, NEW new, NEW s, RowsOnGrid(P, tab),
         DOMAIN new = DOMAIN tab \cup {s}, Forward(P, new[s]),
         \A x \in DOMAIN tab \ {s} : new[x] = tab[x]
  PROVE  RowsOnGrid(P, new)
<1>1. IsFiniteSet(DOMAIN new)
  BY FS_AddElement DEF RowsOnGrid
<1> QED BY <1>1 DEF RowsOnGrid

\* A row is written: only its worker can gain hours, and no more than its own.
LEMMA GiveRow ==
  ASSUME NEW P, P \subseteq Int, NEW tab, NEW new, NEW s, RowsOnGrid(P, tab),
         DOMAIN new = DOMAIN tab \cup {s}, Forward(P, new[s]),
         \A x \in DOMAIN tab \ {s} : new[x] = tab[x],
         NEW w, NEW day
  PROVE  LET gift == new[s].end - new[s].start
             most == WeekOf(tab, w, new[s].day) + gift
         IN  /\ WeekOf(new, w, new[s].day) <= most
             /\ \/ WeekOf(new, w, day) <= WeekOf(tab, w, day)
                \/ new[s].worker = w /\ WeekOf(new, w, day) <= most
<1> DEFINE gift == new[s].end - new[s].start
<1>1. RowsOnGrid(P, new)
  BY RowsAfter
<1>2. /\ IsFiniteSet(DOMAIN tab)
      /\ \A x \in DOMAIN tab : /\ tab[x].start \in Int /\ tab[x].end \in Int
                               /\ tab[x].start <= tab[x].end
      /\ \A x \in DOMAIN new : /\ new[x].start \in Int /\ new[x].end \in Int
                               /\ new[x].start <= new[x].end
  BY <1>1, GridRows
<1>3. gift \in Nat
  BY <1>2
<1>4. ASSUME NEW d
      PROVE  /\ WeekOf(new, w, d) \in Int /\ WeekOf(tab, w, d) \in Int
             /\ WeekOf(new, w, d) <= WeekOf(tab, w, d) + Share(new, s, w, d)
             /\ Share(new, s, w, d) \in {0, gift}
             /\ Share(new, s, w, d) = gift \/ WeekOf(new, w, d) <= WeekOf(tab, w, d)
  <2>1. /\ WeekOf(new, w, d) = (WeekOf(tab, w, d) - Share(tab, s, w, d))
                                 + Share(new, s, w, d)
        /\ WeekOf(tab, w, d) \in Int /\ WeekOf(new, w, d) \in Int
        /\ Share(tab, s, w, d) \in Int /\ Share(new, s, w, d) \in Int
    BY <1>2, OneRow
  <2>2. Share(tab, s, w, d) >= 0
    BY <1>2 DEF Share, Booked
  <2>3. Share(new, s, w, d) \in {0, gift}
    BY DEF Share
  <2> HIDE DEF gift
  <2> QED BY <2>1, <2>2, <2>3
<1>5. WeekOf(new, w, new[s].day) <= WeekOf(tab, w, new[s].day) + gift
  <2> HIDE DEF gift
  <2> QED BY <1>3, <1>4
<1>6. CASE s \in Booked(new, w, day)
  <2>1. new[s].worker = w /\ Week(new[s].day) = Week(day)
    BY <1>6 DEF Booked
  <2>2. Booked(tab, w, day) = Booked(tab, w, new[s].day)
    BY <2>1 DEF Booked
  <2>3. WeekOf(tab, w, day) = WeekOf(tab, w, new[s].day)
    BY <2>2, Zenon DEF WeekOf
  <2>4. Share(new, s, w, day) = gift
    BY <1>6 DEF Share
  <2> HIDE DEF gift
  <2>5. WeekOf(new, w, day) <= WeekOf(tab, w, new[s].day) + gift
    BY <1>4, <2>3, <2>4
  <2> QED BY <1>5, <2>1, <2>5 DEF gift
<1>7. CASE s \notin Booked(new, w, day)
  <2>1. Share(new, s, w, day) = 0
    BY <1>7 DEF Share
  <2> HIDE DEF gift
  <2>2. WeekOf(new, w, day) <= WeekOf(tab, w, day)
    BY <1>4, <2>1
  <2> QED BY <1>5, <2>2 DEF gift
<1> QED BY <1>6, <1>7

-----------------------------------------------------------------------------
\* The one handler moves.
LEMMA WithinBy ==
  ASSUME Serial, NEW P, NEW i \in Slots, RowsOnGrid(P, shifts'),
         Within(P, shifts', details', frames'[i])
  PROVE  WithinInv(P)'
<1>1. \A j \in Slots : j = i
  BY DEF Serial
<1> QED BY <1>1 DEF WithinInv

\* It asks for no hours.
LEMMA AsksNothing ==
  ASSUME NEW f, f.op = "weekly" => Templates # {},
         f.pc \notin Asking \cup Handing
  PROVE  \A P, tab, det : Within(P, tab, det, f)
BY DEF Within, Asking, Handing, Cutting

\* Nor does a handler that has returned.
LEMMA IdleWithin == \A P, tab, det : Within(P, tab, det, Idle)
BY AsksNothing DEF Idle, Asking, Handing, Cutting

\* No row is written.
LEMMA SameGives ==
  ASSUME NEW P, P \subseteq Int, WithinInv(P), shifts' = shifts
  PROVE  GivesWithin /\ RowsOnGrid(P, shifts')
<1>1. RowsOnGrid(P, shifts)
  BY DEF WithinInv
<1>2. SUFFICES ASSUME NEW w \in Workers, NEW monday \in Mondays
               PROVE  ~ (WeekHours(w, monday)' > WeekHours(w, monday))
  BY <1>1 DEF GivesWithin
<1>3. WeekHours(w, monday)' = WeekHours(w, monday)
  BY WeekHoursIs
<1>4. WeekHours(w, monday) \in Nat
  BY <1>1, GridRows, WeekHoursIs
<1> QED BY <1>3, <1>4

\* One row is written, with nobody on it or by a handler within its limit.
LEMMA RowGives ==
  ASSUME NEW P, P \subseteq Int, WithinInv(P), NEW s,
         DOMAIN shifts' = DOMAIN shifts \cup {s}, Forward(P, shifts'[s]),
         \A x \in DOMAIN shifts \ {s} : shifts'[x] = shifts[x],
         \/ shifts'[s].worker \notin Workers
         \/ \E i \in Slots :
              /\ frames[i].worker = shifts'[s].worker
              /\ frames[i].pc \in {"take", "put", "generate"}
              /\ Limit(details[frames[i].worker], frames[i].op) \in Int
              /\ WeekOf(shifts, frames[i].worker, shifts'[s].day)
                   + (shifts'[s].end - shifts'[s].start)
                   <= Limit(details[frames[i].worker], frames[i].op)
  PROVE  GivesWithin /\ RowsOnGrid(P, shifts')
<1>1. RowsOnGrid(P, shifts) /\ RowsOnGrid(P, shifts')
  BY RowsAfter DEF WithinInv
<1>2. SUFFICES ASSUME NEW w \in Workers, NEW monday \in Mondays,
                      WeekHours(w, monday)' > WeekHours(w, monday)
               PROVE  \E i \in Slots :
                        /\ frames[i].worker = w
                        /\ frames[i].pc \in {"take", "put", "generate"}
                        /\ WeekHours(w, monday)'
                             <= Limit(details[w], frames[i].op)
  BY <1>1 DEF GivesWithin
<1> DEFINE gift == shifts'[s].end - shifts'[s].start
           most == WeekOf(shifts, w, shifts'[s].day) + gift
<1>3. /\ WeekOf(shifts', w, monday) \in Nat /\ WeekOf(shifts, w, monday) \in Nat
      /\ WeekOf(shifts, w, shifts'[s].day) \in Nat
      /\ WeekHours(w, monday)' = WeekOf(shifts', w, monday)
      /\ WeekHours(w, monday) = WeekOf(shifts, w, monday)
  BY <1>1, GridRows, WeekHoursIs
<1>4. \/ WeekOf(shifts', w, monday) <= WeekOf(shifts, w, monday)
      \/ shifts'[s].worker = w /\ WeekOf(shifts', w, monday) <= most
  BY <1>1, GiveRow
<1>5. shifts'[s].worker = w /\ WeekHours(w, monday)' <= most
  <2> HIDE DEF most
  <2> QED BY <1>2, <1>3, <1>4
<1>6. PICK i \in Slots :
        /\ frames[i].worker = w
        /\ frames[i].pc \in {"take", "put", "generate"}
        /\ Limit(details[w], frames[i].op) \in Int
        /\ most <= Limit(details[w], frames[i].op)
  BY <1>5
<1>7. gift \in Int
  <2>1. shifts'[s].start \in Int /\ shifts'[s].end \in Int
    BY DEF Forward
  <2> QED BY <2>1
<1>8. most \in Int
  <2> HIDE DEF gift
  <2> QED BY <1>3, <1>7
<1> HIDE DEF most
<1>9. WeekHours(w, monday)' <= Limit(details[w], frames[i].op)
  BY <1>3, <1>5, <1>6, <1>8
<1> QED BY <1>6, <1>9

-----------------------------------------------------------------------------
(***************************************************************************)
(* The statements that read, and the first ones.                           *)
(***************************************************************************)

\* What a handler that has hours to ask for holds.
LEMMA AskFrame ==
  ASSUME Inv, NEW P, WithinInv(P), NEW i \in Slots
  PROVE  /\ frames[i] \in Frame /\ FrameOK(frames[i], shifts)
         /\ OpAtPc(frames[i].op, frames[i].pc)
         /\ frames[i].blocks \in Seq(Block)
         /\ Within(P, shifts, details, frames[i])
         /\ RowsOnGrid(P, shifts) /\ TableOK(shifts)
         /\ frames[i].worker \in Workers => details[frames[i].worker] \in AllDetails
         /\ frames[i].pc \notin {"idle", "audit"} =>
              /\ frames[i].worker \in Workers
              /\ frames[i].op # "weekly" => frames[i].shift \in DOMAIN shifts
              /\ frames[i].op = "assign" => frames[i].row \in DOMAIN shifts
         /\ frames[i].pc \in Cutting =>
              /\ frames[i].row \in DOMAIN shifts /\ frames[i].blocks # <<>>
              /\ frames[i].op \in {"assign", "blocks"}
BY DEF Inv, OthersOK, FramesOK, FrameOK, Frame, WithinInv, OpAtPc, Cutting, Splits

\* No row is written, and the handler's new locals are within its limit.
LEMMA ReadsOnly ==
  ASSUME Serial, Inv, NEW P, P \subseteq Int, WithinInv(P), NEW i \in Slots,
         shifts' = shifts, details' = details, NEW g,
         frames' = [frames EXCEPT ![i] = g], Within(P, shifts, details, g)
  PROVE  WithinInv(P)' /\ GivesWithin
<1>1. frames'[i] = g
  BY DEF Inv, FramesOK
<1> QED BY <1>1, SameGives, WithinBy

\* The settings it reads are those of the table.
LEMMA ReadSettingsWithin ==
  ASSUME Serial, Inv, NEW P, P \subseteq Int, WithinInv(P), NEW i \in Slots,
         ReadSettings(i)
  PROVE  WithinInv(P)' /\ GivesWithin
<1> DEFINE f == frames[i]
<1>1. /\ f.pc = "settings" /\ f \in Frame /\ Within(P, shifts, details, f)
      /\ shifts' = shifts /\ details' = details
  BY AskFrame DEF ReadSettings
<1>2. CASE f.worker \in present
  <2> PICK g : g = [f EXCEPT !.pc = "hours", !.details = details[f.worker]]
    OBVIOUS
  <2>1. /\ g.pc = "hours" /\ g.op = f.op /\ g.worker = f.worker
        /\ g.shift = f.shift /\ g.row = f.row /\ g.day = f.day
        /\ g.blocks = f.blocks /\ g.details = details[f.worker]
    BY <1>1 DEF Frame
  <2>2. Within(P, shifts, details, g)
    BY <1>1, <2>1 DEF Within, AsksFor, Asking, Handing, Cutting
  <2>3. frames' = [frames EXCEPT ![i] = g]
    BY <1>2 DEF ReadSettings, Goto
  <2> QED BY <1>1, <2>2, <2>3, ReadsOnly
<1>3. CASE f.worker \notin present
  <2>1. frames' = [frames EXCEPT ![i] = Idle]
    BY <1>3 DEF ReadSettings, Done, Goto
  <2> QED BY <1>1, <2>1, IdleWithin, ReadsOnly
<1> QED BY <1>2, <1>3

\* allowanceFor: whoever is to hand out hours stays below the limit.
LEMMA ReadHoursWithin ==
  ASSUME Serial, Inv, NEW P, P \subseteq Int, WithinInv(P), NEW i \in Slots,
         ReadHours(i)
  PROVE  WithinInv(P)' /\ GivesWithin
<1> DEFINE f == frames[i]
           d == details[f.worker]
           used == WeekOf(shifts, f.worker, f.day)
           verdict == Allowance(d, used, Length(f.blocks))
<1>1. /\ f.pc = "hours" /\ f \in Frame /\ Within(P, shifts, details, f)
      /\ shifts' = shifts /\ details' = details
      /\ f.op \in AsksHours /\ d \in AllDetails /\ f.blocks \in Seq(Block)
      /\ f.details = d /\ RowsOnGrid(P, shifts)
  BY AskFrame DEF ReadHours, OpAtPc, Within
<1>2. used \in Int /\ Length(f.blocks) \in Int
  <2>1. \A w, day : WeekOf(shifts, w, day) \in Nat
    BY <1>1, GridRows
  <2> QED BY <1>1, <2>1, LengthFacts
<1>3. Resume(i, AfterCheck[f.op][verdict])
  <2>1. used = WeekHours(f.worker, f.day)
    BY WeekHoursIs
  <2> QED BY <1>1, <2>1 DEF ReadHours
<1>4. /\ verdict \in Verdicts
      /\ verdict = "allowed" => used + Length(f.blocks) <= Regular(d)
      /\ verdict = "pending" => used + Length(f.blocks) <= Cap(d)
      /\ Regular(d) <= Cap(d) /\ Regular(d) \in Int /\ Cap(d) \in Int
  BY <1>1, <1>2, Verdict
<1> HIDE DEF verdict, used, d
<1>5. PICK pc : /\ Resume(i, pc)
                /\ \/ pc \in {"overflow", "idle", "deny"}
                   \/ /\ pc \in {"take", "split", "next", "template"}
                      /\ pc = "split" => f.op = "assign"
                      /\ \/ verdict = "allowed"
                         \/ verdict = "pending" /\ f.op \in {"approve", "weekly"}
  BY <1>1, <1>3, <1>4 DEF AfterCheck, AfterPickCheck, Verdicts, AsksHours
<1>6. PICK g : /\ frames' = [frames EXCEPT ![i] = g]
               /\ \/ g = Idle
                  \/ /\ g.pc = pc /\ g.op = f.op /\ g.worker = f.worker
                     /\ g.shift = f.shift /\ g.row = f.row /\ g.day = f.day
                     /\ g.blocks = f.blocks
  BY <1>5, Resumed
<1>7. CASE g = Idle
  BY <1>1, <1>6, <1>7, IdleWithin, ReadsOnly
<1>8. CASE g # Idle /\ pc \in {"overflow", "idle", "deny"}
  <2>1. Within(P, shifts, details, g)
    BY <1>1, <1>6, <1>8, AsksNothing DEF Within, Asking, Handing, Cutting
  <2> QED BY <1>1, <1>6, <2>1, ReadsOnly
<1>9. CASE g # Idle /\ pc \notin {"overflow", "idle", "deny"}
  <2>1. used + Length(f.blocks) <= Limit(d, f.op)
    BY <1>2, <1>4, <1>5, <1>9 DEF Limit
  <2>2. Within(P, shifts, details, g)
    BY <1>1, <1>5, <1>6, <1>9, <2>1
       DEF Within, AsksFor, Asking, Handing, Cutting, used, d
  <2> QED BY <1>1, <1>6, <2>2, ReadsOnly
<1> QED BY <1>7, <1>8, <1>9

\* An overflow request is read again before it is approved.
LEMMA ApproveReadWithin ==
  ASSUME Serial, Inv, NEW P, P \subseteq Int, WithinInv(P), NEW i \in Slots,
         ApproveRead(i)
  PROVE  WithinInv(P)' /\ GivesWithin
<1> DEFINE f == frames[i]
<1>1. /\ f.pc = "read" /\ f \in Frame /\ f.op = "approve"
      /\ shifts' = shifts /\ details' = details
  BY AskFrame DEF ApproveRead, OpAtPc
<1> PICK g : g = [f EXCEPT !.pc = "settings", !.blocks = Whole(f.shift),
                           !.day = shifts[f.shift].day]
  OBVIOUS
<1>2. /\ g.pc = "settings" /\ g.op = "approve" /\ g.shift = f.shift
      /\ g.blocks = Whole(f.shift) /\ g.day = shifts[f.shift].day
  BY <1>1 DEF Frame
<1>3. Within(P, shifts, details, g)
  BY <1>2 DEF Within, AsksFor, Asking, Handing, Cutting, Whole
<1>4. frames' = [frames EXCEPT ![i] = g]
  BY DEF ApproveRead, Goto
<1> QED BY <1>1, <1>3, <1>4, ReadsOnly

\* The row chosen for a block holds all of it, and is of the same day.
LEMMA CoveringRow ==
  ASSUME NEW P, P \subseteq Int, Inv, RowsOnGrid(P, shifts),
         NEW s \in DOMAIN shifts, NEW b, IsCell(P, b), NEW x \in Covering(s, b)
  PROVE  /\ x \in DOMAIN shifts /\ shifts[x].status = "open"
         /\ shifts[x].day = shifts[s].day /\ Fits(P, b, shifts[x])
<1>1. /\ x \in DOMAIN shifts /\ shifts[x].status = "open"
      /\ shifts[x].parent = Group(s) \/ x = s
      /\ shifts[x].start <= b[1] /\ b[1] < shifts[x].end
  BY DEF Covering
<1>2. /\ b[1] \in Int /\ b[2] \in Int /\ b[1] \in P /\ b[2] \in P /\ b[1] < b[2]
      /\ shifts[x].start \in Int /\ shifts[x].end \in P /\ shifts[x].end \in Int
  BY <1>1 DEF IsCell, RowsOnGrid, Forward
<1>3. shifts[x].end <= b[1] \/ b[2] <= shifts[x].end
  BY <1>2 DEF IsCell
<1>4. Fits(P, b, shifts[x])
  BY <1>1, <1>2, <1>3 DEF Fits
<1>5. CASE x # s
  <2>1. Group(s) \in ShiftIds
    BY DEF Group, Inv, TableOK, Row
  <2>2. shifts[x].parent = Group(s) /\ shifts[x].parent # NULL
    BY <1>1, <1>5, <2>1, NullIsNothing
  <2>3. shifts[x].day = shifts[Group(s)].day
    BY <1>1, <2>2 DEF Inv, TableOK, RootOK
  <2>4. shifts[s].day = shifts[Group(s)].day
    BY DEF Group, Inv, TableOK, RootOK
  <2> QED BY <1>1, <1>4, <2>3, <2>4
<1> QED BY <1>1, <1>4, <1>5

\* The row it chooses holds the next block.
LEMMA NextBlockWithin ==
  ASSUME Serial, Inv, NEW P, P \subseteq Int, WithinInv(P), NEW i \in Slots,
         NextBlock(i)
  PROVE  WithinInv(P)' /\ GivesWithin
<1> DEFINE f == frames[i]
           rows == Covering(f.shift, Head(f.blocks))
<1>1. /\ f.pc = "next" /\ f \in Frame /\ Within(P, shifts, details, f)
      /\ shifts' = shifts /\ details' = details /\ f.op = "blocks"
      /\ f.shift \in DOMAIN shifts /\ f.blocks \in Seq(Block)
      /\ RowsOnGrid(P, shifts)
  BY AskFrame DEF NextBlock, OpAtPc
<1>2. CASE Done(i)
  BY <1>1, <1>2, IdleWithin, ReadsOnly DEF Done, Goto
<1>3. CASE ToAudit(i, "shift.assigned", f.shift)
  <2>1. PICK g : /\ g = [Idle EXCEPT !.pc = "audit", !.op = f.op,
                                     !.worker = Actor(f), !.req = f.req,
                                     !.note = <<"shift.assigned", f.shift>>]
                 /\ frames' = [frames EXCEPT ![i] = g]
    BY <1>3 DEF ToAudit, Goto
  <2>2. g.pc = "audit" /\ g.op = f.op
    BY <2>1 DEF Idle
  <2>3. Within(P, shifts, details, g)
    BY <1>1, <2>2, AsksNothing DEF Asking, Handing, Cutting
  <2> QED BY <1>1, <2>1, <2>3, ReadsOnly
<1>4. ASSUME f.blocks # <<>>, NEW x \in rows,
             Goto(i, [f EXCEPT !.pc = "split", !.row = x])
      PROVE  WithinInv(P)' /\ GivesWithin
  <2> PICK g : g = [f EXCEPT !.pc = "split", !.row = x]
    OBVIOUS
  <2>1. /\ g.pc = "split" /\ g.op = "blocks" /\ g.worker = f.worker
        /\ g.shift = f.shift /\ g.day = f.day
        /\ g.blocks = f.blocks /\ g.row = x
    BY <1>1 DEF Frame
  <2>2. 1 \in DOMAIN f.blocks /\ Head(f.blocks) = f.blocks[1]
    BY <1>1, <1>4
  <2>3. /\ f.day = shifts[f.shift].day
        /\ \A k \in DOMAIN f.blocks : IsCell(P, f.blocks[k])
        /\ WeekOf(shifts, f.worker, f.day) + Length(f.blocks)
             <= Limit(details[f.worker], f.op)
    BY <1>1 DEF Within, AsksFor, Handing
  <2>4. IsCell(P, Head(f.blocks))
    BY <2>2, <2>3
  <2>5. CutsOpen(P, shifts, g)
    BY <1>1, <2>1, <2>3, <2>4, CoveringRow DEF CutsOpen
  <2>6. Within(P, shifts, details, g)
    BY <1>1, <2>1, <2>3, <2>5 DEF Within, AsksFor, Asking, Handing, Cutting
  <2>7. frames' = [frames EXCEPT ![i] = g]
    BY <1>4 DEF Goto
  <2> QED BY <1>1, <2>6, <2>7, ReadsOnly
<1>5. \/ Done(i) \/ ToAudit(i, "shift.assigned", f.shift)
      \/ /\ f.blocks # <<>>
         /\ \E x \in rows : Goto(i, [f EXCEPT !.pc = "split", !.row = x])
  BY Zenon DEF NextBlock
<1> QED BY <1>2, <1>3, <1>4, <1>5

\* The template itself is no shift.
LEMMA InsertTemplateWithin ==
  ASSUME Serial, Inv, NEW P, P \subseteq Int, WithinInv(P), NEW i \in Slots,
         InsertTemplate(i)
  PROVE  WithinInv(P)' /\ GivesWithin
<1> DEFINE f == frames[i]
<1>1. /\ f.pc = "template" /\ f \in Frame /\ Within(P, shifts, details, f)
      /\ shifts' = shifts /\ details' = details
  BY AskFrame DEF InsertTemplate
<1> PICK g : g = [f EXCEPT !.pc = "generate"]
  OBVIOUS
<1>2. /\ g.pc = "generate" /\ g.op = f.op /\ g.worker = f.worker
      /\ g.shift = f.shift /\ g.row = f.row /\ g.day = f.day
      /\ g.blocks = f.blocks
  BY <1>1 DEF Frame
<1>3. Within(P, shifts, details, g)
  BY <1>1, <1>2 DEF Within, AsksFor, Asking, Handing, Cutting
<1>4. frames' = [frames EXCEPT ![i] = g] \/ frames' = [frames EXCEPT ![i] = Idle]
  BY Zenon DEF InsertTemplate, Goto, Done
<1> QED BY <1>1, <1>3, <1>4, IdleWithin, ReadsOnly

\* The statements after which a handler ends, or only its logAudit is left.
LEMMA EndsWithin ==
  ASSUME Serial, Inv, NEW P, P \subseteq Int, WithinInv(P), NEW i \in Slots,
         \/ FileOverflow(i) \/ LogAudit(i) \/ ApproveDeny(i) \/ ApproveFinish(i)
         \/ InsertMiss(i)
  PROVE  WithinInv(P)' /\ GivesWithin
<1> DEFINE f == frames[i]
<1>1. shifts' = shifts /\ details' = details
  BY DEF FileOverflow, LogAudit, ApproveDeny, ApproveFinish, InsertMiss
<1>2. \/ Done(i)
      \/ \E op, w, r, n : Goto(i, [Idle EXCEPT !.pc = "audit", !.op = op,
                                   !.worker = w, !.req = r, !.note = n])
  BY Zenon DEF FileOverflow, LogAudit, ApproveDeny, ApproveFinish, InsertMiss, ToAudit
<1>3. Continue(i)
  BY DEF Continue
<1>4. frames'[i].op \in {f.op, "none"}
  BY <1>3, OpKept
<1>5. CASE Done(i)
  BY <1>1, <1>5, IdleWithin, ReadsOnly DEF Done, Goto
<1>6. ASSUME NEW op, NEW w, NEW r, NEW n,
             Goto(i, [Idle EXCEPT !.pc = "audit", !.op = op, !.worker = w,
                                  !.req = r, !.note = n])
      PROVE  WithinInv(P)' /\ GivesWithin
  <2> PICK g : g = [Idle EXCEPT !.pc = "audit", !.op = op, !.worker = w,
                                !.req = r, !.note = n]
    OBVIOUS
  <2>1. g.pc = "audit" /\ g.op = op /\ frames' = [frames EXCEPT ![i] = g]
    BY <1>6 DEF Goto, Idle
  <2>2. g.op = "weekly" => Templates # {}
    <3>1. frames'[i] = g
      BY <2>1 DEF Inv, FramesOK
    <3> QED BY <1>4, <3>1, AskFrame DEF Within
  <2>3. Within(P, shifts, details, g)
    BY <2>1, <2>2, AsksNothing DEF Asking, Handing, Cutting
  <2> QED BY <1>1, <2>1, <2>3, ReadsOnly
<1> QED BY <1>2, <1>5, <1>6

-----------------------------------------------------------------------------
(***************************************************************************)
(* The statements that write a row.                                        *)
(***************************************************************************)

\* UPDATE of status and worker keeps the hours of the row.
LEMMA HolderRow ==
  ASSUME Inv, NEW P, RowsOnGrid(P, shifts), NEW s \in DOMAIN shifts, NEW w,
         \/ shifts' = [shifts EXCEPT ![s] = Released(@)] /\ w = NULL
         \/ shifts' = [shifts EXCEPT ![s].status = "assigned", ![s].worker = w]
  PROVE  /\ DOMAIN shifts' = DOMAIN shifts \cup {s}
         /\ \A x \in DOMAIN shifts \ {s} : shifts'[x] = shifts[x]
         /\ shifts'[s].worker = w /\ shifts'[s].day = shifts[s].day
         /\ shifts'[s].start = shifts[s].start /\ shifts'[s].end = shifts[s].end
         /\ Forward(P, shifts'[s])
<1>1. shifts[s] \in Row /\ shifts \in [DOMAIN shifts -> Row]
  BY DEF Inv, TableOK
<1>2. /\ DOMAIN shifts' = DOMAIN shifts \cup {s}
      /\ \A x \in DOMAIN shifts \ {s} : shifts'[x] = shifts[x]
  BY <1>1
<1>3. /\ shifts'[s].worker = w /\ shifts'[s].day = shifts[s].day
      /\ shifts'[s].start = shifts[s].start /\ shifts'[s].end = shifts[s].end
  <2>1. \/ shifts'[s] = [shifts[s] EXCEPT !.status = "open", !.worker = NULL]
           /\ w = NULL
        \/ shifts'[s] = [shifts[s] EXCEPT !.status = "assigned", !.worker = w]
    BY DEF Released
  <2> PICK row : row = shifts'[s]
    OBVIOUS
  <2>2. /\ row.worker = w /\ row.day = shifts[s].day
        /\ row.start = shifts[s].start /\ row.end = shifts[s].end
    BY <1>1, <2>1 DEF Row
  <2> QED BY <2>2
<1> QED BY <1>2, <1>3 DEF RowsOnGrid, Forward

\* The worker gets the hours of the shift, which the check counted.
LEMMA TakeOpenWithin ==
  ASSUME Serial, Inv, NEW P, P \subseteq Int, WithinInv(P), NEW i \in Slots,
         TakeOpen(i)
  PROVE  WithinInv(P)' /\ GivesWithin
<1> DEFINE f == frames[i]
           s == f.shift
           d == details[f.worker]
<1>1. /\ f.pc = "take" /\ f \in Frame /\ Within(P, shifts, details, f)
      /\ details' = details /\ f.op \in {"pick", "approve"} /\ s \in DOMAIN shifts
      /\ f.worker \in Workers /\ f.blocks \in Seq(Block) /\ d \in AllDetails
      /\ RowsOnGrid(P, shifts)
  BY AskFrame DEF TakeOpen, OpAtPc
<1>2. CASE StillOpen(s) /\ f.worker \in present
  <2>1. shifts' = [shifts EXCEPT ![s].status = "assigned", ![s].worker = f.worker]
    BY <1>2 DEF TakeOpen
  <2>2. /\ DOMAIN shifts' = DOMAIN shifts \cup {s}
        /\ \A x \in DOMAIN shifts \ {s} : shifts'[x] = shifts[x]
        /\ shifts'[s].worker = f.worker /\ shifts'[s].day = shifts[s].day
        /\ shifts'[s].start = shifts[s].start /\ shifts'[s].end = shifts[s].end
        /\ Forward(P, shifts'[s])
    BY <1>1, <2>1, HolderRow
  <2>3. /\ f.day = shifts[s].day
        /\ f.blocks = << <<shifts[s].start, shifts[s].end>> >>
        /\ WeekOf(shifts, f.worker, f.day) + Length(f.blocks) <= Limit(d, f.op)
    BY <1>1 DEF Within, AsksFor, Handing
  <2>4. Length(f.blocks) = shifts[s].end - shifts[s].start
    <3>1. f.blocks = <<Head(f.blocks)>> /\ Head(f.blocks)[1] = shifts[s].start
          /\ Head(f.blocks)[2] = shifts[s].end
      BY <2>3
    <3> QED BY <1>1, <3>1, LengthFacts
  <2>5. Limit(d, f.op) \in Int
    BY <1>1, Verdict
  <2>6. GivesWithin /\ RowsOnGrid(P, shifts')
    BY <1>1, <2>2, <2>3, <2>4, <2>5, RowGives
  <2>7. /\ frames'[i].pc \in {"audit", "finish"}
        /\ frames'[i].op = f.op
    <3>1. CASE f.op = "pick"
      <4>1. ToAudit(i, "shift.picked", s)
        BY <1>2, <3>1 DEF TakeOpen
      <4> QED BY <4>1, <3>1 DEF ToAudit, Goto, Idle, Inv, FramesOK
    <3>2. CASE f.op = "approve"
      <4>1. frames'[i] = [f EXCEPT !.pc = "finish"]
        BY <1>2, <3>2 DEF TakeOpen, Goto, Inv, FramesOK
      <4> QED BY <1>1, <4>1 DEF Frame
    <3> QED BY <1>1, <3>1, <3>2
  <2>8. Within(P, shifts', details', frames'[i])
    BY <1>1, <2>7, AsksNothing DEF Asking, Handing, Cutting
  <2> QED BY <2>6, <2>8, WithinBy
<1>3. CASE StillOpen(s) /\ f.worker \notin present
  BY <1>1, <1>3, IdleWithin, ReadsOnly DEF TakeOpen, Done, Goto
<1>4. CASE ~ StillOpen(s)
  <2>1. Resume(i, AfterTaken[f.op]) /\ shifts' = shifts
    BY <1>4 DEF TakeOpen
  <2>2. PICK pc \in {"idle", "deny"} : Resume(i, pc)
    <3>1. CASE f.op = "pick"
      BY <2>1, <3>1 DEF AfterTaken
    <3>2. CASE f.op = "approve"
      BY <2>1, <3>2 DEF AfterTaken
    <3> QED BY <1>1, <3>1, <3>2
  <2>3. PICK g : /\ frames' = [frames EXCEPT ![i] = g]
                 /\ \/ g = Idle /\ pc = "idle"
                    \/ /\ g.pc = pc /\ g.op = f.op
                       /\ g.req = f.req /\ g.shift = f.shift
                       /\ g.worker = f.worker
                       /\ g.blocks = f.blocks /\ g.row = f.row
                       /\ g.day = f.day
    BY <2>2, Resumed, Zenon
  <2>4. CASE g = Idle
    BY <1>1, <2>1, <2>3, <2>4, IdleWithin, ReadsOnly
  <2>5. CASE g # Idle
    <3>1. Within(P, shifts, details, g)
      BY <1>1, <2>2, <2>3, <2>5, AsksNothing DEF Asking, Handing, Cutting
    <3> QED BY <1>1, <2>1, <2>3, <3>1, ReadsOnly
  <2> QED BY <2>4, <2>5
<1> QED BY <1>2, <1>3, <1>4

\* An approved miss takes hours away.
LEMMA ApproveReleaseWithin ==
  ASSUME Serial, Inv, NEW P, P \subseteq Int, WithinInv(P), NEW i \in Slots,
         ApproveRelease(i)
  PROVE  WithinInv(P)' /\ GivesWithin
<1> DEFINE f == frames[i]
<1>1. /\ f.pc = "release" /\ f.op = "approve" /\ f \in Frame
      /\ f.shift \in DOMAIN shifts /\ RowsOnGrid(P, shifts)
      /\ shifts' = [shifts EXCEPT ![f.shift] = Released(@)]
  BY AskFrame DEF ApproveRelease, OpAtPc
<1>2. GivesWithin /\ RowsOnGrid(P, shifts')
  <2> DEFINE s == f.shift
  <2>1. /\ DOMAIN shifts' = DOMAIN shifts \cup {s}
        /\ \A x \in DOMAIN shifts \ {s} : shifts'[x] = shifts[x]
        /\ shifts'[s].worker = NULL /\ Forward(P, shifts'[s])
    BY <1>1, HolderRow
  <2>2. shifts'[s].worker \notin Workers
    BY <2>1, NullIsNothing
  <2> QED BY <2>1, <2>2, RowGives
<1>3. frames'[i] = [f EXCEPT !.pc = "finish"]
  BY DEF ApproveRelease, Goto, Inv, FramesOK
<1>4. frames'[i].pc = "finish" /\ frames'[i].op = "approve"
  BY <1>1, <1>3 DEF Frame
<1>5. Within(P, shifts', details', frames'[i])
  BY <1>4, AsksNothing DEF Asking, Handing, Cutting
<1> QED BY <1>2, <1>5, WithinBy

-----------------------------------------------------------------------------
\* What a handler that cuts a row holds.
LEMMA CutFrame ==
  ASSUME Inv, NEW P, P \subseteq Int, WithinInv(P), NEW i \in Slots,
         frames[i].pc \in Cutting
  PROVE  LET f == frames[i]
         IN  /\ f.row \in DOMAIN shifts /\ f.shift \in DOMAIN shifts
             /\ f.op \in {"assign", "blocks"}
             /\ f.day = shifts[f.row].day
             /\ Fits(P, Head(f.blocks), shifts[f.row])
             /\ f.op = "assign" => f.blocks = <<Head(f.blocks)>>
             /\ f.op = "blocks" => \A k \in DOMAIN f.blocks : IsCell(P, f.blocks[k])
             /\ Forward(P, shifts[f.row])
             /\ WeekOf(shifts, f.worker, f.day) + Length(f.blocks)
                  <= Limit(details[f.worker], f.op)
<1> DEFINE f == frames[i]
<1>1. /\ f.row \in DOMAIN shifts /\ f.op \in {"assign", "blocks"}
      /\ Within(P, shifts, details, f) /\ RowsOnGrid(P, shifts)
      /\ f.pc \notin {"idle", "audit"}
  BY AskFrame DEF Cutting
<1>2. f.shift \in DOMAIN shifts
  BY <1>1, AskFrame
<1> QED BY <1>1, <1>2 DEF Within, AsksFor, CutsOpen, Handing, RowsOnGrid

\* It goes on to cut, over a table with the rows it knows.
LEMMA CutsOn ==
  ASSUME Inv, NEW P, P \subseteq Int, WithinInv(P), NEW i \in Slots,
         frames[i].pc \in Cutting, NEW new,
         \A x \in DOMAIN shifts : new[x] = shifts[x],
         WeekOf(new, frames[i].worker, frames[i].day)
           <= WeekOf(shifts, frames[i].worker, frames[i].day),
         WeekOf(new, frames[i].worker, frames[i].day) \in Int,
         NEW g, g.pc \in Cutting, g.op = frames[i].op,
         g.worker = frames[i].worker, g.shift = frames[i].shift,
         g.row = frames[i].row, g.day = frames[i].day,
         g.blocks = frames[i].blocks
  PROVE  Within(P, new, details, g)
<1> DEFINE f == frames[i]
           d == details[f.worker]
<1>1. /\ f.row \in DOMAIN shifts /\ f.shift \in DOMAIN shifts
      /\ f.op \in {"assign", "blocks"}
      /\ WeekOf(shifts, f.worker, f.day) + Length(f.blocks) <= Limit(d, f.op)
  BY CutFrame
<1>2. /\ Within(P, shifts, details, f) /\ RowsOnGrid(P, shifts)
      /\ d \in AllDetails /\ f.blocks \in Seq(Block)
  BY AskFrame DEF Cutting
<1>3. WeekOf(new, g.worker, g.day) + Length(g.blocks) <= Limit(d, g.op)
  <2>1. /\ WeekOf(shifts, f.worker, f.day) \in Int /\ Length(f.blocks) \in Int
        /\ Limit(d, f.op) \in Int
    <3>1. \A w, day : WeekOf(shifts, w, day) \in Nat
      BY <1>2, GridRows
    <3> QED BY <1>2, <3>1, LengthFacts, Verdict
  <2> QED BY <1>1, <2>1
<1>4. AsksFor(P, new, g) /\ (g.op = "blocks" => CutsOpen(P, new, g))
  BY <1>1, <1>2 DEF Within, AsksFor, CutsOpen, Handing
<1> QED BY <1>1, <1>3, <1>4 DEF Within, Cutting

\* assignBlockToRow reads the row it will cut.
LEMMA SplitReadWithin ==
  ASSUME Serial, Inv, NEW P, P \subseteq Int, WithinInv(P), NEW i \in Slots,
         SplitRead(i)
  PROVE  WithinInv(P)' /\ GivesWithin
<1> DEFINE f == frames[i]
           row == shifts[f.row]
           b == Head(f.blocks)
<1>1. /\ f.pc \in Cutting /\ f \in Frame /\ RowsOnGrid(P, shifts)
      /\ shifts' = shifts /\ details' = details
  BY AskFrame DEF SplitRead, Cutting
<1> PICK g : g = [f EXCEPT !.pc = IF b[2] # row.end THEN "tail"
                                  ELSE HeadOrPut(b, row),
                           !.seen = [start |-> row.start, end |-> row.end,
                                     group |-> Group(f.row)]]
  OBVIOUS
<1>2. /\ g.pc = IF b[2] # row.end THEN "tail" ELSE HeadOrPut(b, row)
      /\ g.op = f.op /\ g.worker = f.worker /\ g.shift = f.shift
      /\ g.row = f.row /\ g.day = f.day /\ g.blocks = f.blocks
  BY <1>1 DEF Frame
<1>3. g.pc \in Cutting
  BY <1>2 DEF Cutting, HeadOrPut
<1>4. \A w, day : WeekOf(shifts, w, day) \in Nat
  BY <1>1, GridRows
<1>5. /\ WeekOf(shifts, f.worker, f.day) \in Int
      /\ WeekOf(shifts, f.worker, f.day) <= WeekOf(shifts, f.worker, f.day)
  BY <1>4
<1>6. Within(P, shifts, details, g)
  BY <1>1, <1>2, <1>3, <1>5, CutsOn
<1>7. frames' = [frames EXCEPT ![i] = g]
  BY DEF SplitRead, Goto
<1> QED BY <1>1, <1>6, <1>7, ReadsOnly

\* A remainder is nobody's.
LEMMA RemainderGives ==
  ASSUME Serial, Inv, NEW P, P \subseteq Int, WithinInv(P), NEW i \in Slots,
         frames[i].pc \in Cutting, details' = details,
         NEW id \in FreeShiftIds, NEW x \in P, NEW y \in P, x <= y,
         shifts' = Insert(shifts, id, Remainder(frames[i], x, y)),
         NEW pc \in Cutting, Goto(i, [frames[i] EXCEPT !.pc = pc])
  PROVE  WithinInv(P)' /\ GivesWithin
<1> DEFINE f == frames[i]
           row == Remainder(f, x, y)
<1>1. /\ f \in Frame /\ RowsOnGrid(P, shifts) /\ f.row \in DOMAIN shifts
      /\ f.worker \in Workers /\ shifts[f.row] \in Row
  BY AskFrame DEF Cutting, TableOK
<1>2. row.start = x /\ row.end = y /\ row.worker = NULL
  BY <1>1 DEF Remainder, Row
<1>3. /\ DOMAIN shifts' = DOMAIN shifts \cup {id} /\ shifts'[id] = row
      /\ \A s \in DOMAIN shifts \ {id} : shifts'[s] = shifts[s]
      /\ \A s \in DOMAIN shifts : shifts'[s] = shifts[s]
  BY DEF Insert, FreeShiftIds
<1>4. shifts'[id].worker = NULL /\ NULL \notin Workers /\ Forward(P, shifts'[id])
  BY <1>2, <1>3, NullIsNothing DEF Forward
<1>5. GivesWithin /\ RowsOnGrid(P, shifts')
  BY <1>3, <1>4, RowGives
<1>6. WeekOf(shifts', f.worker, f.day) <= WeekOf(shifts, f.worker, f.day)
  <2>1. \/ WeekOf(shifts', f.worker, f.day) <= WeekOf(shifts, f.worker, f.day)
        \/ shifts'[id].worker = f.worker
    BY <1>1, <1>3, <1>4, GiveRow
  <2> QED BY <1>1, <1>4, <2>1
<1>7. WeekOf(shifts', f.worker, f.day) \in Int
  BY <1>5, GridRows
<1> PICK g : g = [f EXCEPT !.pc = pc]
  OBVIOUS
<1>8. /\ g.pc = pc /\ g.op = f.op /\ g.worker = f.worker /\ g.shift = f.shift
      /\ g.row = f.row /\ g.day = f.day /\ g.blocks = f.blocks
  BY <1>1 DEF Frame
<1>9. Within(P, shifts', details, g)
  BY <1>3, <1>6, <1>7, <1>8, CutsOn
<1>10. frames'[i] = g
  BY DEF Goto, Inv, FramesOK
<1> QED BY <1>5, <1>9, <1>10, WithinBy

\* What follows the block, and what precedes it, is nobody's.
LEMMA SplitTailWithin ==
  ASSUME Serial, Inv, NEW P, P \subseteq Int, WithinInv(P), NEW i \in Slots,
         SplitTail(i)
  PROVE  WithinInv(P)' /\ GivesWithin
<1> DEFINE f == frames[i]
           b == Head(f.blocks)
<1>1. f.pc \in Cutting /\ details' = details
  BY DEF SplitTail, Cutting
<1>2. CASE shifts' = shifts /\ Done(i)
  BY <1>1, <1>2, IdleWithin, ReadsOnly DEF Done, Goto
<1>3. ASSUME NEW id \in FreeShiftIds,
             shifts' = Insert(shifts, id, Remainder(f, b[2], shifts[f.row].end)),
             Goto(i, [f EXCEPT !.pc = HeadOrPut(b, f.seen)])
      PROVE  WithinInv(P)' /\ GivesWithin
  <2>1. Fits(P, b, shifts[f.row]) /\ Forward(P, shifts[f.row])
    BY <1>1, CutFrame
  <2>2. b[2] \in P /\ shifts[f.row].end \in P /\ b[2] <= shifts[f.row].end
    BY <2>1 DEF Fits, Forward
  <2>3. HeadOrPut(b, f.seen) \in Cutting
    BY DEF HeadOrPut, Cutting
  <2> QED BY <1>1, <1>3, <2>2, <2>3, RemainderGives
<1> QED BY <1>2, <1>3 DEF SplitTail

LEMMA SplitHeadWithin ==
  ASSUME Serial, Inv, NEW P, P \subseteq Int, WithinInv(P), NEW i \in Slots,
         SplitHead(i)
  PROVE  WithinInv(P)' /\ GivesWithin
<1> DEFINE f == frames[i]
           b == Head(f.blocks)
<1>1. f.pc \in Cutting /\ details' = details
  BY DEF SplitHead, Cutting
<1>2. CASE shifts' = shifts /\ Done(i)
  BY <1>1, <1>2, IdleWithin, ReadsOnly DEF Done, Goto
<1>3. ASSUME NEW id \in FreeShiftIds,
             shifts' = Insert(shifts, id, Remainder(f, shifts[f.row].start, b[1])),
             Goto(i, [f EXCEPT !.pc = "put"])
      PROVE  WithinInv(P)' /\ GivesWithin
  <2>1. Fits(P, b, shifts[f.row]) /\ Forward(P, shifts[f.row])
    BY <1>1, CutFrame
  <2>2. /\ b[1] \in P /\ shifts[f.row].start \in P
        /\ shifts[f.row].start <= b[1] /\ "put" \in Cutting
    BY <2>1 DEF Fits, Forward, Cutting
  <2> QED BY <1>1, <1>3, <2>2, RemainderGives
<1> QED BY <1>2, <1>3 DEF SplitHead

\* The worker gets the block; what is left to assign is smaller by it.
LEMMA SplitPutWithin ==
  ASSUME Serial, Inv, NEW P, P \subseteq Int, WithinInv(P), NEW i \in Slots,
         SplitPut(i)
  PROVE  WithinInv(P)' /\ GivesWithin
<1> DEFINE f == frames[i]
           s == f.row
           d == details[f.worker]
           b == Head(f.blocks)
<1>1. /\ f.pc = "put" /\ f.pc \in Cutting /\ details' = details /\ f \in Frame
      /\ s \in DOMAIN shifts /\ shifts[s] \in Row /\ f.blocks # <<>>
      /\ f.worker \in Workers /\ f.blocks \in Seq(Block) /\ d \in AllDetails
      /\ RowsOnGrid(P, shifts)
  BY AskFrame DEF SplitPut, Cutting, TableOK
<1>2. /\ f.shift \in DOMAIN shifts /\ f.op \in {"assign", "blocks"}
      /\ f.day = shifts[s].day /\ Fits(P, b, shifts[s])
      /\ f.op = "blocks" => \A k \in DOMAIN f.blocks : IsCell(P, f.blocks[k])
      /\ f.op = "assign" => f.blocks = <<b>>
      /\ WeekOf(shifts, f.worker, f.day) + Length(f.blocks) <= Limit(d, f.op)
  BY <1>1, CutFrame
<1>3. CASE f.worker \notin present
  BY <1>1, <1>3, IdleWithin, ReadsOnly DEF SplitPut, Done, Goto
<1>4. CASE f.worker \in present
  <2>1. PICK row :
          /\ row = [shifts[s] EXCEPT !.status = "assigned", !.worker = f.worker,
                                     !.start = b[1], !.end = b[2],
                                     !.parent = f.seen.group]
          /\ shifts' = [shifts EXCEPT ![s] = row]
    BY <1>1, <1>4, Zenon DEF SplitPut
  <2>2. /\ row.worker = f.worker /\ row.start = b[1] /\ row.end = b[2]
        /\ row.day = shifts[s].day
    BY <1>1, <2>1 DEF Row
  <2>3. /\ DOMAIN shifts' = DOMAIN shifts \cup {s} /\ shifts'[s] = row
        /\ \A x \in DOMAIN shifts \ {s} : shifts'[x] = shifts[x]
    BY <1>1, <2>1
  <2>4. b[1] \in Int /\ b[2] \in Int /\ b[1] < b[2] /\ Forward(P, shifts'[s])
    <3>1. b[1] \in P /\ b[2] \in P /\ b[1] < b[2]
      BY <1>2 DEF Fits
    <3> HIDE DEF b
    <3>2. b[1] \in Int /\ b[2] \in Int
      BY <3>1
    <3>3. Forward(P, row)
      BY <2>2, <3>1, <3>2 DEF Forward
    <3> QED BY <2>3, <3>1, <3>2, <3>3
  <2>5. WeekOf(shifts, f.worker, f.day) \in Int /\ Limit(d, f.op) \in Int
    <3>1. \A w, day : WeekOf(shifts, w, day) \in Nat
      BY <1>1, GridRows
    <3> QED BY <1>1, <3>1, Verdict
  <2>6. CASE f.op = "assign"
    <3>1. Length(f.blocks) = b[2] - b[1]
      BY <1>1, <1>2, <2>6, LengthFacts
    <3>2. GivesWithin /\ RowsOnGrid(P, shifts')
      BY <1>1, <1>2, <2>2, <2>3, <2>4, <2>5, <3>1, RowGives
    <3>3. ToAudit(i, "shift.assigned", f.shift)
      BY <1>4, <2>6 DEF SplitPut
    <3>4. frames'[i].pc = "audit" /\ frames'[i].op = "assign"
      BY <2>6, <3>3 DEF ToAudit, Goto, Idle, Inv, FramesOK
    <3>5. Within(P, shifts', details', frames'[i])
      BY <3>4, AsksNothing DEF Asking, Handing, Cutting
    <3> QED BY <3>2, <3>5, WithinBy
  <2>7. CASE f.op = "blocks"
    <3> DEFINE rest == Length(Tail(f.blocks))
    <3>1. Length(f.blocks) = (b[2] - b[1]) + rest /\ rest \in Nat
      <4>1. Length(f.blocks) = (b[2] - b[1]) + rest
        BY <1>1, LengthFacts
      <4>2. Tail(f.blocks) \in Seq(Block)
        BY <1>1
      <4>3. \A k \in DOMAIN Tail(f.blocks) :
              /\ k + 1 \in DOMAIN f.blocks
              /\ Tail(f.blocks)[k] = f.blocks[k + 1]
        BY <1>1
      <4>4. \A k \in DOMAIN f.blocks :
              /\ f.blocks[k][1] < f.blocks[k][2]
              /\ f.blocks[k][1] \in Int /\ f.blocks[k][2] \in Int
        BY <1>2, <2>7 DEF IsCell
      <4>5. \A k \in DOMAIN Tail(f.blocks) :
              Tail(f.blocks)[k][1] <= Tail(f.blocks)[k][2]
        BY <4>3, <4>4
      <4>6. rest \in Nat
        BY <4>2, <4>5, LengthFacts
      <4> QED BY <4>1, <4>6
    <3> HIDE DEF rest
    <3>2. WeekOf(shifts, f.worker, f.day) + (b[2] - b[1]) <= Limit(d, f.op)
      BY <1>2, <2>4, <2>5, <3>1
    <3>3. GivesWithin /\ RowsOnGrid(P, shifts')
      BY <1>1, <1>2, <2>2, <2>3, <2>4, <2>5, <3>2, RowGives
    <3>4. WeekOf(shifts', f.worker, f.day)
            <= WeekOf(shifts, f.worker, f.day) + (b[2] - b[1])
      <4>1. WeekOf(shifts', f.worker, shifts'[s].day)
              <= WeekOf(shifts, f.worker, shifts'[s].day)
                   + (shifts'[s].end - shifts'[s].start)
        BY <1>1, <2>3, <2>4, GiveRow
      <4>2. /\ shifts'[s].day = f.day /\ shifts'[s].end = b[2]
            /\ shifts'[s].start = b[1]
        BY <1>2, <2>2, <2>3
      <4> QED BY <4>1, <4>2
    <3>5. WeekOf(shifts', f.worker, f.day) \in Int
      <4>1. \A w, day : WeekOf(shifts', w, day) \in Nat
        BY <3>3, GridRows
      <4> QED BY <4>1
    <3>6. WeekOf(shifts', f.worker, f.day) + rest <= Limit(d, f.op)
      BY <1>2, <2>4, <2>5, <3>1, <3>4, <3>5
    <3>7. PICK g : /\ g = [f EXCEPT !.pc = "next", !.blocks = Tail(@),
                                    !.row = NULL, !.seen = NULL]
                   /\ frames' = [frames EXCEPT ![i] = g]
      BY <1>4, <2>7, Zenon DEF SplitPut, Goto
    <3>8. /\ g.pc = "next" /\ g.op = "blocks" /\ g.worker = f.worker
          /\ g.shift = f.shift /\ g.day = f.day /\ g.blocks = Tail(f.blocks)
      BY <1>1, <2>7, <3>7 DEF Frame
    <3>9. \A k \in DOMAIN g.blocks : IsCell(P, g.blocks[k])
      <4>1. \A k \in DOMAIN g.blocks : /\ k + 1 \in DOMAIN f.blocks
                                       /\ g.blocks[k] = f.blocks[k + 1]
        BY <1>1, <3>8
      <4> QED BY <1>2, <2>7, <4>1
    <3>10. g.day = shifts'[g.shift].day
      <4>1. f.day = shifts[f.shift].day
        BY <1>1, <2>7, AskFrame DEF Within, AsksFor, Handing
      <4> QED BY <1>2, <2>2, <2>3, <3>8, <4>1
    <3>11. Within(P, shifts', details, g)
      BY <2>7, <3>6, <3>8, <3>9, <3>10
         DEF Within, AsksFor, Asking, Handing, Cutting, rest
    <3>12. frames'[i] = g
      BY <3>7 DEF Inv, FramesOK
    <3> QED BY <1>1, <3>3, <3>11, <3>12, WithinBy
  <2> QED BY <1>2, <2>6, <2>7
<1> QED BY <1>3, <1>4

\* The shift of a template is as long as the block that was checked.
LEMMA GenerateShiftWithin ==
  ASSUME Serial, Inv, NEW P, P \subseteq Int, WithinInv(P), NEW i \in Slots,
         GenerateShift(i)
  PROVE  WithinInv(P)' /\ GivesWithin
<1> DEFINE f == frames[i]
           d == details[f.worker]
           b == Head(f.blocks)
           row == [team |-> f.team, day |-> f.day, start |-> b[1], end |-> b[2],
                   status |-> "assigned", worker |-> f.worker, parent |-> NULL]
<1>1. /\ f.pc = "generate" /\ details' = details /\ f.op = "weekly"
      /\ f.worker \in Workers /\ f.blocks \in Seq(Block) /\ d \in AllDetails
      /\ Within(P, shifts, details, f) /\ RowsOnGrid(P, shifts)
  BY AskFrame DEF GenerateShift, OpAtPc
<1>2. /\ b[1] \in P /\ b[2] \in P /\ b[1] <= b[2] /\ f.blocks = <<b>>
      /\ WeekOf(shifts, f.worker, f.day) + Length(f.blocks) <= Limit(d, f.op)
  BY <1>1 DEF Within, AsksFor, Handing
<1>3. frames' = [frames EXCEPT ![i] = Idle]
  BY DEF GenerateShift, Done, Goto
<1>4. CASE shifts' = shifts
  BY <1>1, <1>3, <1>4, IdleWithin, ReadsOnly
<1>5. ASSUME NEW id \in FreeShiftIds, shifts' = Insert(shifts, id, row)
      PROVE  WithinInv(P)' /\ GivesWithin
  <2>1. /\ DOMAIN shifts' = DOMAIN shifts \cup {id} /\ shifts'[id] = row
        /\ \A s \in DOMAIN shifts \ {id} : shifts'[s] = shifts[s]
    BY <1>5 DEF Insert, FreeShiftIds
  <2>2. Forward(P, shifts'[id])
    BY <1>2, <2>1 DEF Forward
  <2>3. Length(f.blocks) = b[2] - b[1] /\ Limit(d, f.op) \in Int
    BY <1>1, <1>2, LengthFacts, Verdict
  <2>4. GivesWithin /\ RowsOnGrid(P, shifts')
    <3>1. /\ shifts'[id].worker = f.worker /\ shifts'[id].day = f.day
          /\ shifts'[id].start = b[1] /\ shifts'[id].end = b[2]
      BY <2>1
    <3>2. WeekOf(shifts, f.worker, shifts'[id].day)
            + (shifts'[id].end - shifts'[id].start) <= Limit(d, f.op)
      BY <1>2, <2>3, <3>1
    <3>3. \E j \in Slots :
            /\ frames[j].worker = shifts'[id].worker
            /\ frames[j].pc \in {"take", "put", "generate"}
            /\ Limit(details[frames[j].worker], frames[j].op) \in Int
            /\ WeekOf(shifts, frames[j].worker, shifts'[id].day)
                 + (shifts'[id].end - shifts'[id].start)
                 <= Limit(details[frames[j].worker], frames[j].op)
      BY <1>1, <2>3, <3>1, <3>2
    <3> QED BY <2>1, <2>2, <3>3, RowGives
  <2>5. frames'[i] = Idle
    BY <1>3 DEF Inv, FramesOK
  <2> QED BY <2>4, <2>5, IdleWithin, WithinBy
<1>6. shifts' = shifts \/ \E id \in FreeShiftIds : shifts' = Insert(shifts, id, row)
  BY Zenon DEF GenerateShift
<1> QED BY <1>4, <1>5, <1>6

\* Every statement after the first.
LEMMA ContinueWithin ==
  ASSUME Serial, Inv, NEW P, P \subseteq Int, WithinInv(P), NEW i \in Slots,
         Continue(i)
  PROVE  WithinInv(P)' /\ GivesWithin
BY ReadSettingsWithin, ReadHoursWithin, TakeOpenWithin, ApproveReleaseWithin,
   ApproveReadWithin, EndsWithin, NextBlockWithin, SplitReadWithin,
   SplitTailWithin, SplitHeadWithin, SplitPutWithin, InsertTemplateWithin,
   GenerateShiftWithin DEF Continue

-----------------------------------------------------------------------------
(***************************************************************************)
(* The arrivals, and the handlers of a single statement.                   *)
(***************************************************************************)

\* A handler arrives that asks for no hours.
LEMMA QuietArrival ==
  ASSUME Serial, Inv, NEW P, P \subseteq Int, WithinInv(P), NEW i \in Slots,
         shifts' = shifts, details' = details,
         NEW g, Start(i, g), g.op # "weekly", g.pc \notin Asking \cup Handing
  PROVE  WithinInv(P)' /\ GivesWithin
<1>1. Within(P, shifts, details, g)
  BY AsksNothing
<1>2. frames' = [frames EXCEPT ![i] = g]
  BY DEF Start
<1> QED BY <1>1, <1>2, ReadsOnly

\* A handler arrives that does.
LEMMA AskingArrival ==
  ASSUME Serial, Inv, NEW P, P \subseteq Int, WithinInv(P), NEW i \in Slots,
         shifts' = shifts, details' = details,
         NEW g, Start(i, g), g.op = "weekly" => Templates # {},
         g.pc = "settings", AsksFor(P, shifts, g)
  PROVE  WithinInv(P)' /\ GivesWithin
<1>1. Within(P, shifts, details, g)
  BY DEF Within, Asking, Handing, Cutting
<1>2. frames' = [frames EXCEPT ![i] = g]
  BY DEF Start
<1> QED BY <1>1, <1>2, ReadsOnly

\* A pick asks for the whole shift.
LEMMA PickWithin ==
  ASSUME Serial, Inv, NEW P, P \subseteq Int, WithinInv(P), NEW i \in Slots,
         NEW w \in Workers, NEW s \in DOMAIN shifts, Pick(i, w, s)
  PROVE  WithinInv(P)' /\ GivesWithin
<1>1. shifts' = shifts /\ details' = details
  BY DEF Pick
<1> PICK g : g = [Idle EXCEPT !.pc = "settings", !.op = "pick", !.worker = w,
                              !.shift = s, !.day = shifts[s].day,
                              !.blocks = Whole(s)]
  OBVIOUS
<1>2. /\ g.pc = "settings" /\ g.op = "pick" /\ g.shift = s
      /\ g.day = shifts[s].day /\ g.blocks = Whole(s)
  BY DEF Idle
<1>3. AsksFor(P, shifts, g)
  BY <1>2 DEF AsksFor, Whole
<1>4. Start(i, g)
  BY DEF Pick
<1> QED BY <1>1, <1>2, <1>3, <1>4, AskingArrival

\* An approval, a decision and a request ask for nothing yet.
LEMMA ApproveWithin ==
  ASSUME Serial, Inv, NEW P, P \subseteq Int, WithinInv(P), NEW i \in Slots,
         NEW m, NEW r, Approve(i, m, r)
  PROVE  WithinInv(P)' /\ GivesWithin
<1>1. shifts' = shifts /\ details' = details
  BY DEF Approve
<1> DEFINE q == requests[r]
<1> PICK g : g = [Idle EXCEPT !.pc = IF q.type = "miss" THEN "release"
                                     ELSE "read",
                              !.op = "approve", !.worker = q.worker,
                              !.shift = q.shift, !.req = r]
  OBVIOUS
<1>2. g.op = "approve" /\ g.pc \in {"release", "read"}
  BY DEF Idle
<1>3. Start(i, g)
  BY DEF Approve
<1> QED BY <1>1, <1>2, <1>3, QuietArrival DEF Asking, Handing, Cutting

LEMMA CloseWithin ==
  ASSUME Serial, Inv, NEW P, P \subseteq Int, WithinInv(P), NEW i \in Slots,
         NEW r, NEW actor, NEW op, op # "weekly", NEW status,
         Close(i, r, actor, op, status)
  PROVE  WithinInv(P)' /\ GivesWithin
<1>1. shifts' = shifts /\ details' = details
  BY DEF Close
<1> PICK g : g = [Idle EXCEPT !.pc = "audit", !.op = op, !.worker = actor,
                              !.req = r, !.note = <<AuditOf[status], r>>]
  OBVIOUS
<1>2. g.op = op /\ g.pc = "audit"
  BY DEF Idle
<1>3. Start(i, g)
  BY DEF Close
<1> QED BY <1>1, <1>2, <1>3, QuietArrival DEF Asking, Handing, Cutting

LEMMA RequestWithin ==
  ASSUME Serial, Inv, NEW P, P \subseteq Int, WithinInv(P), NEW i \in Slots,
         NEW w, NEW s, RequestMiss(i, w, s) \/ RequestOverflow(i, w, s)
  PROVE  WithinInv(P)' /\ GivesWithin
<1>1. shifts' = shifts /\ details' = details
  BY DEF RequestMiss, RequestOverflow
<1>2. CASE RequestMiss(i, w, s)
  <2> PICK g : g = [Idle EXCEPT !.pc = "request", !.op = "miss", !.worker = w,
                                !.shift = s]
    OBVIOUS
  <2>1. g.op = "miss" /\ g.pc = "request"
    BY DEF Idle
  <2>2. Start(i, g)
    BY <1>2 DEF RequestMiss
  <2> QED BY <1>1, <2>1, <2>2, QuietArrival DEF Asking, Handing, Cutting
<1>3. CASE RequestOverflow(i, w, s)
  <2>1. PICK id \in FreeRequestIds :
          Start(i, [Idle EXCEPT !.pc = "audit", !.op = "overflow",
                                !.worker = w, !.req = id,
                                !.note = <<"request.created", id>>])
    BY <1>3, Zenon DEF RequestOverflow
  <2> PICK g : g = [Idle EXCEPT !.pc = "audit", !.op = "overflow",
                                !.worker = w, !.req = id,
                                !.note = <<"request.created", id>>]
    OBVIOUS
  <2>2. g.op = "overflow" /\ g.pc = "audit" /\ Start(i, g)
    BY <2>1 DEF Idle
  <2> QED BY <1>1, <2>2, QuietArrival DEF Asking, Handing, Cutting
<1> QED BY <1>2, <1>3

\* A manager's release takes hours away.
LEMMA UnassignWithin ==
  ASSUME Serial, Inv, NEW P, P \subseteq Int, WithinInv(P), NEW i \in Slots,
         NEW m, NEW s \in DOMAIN shifts, Unassign(i, m, s)
  PROVE  WithinInv(P)' /\ GivesWithin
<1>1. /\ details' = details /\ RowsOnGrid(P, shifts)
      /\ shifts' = [shifts EXCEPT ![s] = Released(@)]
  BY DEF Unassign, WithinInv
<1>2. /\ DOMAIN shifts' = DOMAIN shifts \cup {s}
      /\ \A x \in DOMAIN shifts \ {s} : shifts'[x] = shifts[x]
      /\ shifts'[s].worker = NULL /\ Forward(P, shifts'[s])
  BY <1>1, HolderRow
<1>3. shifts'[s].worker \notin Workers
  BY <1>2, NullIsNothing
<1>4. GivesWithin /\ RowsOnGrid(P, shifts')
  BY <1>2, <1>3, RowGives
<1> PICK g : g = [Idle EXCEPT !.pc = "audit", !.op = "unassign",
                              !.note = <<"shift.unassigned", s>>]
  OBVIOUS
<1>5. g.pc = "audit" /\ g.op = "unassign"
  BY DEF Idle
<1>6. frames'[i] = g
  BY DEF Unassign, Start, Inv, FramesOK
<1>7. Within(P, shifts', details', frames'[i])
  BY <1>5, <1>6, AsksNothing DEF Asking, Handing, Cutting
<1> QED BY <1>4, <1>7, WithinBy

\* An assignment asks for a block of the row, a list for cells of the grid.
LEMMA AssignWithin ==
  ASSUME Serial, Inv, NEW P, HoursOnGrid(P), WithinInv(P), NEW i \in Slots,
         NEW m, NEW s \in DOMAIN shifts, NEW w, Assign(i, m, s, w)
  PROVE  WithinInv(P)' /\ GivesWithin
<1>1. shifts' = shifts /\ details' = details /\ P \subseteq Int
  BY DEF Assign, HoursOnGrid
<1> DEFINE whole == Head(Whole(s))
<1>2. PICK b \in AssignBlocks \cup {whole} :
        /\ whole[1] <= b[1] /\ b[1] < b[2] /\ b[2] <= whole[2]
        /\ Start(i, [Idle EXCEPT !.pc = "settings", !.op = "assign",
                                 !.worker = w, !.shift = s, !.row = s,
                                 !.day = shifts[s].day, !.blocks = <<b>>])
  BY Zenon DEF Assign
<1>3. whole = <<shifts[s].start, shifts[s].end>>
  BY DEF Whole
<1>4. Forward(P, shifts[s])
  BY DEF WithinInv, RowsOnGrid
<1>5. whole[1] = shifts[s].start /\ whole[2] = shifts[s].end
  BY <1>3
<1> HIDE DEF whole
<1>6. b[1] \in P /\ b[2] \in P
  <2>1. CASE b \in AssignBlocks
    BY <2>1 DEF HoursOnGrid
  <2>2. CASE b = whole
    BY <1>4, <1>5, <2>2 DEF Forward
  <2> QED BY <1>2, <2>1, <2>2
<1>7. Fits(P, b, shifts[s])
  BY <1>2, <1>5, <1>6 DEF Fits
<1> PICK g : g = [Idle EXCEPT !.pc = "settings", !.op = "assign",
                              !.worker = w, !.shift = s, !.row = s,
                              !.day = shifts[s].day, !.blocks = <<b>>]
  OBVIOUS
<1>8. /\ g.pc = "settings" /\ g.op = "assign" /\ g.row = s
      /\ g.day = shifts[s].day /\ g.blocks = <<b>> /\ Start(i, g)
  BY <1>2 DEF Idle
<1>9. Head(g.blocks) = b
  BY <1>8
<1>10. AsksFor(P, shifts, g)
  BY <1>7, <1>8, <1>9 DEF AsksFor
<1> QED BY <1>1, <1>8, <1>10, AskingArrival

LEMMA AssignListWithin ==
  ASSUME Serial, Inv, NEW P, HoursOnGrid(P), WithinInv(P), NEW i \in Slots,
         NEW m, NEW s \in DOMAIN shifts, NEW w, NEW bs \in BlockLists,
         AssignList(i, m, s, w, bs)
  PROVE  WithinInv(P)' /\ GivesWithin
<1>1. /\ shifts' = shifts /\ details' = details /\ P \subseteq Int
      /\ \A k \in DOMAIN bs : bs[k][1] < bs[k][2]
  BY DEF AssignList, HoursOnGrid
<1>2. \A k \in DOMAIN bs : IsCell(P, bs[k])
  BY <1>1 DEF IsCell, HoursOnGrid
<1> PICK g : g = [Idle EXCEPT !.pc = "settings", !.op = "blocks", !.worker = w,
                              !.shift = s, !.day = shifts[s].day, !.blocks = bs]
  OBVIOUS
<1>3. /\ g.pc = "settings" /\ g.op = "blocks" /\ g.shift = s
      /\ g.day = shifts[s].day /\ g.blocks = bs /\ Start(i, g)
  BY DEF Idle, AssignList
<1>4. AsksFor(P, shifts, g)
  BY <1>2, <1>3 DEF AsksFor
<1> QED BY <1>1, <1>3, <1>4, AskingArrival

\* A template asks for its own hours.
LEMMA AddWeeklyWithin ==
  ASSUME Serial, Inv, NEW P, HoursOnGrid(P), WithinInv(P), NEW i \in Slots,
         NEW t \in Templates, AddWeekly(i, t)
  PROVE  WithinInv(P)' /\ GivesWithin
<1>1. /\ shifts' = shifts /\ details' = details /\ P \subseteq Int
      /\ t.start \in P /\ t.end \in P /\ t.start <= t.end
  BY DEF AddWeekly, HoursOnGrid
<1> PICK g : g = [Idle EXCEPT !.pc = "settings", !.op = "weekly",
                              !.worker = t.worker, !.team = t.team,
                              !.day = t.day, !.blocks = << <<t.start, t.end>> >>]
  OBVIOUS
<1>2. /\ g.pc = "settings" /\ g.op = "weekly" /\ Start(i, g)
      /\ g.blocks = << <<t.start, t.end>> >>
  BY DEF Idle, AddWeekly
<1> PICK b : b = <<t.start, t.end>>
  OBVIOUS
<1>3. b[1] = t.start /\ b[2] = t.end /\ g.blocks = <<b>>
  BY <1>2
<1>4. Head(g.blocks) = b
  BY <1>3
<1>5. AsksFor(P, shifts, g)
  BY <1>1, <1>2, <1>3, <1>4 DEF AsksFor
<1> QED BY <1>1, <1>2, <1>5, AskingArrival

\* Every first statement.
LEMMA ArriveWithin ==
  ASSUME Serial, Inv, NEW P, HoursOnGrid(P), WithinInv(P), NEW i \in Slots,
         Arrive(i)
  PROVE  WithinInv(P)' /\ GivesWithin
<1>1. P \subseteq Int
  BY DEF HoursOnGrid
<1>2. CASE \E w \in Workers, s \in DOMAIN shifts : Pick(i, w, s)
  BY <1>1, <1>2, PickWithin
<1>3. CASE \E w \in Workers, s \in DOMAIN shifts :
             RequestMiss(i, w, s) \/ RequestOverflow(i, w, s)
  BY <1>1, <1>3, RequestWithin
<1>4. CASE \E r \in Live : Cancel(i, r)
  BY <1>1, <1>4, CloseWithin DEF Cancel
<1>5. CASE \E m \in Managers, r \in Live : Approve(i, m, r)
  BY <1>1, <1>5, ApproveWithin
<1>6. CASE \E m \in Managers, r \in Live : Deny(i, m, r)
  BY <1>1, <1>6, CloseWithin DEF Deny
<1>7. CASE \E m \in Managers, s \in DOMAIN shifts : Unassign(i, m, s)
  BY <1>1, <1>7, UnassignWithin
<1>8. CASE \E m \in Managers, s \in DOMAIN shifts, w \in Workers : Assign(i, m, s, w)
  BY <1>8, AssignWithin
<1>9. CASE \E m \in Managers, s \in DOMAIN shifts, w \in Workers, bs \in BlockLists :
             AssignList(i, m, s, w, bs)
  BY <1>9, AssignListWithin
<1>10. CASE \E t \in Templates : AddWeekly(i, t)
  BY <1>10, AddWeeklyWithin
<1> QED BY <1>2, <1>3, <1>4, <1>5, <1>6, <1>7, <1>8, <1>9, <1>10 DEF Arrive

-----------------------------------------------------------------------------
\* A handler of one statement finds the slot free, and leaves it so.
LEMMA FreeWithin ==
  ASSUME Serial, NEW P, RowsOnGrid(P, shifts'), SlotFree, frames' = frames
  PROVE  WithinInv(P)'
<1>1. PICK i \in Slots : frames'[i] = Idle
  BY DEF SlotFree
<1>2. Within(P, shifts', details', frames'[i])
  BY <1>1, IdleWithin
<1> QED BY <1>2, WithinBy

\* A new shift is nobody's.
LEMMA CreateShiftWithin ==
  ASSUME Serial, Inv, NEW P, HoursOnGrid(P), WithinInv(P),
         NEW m, NEW n \in NewShifts, CreateShift(m, n)
  PROVE  WithinInv(P)' /\ GivesWithin
<1> DEFINE row == [team |-> n.team, day |-> n.day, start |-> n.start,
                   end |-> n.end, status |-> "open", worker |-> NULL,
                   parent |-> NULL]
<1>1. /\ SlotFree /\ frames' = frames /\ P \subseteq Int
      /\ n.start \in P /\ n.end \in P /\ n.start <= n.end
  BY DEF CreateShift, HoursOnGrid
<1>2. PICK id \in FreeShiftIds : shifts' = Insert(shifts, id, row)
  BY Zenon DEF CreateShift
<1>3. /\ DOMAIN shifts' = DOMAIN shifts \cup {id} /\ shifts'[id] = row
      /\ \A s \in DOMAIN shifts \ {id} : shifts'[s] = shifts[s]
  BY <1>2 DEF Insert, FreeShiftIds
<1>4. shifts'[id].worker \notin Workers /\ Forward(P, shifts'[id])
  BY <1>1, <1>3, NullIsNothing DEF Forward
<1>5. GivesWithin /\ RowsOnGrid(P, shifts')
  BY <1>1, <1>3, <1>4, RowGives
<1> QED BY <1>1, <1>5, FreeWithin

\* A new classification changes no hours, and no handler holds the old one.
LEMMA SetWorkerDetailsWithin ==
  ASSUME Serial, NEW P, P \subseteq Int, WithinInv(P),
         NEW w, NEW d, SetWorkerDetails(w, d)
  PROVE  WithinInv(P)' /\ GivesWithin
<1>1. SlotFree /\ frames' = frames /\ shifts' = shifts
  BY DEF SetWorkerDetails
<1>2. GivesWithin /\ RowsOnGrid(P, shifts')
  BY <1>1, SameGives
<1> QED BY <1>1, <1>2, FreeWithin

\* A deleted worker loses every shift; nobody gains one.
LEMMA DeleteUserWithin ==
  ASSUME Serial, Inv, NEW P, P \subseteq Int, WithinInv(P),
         NEW gone \in Workers, DeleteUser(gone)
  PROVE  WithinInv(P)' /\ GivesWithin
<1>1. /\ SlotFree /\ frames' = frames /\ RowsOnGrid(P, shifts)
      /\ shifts' = [s \in DOMAIN shifts |->
                      IF shifts[s].worker = gone
                      THEN [shifts[s] EXCEPT !.worker = NULL] ELSE shifts[s]]
      /\ shifts \in [DOMAIN shifts -> Row]
  BY DEF DeleteUser, WithinInv, Inv, TableOK
<1>2. DOMAIN shifts' = DOMAIN shifts
  BY <1>1
<1>3. ASSUME NEW s \in DOMAIN shifts
      PROVE  /\ shifts'[s].start = shifts[s].start
             /\ shifts'[s].end = shifts[s].end
             /\ shifts'[s].day = shifts[s].day
             /\ shifts'[s].worker = IF shifts[s].worker = gone THEN NULL
                                    ELSE shifts[s].worker
  <2> PICK row : row = shifts[s]
    OBVIOUS
  <2>1. row \in Row
    BY <1>1
  <2>2. shifts'[s] = IF row.worker = gone THEN [row EXCEPT !.worker = NULL] ELSE row
    BY <1>1
  <2>3. CASE row.worker = gone
    BY <2>1, <2>2, <2>3 DEF Row
  <2>4. CASE row.worker # gone
    BY <2>2, <2>4
  <2> QED BY <2>3, <2>4
<1>4. RowsOnGrid(P, shifts')
  BY <1>1, <1>2, <1>3 DEF RowsOnGrid, Forward
<1>5. ASSUME NEW w \in Workers, NEW day
      PROVE  ~ (WeekHours(w, day)' > WeekHours(w, day))
  <2>1. /\ WeekHours(w, day)' = WeekOf(shifts', w, day)
        /\ WeekHours(w, day) = WeekOf(shifts, w, day)
    BY WeekHoursIs
  <2>2. \A v, d : WeekOf(shifts, v, d) \in Nat
    BY <1>1, GridRows
  <2>3. CASE w = gone
    <3>1. Booked(shifts', w, day) = {}
      BY <1>2, <1>3, <2>3, NullIsNothing DEF Booked
    <3>2. HoursOf(shifts', {}) = 0
      <4>1. /\ IsFiniteSet(DOMAIN shifts')
            /\ \A s \in DOMAIN shifts' : /\ shifts'[s].start \in Int
                                         /\ shifts'[s].end \in Int
        BY <1>4, GridRows
      <4> QED BY <4>1, HoursFacts
    <3>3. WeekOf(shifts', w, day) = 0
      BY <3>1, <3>2 DEF WeekOf
    <3> QED BY <2>1, <2>2, <3>3
  <2>4. CASE w # gone
    <3>1. Booked(shifts', w, day) = Booked(shifts, w, day)
      BY <1>2, <1>3, <2>4, NullIsNothing DEF Booked
    <3>2. /\ IsFiniteSet(Booked(shifts, w, day))
          /\ Booked(shifts, w, day) \subseteq DOMAIN shifts
      BY <1>1, FS_Subset DEF Booked, RowsOnGrid
    <3>3. HoursOf(shifts', Booked(shifts, w, day))
            = HoursOf(shifts, Booked(shifts, w, day))
      BY <1>3, <3>2, HoursSame
    <3>4. WeekOf(shifts', w, day) = WeekOf(shifts, w, day)
      BY <3>1, <3>3 DEF WeekOf
    <3> QED BY <2>1, <2>2, <3>4
  <2> QED BY <2>3, <2>4
<1>6. GivesWithin
  BY <1>5 DEF GivesWithin
<1> QED BY <1>1, <1>4, <1>6, FreeWithin

-----------------------------------------------------------------------------
\* Nobody asks for hours at the start.
LEMMA InitWithin ==
  ASSUME NEW P, HoursOnGrid(P), Init
  PROVE  WithinInv(P)
<1>1. RowsOnGrid(P, shifts)
  BY DEF Init, HoursOnGrid, RowsOnGrid, Forward, Roots
<1>2. \A i \in Slots : frames[i] = Idle
  BY DEF Init
<1> QED BY <1>1, <1>2, IdleWithin DEF WithinInv

\* Every step; and no step changes both the limits and the table.
LEMMA NextWithin ==
  ASSUME Serial, NEW P, HoursOnGrid(P), Inv, WithinInv(P), [Next]_vars
  PROVE  /\ WithinInv(P)' /\ GivesWithin
         /\ details' = details \/ shifts' = shifts
<1>1. P \subseteq Int
  BY DEF HoursOnGrid
<1>2. CASE \E i \in Slots : Continue(i)
  <2>1. details' = details
    BY <1>2 DEF Continue, ReadSettings, ReadHours, FileOverflow, TakeOpen,
       LogAudit, ApproveRelease, ApproveRead, ApproveDeny, ApproveFinish,
       InsertMiss, NextBlock, SplitRead, SplitTail, SplitHead, SplitPut,
       InsertTemplate, GenerateShift
  <2> QED BY <1>1, <1>2, <2>1, ContinueWithin
<1>3. CASE \E i \in Slots : Arrive(i)
  <2>1. details' = details
    BY <1>3 DEF Arrive, Pick, RequestMiss, RequestOverflow, Cancel, Approve,
       Deny, Close, Unassign, Assign, AssignList, AddWeekly
  <2> QED BY <1>3, <2>1, ArriveWithin
<1>4. CASE \E i \in Slots : Abort(i)
  <2>1. PICK i \in Slots : Abort(i)
    BY <1>4
  <2>2. /\ shifts' = shifts /\ details' = details
        /\ frames' = [frames EXCEPT ![i] = Idle]
    BY <2>1 DEF Abort, Done, Goto
  <2> QED BY <1>1, <2>2, IdleWithin, ReadsOnly
<1>5. CASE \E m \in Managers, n \in NewShifts : CreateShift(m, n)
  <2>1. details' = details
    BY <1>5 DEF CreateShift
  <2> QED BY <1>5, <2>1, CreateShiftWithin
<1>6. CASE \E w \in Workers, d \in NewDetails : SetWorkerDetails(w, d)
  <2>1. shifts' = shifts
    BY <1>6 DEF SetWorkerDetails
  <2> QED BY <1>1, <1>6, <2>1, SetWorkerDetailsWithin
<1>7. CASE \E w \in Deletable : DeleteUser(w)
  <2>1. details' = details /\ Deletable \subseteq Workers
    BY <1>7, InputsOK DEF DeleteUser
  <2> QED BY <1>1, <1>7, <2>1, DeleteUserWithin
<1>8. CASE UNCHANGED vars
  <2>1. shifts' = shifts /\ details' = details /\ frames' = frames
    BY <1>8 DEF vars
  <2>2. GivesWithin /\ RowsOnGrid(P, shifts')
    BY <1>1, <2>1, SameGives
  <2>3. WithinInv(P)'
    BY <2>1 DEF WithinInv
  <2> QED BY <2>1, <2>2, <2>3
<1> QED BY <1>2, <1>3, <1>4, <1>5, <1>6, <1>7, <1>8 DEF Next

-----------------------------------------------------------------------------
\* Whatever the mix of requests and wherever their clients cut them off, a
\* handler that is to hand out hours does so below the limit that its worker
\* has now: what allowanceFor allowed still fits (worker.go:87).
THEOREM WithinHolds ==
  ASSUME Serial, NEW P, HoursOnGrid(P)
  PROVE  Spec => []WithinInv(P)
<1>1. Init => WithinInv(P)
  BY InitWithin
<1>2. Inv /\ WithinInv(P) /\ [Next]_vars => WithinInv(P)'
  BY NextWithin
<1> QED BY <1>1, <1>2, InvHolds, PTL DEF Spec

\* No pick, assignment, split, approval or template, after whatever releases,
\* deletions and changes of classification, takes a worker over the weekly cap,
\* for any tables, staff, week and times on a grid (worker.go:17).
THEOREM NobodyOverTheCap ==
  ASSUME Serial, NEW P, HoursOnGrid(P)
  PROVE  Spec => HoursRiseWithinCap
<1>1. Inv /\ WithinInv(P) /\ [Next]_vars =>
        [\A w \in Workers, monday \in Mondays :
           WeekHours(w, monday)' > WeekHours(w, monday)
             => WeekHours(w, monday)' <= Cap(details'[w])]_vars
  <2> SUFFICES ASSUME Inv, WithinInv(P), [Next]_vars,
                      NEW w \in Workers, NEW monday \in Mondays,
                      WeekHours(w, monday)' > WeekHours(w, monday)
               PROVE  WeekHours(w, monday)' <= Cap(details'[w])
    OBVIOUS
  <2>1. GivesWithin /\ WithinInv(P)' /\ (details' = details \/ shifts' = shifts)
    BY NextWithin
  <2>2. /\ WeekHours(w, monday)' = WeekOf(shifts', w, monday)
        /\ WeekHours(w, monday) = WeekOf(shifts, w, monday)
    BY WeekHoursIs
  <2>3. /\ \A v, d : WeekOf(shifts, v, d) \in Nat
        /\ \A v, d : WeekOf(shifts', v, d) \in Nat
    <3>1. /\ P \subseteq Int /\ RowsOnGrid(P, shifts) /\ RowsOnGrid(P, shifts')
      BY <2>1 DEF HoursOnGrid, WithinInv
    <3> QED BY <3>1, GridRows
  <2>4. /\ WeekOf(shifts, w, monday) \in Nat /\ WeekOf(shifts', w, monday) \in Nat
    BY <2>3
  <2>5. details' = details
    BY <2>1, <2>2, <2>4
  <2>6. PICK i \in Slots :
          WeekHours(w, monday)' <= Limit(details[w], frames[i].op)
    BY <2>1 DEF GivesWithin
  <2>7. details[w] \in AllDetails
    BY DEF Inv, OthersOK
  <2>8. /\ Limit(details[w], frames[i].op) \in Int /\ Cap(details[w]) \in Int
        /\ Limit(details[w], frames[i].op) <= Cap(details[w])
    BY <2>7, Verdict
  <2> QED BY <2>2, <2>4, <2>5, <2>6, <2>8
<1> QED BY <1>1, WithinHolds, InvHolds, PTL DEF Spec, HoursRiseWithinCap

\* Where no weekly template is added, hours past the regular ones come from a
\* manager's approval of that worker's request only (worker.go:72-74).  With
\* templates the code breaks this, as run wq_template_overtime shows.
THEOREM OnlyApprovalsGiveOvertime ==
  ASSUME Serial, NEW P, HoursOnGrid(P), Templates = {}
  PROVE  Spec => OvertimeNeedsApproval
<1>1. Inv /\ WithinInv(P) /\ [Next]_vars =>
        [\A w \in Workers, monday \in Mondays :
           /\ WeekHours(w, monday)' > WeekHours(w, monday)
           /\ WeekHours(w, monday)' > Regular(details[w])
           => \E i \in Slots : /\ frames[i].pc = "take"
                               /\ frames[i].op = "approve"
                               /\ frames[i].worker = w]_vars
  <2> SUFFICES ASSUME Inv, WithinInv(P), [Next]_vars,
                      NEW w \in Workers, NEW monday \in Mondays,
                      WeekHours(w, monday)' > WeekHours(w, monday),
                      WeekHours(w, monday)' > Regular(details[w])
               PROVE  \E i \in Slots : /\ frames[i].pc = "take"
                                       /\ frames[i].op = "approve"
                                       /\ frames[i].worker = w
    OBVIOUS
  <2>1. GivesWithin /\ WithinInv(P)'
    BY NextWithin
  <2>2. PICK i \in Slots :
          /\ frames[i].worker = w
          /\ frames[i].pc \in {"take", "put", "generate"}
          /\ WeekHours(w, monday)' <= Limit(details[w], frames[i].op)
    BY <2>1 DEF GivesWithin
  <2>3. /\ OpAtPc(frames[i].op, frames[i].pc)
        /\ Within(P, shifts, details, frames[i])
    BY AskFrame
  <2>4. frames[i].op # "weekly"
    BY <2>3 DEF Within
  <2>5. CASE frames[i].op = "approve"
    <3>1. frames[i].pc = "take"
      BY <2>2, <2>3, <2>5 DEF OpAtPc, Splits
    <3> QED BY <2>2, <2>5, <3>1
  <2>6. CASE frames[i].op # "approve"
    <3>1. Limit(details[w], frames[i].op) = Regular(details[w])
      BY <2>4, <2>6 DEF Limit
    <3>2. WeekHours(w, monday)' \in Int
      <4>1. P \subseteq Int /\ RowsOnGrid(P, shifts')
        BY <2>1 DEF HoursOnGrid, WithinInv
      <4>2. \A v, d : WeekOf(shifts', v, d) \in Nat
        BY <4>1, GridRows
      <4>3. WeekHours(w, monday)' = WeekOf(shifts', w, monday)
        BY WeekHoursIs
      <4>4. WeekOf(shifts', w, monday) \in Nat
        BY <4>2
      <4> QED BY <4>3, <4>4
    <3>3. Regular(details[w]) \in Int
      <4>1. details[w] \in AllDetails
        BY DEF Inv, OthersOK
      <4> QED BY <4>1, Verdict
    <3> QED BY <2>2, <3>1, <3>2, <3>3
  <2> QED BY <2>5, <2>6
<1> QED BY <1>1, WithinHolds, InvHolds, PTL DEF Spec, OvertimeNeedsApproval
=============================================================================
