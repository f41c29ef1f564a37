----------------------------- MODULE NicFileLemmas -----------------------------
(***************************************************************************)
(* What the operators of NicConfigFile compute, for data of every size:    *)
(* the ends of the items, the string that is read, the filter of a list.   *)
(*                                                                         *)
(* An induction is an argument by the least counterexample (LeastNatural): *)
(* the natural numbers are well-founded.                                   *)
(***************************************************************************)
EXTENDS NicConfigFile, WellFoundedInduction, TLAPS

-------------------------------------------------------------------------------
(* Least and greatest numbers *)

\* A set of natural numbers that is not empty has a least element.
LEMMA LeastNatural ==
    ASSUME NEW T, T \subseteq Nat, T # {}
    PROVE  \E x \in T : \A y \in T : x <= y
<1>1. PICK x \in T : \A y \in T : <<y, x>> \notin OpToRel(<, Nat)
    BY WFMin, NatLessThanWellFounded
<1>2. \A y \in T : ~ (y < x)
    BY <1>1 DEF OpToRel
<1> QED BY <1>2

\* Induction up to n, and from a to b.
LEMMA UpTo ==
    ASSUME NEW n \in Nat, NEW G, 0 \in G, \A i \in 1..n : (i - 1 \in G) => (i \in G)
    PROVE  \A i \in 0..n : i \in G
<1> DEFINE T == {m \in 0..n : m \notin G}
<1>1. T = {}
    <2> SUFFICES ASSUME T # {} PROVE FALSE
        OBVIOUS
    <2>1. PICK m \in T : \A k \in T : m <= k
        <3>1. T \subseteq Nat
            OBVIOUS
        <3> HIDE DEF T
        <3> QED BY <3>1, LeastNatural
    <2>2. m \in 0..n /\ m \notin G
        BY <2>1
    <2>3. m \in 1..n /\ m - 1 \in 0..n /\ ~ (m <= m - 1)
        BY <2>2
    <2>4. m - 1 \in G
        BY <2>1, <2>3
    <2>5. (m - 1 \in G) => (m \in G)
        <3> HIDE DEF T
        <3> QED BY <2>3
    <2> QED BY <2>2, <2>4, <2>5
<1> QED BY <1>1

LEMMA Through ==
    ASSUME NEW a \in Int, NEW b \in Int, a <= b, NEW G,
           a \in G, \A i \in (a + 1)..b : (i - 1 \in G) => (i \in G)
    PROVE  \A i \in a..b : i \in G
<1> DEFINE H == {m \in 0..(b - a) : a + m \in G}
<1>1. b - a \in Nat /\ 0 \in H
    OBVIOUS
<1>2. ASSUME NEW m \in 1..(b - a), m - 1 \in H PROVE m \in H
    <2>1. a + (m - 1) \in G
        BY <1>2
    <2>2. a + m \in (a + 1)..b /\ (a + m) - 1 = a + (m - 1) /\ m \in 0..(b - a)
        OBVIOUS
    <2>3. ((a + m) - 1 \in G) => (a + m \in G)
        BY <2>2
    <2> QED BY <2>1, <2>2, <2>3
<1>3. \A m \in 0..(b - a) : m \in H
    <2> HIDE DEF H
    <2> QED BY <1>1, <1>2, UpTo
<1> SUFFICES ASSUME NEW i \in a..b PROVE i \in G
    OBVIOUS
<1>4. i - a \in 0..(b - a) /\ a + (i - a) = i
    OBVIOUS
<1>5. i - a \in H
    BY <1>3, <1>4
<1> QED BY <1>4, <1>5

\* Sums of positive numbers go up by one at least from each to the next.
LEMMA SumsGrow ==
    ASSUME NEW a \in Int, NEW b \in Int, a <= b, NEW e, NEW c, e[a] \in Int,
           \A i \in (a + 1)..b : e[i] = e[i - 1] + c[i] /\ c[i] \in Nat \ {0}
    PROVE  /\ \A i \in a..b : e[i] \in Int
           /\ \A i, j \in a..b : i <= j => e[j] >= e[i] + (j - i)
<1>1. \A i \in a..b : e[i] \in Int
    <2> DEFINE G == {i \in a..b : e[i] \in Int}
    <2>1. a \in G
        OBVIOUS
    <2>2. ASSUME NEW i \in (a + 1)..b, i - 1 \in G PROVE i \in G
        <3>1. e[i - 1] \in Int /\ i \in a..b
            BY <2>2
        <3>2. e[i] = e[i - 1] + c[i] /\ c[i] \in Nat
            OBVIOUS
        <3> QED BY <3>1, <3>2
    <2>3. \A i \in a..b : i \in G
        <3> HIDE DEF G
        <3> QED BY <2>1, <2>2, Through
    <2> QED BY <2>3
<1>2. ASSUME NEW i \in a..b, NEW j \in a..b, i <= j PROVE e[j] >= e[i] + (j - i)
    <2> DEFINE G == {k \in i..b : e[k] >= e[i] + (k - i)}
    <2>0. i \in Int /\ i <= b /\ e[i] \in Int
        BY <1>1
    <2>1. i \in G
        BY <2>0
    <2>2. ASSUME NEW k \in (i + 1)..b, k - 1 \in G PROVE k \in G
        <3>1. k \in i..b /\ k \in (a + 1)..b /\ k \in a..b /\ k - 1 \in a..b /\ k \in Int
            BY <2>0
        <3>2. e[k] = e[k - 1] + c[k] /\ c[k] \in Nat \ {0}
            BY <3>1
        <3>3. e[k] \in Int /\ e[k - 1] \in Int
            BY <1>1, <3>1
        <3>4. e[k - 1] >= e[i] + ((k - 1) - i)
            BY <2>2
        <3>5. e[k] >= e[i] + (k - i)
            BY <2>0, <3>1, <3>2, <3>3, <3>4
        <3> QED BY <3>1, <3>5
    <2>3. \A k \in i..b : k \in G
        <3> HIDE DEF G
        <3> QED BY <2>0, <2>1, <2>2, Through
    <2>4. j \in i..b
        BY <1>2
    <2> QED BY <2>3, <2>4
<1> QED BY <1>1, <1>2

\* Min of numbers that have a lower bound.
LEMMA MinFacts ==
    ASSUME NEW T, T \subseteq Int, T # {}, NEW low \in Int, \A x \in T : low <= x
    PROVE  Min(T) \in T /\ \A x \in T : Min(T) <= x
<1> DEFINE D == {x - low : x \in T}
<1>1. D \subseteq Nat
    <2> SUFFICES ASSUME NEW x \in T PROVE x - low \in Nat
        OBVIOUS
    <2>1. x \in Int /\ low <= x
        OBVIOUS
    <2> QED BY <2>1
<1>2. D # {}
    OBVIOUS
<1>3. PICK d \in D : \A y \in D : d <= y
    <2> HIDE DEF D
    <2> QED BY <1>1, <1>2, LeastNatural
<1>4. PICK x \in T : d = x - low
    OBVIOUS
<1>5. \A y \in T : x <= y
    <2> SUFFICES ASSUME NEW y \in T PROVE x <= y
        OBVIOUS
    <2>1. y - low \in D
        OBVIOUS
    <2>2. x - low <= y - low /\ x \in Int /\ y \in Int
        BY <1>3, <1>4, <2>1
    <2> QED BY <2>2
<1> QED BY <1>5 DEF Min

\* Max of numbers that have an upper bound.
LEMMA MaxFacts ==
    ASSUME NEW T, T \subseteq Int, T # {}, NEW high \in Int, \A x \in T : x <= high
    PROVE  Max(T) \in T /\ \A x \in T : x <= Max(T)
<1> DEFINE D == {high - x : x \in T}
<1>1. D \subseteq Nat /\ D # {}
    OBVIOUS
<1>2. PICK d \in D : \A y \in D : d <= y
    <2> HIDE DEF D
    <2> QED BY <1>1, LeastNatural
<1>3. PICK x \in T : d = high - x
    OBVIOUS
<1>4. \A y \in T : y <= x
    <2> SUFFICES ASSUME NEW y \in T PROVE y <= x
        OBVIOUS
    <2>1. high - y \in D
        OBVIOUS
    <2> QED BY <1>2, <1>3, <2>1
<1> QED BY <1>4 DEF Max

-------------------------------------------------------------------------------
(* Where the items end *)

\* The recursion of Ends has its solution.
LEMMA EndsEquation ==
    ASSUME pos \in Nat \ {0}, Len(file) \in Nat, pos <= Len(file)
    PROVE  Ends = [i \in (pos - 1)..Len(file) |->
                      IF i < pos THEN - skip ELSE Ends[i - 1] + file[i].chars]
<1> DEFINE E(g, m) == [i \in (pos - 1)..m |->
                          IF i < pos THEN - skip ELSE g[i - 1] + file[i].chars]
           T == {m \in Nat : m >= pos - 1 /\ ~ \E g : g = E(g, m)}
<1>1. T = {}
    <2> SUFFICES ASSUME T # {} PROVE FALSE
        OBVIOUS
    <2>1. PICK m \in T : \A k \in T : m <= k
        <3> HIDE DEF T
        <3> QED BY LeastNatural DEF T
    <2>2. m \in Nat /\ m >= pos - 1 /\ ~ \E g : g = E(g, m)
        OBVIOUS
    <2>3. CASE m = pos - 1
        <3> DEFINE g0 == [i \in (pos - 1)..(pos - 1) |-> - skip]
        <3>1. g0 = E(g0, pos - 1)
            OBVIOUS
        <3> HIDE DEF E, g0
        <3> QED BY <2>2, <2>3, <3>1
    <2>4. CASE m # pos - 1
        <3>1. m - 1 \in Nat /\ m - 1 >= pos - 1 /\ m - 1 \notin T
            <4> HIDE DEF E
            <4> QED BY <2>1, <2>2, <2>4
        <3>2. PICK g : g = E(g, m - 1)
            <4> HIDE DEF E
            <4> QED BY <3>1
        <3> DEFINE h == [i \in (pos - 1)..m |->
                            IF i = m THEN g[m - 1] + file[m].chars ELSE g[i]]
        <3>3. \A i \in (pos - 1)..(m - 1) : h[i] = g[i]
            BY <2>2, <2>4
        <3>4. \A i \in (pos - 1)..(m - 1) :
                  g[i] = IF i < pos THEN - skip ELSE g[i - 1] + file[i].chars
            BY <3>2
        <3>5. ASSUME NEW i \in (pos - 1)..m
              PROVE  h[i] = IF i < pos THEN - skip ELSE h[i - 1] + file[i].chars
            <4>1. CASE i = m
                <5>1. ~ (i < pos) /\ m - 1 \in (pos - 1)..(m - 1) /\ h[i] = g[m - 1] + file[m].chars
                    BY <2>2, <2>4, <4>1
                <5> HIDE DEF h
                <5> QED BY <3>3, <4>1, <5>1
            <4>2. CASE i # m
                <5>1. i \in (pos - 1)..(m - 1)
                    BY <2>2, <4>2
                <5>2. i < pos \/ i - 1 \in (pos - 1)..(m - 1)
                    BY <5>1
                <5> HIDE DEF h
                <5> QED BY <3>3, <3>4, <5>1, <5>2
            <4> QED BY <4>1, <4>2
        <3>6. h = E(h, m)
            <4> DEFINE D == (pos - 1)..m
            <4>1. h = [i \in D |-> h[i]]
                OBVIOUS
            <4> HIDE DEF h
            <4> QED BY <3>5, <4>1
        <3> HIDE DEF E, h
        <3> QED BY <2>2, <3>6
    <2> QED BY <2>3, <2>4
<1>2. \E g : g = E(g, Len(file))
    <2> HIDE DEF E
    <2> QED BY <1>1
<1> QED BY <1>2 DEF Ends

\* Each item has characters, so the ends go up from the place of the reader.
LEMMA EndsFacts ==
    ASSUME pos \in Nat \ {0}, Len(file) \in Nat, pos <= Len(file), skip \in Nat,
           \A i \in 1..Len(file) : file[i].chars \in Nat \ {0}
    PROVE  /\ \A i \in (pos - 1)..Len(file) : Ends[i] \in Int
           /\ Ends[pos - 1] = - skip
           /\ \A i \in pos..Len(file) : Ends[i] = Ends[i - 1] + file[i].chars
           /\ \A i, j \in (pos - 1)..Len(file) : i <= j => Ends[j] >= Ends[i] + (j - i)
<1> DEFINE e == Ends
<1>1. /\ e[pos - 1] = - skip
      /\ \A i \in pos..Len(file) : e[i] = e[i - 1] + file[i].chars
    <2>1. e = [i \in (pos - 1)..Len(file) |->
                  IF i < pos THEN - skip ELSE e[i - 1] + file[i].chars]
        BY EndsEquation
    <2> HIDE DEF e
    <2>2. pos - 1 \in (pos - 1)..Len(file) /\ pos - 1 < pos
        OBVIOUS
    <2>3. e[pos - 1] = - skip
        BY <2>1, <2>2
    <2>4. ASSUME NEW i \in pos..Len(file) PROVE e[i] = e[i - 1] + file[i].chars
        <3>1. i \in (pos - 1)..Len(file) /\ ~ (i < pos)
            OBVIOUS
        <3> QED BY <2>1, <3>1
    <2> QED BY <2>3, <2>4
<1> HIDE DEF e
<1> DEFINE c == [i \in pos..Len(file) |-> file[i].chars]
<1>2. \A i \in ((pos - 1) + 1)..Len(file) : e[i] = e[i - 1] + c[i] /\ c[i] \in Nat \ {0}
    <2> SUFFICES ASSUME NEW i \in pos..Len(file)
                 PROVE  e[i] = e[i - 1] + c[i] /\ c[i] \in Nat \ {0}
        OBVIOUS
    <2>1. c[i] = file[i].chars /\ i \in 1..Len(file)
        OBVIOUS
    <2>2. c[i] \in Nat \ {0}
        BY <2>1
    <2> HIDE DEF c
    <2> QED BY <1>1, <2>1, <2>2
<1> HIDE DEF c
<1>3. pos - 1 \in Int /\ Len(file) \in Int /\ pos - 1 <= Len(file) /\ e[pos - 1] \in Int
    BY <1>1
<1>4. /\ \A i \in (pos - 1)..Len(file) : e[i] \in Int
      /\ \A i, j \in (pos - 1)..Len(file) : i <= j => e[j] >= e[i] + (j - i)
    BY <1>2, <1>3, SumsGrow
<1> QED BY <1>1, <1>4 DEF e

-------------------------------------------------------------------------------
(* One string of the reader *)

\* The reader stands within an item.
Standing ==
    /\ pos \in Nat \ {0} /\ Len(file) \in Nat /\ pos <= Len(file)
    /\ \A i \in 1..Len(file) : /\ file[i].chars \in 1..(Buffer - 1)
                               /\ file[i].lf \in BOOLEAN /\ file[i].cr \in BOOLEAN
    /\ skip \in Nat /\ skip < file[pos].chars

\* The end of the item is ahead, and what is ahead goes up from there.
LEMMA StandingFacts ==
    ASSUME Standing
    PROVE  /\ Ends[pos] \in Nat \ {0} /\ Ends[pos] = file[pos].chars - skip
           /\ \A i \in pos..Len(file) : Ends[i] \in Nat /\ Ends[i] >= Ends[pos] + (i - pos)
           /\ \A i, j \in pos..Len(file) : i < j => Ends[i] < Ends[j]
<1>1. /\ \A i \in (pos - 1)..Len(file) : Ends[i] \in Int
      /\ Ends[pos - 1] = - skip
      /\ \A i \in pos..Len(file) : Ends[i] = Ends[i - 1] + file[i].chars
      /\ \A i, j \in (pos - 1)..Len(file) : i <= j => Ends[j] >= Ends[i] + (j - i)
    <2>1. \A i \in 1..Len(file) : file[i].chars \in Nat \ {0}
        BY BufferAssumption DEF Standing
    <2> QED BY <2>1, EndsFacts DEF Standing
<1>2. pos \in pos..Len(file) /\ pos \in (pos - 1)..Len(file) /\ pos \in 1..Len(file)
    BY DEF Standing
<1>3. Ends[pos] = - skip + file[pos].chars
    BY <1>1, <1>2
<1>4. Ends[pos] \in Nat \ {0} /\ Ends[pos] = file[pos].chars - skip
    <2>1. file[pos].chars \in Nat /\ skip \in Nat /\ skip < file[pos].chars
        BY <1>2, BufferAssumption DEF Standing
    <2> HIDE DEF Ends
    <2> QED BY <1>3, <2>1
<1>5. ASSUME NEW i \in pos..Len(file), NEW j \in pos..Len(file)
      PROVE  Ends[i] \in Int /\ (i <= j => Ends[j] >= Ends[i] + (j - i))
    BY <1>1, <1>5, <1>2 DEF Standing
<1>6. ASSUME NEW i \in pos..Len(file)
      PROVE  Ends[i] \in Nat /\ Ends[i] >= Ends[pos] + (i - pos)
    <2>1. pos \in Nat /\ Len(file) \in Nat /\ pos \in pos..Len(file) /\ pos <= i
        BY DEF Standing
    <2>2. Ends[i] \in Int /\ Ends[i] >= Ends[pos] + (i - pos)
        BY <1>5, <2>1
    <2>3. i - pos \in Nat /\ Ends[pos] \in Nat
        BY <1>4, <2>1
    <2> QED BY <2>2, <2>3
<1>7. ASSUME NEW i \in pos..Len(file), NEW j \in pos..Len(file), i < j
      PROVE  Ends[i] < Ends[j]
    BY <1>5, <1>7 DEF Standing
<1> QED BY <1>4, <1>6, <1>7

\* What fgetws could reach are the items from the reader on, up to the last one that
\* begins before the buffer is full.
LEMMA AheadFacts ==
    ASSUME Standing
    PROVE  LET ahead == Ahead(Ends)
           IN  /\ pos \in ahead /\ ahead \subseteq pos..Len(file)
               /\ Max(ahead) \in ahead /\ \A i \in ahead : i <= Max(ahead)
               /\ \A i \in ahead : i + 1 \in pos..Len(file) =>
                      i + 1 \in ahead \/ Ends[i] >= Buffer - 1
<1> DEFINE ahead == Ahead(Ends)
           e == Ends
           lim == Min({Len(file), pos + Buffer})
<1>1. /\ lim \in {Len(file), pos + Buffer} /\ lim <= Len(file) /\ lim <= pos + Buffer
      /\ lim \in Nat /\ pos <= lim
    <2> DEFINE T == {Len(file), pos + Buffer}
    <2>1. T \subseteq Int /\ T # {} /\ 0 \in Int /\ \A x \in T : 0 <= x
        BY BufferAssumption DEF Standing
    <2>2. Min(T) \in T /\ \A x \in T : Min(T) <= x
        <3> HIDE DEF T
        <3> QED BY <2>1, MinFacts
    <2> QED BY <2>2, BufferAssumption DEF Standing
<1>2. ahead = {i \in pos..lim : e[i - 1] < Buffer - 1}
    BY DEF Ahead
<1>3. e[pos - 1] = - skip /\ \A i \in pos..Len(file) : e[i] \in Nat /\ e[i] >= e[pos] + (i - pos)
    <2>1. \A i \in 1..Len(file) : file[i].chars \in Nat \ {0}
        BY BufferAssumption DEF Standing
    <2> QED BY <2>1, EndsFacts, StandingFacts DEF Standing
<1>4. e[pos] \in Nat \ {0}
    BY StandingFacts
<1> HIDE DEF lim, e, ahead
<1>5. ahead \subseteq pos..Len(file) /\ pos \in ahead
    <2>1. ahead \subseteq pos..Len(file)
        BY <1>1, <1>2 DEF Standing
    <2>2. pos \in pos..lim /\ - skip < Buffer - 1
        BY <1>1, BufferAssumption DEF Standing
    <2> QED BY <1>2, <1>3, <2>1, <2>2
<1>6. Max(ahead) \in ahead /\ \A i \in ahead : i <= Max(ahead)
    <2>1. ahead \subseteq Int /\ ahead # {} /\ (\A x \in ahead : x <= Len(file)) /\ Len(file) \in Int
        BY <1>5 DEF Standing
    <2> QED BY <2>1, MaxFacts
<1>7. ASSUME NEW i \in ahead, i + 1 \in pos..Len(file), e[i] < Buffer - 1
      PROVE  i + 1 \in ahead
    <2>1. i \in pos..lim /\ i + 1 - 1 = i /\ i \in pos..Len(file)
        BY <1>2, <1>5
    <2>2. i + 1 <= lim
        <3>1. CASE lim = Len(file)
            BY <1>7, <3>1
        <3>2. CASE lim = pos + Buffer
            <4>1. e[i] \in Nat /\ e[i] >= e[pos] + (i - pos)
                BY <1>3, <2>1
            <4>2. i # lim
                <5>1. /\ pos \in Nat /\ Buffer \in Nat /\ e[pos] \in Nat /\ e[pos] >= 1
                      /\ e[i] < Buffer - 1
                    BY <1>4, <1>7, BufferAssumption DEF Standing
                <5>2. SUFFICES ASSUME i = pos + Buffer PROVE FALSE
                    BY <3>2
                <5>3. i - pos = Buffer
                    BY <5>1, <5>2
                <5> QED BY <4>1, <5>1, <5>3
            <4> QED BY <1>1, <2>1, <4>2 DEF Standing
        <3> QED BY <1>1, <3>1, <3>2
    <2>3. i + 1 \in pos..lim
        BY <1>1, <1>7, <2>2 DEF Standing
    <2> QED BY <1>2, <1>7, <2>1, <2>3
<1>8. \A i \in ahead : i + 1 \in pos..Len(file) => i + 1 \in ahead \/ e[i] >= Buffer - 1
    <2> SUFFICES ASSUME NEW i \in ahead, i + 1 \in pos..Len(file), i + 1 \notin ahead
                 PROVE  e[i] >= Buffer - 1
        OBVIOUS
    <2>1. i \in pos..Len(file)
        BY <1>5
    <2>2. e[i] \in Nat
        BY <1>3, <2>1
    <2>3. ~ (e[i] < Buffer - 1)
        BY <1>7
    <2>4. Buffer \in Nat
        BY BufferAssumption
    <2> QED BY <2>2, <2>3, <2>4
<1> QED BY <1>5, <1>6, <1>8 DEF ahead, e

\* The string has a character, fits the buffer, and goes over no "\n"; it reaches the
\* end of the item when the reader stands at its start.
LEMMA CharsFacts ==
    ASSUME Standing
    PROVE  LET ahead == Ahead(Ends)
               chars == Chars(Ends, ahead)
           IN  /\ chars \in 1..(Buffer - 1)
               /\ chars <= Ends[Max(ahead)]
               /\ \A i \in ahead : file[i].lf => chars <= Ends[i]
               /\ skip = 0 => chars >= Ends[pos]
<1> DEFINE ahead == Ahead(Ends)
           e == Ends
           T == {Buffer - 1, e[Max(ahead)]} \cup {e[i] : i \in {j \in ahead : file[j].lf}}
<1>1. pos \in ahead /\ ahead \subseteq pos..Len(file) /\ Max(ahead) \in ahead
    BY AheadFacts
<1>2. /\ e[pos] \in Nat \ {0} /\ e[pos] = file[pos].chars - skip
      /\ \A i \in pos..Len(file) : e[i] \in Nat /\ e[i] >= e[pos]
    <2>1. /\ e[pos] \in Nat \ {0} /\ e[pos] = file[pos].chars - skip
          /\ \A i \in pos..Len(file) : e[i] \in Nat /\ e[i] >= e[pos] + (i - pos)
        BY StandingFacts
    <2>2. \A i \in pos..Len(file) : i - pos \in Nat
        BY DEF Standing
    <2> HIDE DEF e
    <2> QED BY <2>1, <2>2
<1>3. Chars(Ends, ahead) = Min(T)
    BY DEF Chars
<1> HIDE DEF e, ahead
<1>4. \A x \in T : x = Buffer - 1 \/ \E i \in ahead : x = e[i]
    BY <1>1
<1>5. T \subseteq Nat /\ T # {} /\ \A x \in T : 1 <= x
    <2>1. ASSUME NEW x \in T PROVE x \in Nat /\ 1 <= x
        <3>1. CASE x = Buffer - 1
            BY <3>1, BufferAssumption
        <3>2. CASE \E i \in ahead : x = e[i]
            <4>1. PICK i \in ahead : x = e[i]
                BY <3>2
            <4>2. e[i] \in Nat /\ e[i] >= e[pos]
                BY <1>1, <1>2
            <4> QED BY <1>2, <4>1, <4>2
        <3> QED BY <1>4, <3>1, <3>2
    <2>2. Buffer - 1 \in T
        OBVIOUS
    <2> HIDE DEF T
    <2> QED BY <2>1, <2>2
<1>6. Min(T) \in T /\ \A x \in T : Min(T) <= x
    <2>1. T \subseteq Int /\ T # {} /\ 1 \in Int /\ \A x \in T : 1 <= x
        BY <1>5
    <2> HIDE DEF T
    <2> QED BY <2>1, MinFacts
<1>7. /\ Buffer - 1 \in T /\ e[Max(ahead)] \in T
      /\ \A i \in ahead : file[i].lf => e[i] \in T
    OBVIOUS
<1>8. skip = 0 => \A x \in T : x >= e[pos]
    <2> SUFFICES ASSUME skip = 0, NEW x \in T PROVE x >= e[pos]
        OBVIOUS
    <2>1. e[pos] = file[pos].chars /\ file[pos].chars \in 1..(Buffer - 1)
        BY <1>2, BufferAssumption DEF Standing
    <2>2. CASE x = Buffer - 1
        BY <2>1, <2>2, BufferAssumption
    <2>3. CASE \E i \in ahead : x = e[i]
        BY <1>1, <1>2, <2>3
    <2> QED BY <1>4, <2>2, <2>3
<1> HIDE DEF T
<1>9. Min(T) \in 1..(Buffer - 1)
    <2>1. Min(T) \in Nat /\ 1 <= Min(T) /\ Min(T) <= Buffer - 1
        BY <1>5, <1>6, <1>7
    <2> QED BY <2>1, BufferAssumption
<1>10. Min(T) <= e[Max(ahead)] /\ \A i \in ahead : file[i].lf => Min(T) <= e[i]
    BY <1>6, <1>7
<1>11. skip = 0 => Min(T) >= e[pos]
    BY <1>6, <1>8
<1> QED BY <1>3, <1>9, <1>10, <1>11 DEF e, ahead

\* The reader goes on, to a place within an item or at the end of the file.
LEMMA ConsumeFacts ==
    ASSUME Standing, Consume(Ends, Ahead(Ends), Chars(Ends, Ahead(Ends)))
    PROVE  /\ pos' \in pos..(Len(file) + 1)
           /\ skip' \in 0..(Buffer - 1)
           /\ pos' <= Len(file) => skip' < file[pos'].chars
           /\ skip = 0 => pos' > pos
<1> DEFINE ahead == Ahead(Ends)
           e == Ends
           chars == Chars(Ends, Ahead(Ends))
           over == {i \in ahead : e[i] <= chars}
<1>1. /\ pos \in ahead /\ ahead \subseteq pos..Len(file)
      /\ \A i \in ahead : i + 1 \in pos..Len(file) => i + 1 \in ahead \/ e[i] >= Buffer - 1
    BY AheadFacts
<1>2. chars \in 1..(Buffer - 1) /\ (skip = 0 => chars >= e[pos])
    BY CharsFacts
<1>3. /\ e[pos] = file[pos].chars - skip /\ e[pos] \in Nat
      /\ \A i \in pos..Len(file) : e[i] \in Nat
      /\ \A i, j \in pos..Len(file) : i < j => e[i] < e[j]
    BY StandingFacts
<1>4. IF over = {} THEN pos' = pos /\ skip' = skip + chars
      ELSE pos' = Max(over) + 1 /\ skip' = chars - e[Max(over)]
    BY DEF Consume
<1>5. /\ pos \in Nat \ {0} /\ Len(file) \in Nat /\ pos <= Len(file) /\ skip \in Nat
      /\ file[pos].chars \in 1..(Buffer - 1) /\ Buffer \in Nat
      /\ \A i \in pos..Len(file) : file[i].chars \in 1..(Buffer - 1)
    BY BufferAssumption DEF Standing
<1> HIDE DEF ahead, e, chars
<1>6. CASE over = {}
    <2>1. ~ (e[pos] <= chars) /\ pos' = pos /\ skip' = skip + chars
        BY <1>1, <1>4, <1>6
    <2>2. skip' < file[pos].chars /\ skip # 0
        <3>1. /\ e[pos] = file[pos].chars - skip /\ e[pos] \in Nat
              /\ chars \in Nat /\ skip \in Nat /\ file[pos].chars \in Nat
            BY <1>2, <1>3, <1>5
        <3> QED BY <1>2, <2>1, <3>1
    <2> QED BY <1>2, <1>5, <2>1, <2>2
<1>7. CASE over # {}
    <2> DEFINE m == Max(over)
    <2>1. m \in over /\ \A i \in over : i <= m
        <3>1. \A x \in over : x \in pos..Len(file)
            BY <1>1
        <3>2. over \subseteq Int /\ Len(file) \in Int
            <4> HIDE DEF over
            <4> QED BY <1>5, <3>1
        <3>3. \A x \in over : x <= Len(file)
            <4> HIDE DEF over
            <4> QED BY <1>5, <3>1
        <3> HIDE DEF over
        <3> QED BY <1>7, <3>2, <3>3, MaxFacts
    <2>2. pos' = m + 1 /\ skip' = chars - e[m]
        BY <1>4, <1>7
    <2> HIDE DEF m
    <2>3. m \in pos..Len(file) /\ e[m] <= chars /\ e[m] \in Nat /\ m \in ahead
        BY <1>1, <1>3, <2>1
    <2>4. pos' \in pos..(Len(file) + 1) /\ pos' > pos
        BY <1>5, <2>2, <2>3
    <2>5. skip' \in 0..(Buffer - 1)
        BY <1>2, <1>5, <2>2, <2>3
    <2>6. pos' <= Len(file) => skip' < file[pos'].chars
        <3> SUFFICES ASSUME pos' <= Len(file) PROVE skip' < file[pos'].chars
            OBVIOUS
        <3>1. m + 1 \in pos..Len(file)
            BY <1>5, <2>2, <2>3
        <3>2. CASE m + 1 \in ahead
            <4>1. m + 1 \notin over
                BY <2>1, <2>3, <1>5
            <4>2. ~ (e[m + 1] <= chars)
                BY <3>2, <4>1
            <4>3. m \in pos..Len(file) /\ m + 1 - 1 = m
                BY <2>3, <1>5
            <4>4. e[m + 1] = e[m] + file[m + 1].chars
                <5>1. \A i \in 1..Len(file) : file[i].chars \in Nat \ {0}
                    BY BufferAssumption DEF Standing
                <5>2. \A i \in pos..Len(file) : Ends[i] = Ends[i - 1] + file[i].chars
                    BY <5>1, EndsFacts DEF Standing
                <5> QED BY <3>1, <4>3, <5>2 DEF e
            <4>5. file[m + 1].chars \in Nat /\ chars \in Nat
                BY <1>2, <1>5, <3>1
            <4> QED BY <2>2, <2>3, <4>2, <4>4, <4>5
        <3>3. CASE e[m] >= Buffer - 1
            <4>1. file[m + 1].chars \in 1..(Buffer - 1) /\ pos' = m + 1
                BY <1>5, <2>2, <3>1
            <4>2. chars - e[m] <= 0
                BY <1>2, <1>5, <2>3, <3>3
            <4>3. skip' <= 0 /\ file[pos'].chars >= 1 /\ file[pos'].chars \in Int
                BY <2>2, <4>1, <4>2
            <4> QED BY <1>5, <2>5, <4>3
        <3> QED BY <1>1, <2>3, <3>1, <3>2, <3>3
    <2> QED BY <2>4, <2>5, <2>6
<1> QED BY <1>6, <1>7

\* An item that stands by itself in the string: from its start, with its "\n" or as long
\* as a string can be, or the last one.  It is read, and nothing else is.
LEMMA AloneFacts ==
    ASSUME Standing, skip = 0,
           file[pos].lf \/ file[pos].chars = Buffer - 1 \/ pos = Len(file),
           \A i \in 1..Len(file) : file[i].lf => file[i].cr /\ file[i].chars > 1
    PROVE  LET ahead == Ahead(Ends)
               chars == Chars(Ends, ahead)
           IN  /\ Returned(Ends, ahead, chars) = {i \in {pos} : file[i].cr}
               /\ Consume(Ends, ahead, chars) => pos' = pos + 1 /\ skip' = 0
<1> DEFINE ahead == Ahead(Ends)
           e == Ends
           chars == Chars(Ends, Ahead(Ends))
           over == {i \in ahead : e[i] <= chars}
<1>1. /\ pos \in ahead /\ ahead \subseteq pos..Len(file) /\ Max(ahead) \in ahead
    BY AheadFacts
<1>2. /\ chars \in 1..(Buffer - 1) /\ chars >= e[pos] /\ chars <= e[Max(ahead)]
      /\ \A i \in ahead : file[i].lf => chars <= e[i]
    BY CharsFacts
<1>3. /\ e[pos] = file[pos].chars /\ e[pos] \in Nat \ {0}
      /\ \A i \in pos..Len(file) : e[i] \in Nat
      /\ \A i, j \in pos..Len(file) : i < j => e[i] < e[j]
    <2>1. file[pos].chars \in Nat
        BY BufferAssumption DEF Standing
    <2> QED BY <2>1, StandingFacts
<1>4. /\ Returned(Ends, ahead, chars) =
             {i \in ahead : file[i].cr /\ (IF file[i].lf THEN e[i] - 1 ELSE e[i]) \in 1..chars}
      /\ Consume(Ends, ahead, chars) =>
             IF over = {} THEN pos' = pos /\ skip' = skip + chars
             ELSE pos' = Max(over) + 1 /\ skip' = chars - e[Max(over)]
    BY DEF Returned, Consume
<1>5. /\ pos \in Nat \ {0} /\ Len(file) \in Nat /\ pos <= Len(file) /\ Buffer \in Nat
      /\ \A i \in pos..Len(file) : file[i].chars \in 1..(Buffer - 1)
      /\ \A i \in pos..Len(file) : file[i].lf => file[i].chars > 1
      /\ \A i \in pos..Len(file) : file[i].lf \in BOOLEAN
    BY BufferAssumption DEF Standing
<1>6. \A i \in (pos + 1)..Len(file) : e[i] = e[i - 1] + file[i].chars
    <2>1. \A i \in 1..Len(file) : file[i].chars \in Nat \ {0}
        BY BufferAssumption DEF Standing
    <2>2. \A i \in pos..Len(file) : Ends[i] = Ends[i - 1] + file[i].chars
        BY <2>1, EndsFacts DEF Standing
    <2> QED BY <1>5, <2>2
<1> HIDE DEF ahead, e, chars
<1>7. chars = e[pos]
    <2>1. CASE file[pos].lf
        BY <1>1, <1>2, <1>3, <2>1
    <2>2. CASE file[pos].chars = Buffer - 1
        BY <1>2, <1>3, <1>5, <2>2
    <2>3. CASE pos = Len(file)
        <3>1. Max(ahead) = pos
            <4>1. Max(ahead) \in pos..pos
                BY <1>1, <2>3
            <4> QED BY <1>5, <4>1
        <3> QED BY <1>2, <1>3, <3>1
    <2> QED BY <2>1, <2>2, <2>3
<1>8. ASSUME NEW i \in ahead, i # pos
      PROVE  (IF file[i].lf THEN e[i] - 1 ELSE e[i]) > chars
    <2>1. i \in (pos + 1)..Len(file) /\ i - 1 \in pos..Len(file) /\ i \in pos..Len(file)
        BY <1>1, <1>5, <1>8
    <2>2. e[i - 1] >= e[pos] /\ e[i - 1] \in Nat
        <3>1. CASE i - 1 = pos
            BY <1>3, <3>1
        <3>2. CASE i - 1 # pos
            <4>1. pos < i - 1 /\ pos \in pos..Len(file)
                BY <1>5, <2>1, <3>2
            <4> QED BY <1>3, <2>1, <4>1
        <3> QED BY <3>1, <3>2
    <2>3. e[i] = e[i - 1] + file[i].chars /\ file[i].chars \in Nat /\ file[i].chars > 0
        BY <1>5, <1>6, <2>1
    <2>4. file[i].lf => file[i].chars > 1
        BY <1>5, <2>1
    <2> QED BY <1>3, <1>7, <2>2, <2>3, <2>4
<1>9. (IF file[pos].lf THEN e[pos] - 1 ELSE e[pos]) \in 1..chars
    <2>1. file[pos].lf => e[pos] > 1
        BY <1>3, <1>5
    <2> QED BY <1>3, <1>7, <2>1
<1>10. Returned(Ends, ahead, chars) = {i \in {pos} : file[i].cr}
    <2>1. \A i \in ahead : (IF file[i].lf THEN e[i] - 1 ELSE e[i]) \in 1..chars <=> i = pos
        <3>1. chars \in Nat
            BY <1>2, <1>5
        <3> QED BY <1>8, <1>9, <3>1
    <2> QED BY <1>1, <1>4, <2>1
<1>11. Consume(Ends, ahead, chars) => pos' = pos + 1 /\ skip' = 0
    <2>1. over = {pos}
        <3>1. \A i \in ahead : e[i] <= chars <=> i = pos
            <4> SUFFICES ASSUME NEW i \in ahead PROVE e[i] <= chars <=> i = pos
                OBVIOUS
            <4>1. CASE i = pos
                BY <1>3, <1>7, <4>1
            <4>2. CASE i # pos
                <5>1. pos < i /\ i \in pos..Len(file) /\ pos \in pos..Len(file)
                    BY <1>1, <1>5, <4>2
                <5>2. e[pos] < e[i] /\ e[i] \in Nat
                    BY <1>3, <5>1
                <5> QED BY <1>3, <1>7, <4>2, <5>2
            <4> QED BY <4>1, <4>2
        <3> QED BY <1>1, <3>1
    <2>2. Max({pos}) = pos
        BY <1>5 DEF Max
    <2>3. chars - e[pos] = 0
        BY <1>3, <1>7
    <2> QED BY <1>4, <2>1, <2>2, <2>3
<1> QED BY <1>10, <1>11 DEF ahead, chars

-------------------------------------------------------------------------------
(* Filtering a list *)

\* What Only has kept of the first elements, for every number of them.
KeptBy(kept, s, S) ==
    /\ kept[0] = << >>
    /\ \A i \in 1..Len(s) :
           kept[i] = IF s[i] \in S THEN Append(kept[i - 1], s[i]) ELSE kept[i - 1]

LEMMA OnlyEquation ==
    ASSUME NEW s, NEW S, Len(s) \in Nat
    PROVE  \E kept : KeptBy(kept, s, S) /\ Only(s, S) = kept[Len(s)]
<1> DEFINE K(g, m) == [i \in 0..m |-> IF i = 0 THEN << >>
                                      ELSE IF s[i] \in S THEN Append(g[i - 1], s[i])
                                      ELSE g[i - 1]]
           T == {m \in Nat : ~ \E g : g = K(g, m)}
<1>1. T = {}
    <2> SUFFICES ASSUME T # {} PROVE FALSE
        OBVIOUS
    <2>1. PICK m \in T : \A k \in T : m <= k
        <3> HIDE DEF T
        <3> QED BY LeastNatural DEF T
    <2>2. m \in Nat /\ ~ \E g : g = K(g, m)
        OBVIOUS
    <2>3. CASE m = 0
        <3> DEFINE g0 == [i \in 0..0 |-> << >>]
        <3>1. g0 = K(g0, 0)
            OBVIOUS
        <3> HIDE DEF K, g0
        <3> QED BY <2>2, <2>3, <3>1
    <2>4. CASE m # 0
        <3>1. m - 1 \in Nat /\ m - 1 \notin T
            <4> HIDE DEF K
            <4> QED BY <2>1, <2>2, <2>4
        <3>2. PICK g : g = K(g, m - 1)
            <4> HIDE DEF K
            <4> QED BY <3>1
        <3> DEFINE new == IF s[m] \in S THEN Append(g[m - 1], s[m]) ELSE g[m - 1]
                   h == [i \in 0..m |-> IF i = m THEN new ELSE g[i]]
        <3>3. \A i \in 0..(m - 1) : h[i] = g[i]
            BY <2>2, <2>4
        <3>4. \A i \in 0..(m - 1) :
                  g[i] = IF i = 0 THEN << >>
                         ELSE IF s[i] \in S THEN Append(g[i - 1], s[i]) ELSE g[i - 1]
            BY <3>2
        <3>5. ASSUME NEW i \in 0..m
              PROVE  h[i] = IF i = 0 THEN << >>
                            ELSE IF s[i] \in S THEN Append(h[i - 1], s[i]) ELSE h[i - 1]
            <4>1. CASE i = m
                <5>1. i # 0 /\ m - 1 \in 0..(m - 1) /\ h[i] = new
                    BY <2>2, <2>4, <4>1
                <5> HIDE DEF h
                <5> QED BY <3>3, <4>1, <5>1
            <4>2. CASE i # m
                <5>1. i \in 0..(m - 1)
                    BY <2>2, <4>2
                <5>2. i = 0 \/ i - 1 \in 0..(m - 1)
                    BY <5>1
                <5> HIDE DEF h
                <5> QED BY <3>3, <3>4, <5>1, <5>2
            <4> QED BY <4>1, <4>2
        <3>6. h = K(h, m)
            <4> DEFINE D == 0..m
            <4>1. h = [i \in D |-> h[i]]
                OBVIOUS
            <4> HIDE DEF h
            <4> QED BY <3>5, <4>1
        <3> HIDE DEF K, h
        <3> QED BY <2>2, <3>6
    <2> QED BY <2>3, <2>4
<1>2. \E g : g = K(g, Len(s))
    <2> HIDE DEF K
    <2> QED BY <1>1
<1> DEFINE k == CHOOSE g : g = K(g, Len(s))
<1>3. k = K(k, Len(s))
    <2> HIDE DEF K
    <2> QED BY <1>2
<1>4. Only(s, S) = k[Len(s)]
    BY DEF Only
<1>5. KeptBy(k, s, S)
    <2> HIDE DEF k
    <2>1. k[0] = << >>
        BY <1>3
    <2>2. ASSUME NEW i \in 1..Len(s)
          PROVE  k[i] = IF s[i] \in S THEN Append(k[i - 1], s[i]) ELSE k[i - 1]
        <3>1. i \in 0..Len(s) /\ i # 0
            OBVIOUS
        <3> QED BY <1>3, <3>1
    <2> QED BY <2>1, <2>2 DEF KeptBy
<1> HIDE DEF k
<1> QED BY <1>4, <1>5

\* What is kept is a list of elements of the list.
LEMMA OnlyTyped ==
    ASSUME NEW V, NEW s \in Seq(V), NEW S, NEW kept, KeptBy(kept, s, S)
    PROVE  \A i \in 0..Len(s) : kept[i] \in Seq(V)
<1> DEFINE G == {i \in 0..Len(s) : kept[i] \in Seq(V)}
<1>1. 0 \in G
    <2>1. kept[0] = << >> /\ 0 \in 0..Len(s)
        BY DEF KeptBy
    <2>2. << >> \in Seq(V)
        OBVIOUS
    <2> QED BY <2>1, <2>2
<1>2. ASSUME NEW i \in 1..Len(s), i - 1 \in G PROVE i \in G
    <2>1. s[i] \in V /\ i \in 0..Len(s)
        OBVIOUS
    <2>2. kept[i] = Append(kept[i - 1], s[i]) \/ kept[i] = kept[i - 1]
        BY DEF KeptBy
    <2>3. kept[i - 1] \in Seq(V)
        BY <1>2
    <2>4. Append(kept[i - 1], s[i]) \in Seq(V)
        BY <2>1, <2>3
    <2>5. kept[i] \in Seq(V)
        BY <2>2, <2>3, <2>4
    <2> QED BY <2>1, <2>5
<1> HIDE DEF G
<1>3. Len(s) \in Nat
    OBVIOUS
<1>4. \A i \in 0..Len(s) : i \in G
    BY <1>1, <1>2, <1>3, UpTo
<1> QED BY <1>4 DEF G


\* Two lists with the same places to keep: what is kept is parallel too.
Alike(s, t, S) == Len(s) = Len(t) /\ \A j \in DOMAIN s : s[j] \in S <=> t[j] \in S

LEMMA OnlyParallel ==
    ASSUME NEW V, NEW s \in Seq(V), NEW t \in Seq(V), NEW S, Alike(s, t, S)
    PROVE  /\ Only(s, S) \in Seq(V) /\ Only(t, S) \in Seq(V)
           /\ Len(Only(s, S)) = Len(Only(t, S))
           /\ \A k \in DOMAIN Only(s, S) : \E j \in 1..Len(s) :
                  Only(s, S)[k] = s[j] /\ Only(t, S)[k] = t[j]
<1>0. Len(s) = Len(t) /\ \A j \in 1..Len(s) : s[j] \in S <=> t[j] \in S
    BY DEF Alike
<1> SUFFICES ASSUME NEW l \in Nat, Len(s) = l, Len(t) = l
             PROVE  /\ Only(s, S) \in Seq(V) /\ Only(t, S) \in Seq(V)
                    /\ Len(Only(s, S)) = Len(Only(t, S))
                    /\ \A k \in DOMAIN Only(s, S) : \E j \in 1..l :
                           Only(s, S)[k] = s[j] /\ Only(t, S)[k] = t[j]
    <2>1. Len(s) \in Nat
        OBVIOUS
    <2> HIDE DEF Alike
    <2> QED BY <1>0, <2>1
<1>1. l \in Nat
    OBVIOUS
<1>2. PICK u : KeptBy(u, s, S) /\ Only(s, S) = u[l]
    BY <1>1, OnlyEquation
<1>3. PICK w : KeptBy(w, t, S) /\ Only(t, S) = w[l]
    BY <1>1, OnlyEquation
<1>4. \A i \in 0..l : u[i] \in Seq(V) /\ w[i] \in Seq(V)
    BY <1>2, <1>3, OnlyTyped
<1> DEFINE Paired(i) == /\ Len(u[i]) = Len(w[i])
                        /\ \A k \in 1..Len(u[i]) : \E j \in 1..l :
                               u[i][k] = s[j] /\ w[i][k] = t[j]
           G == {i \in 0..l : Paired(i)}
<1>5. 0 \in G
    BY <1>1, <1>2, <1>3 DEF KeptBy
<1>6. ASSUME NEW i \in 1..l, i - 1 \in G PROVE i \in G
    <2>1. i \in 0..l /\ i - 1 \in 0..l /\ Paired(i - 1)
        <3>1. i \in 0..l /\ i - 1 \in 0..l
            BY <1>1
        <3> HIDE DEF Paired
        <3> QED BY <1>6, <3>1
    <2>2. /\ u[i] = IF s[i] \in S THEN Append(u[i - 1], s[i]) ELSE u[i - 1]
          /\ w[i] = IF t[i] \in S THEN Append(w[i - 1], t[i]) ELSE w[i - 1]
          /\ s[i] \in S <=> t[i] \in S
        BY <1>0, <1>1, <1>2, <1>3 DEF KeptBy
    <2>3. CASE s[i] \notin S
        BY <2>1, <2>2, <2>3
    <2>4. CASE s[i] \in S
        <3> DEFINE p == u[i - 1]
                   q == w[i - 1]
        <3>1. /\ p \in Seq(V) /\ q \in Seq(V) /\ Len(p) = Len(q)
              /\ s[i] \in V /\ t[i] \in V
            BY <1>4, <2>1
        <3>2. \A k \in 1..Len(p) : \E j \in 1..l : p[k] = s[j] /\ q[k] = t[j]
            BY <2>1
        <3>3. u[i] = Append(p, s[i]) /\ w[i] = Append(q, t[i])
            BY <2>2, <2>4
        <3> HIDE DEF p, q
        <3>4. /\ Len(u[i]) = Len(p) + 1 /\ Len(w[i]) = Len(q) + 1
              /\ u[i][Len(p) + 1] = s[i] /\ w[i][Len(p) + 1] = t[i]
              /\ \A k \in 1..Len(p) : u[i][k] = p[k] /\ w[i][k] = q[k]
              /\ Len(p) \in Nat
            BY <3>1, <3>3
        <3>5. ASSUME NEW k \in 1..Len(u[i])
              PROVE  \E j \in 1..l : u[i][k] = s[j] /\ w[i][k] = t[j]
            <4>1. k \in 1..Len(p) \/ k = Len(p) + 1
                BY <3>4
            <4> QED BY <3>2, <3>4, <4>1
        <3> QED BY <2>1, <3>1, <3>4, <3>5
    <2> QED BY <2>3, <2>4
<1>7. \A i \in 0..l : i \in G
    <2> HIDE DEF G
    <2> QED BY <1>1, <1>5, <1>6, UpTo
<1>8. Paired(l) /\ l \in 0..l
    BY <1>1, <1>7
<1>9. Only(s, S) \in Seq(V) /\ Only(t, S) \in Seq(V)
    BY <1>2, <1>3, <1>4, <1>8
<1>10. DOMAIN Only(s, S) = 1..Len(Only(s, S))
    BY <1>9
<1> QED BY <1>2, <1>3, <1>8, <1>9, <1>10

\* A list of one element.
LEMMA OnlyOne ==
    ASSUME NEW x, NEW S
    PROVE  Only(<< x >>, S) = IF x \in S THEN << x >> ELSE << >>
<1> DEFINE s == << x >>
<1>1. Len(s) = 1 /\ s[1] = x
    OBVIOUS
<1>2. PICK kept : KeptBy(kept, s, S) /\ Only(s, S) = kept[Len(s)]
    BY <1>1, OnlyEquation
<1>3. kept[0] = << >> /\ kept[1] = IF x \in S THEN Append(kept[0], x) ELSE kept[0]
    <2>1. /\ kept[0] = << >>
          /\ \A i \in 1..1 : kept[i] = IF s[i] \in S THEN Append(kept[i - 1], s[i])
                                                   ELSE kept[i - 1]
        BY <1>1, <1>2 DEF KeptBy
    <2>2. 1 \in 1..1 /\ 1 - 1 = 0
        OBVIOUS
    <2> HIDE DEF s
    <2> QED BY <1>1, <2>1, <2>2
<1>4. Append(<< >>, x) = << x >>
    OBVIOUS
<1> QED BY <1>1, <1>2, <1>3, <1>4

\* The last element, when it is kept, is the last that is kept.
LEMMA OnlyLast ==
    ASSUME NEW V, NEW s \in Seq(V), NEW S, s # << >>, s[Len(s)] \in S
    PROVE  /\ Only(s, S) \in Seq(V) /\ Only(s, S) # << >>
           /\ Only(s, S)[Len(Only(s, S))] = s[Len(s)]
<1>1. Len(s) \in 1..Len(s) /\ Len(s) \in Nat /\ s[Len(s)] \in V /\ Len(s) - 1 \in 0..Len(s)
    OBVIOUS
<1>2. PICK kept : KeptBy(kept, s, S) /\ Only(s, S) = kept[Len(s)]
    BY <1>1, OnlyEquation
<1>3. kept[Len(s) - 1] \in Seq(V)
    BY <1>1, <1>2, OnlyTyped
<1>4. Only(s, S) = Append(kept[Len(s) - 1], s[Len(s)])
    BY <1>1, <1>2 DEF KeptBy
<1> DEFINE p == kept[Len(s) - 1]
           v == s[Len(s)]
<1>5. /\ Append(p, v) \in Seq(V) /\ Append(p, v) # << >>
      /\ Append(p, v)[Len(Append(p, v))] = v
    <2>1. p \in Seq(V) /\ v \in V
        BY <1>1, <1>3
    <2> HIDE DEF p, v
    <2> QED BY <2>1
<1> QED BY <1>4, <1>5

\* The numbers up to n that are in S, in their order.
Rising(s) == \A i, j \in 1..Len(s) : i < j => s[i] < s[j]

Numbers(n) == [i \in 1..n |-> i]

LEMMA OnlyIdentity ==
    ASSUME NEW n \in Nat, NEW S, NEW o, o = Only(Numbers(n), S)
    PROVE  /\ o \in Seq(Nat) /\ Rising(o)
           /\ \A k \in 1..Len(o) : o[k] \in 1..n /\ o[k] \in S
           /\ \A v \in 1..n : v \in S => \E k \in 1..Len(o) : o[k] = v
<1> DEFINE s == [i \in 1..n |-> i]
<1>1. s \in Seq(Nat) /\ Len(s) = n /\ \A i \in 1..n : s[i] = i
    OBVIOUS
<1>2. PICK kept : KeptBy(kept, s, S) /\ o = kept[n]
    <2>1. o = Only(s, S)
        BY DEF Numbers
    <2> HIDE DEF s
    <2> QED BY <1>1, <2>1, OnlyEquation
<1>3. \A i \in 0..n : kept[i] \in Seq(Nat)
    <2> HIDE DEF s
    <2> QED BY <1>1, <1>2, OnlyTyped
<1>4. /\ kept[0] = << >>
      /\ \A i \in 1..n : kept[i] = IF i \in S THEN Append(kept[i - 1], i) ELSE kept[i - 1]
    <2> HIDE DEF s
    <2> QED BY <1>1, <1>2 DEF KeptBy
<1> DEFINE Good(p, i) == /\ Rising(p)
                         /\ \A k \in 1..Len(p) : p[k] \in 1..i /\ p[k] \in S
                         /\ \A v \in 1..i : v \in S => \E k \in 1..Len(p) : p[k] = v
           G == {i \in 0..n : Good(kept[i], i)}
<1>5. 0 \in G
    BY <1>4 DEF Rising
<1>6. ASSUME NEW i \in 1..n, i - 1 \in G PROVE i \in G
    <2>1. i \in 0..n /\ i - 1 \in 0..n /\ Good(kept[i - 1], i - 1)
        <3>1. i \in 0..n /\ i - 1 \in 0..n
            OBVIOUS
        <3> HIDE DEF Good
        <3> QED BY <1>6, <3>1
    <2>2. PICK p \in Seq(Nat) : p = kept[i - 1]
        BY <1>3, <2>1
    <2>3. Good(p, i - 1)
        BY <2>1, <2>2
    <2>4. /\ \A k \in 1..Len(p) : p[k] \in 1..(i - 1) /\ p[k] \in S
          /\ \A v \in 1..(i - 1) : v \in S => \E k \in 1..Len(p) : p[k] = v
          /\ Rising(p)
        BY <2>3
    <2>5. CASE i \notin S
        <3>1. kept[i] = p
            BY <1>4, <2>2, <2>5
        <3>2. \A v \in 1..i : v \in S => v \in 1..(i - 1)
            BY <2>5
        <3>3. \A k \in 1..Len(p) : p[k] \in 1..i
            BY <2>4
        <3>4. Good(p, i)
            BY <2>4, <3>2, <3>3
        <3> HIDE DEF Good
        <3> QED BY <2>1, <3>1, <3>4
    <2>6. CASE i \in S
        <3>1. kept[i] = Append(p, i)
            BY <1>4, <2>2, <2>6
        <3>2. PICK q : q = Append(p, i)
            OBVIOUS
        <3>3. /\ Len(p) \in Nat /\ Len(q) = Len(p) + 1 /\ q[Len(p) + 1] = i
              /\ \A k \in 1..Len(p) : q[k] = p[k]
              /\ \A k \in 1..Len(q) : k \in 1..Len(p) \/ k = Len(p) + 1
              /\ \A k \in 1..Len(p) : k \in 1..Len(q)
              /\ Len(p) + 1 \in 1..Len(q)
            BY <3>2
        <3>4. Rising(q)
            <4> SUFFICES ASSUME NEW k \in 1..Len(q), NEW m \in 1..Len(q), k < m
                         PROVE  q[k] < q[m]
                BY DEF Rising
            <4>1. CASE m \in 1..Len(p)
                <5>1. k \in 1..Len(p)
                    BY <3>3, <4>1
                <5> QED BY <2>4, <3>3, <4>1, <5>1 DEF Rising
            <4>2. CASE m = Len(p) + 1
                <5>1. k \in 1..Len(p)
                    BY <3>3, <4>2
                <5>2. p[k] \in 1..(i - 1)
                    BY <2>4, <5>1
                <5> QED BY <3>3, <4>2, <5>1, <5>2
            <4> QED BY <3>3, <4>1, <4>2
        <3>5. ASSUME NEW k \in 1..Len(q) PROVE q[k] \in 1..i /\ q[k] \in S
            <4>1. CASE k \in 1..Len(p)
                <5>1. p[k] \in 1..(i - 1) /\ p[k] \in S /\ q[k] = p[k]
                    BY <2>4, <3>3, <4>1
                <5> QED BY <5>1
            <4>2. CASE k = Len(p) + 1
                BY <2>6, <3>3, <4>2
            <4> QED BY <3>3, <4>1, <4>2
        <3>6. ASSUME NEW v \in 1..i, v \in S PROVE \E k \in 1..Len(q) : q[k] = v
            <4>1. CASE v = i
                BY <3>3, <4>1
            <4>2. CASE v # i
                <5>1. v \in 1..(i - 1)
                    BY <4>2
                <5>2. PICK k \in 1..Len(p) : p[k] = v
                    BY <2>4, <3>6, <5>1
                <5> QED BY <3>3, <5>2
            <4> QED BY <4>1, <4>2
        <3>7. Good(q, i)
            BY <3>4, <3>5, <3>6
        <3> HIDE DEF Good
        <3> QED BY <2>1, <3>1, <3>2, <3>7
    <2> QED BY <2>5, <2>6
<1>7. \A i \in 0..n : i \in G
    <2> HIDE DEF G
    <2> QED BY <1>5, <1>6, UpTo
<1>8. Good(kept[n], n) /\ kept[n] \in Seq(Nat)
    <2>1. n \in 0..n
        OBVIOUS
    <2> HIDE DEF Good
    <2> QED BY <1>3, <1>7, <2>1
<1> QED BY <1>2, <1>8

\* Rising lists of the same numbers are equal.
Covers(t, s) == \A i \in 1..Len(s) : \E j \in 1..Len(t) : t[j] = s[i]

LEMMA SameRange ==
    ASSUME NEW s \in Seq(Nat), NEW t \in Seq(Nat), Rising(s), Rising(t), Covers(t, s),
           Covers(s, t)
    PROVE  s = t
<1>1. /\ Len(s) \in Nat /\ Len(t) \in Nat
      /\ \A i \in 1..Len(s) : s[i] \in Nat /\ i \in Nat
      /\ \A j \in 1..Len(t) : t[j] \in Nat /\ j \in Nat
    <2>1. Len(s) \in Nat /\ Len(t) \in Nat
        OBVIOUS
    <2>2. \A i \in 1..Len(s) : s[i] \in Nat /\ i \in Nat
        OBVIOUS
    <2>3. \A j \in 1..Len(t) : t[j] \in Nat /\ j \in Nat
        OBVIOUS
    <2> QED BY <2>1, <2>2, <2>3
<1> DEFINE Same(i) == i <= Len(t) /\ s[i] = t[i]
           G == {i \in 0..Len(s) : \A k \in 1..i : Same(k)}
<1>2. 0 \in G
    BY <1>1
<1>3. ASSUME NEW i \in 1..Len(s), i - 1 \in G PROVE i \in G
    <2>1. i \in 0..Len(s) /\ \A k \in 1..(i - 1) : Same(k)
        <3>1. i \in 0..Len(s)
            BY <1>1
        <3> HIDE DEF Same
        <3> QED BY <1>3, <3>1
    <2>2. PICK j \in 1..Len(t) : t[j] = s[i]
        BY DEF Covers
    <2>3. ~ (j < i)
        <3> SUFFICES ASSUME j < i PROVE FALSE
            OBVIOUS
        <3>1. j \in 1..(i - 1) /\ j \in 1..Len(s)
            BY <1>1
        <3>2. s[j] = t[j]
            BY <2>1, <3>1
        <3>3. s[j] < s[i]
            BY <3>1 DEF Rising
        <3>4. s[i] \in Nat /\ s[j] = s[i]
            BY <1>1, <2>2, <3>2
        <3> QED BY <3>3, <3>4
    <2>4. i \in 1..Len(t)
        BY <1>1, <2>3
    <2>5. PICK m \in 1..Len(s) : s[m] = t[i]
        BY <2>4 DEF Covers
    <2>6. ~ (m < i)
        <3> SUFFICES ASSUME m < i PROVE FALSE
            OBVIOUS
        <3>1. m \in 1..(i - 1) /\ m \in 1..Len(t)
            BY <1>1, <2>4
        <3>2. s[m] = t[m]
            BY <2>1, <3>1
        <3>3. t[m] < t[i]
            BY <2>4, <3>1 DEF Rising
        <3>4. t[i] \in Nat /\ t[m] = t[i]
            BY <1>1, <2>4, <2>5, <3>2
        <3> QED BY <3>3, <3>4
    <2>7. s[i] = t[i]
        <3>1. CASE j = i
            BY <2>2, <3>1
        <3>2. CASE m = i
            BY <2>5, <3>2
        <3>3. CASE i < j /\ i < m
            <4>1. t[i] < t[j] /\ s[i] < s[m]
                BY <2>4, <3>3 DEF Rising
            <4>2. s[i] \in Nat /\ t[i] \in Nat /\ t[i] < s[i] /\ s[i] < t[i]
                BY <1>1, <2>2, <2>4, <2>5, <4>1
            <4> QED BY <4>2
        <3> QED BY <1>1, <2>3, <2>6, <3>1, <3>2, <3>3
    <2>8. Same(i)
        BY <1>1, <2>4, <2>7
    <2>9. \A k \in 1..i : k \in 1..(i - 1) \/ k = i
        BY <1>1
    <2> HIDE DEF Same
    <2> QED BY <2>1, <2>8, <2>9
<1>4. \A k \in 1..Len(s) : k \in 1..Len(t) /\ s[k] = t[k]
    <2>1. \A i \in 0..Len(s) : i \in G
        <3> HIDE DEF G
        <3> QED BY <1>1, <1>2, <1>3, UpTo
    <2>2. \A k \in 1..Len(s) : Same(k)
        <3>1. Len(s) \in 0..Len(s)
            BY <1>1
        <3> HIDE DEF Same
        <3> QED BY <2>1, <3>1
    <2> QED BY <1>1, <2>2
<1>5. Len(s) = Len(t)
    <2>1. Len(s) <= Len(t)
        BY <1>1, <1>4
    <2>2. ~ (Len(s) < Len(t))
        <3> SUFFICES ASSUME Len(s) < Len(t) PROVE FALSE
            OBVIOUS
        <3>1. Len(s) + 1 \in 1..Len(t)
            BY <1>1
        <3>2. PICK m \in 1..Len(s) : s[m] = t[Len(s) + 1]
            BY <3>1 DEF Covers
        <3>3. m \in 1..Len(t) /\ m < Len(s) + 1
            BY <1>1, <1>4
        <3>4. t[m] < t[Len(s) + 1]
            BY <3>1, <3>3 DEF Rising
        <3>5. t[m] = t[Len(s) + 1] /\ t[m] \in Nat
            BY <1>1, <1>4, <3>2, <3>3
        <3> QED BY <3>4, <3>5
    <2> QED BY <1>1, <2>1, <2>2
<1> QED BY <1>4, <1>5

\* No element, and the last one, end a list.
LEMMA SuffixFacts ==
    ASSUME NEW V, NEW c \in Seq(V)
    PROVE  /\ IsSuffix(<< >>, c)
           /\ c # << >> => IsSuffix(<< c[Len(c)] >>, c)
<1>1. Len(c) \in Nat
    OBVIOUS
<1>2. IsSuffix(<< >>, c)
    <2>1. Len(Reverse(<< >>)) = 0 /\ Len(Reverse(c)) = Len(c)
        BY <1>1 DEF Reverse
    <2>2. SubSeq(Reverse(<< >>), 1, 0) = SubSeq(Reverse(c), 1, 0)
        BY DEF Reverse
    <2> HIDE DEF Reverse
    <2> QED BY <1>1, <2>1, <2>2 DEF IsSuffix, IsPrefix
<1>3. ASSUME c # << >> PROVE IsSuffix(<< c[Len(c)] >>, c)
    <2> DEFINE a == Reverse(<< c[Len(c)] >>)
               b == Reverse(c)
    <2>1. Len(c) \in 1..Len(c) /\ c[Len(c)] \in V
        BY <1>3
    <2>2. a \in Seq(V) /\ Len(a) = 1 /\ a[1] = c[Len(c)]
        BY <2>1 DEF Reverse
    <2>3. b \in Seq(V) /\ Len(b) = Len(c) /\ b[1] = c[Len(c)]
        BY <2>1 DEF Reverse
    <2> HIDE DEF a, b
    <2>4. SubSeq(a, 1, 1) = SubSeq(b, 1, 1)
        BY <2>1, <2>2, <2>3
    <2> QED BY <1>1, <2>1, <2>2, <2>3, <2>4 DEF IsSuffix, IsPrefix, a, b
<1> QED BY <1>2, <1>3

\* A list whose every step goes up is rising.
LEMMA StepsRise ==
    ASSUME NEW s \in Seq(Nat), \A i \in 2..Len(s) : s[i - 1] < s[i]
    PROVE  Rising(s)
<1>1. Len(s) \in Nat /\ \A i \in 1..Len(s) : s[i] \in Nat
    OBVIOUS
<1> DEFINE G == {j \in 0..Len(s) : \A i \in 1..(j - 1) : s[i] < s[j]}
<1>2. 0 \in G
    BY <1>1
<1>3. ASSUME NEW j \in 1..Len(s), j - 1 \in G PROVE j \in G
    <2>1. j \in 0..Len(s) /\ \A i \in 1..((j - 1) - 1) : s[i] < s[j - 1]
        BY <1>1, <1>3
    <2> SUFFICES ASSUME NEW i \in 1..(j - 1) PROVE s[i] < s[j]
        BY <2>1
    <2>2. j - 1 \in 1..Len(s) /\ j \in 2..Len(s) /\ i \in 1..Len(s)
        BY <1>1
    <2>3. s[j - 1] < s[j]
        BY <2>2
    <2>4. i = j - 1 \/ i \in 1..((j - 1) - 1)
        BY <1>1
    <2>5. s[i] \in Nat /\ s[j] \in Nat /\ s[j - 1] \in Nat
        BY <1>1, <2>2
    <2>6. CASE i = j - 1
        BY <2>3, <2>6
    <2>7. CASE i \in 1..((j - 1) - 1)
        <3>1. s[i] < s[j - 1]
            BY <2>1, <2>7
        <3> HIDE DEF G
        <3> QED BY <2>3, <2>5, <3>1
    <2> QED BY <2>4, <2>6, <2>7
<1>4. \A j \in 0..Len(s) : j \in G
    <2> HIDE DEF G
    <2> QED BY <1>1, <1>2, <1>3, UpTo
<1> SUFFICES ASSUME NEW i \in 1..Len(s), NEW j \in 1..Len(s), i < j PROVE s[i] < s[j]
    BY DEF Rising
<1>5. j \in 0..Len(s) /\ i \in 1..(j - 1)
    BY <1>1
<1> QED BY <1>4, <1>5
===============================================================================
