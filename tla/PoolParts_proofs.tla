-------------------------- MODULE PoolParts_proofs --------------------------
(***************************************************************************)
(* The properties of two parts of the entity pool that share no state: of  *)
(* its hash maps, for any keys, values and hashes and for tables of any    *)
(* capacity, in part 1; of its world transforms, for any set of slots and  *)
(* of local transforms, in part 2.                                         *)
(*                                                                         *)
(* That a cached world transform is true cannot be seen from one entity    *)
(* and its parent: it takes the whole tree, and the product of transforms  *)
(* down a path.                                                            *)
(***************************************************************************)
EXTENDS HashMap, Transforms, FiniteSetTheorems, WellFoundedInduction, TLAPS
-----------------------------------------------------------------------------
(* Part 1: hash maps                                                       *)

Counting == INSTANCE SwapArrays_proofs

\* The remainder is the one number below the divisor that is left.
LEMMA OneRemainder ==
  ASSUME NEW L \in Nat, L > 0, NEW q \in Nat, NEW s \in 0..L-1
  PROVE  (L * q + s) % L = s
<1> DEFINE x == L * q + s
           d == x \div L
           t == x % L
<1>1. x \in Nat
  OBVIOUS
<1> HIDE DEF x
<1>2. d \in Nat /\ t \in 0..L-1 /\ x = L * d + t
  BY <1>1
<1> HIDE DEF d, t
<1>3. L * d + t = L * q + s
  BY <1>2 DEF x
<1>4. ASSUME d > q PROVE FALSE
  <2>1. PICK m \in Nat : d = q + 1 + m
    <3>1. d - q - 1 \in Nat /\ d = q + 1 + (d - q - 1)
      BY <1>2, <1>4
    <3> QED
      BY <3>1
  <2>2. L * d = L * q + L + L * m /\ L * m >= 0 /\ L * q \in Nat
    BY <2>1
  <2> QED
    BY <1>2, <1>3, <2>2
<1>5. ASSUME d < q PROVE FALSE
  <2>1. PICK m \in Nat : q = d + 1 + m
    <3>1. q - d - 1 \in Nat /\ q = d + 1 + (q - d - 1)
      BY <1>2, <1>5
    <3> QED
      BY <3>1
  <2>2. L * q = L * d + L + L * m /\ L * m >= 0 /\ L * d \in Nat
    BY <1>2, <2>1
  <2> QED
    BY <1>2, <1>3, <2>2
<1>6. d = q
  BY <1>2, <1>4, <1>5
<1>7. t = s
  <2>1. L * d = L * q /\ L * q \in Nat
    BY <1>6
  <2> QED
    BY <1>2, <1>3, <2>1
<1> QED
  BY <1>7 DEF t, x

\* Linear probing comes to every place of a table, and to no other.
LEMMA ProbesAll ==
  ASSUME NEW es, Len(es) \in Nat \ {0}, NEW k \in Key
  PROVE  /\ \A n \in Nat : Probe(es, k, n) \in 1..Len(es)
         /\ \A p \in 1..Len(es) : \E n \in 0..Len(es)-1 : Probe(es, k, n) = p
<1> DEFINE L == Len(es)
           h == Hash[k]
           r == h % L
           q == h \div L
           At(n) == (h + n) % L
<1>1. h \in Nat /\ L \in Nat /\ L > 0
  BY MapAssumption
<1> HIDE DEF L, h
<1>2. q \in Nat /\ r \in 0..L-1 /\ h = L * q + r
  BY <1>1
<1>3. \A n \in Nat : (h + n) % L \in 0..L-1
  BY <1>1
<1>4. ASSUME NEW p \in 1..L
      PROVE  \E n \in 0..L-1 : (h + n) % L = p - 1
  <2>1. CASE p - 1 >= r
    <3>1. p - 1 - r \in 0..L-1 /\ h + (p - 1 - r) = L * q + (p - 1)
      BY <1>1, <1>2, <2>1
    <3>2. (L * q + (p - 1)) % L = p - 1
      <4>1. p - 1 \in 0..L-1
        BY <1>1
      <4> QED
        BY <1>1, <1>2, <4>1, OneRemainder
    <3> QED
      BY <3>1, <3>2
  <2>2. CASE p - 1 < r
    <3>1. p - 1 - r + L \in 0..L-1 /\ h + (p - 1 - r + L) = L * (q + 1) + (p - 1)
      BY <1>1, <1>2, <2>2
    <3>2. (L * (q + 1) + (p - 1)) % L = p - 1
      <4>1. p - 1 \in 0..L-1 /\ q + 1 \in Nat
        BY <1>1, <1>2
      <4> QED
        BY <1>1, <4>1, OneRemainder
    <3> QED
      BY <3>1, <3>2
  <2> QED
    BY <1>1, <1>2, <2>1, <2>2
<1>5. /\ \A n : Probe(es, k, n) = 1 + At(n)
      /\ \A n \in Nat : At(n) \in 0..L-1
      /\ \A p \in 1..L : \E n \in 0..L-1 : At(n) = p - 1
  BY <1>3, <1>4 DEF Probe, L, h
<1> HIDE DEF At
<1>6. \A n \in Nat : Probe(es, k, n) \in 1..L
  <2> TAKE n \in Nat
  <2>1. At(n) \in 0..L-1
    BY <1>5
  <2>2. 1 + At(n) \in 1..L
    BY <1>1, <2>1
  <2> QED
    BY <1>5, <2>2
<1>7. \A p \in 1..L : \E n \in 0..L-1 : Probe(es, k, n) = p
  <2> TAKE p \in 1..L
  <2>1. PICK n \in 0..L-1 : At(n) = p - 1
    BY <1>5
  <2>2. Probe(es, k, n) = p
    BY <1>1, <1>5, <2>1
  <2> QED
    BY <2>2
<1> QED
  BY <1>6, <1>7 DEF L

-----------------------------------------------------------------------------
(* Tables                                                                   *)

Pair == Key \X Value

IsTable(es) == es \in Seq(Pair \cup {Empty, Deleted}) /\ Len(es) \in Nat \ {0}

\* A search for k comes to place p at its n-th step.
Reaches(es, k, p, n) ==
  /\ Probe(es, k, n) = p
  /\ \A m \in 0..n-1 : es[Probe(es, k, m)] \notin Holding(k) \cup {Empty}

\* No key is beyond an empty entry.
Findable(es) ==
  \A p \in Occupied(es) : \E n \in 0..Len(es)-1 : Reaches(es, es[p][1], p, n)

OneOfEach(es) == \A p, q \in Occupied(es) : es[p][1] = es[q][1] => p = q

GoodTable(es) == IsTable(es) /\ Findable(es) /\ OneOfEach(es)

HasEmpty(es) == \E p \in 1..Len(es) : es[p] = Empty

Holds(es, k, v) == \E p \in 1..Len(es) : es[p] = <<k, v>>

LEMMA Pairs ==
  /\ Empty \notin Pair /\ Deleted \notin Pair /\ Empty # Deleted
  /\ \A x \in Pair : x = <<x[1], x[2]>> /\ x[1] \in Key /\ x[2] \in Value
  /\ \A k \in Key : \A x : x \in Holding(k) <=> x \in Pair /\ x[1] = k
  /\ \A k \in Key, v \in Value : <<k, v>> \in Pair /\ <<k, v>>[1] = k /\ <<k, v>>[2] = v
  /\ \A k, v, j, w : <<k, v>> = <<j, w>> <=> k = j /\ v = w
  BY MapAssumption DEF Pair, Holding

LEMMA OccupiedIs ==
  ASSUME NEW es, IsTable(es)
  PROVE  /\ \A p : p \in Occupied(es) <=> p \in 1..Len(es) /\ es[p] \in Pair
         /\ \A p \in 1..Len(es) : es[p] \in Pair \/ es[p] = Empty \/ es[p] = Deleted
         /\ Len(es) \in Nat \ {0}
<1>1. DOMAIN es = 1..Len(es)
  BY DEF IsTable
<1> QED
  BY <1>1 DEF IsTable, Occupied, Pair

\* A search that meets a wanted entry ends there, and one that does not has
\* none before the first empty entry.
LEMMA FirstMetIs ==
  ASSUME NEW es, IsTable(es), NEW k \in Key, NEW wanted
  PROVE  /\ FirstMet(es, k, wanted) # 0 =>
              /\ FirstMet(es, k, wanted) \in 1..Len(es)
              /\ es[FirstMet(es, k, wanted)] \in wanted
              /\ \E n \in 0..Len(es)-1 :
                   /\ Probe(es, k, n) = FirstMet(es, k, wanted)
                   /\ \A m \in 0..n-1 : es[Probe(es, k, m)] \notin wanted \cup {Empty}
         /\ FirstMet(es, k, wanted) = 0 =>
              \A n \in 0..Len(es)-1 :
                (\A m \in 0..n-1 : es[Probe(es, k, m)] \notin wanted \cup {Empty})
                  => es[Probe(es, k, n)] \notin wanted
<1> DEFINE Met == { n \in 0..Len(es)-1 :
                      /\ es[Probe(es, k, n)] \in wanted
                      /\ \A m \in 0..n-1 : es[Probe(es, k, m)] \notin wanted \cup {Empty} }
           first == CHOOSE n \in Met : TRUE
<1>1. FirstMet(es, k, wanted) = IF Met = {} THEN 0 ELSE Probe(es, k, first)
  BY DEF FirstMet
<1>2. \A n \in 0..Len(es)-1 : Probe(es, k, n) \in 1..Len(es)
  <2>1. Len(es) \in Nat \ {0}
    BY DEF IsTable
  <2>2. \A n \in 0..Len(es)-1 : n \in Nat
    BY <2>1
  <2> QED
    BY <2>1, <2>2, ProbesAll
<1>3. Met # {} => first \in Met
  OBVIOUS
<1>4. 0 \notin 1..Len(es)
  OBVIOUS
<1>5. CASE Met = {}
  BY <1>1, <1>5
<1>6. CASE Met # {}
  <2>1. FirstMet(es, k, wanted) = Probe(es, k, first) /\ first \in Met
    BY <1>1, <1>3, <1>6
  <2> HIDE DEF first
  <2> QED
    BY <1>2, <1>4, <2>1
<1> QED
  BY <1>5, <1>6

\* A search for an empty entry, or for others as well, finds one if there is
\* an empty entry anywhere.
LEMMA EmptyIsMet ==
  ASSUME NEW es, IsTable(es), HasEmpty(es), NEW k \in Key, NEW wanted, Empty \in wanted
  PROVE  FirstMet(es, k, wanted) # 0
<1> DEFINE Less == { p \in Nat \X Nat : p[1] < p[2] }
           Hits == { n \in 0..Len(es)-1 : es[Probe(es, k, n)] \in wanted }
<1>1. Hits # {} /\ Hits \subseteq Nat
  <2>1. PICK p \in 1..Len(es) : es[p] = Empty
    BY DEF HasEmpty
  <2>2. PICK n \in 0..Len(es)-1 : Probe(es, k, n) = p
    BY ProbesAll DEF IsTable
  <2> QED
    BY <2>1, <2>2
<1>2. IsWellFoundedOn(Less, Nat)
  BY NatLessThanWellFounded, Zenon DEF OpToRel
<1>3. PICK n \in Hits : \A m \in Hits : ~(<<m, n>> \in Less)
  <2> HIDE DEF Hits, Less
  <2> QED
    BY <1>1, <1>2, WFMin
<1>4. \A m \in 0..n-1 : m \in 0..Len(es)-1 /\ m \notin Hits
  <2>1. \A m \in 0..n-1 : <<m, n>> \in Less /\ m \in 0..Len(es)-1
    BY <1>3 DEF IsTable
  <2> QED
    BY <1>3, <2>1
<1>5. \A m \in 0..n-1 : es[Probe(es, k, m)] \notin wanted \cup {Empty}
  BY <1>4
<1> QED
  BY <1>3, <1>5, FirstMetIs

\* A search for a key finds it, and what it finds is that key.
LEMMA FindIs ==
  ASSUME NEW es, GoodTable(es), NEW k \in Key
  PROVE  /\ Find(es, k) # 0 => Find(es, k) \in 1..Len(es) /\ es[Find(es, k)] \in Holding(k)
         /\ Find(es, k) = 0 => \A p \in 1..Len(es) : es[p] \notin Holding(k)
<1>1. IsTable(es) /\ Findable(es)
  BY DEF GoodTable
<1>2. Find(es, k) # 0 => Find(es, k) \in 1..Len(es) /\ es[Find(es, k)] \in Holding(k)
  BY <1>1, FirstMetIs DEF Find
<1>3. ASSUME Find(es, k) = 0, NEW p \in 1..Len(es), es[p] \in Holding(k) PROVE FALSE
  <2>1. es[p] \in Pair /\ es[p][1] = k /\ p \in Occupied(es)
    BY <1>1, <1>3, Pairs, OccupiedIs
  <2>2. PICK n \in 0..Len(es)-1 : Reaches(es, k, p, n)
    BY <1>1, <2>1 DEF Findable
  <2> QED
    BY <1>1, <1>3, <2>2, FirstMetIs DEF Find, Reaches
<1> QED
  BY <1>2, <1>3

\* Where set writes k: over k, or, when k is not there, over a tombstone or an
\* empty entry that a search for k comes to.
LEMMA PlaceIs ==
  ASSUME NEW es, GoodTable(es), HasEmpty(es), NEW k \in Key
  PROVE  /\ Place(es, k) \in 1..Len(es)
         /\ \/ es[Place(es, k)] \in Holding(k)
            \/ /\ es[Place(es, k)] \in {Empty, Deleted}
               /\ \A p \in 1..Len(es) : es[p] \notin Holding(k)
               /\ \E n \in 0..Len(es)-1 :
                    /\ Reaches(es, k, Place(es, k), n)
                    /\ \A m \in 0..n-1 : Probe(es, k, m) # Place(es, k)
<1>1. IsTable(es)
  BY DEF GoodTable
<1>2. CASE Find(es, k) # 0
  BY <1>2, FindIs DEF Place
<1>3. CASE Find(es, k) = 0
  <2> DEFINE w == {Empty, Deleted}
  <2>1. FirstMet(es, k, {Empty}) # 0 /\ FirstMet(es, k, w) # 0
    BY <1>1, EmptyIsMet
  <2>2. Place(es, k) = FirstMet(es, k, w)
    BY <1>3, <2>1 DEF Place
  <2>3. \A p \in 1..Len(es) : es[p] \notin Holding(k)
    BY <1>3, FindIs
  <2> HIDE DEF w
  <2>4. Place(es, k) \in 1..Len(es) /\ es[Place(es, k)] \in w
    BY <1>1, <2>1, <2>2, FirstMetIs
  <2>5. PICK n \in 0..Len(es)-1 :
          /\ Probe(es, k, n) = Place(es, k)
          /\ \A m \in 0..n-1 : es[Probe(es, k, m)] \notin w \cup {Empty}
    BY <1>1, <2>1, <2>2, FirstMetIs
  <2>6. \A m \in 0..n-1 : Probe(es, k, m) \in 1..Len(es)
    <3>1. Len(es) \in Nat \ {0}
      BY <1>1 DEF IsTable
    <3>2. \A m \in 0..n-1 : m \in Nat
      BY <3>1
    <3> QED
      BY <3>1, <3>2, ProbesAll
  <2>7. Reaches(es, k, Place(es, k), n)
    BY <2>3, <2>5, <2>6 DEF Reaches
  <2>8. \A m \in 0..n-1 : Probe(es, k, m) # Place(es, k)
    BY <2>4, <2>5
  <2> QED
    BY <2>3, <2>4, <2>7, <2>8 DEF w
<1> QED
  BY <1>2, <1>3

\* What a table holds once <<k, v>> is written at place p.
WroteIn(es, after, p, k, v) ==
  /\ GoodTable(after) /\ Len(after) = Len(es)
  /\ Occupied(after) = Occupied(es) \cup {p}
  /\ \A j \in Key, w \in Value :
       Holds(after, j, w) <=> IF j = k THEN w = v ELSE Holds(es, j, w)

\* A key written at its place: everything is found as before, and the key.
LEMMA WriteKeeps ==
  ASSUME NEW es, GoodTable(es), HasEmpty(es), NEW k \in Key, NEW v \in Value,
         NEW after, after = [es EXCEPT ![Place(es, k)] = <<k, v>>]
  PROVE  WroteIn(es, after, Place(es, k), k, v)
<1> DEFINE at == Place(es, k)
<1>1. IsTable(es) /\ Findable(es) /\ OneOfEach(es)
  BY DEF GoodTable
<1>2. /\ at \in 1..Len(es)
      /\ es[at] \in Holding(k) \/
           /\ es[at] \in {Empty, Deleted}
           /\ \A p \in 1..Len(es) : es[p] \notin Holding(k)
           /\ \E n \in 0..Len(es)-1 :
                /\ Reaches(es, k, at, n)
                /\ \A m \in 0..n-1 : Probe(es, k, m) # at
  BY PlaceIs
<1>3. <<k, v>> \in Pair
  BY Pairs
<1> HIDE DEF at
<1>4. IsTable(after) /\ Len(after) = Len(es)
      /\ \A p \in 1..Len(es) : after[p] = IF p = at THEN <<k, v>> ELSE es[p]
  BY <1>1, <1>2, <1>3 DEF IsTable, at
<1>5. \A p \in 1..Len(es) : p # at => es[p] \notin Holding(k)
  <2> TAKE p \in 1..Len(es)
  <2> HAVE p # at
  <2>1. CASE es[at] \in Holding(k)
    BY <1>1, <1>2, <2>1, Pairs, OccupiedIs DEF OneOfEach
  <2>2. CASE es[at] \notin Holding(k)
    BY <1>2, <2>2
  <2> QED
    BY <2>1, <2>2
<1>6. Occupied(after) = Occupied(es) \cup {at}
  <2>1. \A p : p \in Occupied(after) <=> p \in 1..Len(es) /\ after[p] \in Pair
    BY <1>4, OccupiedIs
  <2>2. \A p : p \in Occupied(es) <=> p \in 1..Len(es) /\ es[p] \in Pair
    BY <1>1, OccupiedIs
  <2>3. \A p : p \in Occupied(after) <=> p \in Occupied(es) \/ p = at
    BY <1>2, <1>3, <1>4, <2>1, <2>2
  <2> QED
    BY <2>3
<1>7. \E n \in 0..Len(es)-1 :
        Reaches(es, k, at, n) /\ \A m \in 0..n-1 : Probe(es, k, m) # at
  <2>1. CASE es[at] \in Holding(k)
    <3>1. at \in Occupied(es) /\ es[at][1] = k
      BY <1>1, <1>2, <2>1, Pairs, OccupiedIs
    <3> QED
      BY <1>1, <2>1, <3>1 DEF Findable, Reaches
  <2> QED
    BY <1>2, <2>1
<1>8. ASSUME NEW j \in Key, NEW p \in 1..Len(es), NEW n \in 0..Len(es)-1,
             Reaches(es, j, p, n), \A m \in 0..n-1 : Probe(es, j, m) = at => j # k
      PROVE  Reaches(after, j, p, n)
  <2>1. \A i \in Nat : Probe(after, j, i) = Probe(es, j, i)
    BY <1>4 DEF Probe
  <2>2. n \in Nat /\ \A m \in 0..n-1 : m \in Nat
    BY <1>1 DEF IsTable
  <2>3. \A m \in Nat : Probe(es, j, m) \in 1..Len(es)
    BY <1>1, ProbesAll DEF IsTable
  <2>4. ASSUME NEW m \in 0..n-1
        PROVE  after[Probe(es, j, m)] \notin Holding(j) \cup {Empty}
    <3> DEFINE here == Probe(es, j, m)
    <3>1. here \in 1..Len(es) /\ es[here] \notin Holding(j) \cup {Empty}
      BY <1>8, <2>2, <2>3 DEF Reaches
    <3> HIDE DEF here
    <3>2. CASE here # at
      BY <1>4, <3>1, <3>2 DEF here
    <3>3. CASE here = at /\ j # k
      <4>1. after[here] = <<k, v>>
        BY <1>4, <3>1, <3>3
      <4> QED
        BY <1>3, <3>3, <4>1, Pairs DEF here
    <3> QED
      BY <1>8, <3>2, <3>3 DEF here
  <2> QED
    BY <1>8, <2>1, <2>2, <2>4 DEF Reaches
<1>9. Findable(after)
  <2> SUFFICES ASSUME NEW p \in Occupied(after)
               PROVE  \E n \in 0..Len(es)-1 : Reaches(after, after[p][1], p, n)
    BY <1>4 DEF Findable
  <2>1. CASE p = at
    <3>1. after[p][1] = k
      BY <1>2, <1>4, <2>1, Pairs
    <3> QED
      BY <1>2, <1>7, <1>8, <2>1, <3>1
  <2>2. CASE p # at
    <3>1. p \in Occupied(es) /\ p \in 1..Len(es) /\ after[p] = es[p] /\ es[p] \in Pair
      BY <1>1, <1>4, <1>6, <2>2, OccupiedIs
    <3>2. es[p][1] # k /\ es[p][1] \in Key
      BY <1>5, <2>2, <3>1, Pairs
    <3>3. PICK n \in 0..Len(es)-1 : Reaches(es, es[p][1], p, n)
      BY <1>1, <3>1 DEF Findable
    <3>4. Reaches(after, es[p][1], p, n)
      BY <1>8, <3>1, <3>2, <3>3
    <3> QED
      BY <3>1, <3>4
  <2> QED
    BY <2>1, <2>2
<1>10. OneOfEach(after)
  <2> SUFFICES ASSUME NEW p \in Occupied(after), NEW q \in Occupied(after),
                      after[p][1] = after[q][1], p # q
               PROVE  FALSE
    BY DEF OneOfEach
  <2>1. \A i \in Occupied(after) :
          /\ i = at => after[i][1] = k
          /\ i # at => i \in Occupied(es) /\ after[i] = es[i] /\ es[i][1] # k
    <3> TAKE i \in Occupied(after)
    <3>1. i = at => after[i][1] = k
      BY <1>2, <1>4, Pairs
    <3>2. ASSUME i # at
          PROVE  i \in Occupied(es) /\ i \in 1..Len(es) /\ es[i] \in Pair /\ after[i] = es[i]
      BY <1>1, <1>4, <1>6, <3>2, OccupiedIs
    <3>3. i # at => es[i][1] # k
      BY <1>5, <3>2, Pairs
    <3> QED
      BY <3>1, <3>2, <3>3
  <2> QED
    BY <1>1, <2>1 DEF OneOfEach
<1>11. ASSUME NEW j \in Key, NEW w \in Value
       PROVE  Holds(after, j, w) <=> IF j = k THEN w = v ELSE Holds(es, j, w)
  <2>1. CASE j = k
    <3>1. \A p \in 1..Len(es) : after[p] = <<k, w>> <=> p = at /\ w = v
      BY <1>2, <1>4, <1>5, Pairs
    <3> QED
      BY <1>2, <1>4, <2>1, <3>1 DEF Holds
  <2>2. CASE j # k
    <3>1. \A p \in 1..Len(es) : after[p] = <<j, w>> <=> p # at /\ es[p] = <<j, w>>
      BY <1>4, <2>2, Pairs
    <3>2. es[at] # <<j, w>>
      <4> SUFFICES ASSUME es[at] = <<j, w>> PROVE FALSE
        OBVIOUS
      <4>1. es[at] \in Pair /\ es[at][1] = j
        BY Pairs
      <4>2. es[at] \in Holding(k) => es[at][1] = k
        BY Pairs
      <4>3. es[at] \notin {Empty, Deleted}
        BY <4>1, Pairs
      <4> QED
        BY <1>2, <2>2, <4>1, <4>2, <4>3
    <3> QED
      BY <1>4, <2>2, <3>1, <3>2 DEF Holds
  <2> QED
    BY <2>1, <2>2
<1> QED
  BY <1>4, <1>6, <1>9, <1>10, <1>11 DEF GoodTable, WroteIn, at

\* What a table holds once the entry of k at place p is a tombstone.
ErasedIn(es, after, p, k) ==
  /\ GoodTable(after) /\ Len(after) = Len(es)
  /\ p \in Occupied(es) /\ Occupied(after) = Occupied(es) \ {p}
  /\ \A j \in Key, w \in Value : Holds(after, j, w) <=> j # k /\ Holds(es, j, w)

\* A key that is removed: everything else is found as before.
LEMMA EraseKeeps ==
  ASSUME NEW es, GoodTable(es), NEW k \in Key, Find(es, k) # 0,
         NEW after, after = [es EXCEPT ![Find(es, k)] = Deleted]
  PROVE  ErasedIn(es, after, Find(es, k), k)
<1> DEFINE at == Find(es, k)
<1>1. IsTable(es) /\ Findable(es) /\ OneOfEach(es)
  BY DEF GoodTable
<1>2. at \in 1..Len(es) /\ es[at] \in Holding(k)
  BY FindIs
<1> HIDE DEF at
<1>3. at \in Occupied(es) /\ es[at][1] = k
  BY <1>1, <1>2, Pairs, OccupiedIs
<1>4. IsTable(after) /\ Len(after) = Len(es)
      /\ \A p \in 1..Len(es) : after[p] = IF p = at THEN Deleted ELSE es[p]
  BY <1>1, <1>2 DEF IsTable, at
<1>5. Occupied(after) = Occupied(es) \ {at}
  <2>1. \A p : p \in Occupied(after) <=> p \in 1..Len(es) /\ after[p] \in Pair
    BY <1>4, OccupiedIs
  <2>2. \A p : p \in Occupied(es) <=> p \in 1..Len(es) /\ es[p] \in Pair
    BY <1>1, OccupiedIs
  <2>3. \A p : p \in Occupied(after) <=> p \in Occupied(es) /\ p # at
    <3>1. Deleted \notin Pair
      BY Pairs
    <3> QED
      BY <1>2, <1>4, <2>1, <2>2, <3>1
  <2> QED
    BY <2>3
<1>6. \A p \in Occupied(after) :
        p \in Occupied(es) /\ p \in 1..Len(es) /\ after[p] = es[p] /\ es[p] \in Pair
  BY <1>1, <1>4, <1>5, OccupiedIs
<1>7. ASSUME NEW j \in Key, NEW p, NEW n \in 0..Len(es)-1, Reaches(es, j, p, n)
      PROVE  Reaches(after, j, p, n)
  <2>1. \A i \in Nat : Probe(after, j, i) = Probe(es, j, i)
    BY <1>4 DEF Probe
  <2>2. n \in Nat /\ \A m \in 0..n-1 : m \in Nat
    BY <1>1 DEF IsTable
  <2>3. \A m \in Nat : Probe(es, j, m) \in 1..Len(es)
    BY <1>1, ProbesAll DEF IsTable
  <2>4. \A m \in 0..n-1 : after[Probe(es, j, m)] \notin Holding(j) \cup {Empty}
    BY <1>4, <1>7, <2>2, <2>3, Pairs DEF Reaches
  <2> QED
    BY <1>7, <2>1, <2>2, <2>4 DEF Reaches
<1>8. Findable(after)
  <2> SUFFICES ASSUME NEW p \in Occupied(after)
               PROVE  \E n \in 0..Len(after)-1 : Reaches(after, after[p][1], p, n)
    BY DEF Findable
  <2>1. p \in Occupied(es) /\ after[p] = es[p] /\ es[p][1] \in Key
    BY <1>6, Pairs
  <2>2. PICK n \in 0..Len(es)-1 : Reaches(es, es[p][1], p, n)
    BY <1>1, <2>1 DEF Findable
  <2>3. Reaches(after, es[p][1], p, n)
    BY <1>7, <2>1, <2>2
  <2> QED
    BY <1>4, <2>1, <2>2, <2>3
<1>9. OneOfEach(after)
  BY <1>1, <1>6 DEF OneOfEach
<1>10. ASSUME NEW j \in Key, NEW w \in Value
       PROVE  Holds(after, j, w) <=> j # k /\ Holds(es, j, w)
  <2>1. ASSUME NEW p \in 1..Len(es), es[p] = <<j, w>> PROVE p # at <=> j # k
    <3>1. es[p] \in Pair /\ es[p][1] = j
      BY <2>1, Pairs
    <3>2. p \in Occupied(es)
      BY <1>1, <3>1, OccupiedIs
    <3> QED
      BY <1>1, <1>3, <3>1, <3>2 DEF OneOfEach
  <2>2. \A p \in 1..Len(es) : after[p] = <<j, w>> <=> p # at /\ es[p] = <<j, w>>
    <3>1. Deleted # <<j, w>>
      BY Pairs
    <3> QED
      BY <1>4, <3>1
  <2> QED
    BY <1>4, <2>1, <2>2 DEF Holds
<1> QED
  BY <1>3, <1>4, <1>5, <1>8, <1>9, <1>10 DEF GoodTable, ErasedIn, at
-----------------------------------------------------------------------------
(* Room in a table                                                          *)

Tombstones(es) == { p \in DOMAIN es : es[p] = Deleted }

LEMMA PlacesFinite ==
  ASSUME NEW es, IsTable(es)
  PROVE  /\ IsFiniteSet(Occupied(es)) /\ IsFiniteSet(Tombstones(es))
         /\ Cardinality(Occupied(es)) \in Nat /\ Cardinality(Tombstones(es)) \in Nat
         /\ Cardinality(Occupied(es)) <= Len(es)
         /\ Cardinality(Occupied(es) \cup Tombstones(es))
              = Cardinality(Occupied(es)) + Cardinality(Tombstones(es))
         /\ IsFiniteSet(1..Len(es)) /\ Cardinality(1..Len(es)) = Len(es)
<1>1. DOMAIN es = 1..Len(es) /\ Len(es) \in Nat \ {0} /\ Len(es) \in Int /\ 1 \in Int
  BY DEF IsTable
<1>2. IsFiniteSet(1..Len(es)) /\ Cardinality(1..Len(es)) = Len(es)
  BY <1>1, FS_Interval
<1>3. Occupied(es) \in SUBSET (1..Len(es)) /\ Tombstones(es) \in SUBSET (1..Len(es))
  BY <1>1 DEF Occupied, Tombstones
<1>4. /\ IsFiniteSet(Occupied(es)) /\ IsFiniteSet(Tombstones(es))
      /\ Cardinality(Occupied(es)) <= Len(es)
  BY <1>2, <1>3, FS_Subset
<1>5. Cardinality(Occupied(es)) \in Nat /\ Cardinality(Tombstones(es)) \in Nat
  BY <1>4, FS_CardinalityType
<1>6. Occupied(es) \cap Tombstones(es) = {}
  <2>1. Deleted \notin Key \X Value
    BY Pairs DEF Pair
  <2> QED
    BY <2>1 DEF Occupied, Tombstones
<1>7. Cardinality(Occupied(es) \cup Tombstones(es))
        = Cardinality(Occupied(es)) + Cardinality(Tombstones(es))
  <2>1. Cardinality(Occupied(es) \cup Tombstones(es))
          = Cardinality(Occupied(es)) + Cardinality(Tombstones(es)) - Cardinality({})
    BY <1>4, <1>6, FS_Union
  <2> QED
    BY <1>5, <2>1, FS_EmptySet
<1> QED
  BY <1>2, <1>4, <1>5, <1>7

\* An entry that is neither a key nor a tombstone is empty.
LEMMA RoomLeft ==
  ASSUME NEW es, IsTable(es),
         Cardinality(Occupied(es)) + Cardinality(Tombstones(es)) < Len(es)
  PROVE  HasEmpty(es)
<1> SUFFICES ASSUME ~HasEmpty(es) PROVE FALSE
  OBVIOUS
<1>1. Occupied(es) \cup Tombstones(es) = 1..Len(es)
  <2>1. DOMAIN es = 1..Len(es)
    BY DEF IsTable
  <2>2. \A p \in 1..Len(es) : es[p] \in Pair \/ es[p] = Empty \/ es[p] = Deleted
    BY OccupiedIs
  <2>3. \A p \in 1..Len(es) : p \in Occupied(es) \/ p \in Tombstones(es)
    BY <2>1, <2>2 DEF HasEmpty, Occupied, Tombstones, Pair
  <2> QED
    BY <2>1, <2>3 DEF Occupied, Tombstones
<1>2. Len(es) \in Nat
  BY DEF IsTable
<1>3. Cardinality(Occupied(es) \cup Tombstones(es)) = Len(es)
  <2>1. Cardinality(1..Len(es)) = Len(es)
    BY PlacesFinite
  <2> QED
    BY <1>1, <2>1
<1>4. Cardinality(Occupied(es)) + Cardinality(Tombstones(es)) = Len(es)
  BY <1>3, PlacesFinite
<1> QED
  BY <1>2, <1>4

\* An empty table.
LEMMA NothingHeld ==
  ASSUME NEW capacity \in Nat \ {0}
  PROVE  /\ GoodTable(NoEntries(capacity)) /\ Len(NoEntries(capacity)) = capacity
         /\ Occupied(NoEntries(capacity)) = {} /\ Tombstones(NoEntries(capacity)) = {}
         /\ NoEntries(capacity) \in [1..capacity -> Pair \cup {Empty}]
         /\ \A k \in Key, v \in Value : ~Holds(NoEntries(capacity), k, v)
<1> DEFINE es == NoEntries(capacity)
<1>1. es \in [1..capacity -> Pair \cup {Empty}] /\ \A p \in 1..capacity : es[p] = Empty
  BY DEF NoEntries
<1> HIDE DEF es
<1>2. IsTable(es) /\ Len(es) = capacity /\ DOMAIN es = 1..capacity
  BY <1>1 DEF IsTable
<1>3. Empty \notin Key \X Value /\ Empty # Deleted
  BY Pairs DEF Pair
<1>4. Occupied(es) = {} /\ Tombstones(es) = {}
  BY <1>1, <1>2, <1>3 DEF Occupied, Tombstones
<1>5. GoodTable(es)
  BY <1>2, <1>4 DEF GoodTable, Findable, OneOfEach
<1>6. \A k \in Key, v \in Value : ~Holds(es, k, v)
  <2>1. \A k \in Key, v \in Value : <<k, v>> # Empty
    BY Pairs
  <2> QED
    BY <1>1, <1>2, <2>1 DEF Holds
<1> QED
  BY <1>1, <1>2, <1>4, <1>5, <1>6 DEF es
-----------------------------------------------------------------------------
(* Growth                                                                   *)

LEMMA ReinsertedType ==
  ASSUME NEW n \in Nat, NEW t \in [1..n -> Pair \cup {Empty}], NEW e
  PROVE  Reinserted(t, e) \in [1..n -> Pair \cup {Empty}]
  BY DEF Reinserted, Written, Pair

LEMMA ResizeDefined ==
  ASSUME NEW old, IsTable(old), NEW n \in Nat
  PROVE  \E f \in [0..Len(old) -> [1..n -> Pair \cup {Empty}]] :
           \A p \in 0..Len(old) : f[p] = IF p = 0 THEN NoEntries(n) ELSE Reinserted(f[p-1], old[p])
<1> DEFINE N == Len(old)
           T == [1..n -> Pair \cup {Empty}]
           Steps(m, f) ==
             \A p \in 0..m : f[p] = IF p = 0 THEN NoEntries(n) ELSE Reinserted(f[p-1], old[p])
           Reached == { m \in 0..N : \E f \in [0..m -> T] : Steps(m, f) }
<1>1. N \in Nat
  BY DEF IsTable
<1>2. \A t \in T, p \in 1..N : Reinserted(t, old[p]) \in T
  BY ReinsertedType
<1>3. NoEntries(n) \in T
  BY DEF NoEntries
<1> HIDE DEF T
<1>4. 0 \in Reached
  <2>1. [p \in 0..0 |-> NoEntries(n)] \in [0..0 -> T] /\ Steps(0, [p \in 0..0 |-> NoEntries(n)])
    BY <1>3
  <2>2. 0 \in 0..N
    BY <1>1
  <2> HIDE DEF Steps
  <2> QED
    BY <2>1, <2>2
<1>5. ASSUME NEW m \in 0..N-1, m \in Reached PROVE m+1 \in Reached
  <2>1. PICK f \in [0..m -> T] : Steps(m, f)
    BY <1>5
  <2> DEFINE x == Reinserted(f[m], old[m+1])
             g == [p \in 0..m+1 |-> IF p = m+1 THEN x ELSE f[p]]
  <2>2. x \in T
    BY <1>1, <1>2
  <2>3. g \in [0..m+1 -> T]
    BY <1>1, <2>2
  <2>4. ASSUME NEW p \in 0..m+1
        PROVE  g[p] = IF p = 0 THEN NoEntries(n) ELSE Reinserted(g[p-1], old[p])
    BY <1>1, <2>1
  <2> HIDE DEF g
  <2>5. Steps(m+1, g)
    BY <2>4
  <2>6. m+1 \in 0..N
    BY <1>1
  <2> HIDE DEF Steps
  <2> QED
    BY <2>3, <2>5, <2>6
<1>6. N \in Reached
  <2> HIDE DEF Reached
  <2>1. 0..N \subseteq Reached
    BY <1>1, <1>4, <1>5, Counting!CountingUp
  <2> QED
    BY <1>1, <2>1
<1> QED
  BY <1>6 DEF T

\* Resized is the end of dealing with the entries one by one.
LEMMA ResizedSteps ==
  ASSUME IsTable(entries)
  PROVE  \E after :
           /\ after[0] = NoEntries(2*Len(entries))
           /\ \A p \in 0..Len(entries)-1 : after[p+1] = Reinserted(after[p], entries[p+1])
           /\ Resized = after[Len(entries)]
<1> DEFINE N == Len(entries)
           Is(f) == f = [p \in 0..N |-> IF p = 0 THEN NoEntries(2 * N)
                                        ELSE Reinserted(f[p-1], entries[p])]
           after == CHOOSE f : Is(f)
<1>1. Resized = after[N]
  BY Zenon DEF Resized
<1>2. N \in Nat /\ 2 * N \in Nat
  BY DEF IsTable
<1>3. Is(after)
  <2>1. \E f : Is(f)
    <3>1. PICK f \in [0..N -> [1..2*N -> Pair \cup {Empty}]] :
            \A p \in 0..N : f[p] = IF p = 0 THEN NoEntries(2*N)
                                   ELSE Reinserted(f[p-1], entries[p])
      BY <1>2, ResizeDefined
    <3>2. Is(f)
      BY <3>1
    <3> HIDE DEF Is
    <3> QED
      BY <3>2
  <2> HIDE DEF Is
  <2> QED
    BY <2>1
<1> HIDE DEF after
<1>4. after[0] = NoEntries(2*N)
  BY <1>2, <1>3
<1>5. \A p \in 0..N-1 : after[p+1] = Reinserted(after[p], entries[p+1])
  <2> TAKE p \in 0..N-1
  <2>1. p+1 \in 0..N /\ p+1 # 0 /\ (p+1)-1 = p
    BY <1>2
  <2> QED
    BY <1>3, <2>1
<1> QED
  BY <1>1, <1>4, <1>5

\* The new table t when the first p entries of the old one are dealt with.
Refilled(old, t, p) ==
  /\ t \in [1..2*Len(old) -> Pair \cup {Empty}]
  /\ GoodTable(t)
  /\ Cardinality(Occupied(t)) <= p
  /\ \A k \in Key, v \in Value : Holds(t, k, v) <=> \E q \in 1..p : old[q] = <<k, v>>

LEMMA RefilledHasRoom ==
  ASSUME NEW old, IsTable(old), NEW p \in 0..Len(old), NEW t, Refilled(old, t, p)
  PROVE  Len(t) = 2*Len(old) /\ Tombstones(t) = {} /\ HasEmpty(t)
<1>1. Len(old) \in Nat \ {0} /\ 2*Len(old) \in Nat
  BY DEF IsTable
<1>2. t \in [1..2*Len(old) -> Pair \cup {Empty}] /\ IsTable(t)
      /\ Cardinality(Occupied(t)) <= p
  BY DEF Refilled, GoodTable
<1>3. DOMAIN t = 1..2*Len(old) /\ Len(t) = 2*Len(old)
  BY <1>1, <1>2 DEF IsTable
<1>4. Tombstones(t) = {}
  BY <1>2, <1>3, Pairs DEF Tombstones
<1>5. Cardinality(Tombstones(t)) = 0
  BY <1>4, FS_EmptySet
<1>6. Cardinality(Occupied(t)) \in Nat
  BY <1>2, PlacesFinite
<1>7. Cardinality(Occupied(t)) + Cardinality(Tombstones(t)) < Len(t)
  BY <1>1, <1>2, <1>3, <1>5, <1>6
<1> QED
  BY <1>2, <1>3, <1>4, <1>7, RoomLeft

LEMMA ReinsertedRefills ==
  ASSUME NEW old, GoodTable(old), NEW p \in 0..Len(old)-1, NEW t, Refilled(old, t, p),
         NEW after, after = Reinserted(t, old[p+1])
  PROVE  Refilled(old, after, p+1)
<1>1. /\ IsTable(old) /\ OneOfEach(old) /\ Len(old) \in Nat \ {0} /\ p \in 0..Len(old)
      /\ p+1 \in 1..Len(old)
  BY DEF GoodTable, IsTable
<1>2. /\ t \in [1..2*Len(old) -> Pair \cup {Empty}] /\ GoodTable(t) /\ IsTable(t)
      /\ Cardinality(Occupied(t)) <= p
      /\ \A k \in Key, v \in Value : Holds(t, k, v) <=> \E q \in 1..p : old[q] = <<k, v>>
  BY DEF Refilled, GoodTable
<1>3. HasEmpty(t)
  BY <1>1, RefilledHasRoom
<1>4. \A q : q \in 1..p+1 <=> q \in 1..p \/ q = p+1
  BY <1>1
<1>5. after \in [1..2*Len(old) -> Pair \cup {Empty}]
  BY <1>1, <1>2, ReinsertedType
<1>6. CASE old[p+1] \in Pair
  <2>1. PICK k \in Key, v \in Value : old[p+1] = <<k, v>>
    BY <1>6, Pairs
  <2>2. after = Written(t, Place(t, k), <<k, v>>)
    BY <1>6, <2>1, Pairs DEF Reinserted, Pair
  <2>3. Place(t, k) \in 1..Len(t) /\ Place(t, k) # 0
    BY <1>2, <1>3, PlaceIs
  <2>4. after = [t EXCEPT ![Place(t, k)] = <<k, v>>]
    BY <2>2, <2>3 DEF Written
  <2>5. /\ GoodTable(after) /\ Occupied(after) = Occupied(t) \cup {Place(t, k)}
        /\ \A j \in Key, w \in Value :
             Holds(after, j, w) <=> IF j = k THEN w = v ELSE Holds(t, j, w)
    <3>1. WroteIn(t, after, Place(t, k), k, v)
      BY <1>2, <1>3, <2>4, WriteKeeps
    <3> QED
      BY <3>1 DEF WroteIn
  <2>6. Cardinality(Occupied(after)) <= p+1
    <3>1. IsFiniteSet(Occupied(t)) /\ Cardinality(Occupied(t)) \in Nat
      BY <1>2, PlacesFinite
    <3>2. Cardinality(Occupied(after)) <= Cardinality(Occupied(t)) + 1
      <4> DEFINE S == Occupied(t)
                 x == Place(t, k)
      <4>1. IsFiniteSet(S) /\ Cardinality(S) \in Nat /\ Occupied(after) = S \cup {x}
        BY <2>5, <3>1
      <4> HIDE DEF S, x
      <4>2. Cardinality(S \cup {x}) = IF x \in S THEN Cardinality(S) ELSE Cardinality(S) + 1
        BY <4>1, FS_AddElement
      <4>3. Cardinality(Occupied(after)) <= Cardinality(S) + 1
        BY <4>1, <4>2
      <4> QED
        BY <4>3 DEF S
    <3>3. Cardinality(Occupied(after)) \in Nat
      BY <2>5, PlacesFinite DEF GoodTable
    <3> QED
      BY <1>1, <1>2, <3>1, <3>2, <3>3
  <2>7. ASSUME NEW j \in Key, NEW w \in Value
        PROVE  Holds(after, j, w) <=> \E q \in 1..p+1 : old[q] = <<j, w>>
    <3>1. CASE j # k
      <4>1. old[p+1] # <<j, w>>
        BY <2>1, <3>1, Pairs
      <4>2. Holds(after, j, w) <=> \E q \in 1..p : old[q] = <<j, w>>
        BY <1>2, <2>5, <3>1
      <4> QED
        BY <1>4, <4>1, <4>2
    <3>2. CASE j = k
      <4>1. Holds(after, j, w) <=> w = v
        BY <2>5, <3>2
      <4>2. ASSUME NEW q \in 1..p+1, old[q] = <<k, w>> PROVE q = p+1
        <5>1. q \in 1..Len(old) /\ p+1 \in 1..Len(old)
          BY <1>1
        <5>2. q \in Occupied(old) /\ p+1 \in Occupied(old)
          <6>1. old[q] \in Pair
            BY <4>2, Pairs
          <6> QED
            BY <1>1, <1>6, <5>1, <6>1, OccupiedIs
        <5>3. old[q][1] = old[p+1][1]
          BY <2>1, <4>2, Pairs
        <5> QED
          BY <1>1, <5>2, <5>3 DEF OneOfEach
      <4>3. old[p+1] = <<k, w>> <=> w = v
        BY <2>1, Pairs
      <4>4. p+1 \in 1..p+1
        BY <1>4
      <4> QED
        BY <3>2, <4>1, <4>2, <4>3, <4>4
    <3> QED
      BY <3>1, <3>2
  <2> QED
    BY <1>5, <2>5, <2>6, <2>7 DEF Refilled
<1>7. CASE old[p+1] \notin Pair
  <2>1. after = t
    BY <1>7 DEF Reinserted, Pair
  <2>2. Cardinality(Occupied(t)) <= p+1
    <3>1. Cardinality(Occupied(t)) \in Nat
      BY <1>2, PlacesFinite
    <3> QED
      BY <1>1, <1>2, <3>1
  <2>3. \A k \in Key, v \in Value : old[p+1] # <<k, v>>
    <3>1. \A k \in Key, v \in Value : <<k, v>> \in Pair
      BY Pairs
    <3> QED
      BY <1>7, <3>1
  <2>4. \A k \in Key, v \in Value :
          (\E q \in 1..p+1 : old[q] = <<k, v>>) <=> (\E q \in 1..p : old[q] = <<k, v>>)
    BY <1>4, <2>3
  <2> QED
    BY <1>2, <2>1, <2>2, <2>4 DEF Refilled
<1> QED
  BY <1>6, <1>7

\* A resized table holds what the old one held, finds it, and is at most half
\* full.
LEMMA ResizedKeeps ==
  ASSUME GoodTable(entries)
  PROVE  /\ GoodTable(Resized) /\ Len(Resized) = 2*Len(entries) /\ HasEmpty(Resized)
         /\ Tombstones(Resized) = {}
         /\ Cardinality(Occupied(Resized)) <= Len(entries)
         /\ \A k \in Key, v \in Value : Holds(Resized, k, v) <=> Holds(entries, k, v)
<1> DEFINE N == Len(entries)
           old == entries
<1>1. IsTable(old) /\ GoodTable(old) /\ N \in Nat \ {0} /\ 2*N \in Nat \ {0}
  BY DEF GoodTable, IsTable
<1>2. PICK after :
        /\ after[0] = NoEntries(2*N)
        /\ \A p \in 0..N-1 : after[p+1] = Reinserted(after[p], old[p+1])
        /\ Resized = after[N]
  BY <1>1, ResizedSteps
<1> DEFINE Right == { p \in 0..N : Refilled(old, after[p], p) }
<1>3. 0 \in Right
  <2>1. Refilled(old, NoEntries(2*N), 0)
    <3>1. /\ GoodTable(NoEntries(2*N)) /\ Occupied(NoEntries(2*N)) = {}
          /\ NoEntries(2*N) \in [1..2*N -> Pair \cup {Empty}]
          /\ \A k \in Key, v \in Value : ~Holds(NoEntries(2*N), k, v)
      BY <1>1, NothingHeld
    <3>2. Cardinality(Occupied(NoEntries(2*N))) <= 0
      BY <3>1, FS_EmptySet
    <3>3. \A k, v : ~ \E q \in 1..0 : old[q] = <<k, v>>
      OBVIOUS
    <3> QED
      BY <3>1, <3>2, <3>3 DEF Refilled
  <2>2. 0 \in 0..N
    BY <1>1
  <2> QED
    BY <1>2, <2>1, <2>2
<1>4. ASSUME NEW p \in 0..N-1, p \in Right PROVE p+1 \in Right
  <2>1. Refilled(old, after[p], p) /\ after[p+1] = Reinserted(after[p], old[p+1])
    BY <1>2, <1>4
  <2>2. Refilled(old, after[p+1], p+1)
    BY <1>1, <2>1, ReinsertedRefills
  <2>3. p+1 \in 0..N
    BY <1>1
  <2> QED
    BY <2>2, <2>3
<1>5. N \in Right
  <2> HIDE DEF Right
  <2>1. 0..N \subseteq Right
    BY <1>1, <1>3, <1>4, Counting!CountingUp
  <2> QED
    BY <1>1, <2>1
<1>6. Refilled(old, Resized, N) /\ N \in 0..N
  BY <1>1, <1>2, <1>5
<1>7. Len(Resized) = 2*N /\ Tombstones(Resized) = {} /\ HasEmpty(Resized)
  BY <1>1, <1>6, RefilledHasRoom
<1> QED
  BY <1>6, <1>7 DEF Refilled, Holds
-----------------------------------------------------------------------------
(* The inductive invariant                                                  *)

\* The load is at most 0.7 and the one entry that the last set added.
LoadInv == (count + deleted) * 10 <= 7 * Len(entries) + 10

MapInv ==
  /\ GoodTable(entries) /\ Len(entries) >= 8
  /\ count = Cardinality(Occupied(entries))
  /\ deleted = Cardinality(Tombstones(entries))
  /\ LoadInv
  /\ stored \in [Key -> Value \cup {Empty}]
  /\ \A k \in Key, v \in Value : Holds(entries, k, v) <=> stored[k] = v
  /\ \A k \in ReservedKey : stored[k] = Empty

LEMMA LoadLeavesRoom == MapInv => HasEmpty(entries)
<1> SUFFICES ASSUME MapInv PROVE HasEmpty(entries)
  OBVIOUS
<1>1. IsTable(entries) /\ Len(entries) >= 8 /\ Len(entries) \in Nat
  BY DEF MapInv, GoodTable, IsTable
<1>2. count = Cardinality(Occupied(entries)) /\ deleted = Cardinality(Tombstones(entries))
      /\ (count + deleted) * 10 <= 7 * Len(entries) + 10
  BY DEF MapInv, LoadInv
<1>3. count \in Nat /\ deleted \in Nat
  BY <1>1, <1>2, PlacesFinite
<1>4. count + deleted < Len(entries)
  BY <1>1, <1>2, <1>3
<1> QED
  BY <1>1, <1>2, <1>4, RoomLeft

\* What one write or removal does to the counts.
LEMMA OneMoreOrLess ==
  ASSUME NEW S, NEW x, IsFiniteSet(S)
  PROVE  /\ Cardinality(S) \in Nat
         /\ x \in S => Cardinality(S \cup {x}) = Cardinality(S)
                       /\ Cardinality(S \ {x}) = Cardinality(S) - 1
         /\ x \notin S => Cardinality(S \cup {x}) = Cardinality(S) + 1
                          /\ Cardinality(S \ {x}) = Cardinality(S)
  BY FS_CardinalityType, FS_AddElement, FS_RemoveElement

\* The table set works on: as full as a set may find it, with nothing lost.
LEMMA TableForSet ==
  ASSUME MapInv
  PROVE  /\ GoodTable(EntriesForSet) /\ HasEmpty(EntriesForSet)
         /\ Len(EntriesForSet) >= 8 /\ Len(EntriesForSet) \in Nat
         /\ (IF Overloaded THEN Cardinality(Occupied(EntriesForSet)) ELSE count)
              = Cardinality(Occupied(EntriesForSet))
         /\ (IF Overloaded THEN 0 ELSE deleted) = Cardinality(Tombstones(EntriesForSet))
         /\ (Cardinality(Occupied(EntriesForSet)) + Cardinality(Tombstones(EntriesForSet))) * 10
              <= 7 * Len(EntriesForSet)
         /\ \A k \in Key, v \in Value : Holds(EntriesForSet, k, v) <=> stored[k] = v
<1>1. GoodTable(entries) /\ Len(entries) >= 8 /\ Len(entries) \in Nat
      /\ count = Cardinality(Occupied(entries)) /\ deleted = Cardinality(Tombstones(entries))
      /\ \A k \in Key, v \in Value : Holds(entries, k, v) <=> stored[k] = v
  BY DEF MapInv, GoodTable, IsTable
<1>2. count \in Nat /\ deleted \in Nat
  BY <1>1, PlacesFinite DEF GoodTable
<1>3. CASE Overloaded
  <2> DEFINE new == Resized
  <2>1. EntriesForSet = new
    BY <1>3 DEF EntriesForSet
  <2>2. /\ GoodTable(new) /\ Len(new) = 2*Len(entries) /\ HasEmpty(new)
        /\ Tombstones(new) = {} /\ Cardinality(Occupied(new)) <= Len(entries)
        /\ \A k \in Key, v \in Value : Holds(new, k, v) <=> Holds(entries, k, v)
    BY <1>1, ResizedKeeps
  <2> HIDE DEF new
  <2>3. Cardinality(Tombstones(new)) = 0 /\ Cardinality(Occupied(new)) \in Nat
    BY <2>2, FS_EmptySet, PlacesFinite DEF GoodTable
  <2>4. (Cardinality(Occupied(new)) + Cardinality(Tombstones(new))) * 10 <= 7 * Len(new)
    BY <1>1, <2>2, <2>3
  <2> QED
    BY <1>1, <1>3, <2>1, <2>2, <2>3, <2>4
<1>4. CASE ~Overloaded
  <2>1. EntriesForSet = entries
    BY <1>4 DEF EntriesForSet
  <2>2. (count + deleted) * 10 <= 7 * Len(entries)
    BY <1>1, <1>2, <1>4 DEF Overloaded
  <2> QED
    BY <1>1, <1>4, <2>1, <2>2, LoadLeavesRoom
<1> QED
  BY <1>3, <1>4

LEMMA SetKeeps ==
  ASSUME MapInv, NEW k \in Key, NEW v \in Value, NEW es, es = EntriesForSet, SetIn(es, k, v)
  PROVE  MapInv'
<1> DEFINE p == Place(es, k)
           c == Cardinality(Occupied(es))
           d == Cardinality(Tombstones(es))
<1>1. /\ GoodTable(es) /\ HasEmpty(es) /\ Len(es) >= 8 /\ Len(es) \in Nat
      /\ (IF Overloaded THEN Cardinality(Occupied(es)) ELSE count) = c
      /\ (IF Overloaded THEN 0 ELSE deleted) = d
      /\ (c + d) * 10 <= 7 * Len(es)
      /\ \A j \in Key, w \in Value : Holds(es, j, w) <=> stored[j] = w
  BY TableForSet
<1>2. /\ p \in 1..Len(es) /\ p # 0
      /\ es[p] \in Pair \/ es[p] = Empty \/ es[p] = Deleted
      /\ p \in Occupied(es) <=> es[p] \notin {Empty, Deleted}
      /\ p \in Tombstones(es) <=> es[p] = Deleted
  <2>1. p \in 1..Len(es) /\ p # 0
    BY <1>1, PlaceIs
  <2>2. IsTable(es) /\ DOMAIN es = 1..Len(es)
    BY <1>1 DEF GoodTable, IsTable
  <2>3. Empty \notin Pair /\ Deleted \notin Pair
    BY Pairs
  <2> QED
    BY <2>1, <2>2, <2>3, OccupiedIs DEF Tombstones
<1>3. /\ k \notin ReservedKey
      /\ entries' = Written(es, p, <<k, v>>)
      /\ count' = (IF Overloaded THEN Cardinality(Occupied(es)) ELSE count)
                    + (IF p # 0 /\ es[p] \in {Empty, Deleted} THEN 1 ELSE 0)
      /\ deleted' = (IF Overloaded THEN 0 ELSE deleted)
                    - (IF p # 0 /\ es[p] = Deleted THEN 1 ELSE 0)
      /\ stored' = [stored EXCEPT ![k] = v]
  BY DEF SetIn, DeletedAfterSet
<1>4. IsFiniteSet(Occupied(es)) /\ IsFiniteSet(Tombstones(es)) /\ c \in Nat /\ d \in Nat
  BY <1>1, PlacesFinite DEF GoodTable
<1>5. /\ count' = c + (IF p \in Occupied(es) THEN 0 ELSE 1)
      /\ deleted' = d - (IF p \in Tombstones(es) THEN 1 ELSE 0)
  BY <1>1, <1>2, <1>3
<1>6. PICK after : after = entries' /\ after = [es EXCEPT ![p] = <<k, v>>]
  BY <1>2, <1>3 DEF Written
<1>7. WroteIn(es, after, p, k, v)
  BY <1>1, <1>6, WriteKeeps
<1> HIDE DEF p
<1>8. Tombstones(after) = Tombstones(es) \ {p}
  <2>1. DOMAIN after = DOMAIN es /\ p \in DOMAIN es /\ <<k, v>> # Deleted
    BY <1>1, <1>2, <1>6, Pairs DEF GoodTable, IsTable
  <2> QED
    BY <1>6, <2>1 DEF Tombstones
<1>9. /\ Cardinality(Occupied(after)) = c + (IF p \in Occupied(es) THEN 0 ELSE 1)
      /\ Cardinality(Tombstones(after)) = d - (IF p \in Tombstones(es) THEN 1 ELSE 0)
  <2>1. Occupied(after) = Occupied(es) \cup {p}
    BY <1>7 DEF WroteIn
  <2>2. Cardinality(Occupied(es) \cup {p}) = c + (IF p \in Occupied(es) THEN 0 ELSE 1)
    <3>1. CASE p \in Occupied(es)
      <4>1. Occupied(es) \cup {p} = Occupied(es)
        BY <3>1
      <4> QED
        BY <1>4, <3>1, <4>1
    <3>2. CASE p \notin Occupied(es)
      BY <1>4, <3>2, OneMoreOrLess
    <3> QED
      BY <3>1, <3>2
  <2>3. Cardinality(Tombstones(es) \ {p}) = d - (IF p \in Tombstones(es) THEN 1 ELSE 0)
    <3>1. CASE p \in Tombstones(es)
      BY <1>4, <3>1, OneMoreOrLess
    <3>2. CASE p \notin Tombstones(es)
      <4>1. Tombstones(es) \ {p} = Tombstones(es)
        BY <3>2
      <4> QED
        BY <1>4, <3>2, <4>1
    <3> QED
      BY <3>1, <3>2
  <2> QED
    BY <1>8, <2>1, <2>2, <2>3
<1>10. stored' \in [Key -> Value \cup {Empty}] /\ \A j \in ReservedKey : stored'[j] = Empty
  BY <1>3, MapAssumption DEF MapInv
<1>11. \A j \in Key, w \in Value : Holds(after, j, w) <=> stored'[j] = w
  <2> TAKE j \in Key, w \in Value
  <2>1. stored'[j] = IF j = k THEN v ELSE stored[j]
    BY <1>3 DEF MapInv
  <2>2. Holds(after, j, w) <=> IF j = k THEN w = v ELSE Holds(es, j, w)
    BY <1>7 DEF WroteIn
  <2>3. Holds(es, j, w) <=> stored[j] = w
    BY <1>1
  <2> QED
    BY <2>1, <2>2, <2>3
<1>12. (count' + deleted') * 10 <= 7 * Len(after) + 10
  <2>1. Len(after) = Len(es)
    BY <1>7 DEF WroteIn
  <2> HIDE DEF c, d
  <2> QED
    BY <1>1, <1>4, <1>5, <2>1
<1> HIDE DEF c, d
<1>13. GoodTable(after) /\ Len(after) >= 8
  BY <1>1, <1>7 DEF WroteIn
<1>14. /\ GoodTable(entries') /\ Len(entries') >= 8
       /\ count' = Cardinality(Occupied(entries'))
       /\ deleted' = Cardinality(Tombstones(entries'))
       /\ (count' + deleted') * 10 <= 7 * Len(entries') + 10
       /\ \A j \in Key, w \in Value : Holds(entries', j, w) <=> stored'[j] = w
  BY <1>5, <1>6, <1>9, <1>11, <1>12, <1>13
<1> QED
  BY <1>10, <1>14 DEF MapInv, LoadInv

LEMMA RemoveKeeps ==
  ASSUME MapInv, NEW k \in Key, Remove(k) PROVE MapInv'
<1> DEFINE at == Find(entries, k)
<1>1. /\ GoodTable(entries) /\ Len(entries) >= 8 /\ Len(entries) \in Nat
      /\ count = Cardinality(Occupied(entries)) /\ deleted = Cardinality(Tombstones(entries))
      /\ (count + deleted) * 10 <= 7 * Len(entries) + 10
      /\ stored \in [Key -> Value \cup {Empty}]
      /\ \A j \in Key, w \in Value : Holds(entries, j, w) <=> stored[j] = w
  BY DEF MapInv, LoadInv, GoodTable, IsTable
<1>2. /\ at # 0 /\ entries' = Written(entries, at, Deleted)
      /\ count' = count - 1 /\ deleted' = deleted + 1 /\ stored' = [stored EXCEPT ![k] = Empty]
  BY DEF Remove, Removed
<1>3. PICK after : after = entries' /\ after = [entries EXCEPT ![at] = Deleted]
  BY <1>2 DEF Written
<1>4. ErasedIn(entries, after, at, k)
  BY <1>1, <1>2, <1>3, EraseKeeps
<1> HIDE DEF at
<1>5. Tombstones(after) = Tombstones(entries) \cup {at} /\ at \notin Tombstones(entries)
  <2>1. DOMAIN after = DOMAIN entries
    BY <1>3
  <2>2. at \in DOMAIN entries /\ entries[at] # Deleted
    BY <1>4, Pairs DEF ErasedIn, Occupied, Pair
  <2> QED
    BY <1>3, <2>1, <2>2 DEF Tombstones
<1>6. IsFiniteSet(Occupied(entries)) /\ IsFiniteSet(Tombstones(entries))
      /\ count \in Nat /\ deleted \in Nat
  BY <1>1, PlacesFinite DEF GoodTable
<1>7. Cardinality(Occupied(after)) = count' /\ Cardinality(Tombstones(after)) = deleted'
  <2>1. at \in Occupied(entries) /\ Occupied(after) = Occupied(entries) \ {at}
    BY <1>4 DEF ErasedIn
  <2>2. Cardinality(Occupied(entries) \ {at}) = Cardinality(Occupied(entries)) - 1
    BY <1>6, <2>1, OneMoreOrLess
  <2>3. Cardinality(Tombstones(entries) \cup {at}) = Cardinality(Tombstones(entries)) + 1
    BY <1>5, <1>6, OneMoreOrLess
  <2> QED
    BY <1>1, <1>2, <1>5, <2>1, <2>2, <2>3
<1>8. stored' \in [Key -> Value \cup {Empty}] /\ \A j \in ReservedKey : stored'[j] = Empty
  BY <1>2, MapAssumption DEF MapInv
<1>9. \A j \in Key, w \in Value : Holds(after, j, w) <=> stored'[j] = w
  <2> TAKE j \in Key, w \in Value
  <2>1. stored'[j] = IF j = k THEN Empty ELSE stored[j]
    BY <1>1, <1>2
  <2>2. Holds(after, j, w) <=> j # k /\ Holds(entries, j, w)
    BY <1>4 DEF ErasedIn
  <2>3. w # Empty
    BY MapAssumption
  <2> QED
    BY <1>1, <2>1, <2>2, <2>3
<1>10. (count' + deleted') * 10 <= 7 * Len(after) + 10
  BY <1>1, <1>2, <1>4, <1>6 DEF ErasedIn
<1>11. GoodTable(after) /\ Len(after) >= 8
  BY <1>1, <1>4 DEF ErasedIn
<1>12. /\ GoodTable(entries') /\ Len(entries') >= 8
       /\ count' = Cardinality(Occupied(entries'))
       /\ deleted' = Cardinality(Tombstones(entries'))
       /\ (count' + deleted') * 10 <= 7 * Len(entries') + 10
       /\ \A j \in Key, w \in Value : Holds(entries', j, w) <=> stored'[j] = w
  BY <1>3, <1>7, <1>9, <1>10, <1>11
<1> QED
  BY <1>8, <1>12 DEF MapInv, LoadInv

\* A table of n empty entries: at the start, and after clear.
LEMMA EmptyMapInv ==
  ASSUME NEW n \in Nat, n >= 8
  PROVE  /\ GoodTable(NoEntries(n)) /\ Len(NoEntries(n)) = n
         /\ Cardinality(Occupied(NoEntries(n))) = 0 /\ Cardinality(Tombstones(NoEntries(n))) = 0
         /\ \A k \in Key, v \in Value :
              Holds(NoEntries(n), k, v) <=> [j \in Key |-> Empty][k] = v
<1>1. n \in Nat \ {0}
  OBVIOUS
<1>2. \A v \in Value : v # Empty
  BY MapAssumption
<1> QED
  BY <1>1, <1>2, NothingHeld, FS_EmptySet

LEMMA InitMap == MapInit => MapInv
<1> SUFFICES ASSUME MapInit PROVE MapInv
  OBVIOUS
<1>1. InitialCapacity \in Nat /\ InitialCapacity >= 8 /\ ReservedKey \subseteq Key
  BY MapAssumption
<1> QED
  BY <1>1, EmptyMapInv DEF MapInit, MapInv, LoadInv

LEMMA NextMap == MapInv /\ [MapNext]_mapVars => MapInv'
<1> SUFFICES ASSUME MapInv, [MapNext]_mapVars PROVE MapInv'
  OBVIOUS
<1>1. ASSUME NEW es \in {EntriesForSet}, NEW k \in Key, NEW v \in Value, SetIn(es, k, v)
      PROVE  MapInv'
  BY <1>1, SetKeeps
<1>2. ASSUME NEW k \in Key, Remove(k) PROVE MapInv'
  BY <1>2, RemoveKeeps
<1>3. CASE Clear
  <2>1. Len(entries) \in Nat /\ Len(entries) >= 8 /\ ReservedKey \subseteq Key
    BY MapAssumption DEF MapInv, GoodTable, IsTable
  <2>2. /\ entries' = NoEntries(Len(entries)) /\ count' = 0 /\ deleted' = 0
        /\ stored' = [k \in Key |-> Empty]
    BY <1>3 DEF Clear
  <2> QED
    BY <2>1, <2>2, EmptyMapInv DEF MapInv, LoadInv
<1>4. CASE UNCHANGED mapVars
  BY <1>4 DEF mapVars, MapInv, LoadInv
<1> QED
  BY <1>1, <1>2, <1>3, <1>4 DEF MapNext

THEOREM MapInvariant == MapSpec => []MapInv
  BY InitMap, NextMap, PTL DEF MapSpec

\* CountsExact: the counters from which set computes the load are those of the
\* entries, through every reuse of a tombstone and every resize.
THEOREM CountersMatchEntries == MapSpec => []CountsExact
<1>1. MapInv => CountsExact
  BY DEF MapInv, CountsExact, Tombstones
<1> QED
  BY <1>1, MapInvariant, PTL

\* SearchesEnd: a table of any capacity keeps an empty entry, because set grows
\* it by what its keys and its tombstones take up together.
THEOREM EmptyEntryRemains == MapSpec => []SearchesEnd
<1>1. MapInv => SearchesEnd
  <2> SUFFICES ASSUME MapInv PROVE SearchesEnd
    OBVIOUS
  <2>1. DOMAIN entries = 1..Len(entries)
    BY DEF MapInv, GoodTable, IsTable
  <2> QED
    BY <2>1, LoadLeavesRoom DEF HasEmpty, SearchesEnd
<1> QED
  BY <1>1, MapInvariant, PTL

\* GetsWhatWasSet: get returns what was last set under a key and not removed,
\* whatever the hashes.
THEOREM GetReturnsWhatWasSet == MapSpec => []GetsWhatWasSet
<1>1. MapInv => GetsWhatWasSet
  <2> SUFFICES ASSUME MapInv, NEW k \in Key
               PROVE  Get(k) = IF stored[k] = Empty THEN {} ELSE {stored[k]}
    BY DEF GetsWhatWasSet
  <2>1. /\ GoodTable(entries) /\ stored[k] \in Value \cup {Empty}
        /\ k \in ReservedKey => stored[k] = Empty
        /\ \A v \in Value : Holds(entries, k, v) <=> stored[k] = v
    BY DEF MapInv
  <2> DEFINE at == Find(entries, k)
  <2>2. CASE k \in ReservedKey
    BY <2>1, <2>2 DEF Get
  <2>3. CASE k \notin ReservedKey /\ at = 0
    <3>1. \A p \in 1..Len(entries) : entries[p] \notin Holding(k)
      BY <2>1, <2>3, FindIs
    <3>2. \A v \in Value : <<k, v>> \in Holding(k)
      BY Pairs
    <3>3. \A v \in Value : ~Holds(entries, k, v)
      BY <3>1, <3>2 DEF Holds
    <3>4. stored[k] = Empty
      BY <2>1, <3>3
    <3> QED
      BY <2>3, <3>4 DEF Get
  <2>4. CASE k \notin ReservedKey /\ at # 0
    <3>1. at \in 1..Len(entries) /\ entries[at] \in Holding(k)
      BY <2>1, <2>4, FindIs
    <3>2. PICK w \in Value : entries[at] = <<k, w>>
      BY <3>1, Pairs
    <3>3. stored[k] = w /\ w # Empty /\ entries[at][2] = w
      BY <2>1, <3>1, <3>2, Pairs, MapAssumption DEF Holds
    <3> QED
      BY <2>4, <3>3 DEF Get
  <2> QED
    BY <2>2, <2>3, <2>4
<1> QED
  BY <1>1, MapInvariant, PTL
-----------------------------------------------------------------------------
(* Part 2: world transforms                                                *)

TypeInv ==
  /\ alive \in [Slots -> BOOLEAN]
  /\ parent \in [Slots -> Slots \cup {NoParent}]
  /\ local \in [Slots -> Local]
  /\ world \in [Slots -> Seq(Local)]
  /\ dirty \in [Slots -> BOOLEAN]
  /\ orphaned \subseteq Slots

\* No set of slots holds the parents of all its members.  Dead slots, which
\* keep their last parent, are no exception.
Acyclic == \A S \in SUBSET Slots : S # {} => \E i \in S : parent[i] \notin S

ParentsLive == \A i \in LiveSlots : parent[i] \in LiveSlots \cup {NoParent}

TreeInv == TypeInv /\ Acyclic /\ ParentsLive
---------------------------------------------------------------------------
(* Subtrees                                                                *)

\* S has the children of its members.
Closed(S) == \A k \in S : Children(k) \subseteq S

LEMMA SubtreeHasRoot ==
  ASSUME NEW i \in Slots PROVE i \in Subtree(i) /\ Subtree(i) \subseteq Slots
BY DEF Subtree

LEMMA SubtreeClosed ==
  ASSUME NEW i \in Slots PROVE Closed(Subtree(i))
<1> SUFFICES ASSUME NEW k \in Subtree(i), NEW j \in Children(k),
                    NEW S \in SUBSET Slots, i \in S, \A m \in S : Children(m) \subseteq S
             PROVE  j \in Slots /\ j \in S
  BY DEF Closed, Subtree, Children, LiveSlots
<1>1. k \in S
  BY DEF Subtree
<1> QED
  BY <1>1 DEF Children, LiveSlots

\* Whatever holds of i, and of the children of what it holds of, holds below i.
LEMMA SubtreeLeast ==
  ASSUME NEW i \in Slots, NEW S \in SUBSET Slots, i \in S,
         \A k \in S \cap Subtree(i) : Children(k) \subseteq S
  PROVE  Subtree(i) \subseteq S
<1> DEFINE T == S \cap Subtree(i)
<1>1. T \in SUBSET Slots /\ i \in T
  BY SubtreeHasRoot
<1>2. \A k \in T : Children(k) \subseteq T
  BY SubtreeClosed DEF Closed
<1>3. \A j \in Subtree(i) : j \in T
  BY <1>1, <1>2 DEF Subtree
<1> QED
  BY <1>3

\* Below i is i, and what has its parent below i.
LEMMA SubtreeParents ==
  ASSUME TypeInv, NEW i \in Slots, NEW j \in Subtree(i), j # i
  PROVE  j \in LiveSlots /\ parent[j] \in Subtree(i)
<1> DEFINE S == {i} \cup { k \in LiveSlots : parent[k] \in Subtree(i) }
<1>1. S \in SUBSET Slots
  BY DEF LiveSlots
<1>2. \A k \in S \cap Subtree(i) : Children(k) \subseteq S
  BY DEF Children
<1>3. Subtree(i) \subseteq S
  BY <1>1, <1>2, SubtreeLeast
<1> QED
  BY <1>3

LEMMA SubtreeOfChild ==
  ASSUME TypeInv, NEW i \in Slots, NEW j \in LiveSlots, parent[j] \in Subtree(i)
  PROVE  j \in Subtree(i)
BY SubtreeClosed, SubtreeHasRoot DEF Closed, Children

LEMMA SubtreeTransitive ==
  ASSUME NEW i \in Slots, NEW j \in Subtree(i)
  PROVE  Subtree(j) \subseteq Subtree(i)
<1>1. j \in Slots /\ Subtree(i) \in SUBSET Slots
  BY SubtreeHasRoot
<1>2. \A k \in Subtree(i) : Children(k) \subseteq Subtree(i)
  BY SubtreeClosed DEF Closed
<1> QED
  BY <1>1, <1>2, SubtreeLeast

\* Two ancestors of one slot are one above the other.
LEMMA PathsAreLinear ==
  ASSUME TypeInv, NEW j \in Slots, NEW k \in Slots, NEW i \in Subtree(j), i \in Subtree(k)
  PROVE  k \in Subtree(j) \/ j \in Subtree(k)
<1> DEFINE S == { m \in Slots : m \in Subtree(k) => k \in Subtree(j) \/ j \in Subtree(k) }
<1>1. j \in S
  OBVIOUS
<1>2. ASSUME NEW m \in S \cap Subtree(j), NEW n \in Children(m) PROVE n \in S
  <2>1. n \in Slots /\ parent[n] = m /\ n \in Subtree(j)
    BY SubtreeClosed DEF Closed, Children, LiveSlots
  <2>2. n \in Subtree(k) /\ n # k => m \in Subtree(k)
    BY <2>1, SubtreeParents
  <2> QED
    BY <2>1, <2>2
<1>3. Subtree(j) \subseteq S
  BY <1>1, <1>2, SubtreeLeast
<1> QED
  BY <1>3

\* Nothing is below what is below it.
LEMMA NoTwoWayPaths ==
  ASSUME TreeInv, NEW j \in Slots, NEW k \in Subtree(j), j \in Subtree(k)
  PROVE  j = k
<1> SUFFICES ASSUME j # k PROVE FALSE
  OBVIOUS
<1> DEFINE S == { m \in Subtree(j) : j \in Subtree(m) }
<1>0. TypeInv /\ k \in Slots /\ S \in SUBSET Slots
  BY SubtreeHasRoot DEF TreeInv
<1>1. k \in S
  OBVIOUS
<1>2. ASSUME NEW m \in S PROVE parent[m] \in S
  <2>1. m \in Slots /\ m \in LiveSlots /\ parent[m] \in Subtree(j) /\ parent[m] \in Slots
    <3>1. CASE m = j
      <4>1. m \in LiveSlots /\ parent[m] \in Subtree(k)
        BY <1>0, <3>1, SubtreeParents
      <4> QED
        BY <1>0, <3>1, <4>1, SubtreeTransitive, SubtreeHasRoot
    <3>2. CASE m # j
      BY <1>0, <3>2, SubtreeParents, SubtreeHasRoot
    <3> QED
      BY <3>1, <3>2
  <2>2. m \in Subtree(parent[m])
    BY <1>0, <2>1, SubtreeOfChild, SubtreeHasRoot
  <2>3. j \in Subtree(parent[m])
    BY <1>0, <2>1, <2>2, SubtreeTransitive
  <2> QED
    BY <2>1, <2>3
<1> QED
  BY <1>0, <1>1, <1>2 DEF TreeInv, Acyclic
---------------------------------------------------------------------------
(* Products down the paths                                                 *)

\* w gives the slots of C, with whom their parents are, the product of the
\* local transforms from the root, or from a slot outside D, whose product
\* is already known.
Product(D, known, w, i) ==
  IF i \notin D THEN known[i]
  ELSE IF parent[i] = NoParent THEN <<local[i]>>
  ELSE Append(w[parent[i]], local[i])

Products(D, known, C, w) ==
  /\ \A i \in C : parent[i] \in C \cup {NoParent}
  /\ \A i \in C : w[i] = Product(D, known, w, i)

LEMMA ProductType ==
  ASSUME TypeInv, NEW D, NEW known \in [Slots -> Seq(Local)],
         NEW C \in SUBSET Slots, NEW w \in [C -> Seq(Local)], NEW i \in Slots,
         parent[i] \in C \cup {NoParent}
  PROVE  Product(D, known, w, i) \in Seq(Local)
<1>1. local[i] \in Local /\ known[i] \in Seq(Local)
  BY DEF TypeInv
<1>2. CASE i \notin D \/ parent[i] = NoParent
  BY <1>1, <1>2 DEF Product
<1>3. CASE i \in D /\ parent[i] # NoParent
  <2>1. w[parent[i]] \in Seq(Local)
    BY <1>3
  <2> QED
    BY <1>1, <1>3, <2>1 DEF Product
<1> QED
  BY <1>2, <1>3

LEMMA ProductsUnique ==
  ASSUME TreeInv, NEW D, NEW known, NEW C, NEW E, NEW v, NEW w, NEW i,
         C \subseteq Slots, Products(D, known, C, v), Products(D, known, E, w),
         i \in C, i \in E
  PROVE  v[i] = w[i]
<1> SUFFICES ASSUME v[i] # w[i] PROVE FALSE
  OBVIOUS
<1> DEFINE S == { j \in C \cap E : v[j] # w[j] }
<1>1. S \in SUBSET Slots /\ i \in S
  OBVIOUS
<1>2. PICK j \in S : parent[j] \notin S
  BY <1>1 DEF TreeInv, Acyclic
<1>3. parent[j] = NoParent \/ v[parent[j]] = w[parent[j]]
  BY <1>2 DEF Products
<1>4. v[j] = Product(D, known, v, j) /\ w[j] = Product(D, known, w, j)
  BY DEF Products
<1> QED
  BY <1>3, <1>4 DEF Product

\* The recursion up the tree is well defined: there is a w for all slots.
LEMMA ProductsExist ==
  ASSUME TreeInv, NEW D, NEW known \in [Slots -> Seq(Local)]
  PROVE  \E w \in [Slots -> Seq(Local)] : Products(D, known, Slots, w)
<1> DEFINE IsProduct(i, x) ==
             \E C \in SUBSET Slots : \E w \in [C -> Seq(Local)] :
               Products(D, known, C, w) /\ i \in C /\ x = w[i]
           Good == { i \in Slots : \E x \in Seq(Local) : IsProduct(i, x) }
           g == [i \in Good |-> CHOOSE x \in Seq(Local) : IsProduct(i, x)]
<1>0. TypeInv
  BY DEF TreeInv
<1>1. ASSUME NEW C \in SUBSET Slots, NEW w \in [C -> Seq(Local)], Products(D, known, C, w)
      PROVE  C \subseteq Good /\ \A i \in C : g[i] = w[i]
  <2> SUFFICES ASSUME NEW i \in C PROVE i \in Good /\ g[i] = w[i]
    OBVIOUS
  <2>1. w[i] \in Seq(Local) /\ IsProduct(i, w[i])
    BY <1>1
  <2>2. i \in Good
    BY <2>1
  <2>3. g[i] \in Seq(Local) /\ IsProduct(i, g[i])
    BY <2>1, <2>2
  <2>4. PICK E \in SUBSET Slots : \E v \in [E -> Seq(Local)] :
          Products(D, known, E, v) /\ i \in E /\ g[i] = v[i]
    BY <2>3
  <2>5. PICK v \in [E -> Seq(Local)] : Products(D, known, E, v) /\ i \in E /\ g[i] = v[i]
    BY <2>4
  <2> HIDE DEF g, Good, IsProduct
  <2>7. v[i] = w[i]
    BY <1>1, <2>5, ProductsUnique
  <2> QED
    BY <2>2, <2>5, <2>7
<1>2. g \in [Good -> Seq(Local)] /\ Products(D, known, Good, g) /\ Good \in SUBSET Slots
  <2>1. \A i \in Good : g[i] \in Seq(Local) /\ IsProduct(i, g[i])
    OBVIOUS
  <2>2. g \in [Good -> Seq(Local)]
    BY <2>1
  <2>3. ASSUME NEW i \in Good
        PROVE  parent[i] \in Good \cup {NoParent} /\ g[i] = Product(D, known, g, i)
    <3>0. PICK C \in SUBSET Slots : \E w \in [C -> Seq(Local)] :
            Products(D, known, C, w) /\ i \in C /\ g[i] = w[i]
      BY <2>1
    <3>1. PICK w \in [C -> Seq(Local)] :
            Products(D, known, C, w) /\ i \in C /\ g[i] = w[i]
      BY <3>0
    <3> HIDE DEF g, Good, IsProduct
    <3>2. C \subseteq Good /\ \A k \in C : g[k] = w[k]
      BY <1>1, <3>1
    <3>3. parent[i] \in C \cup {NoParent} /\ w[i] = Product(D, known, w, i)
      BY <3>1 DEF Products
    <3>4. Product(D, known, w, i) = Product(D, known, g, i)
      BY <3>2, <3>3 DEF Product
    <3> QED
      BY <3>1, <3>2, <3>3, <3>4
  <2> QED
    BY <2>2, <2>3 DEF Products
<1> HIDE DEF g
<1>3. Good = Slots
  <2> SUFFICES ASSUME Slots \ Good # {} PROVE FALSE
    BY <1>2
  <2>1. PICK i \in Slots \ Good : parent[i] \notin Slots \ Good
    BY DEF TreeInv, Acyclic
  <2>2. parent[i] \in Good \cup {NoParent}
    BY <1>0, <2>1 DEF TypeInv
  <2> DEFINE C == Good \cup {i}
             w == [k \in C |-> IF k = i THEN Product(D, known, g, i) ELSE g[k]]
  <2> HIDE DEF Good, IsProduct
  <2>3. Product(D, known, g, i) \in Seq(Local)
    BY <1>0, <1>2, <2>2, ProductType
  <2>4. w \in [C -> Seq(Local)] /\ C \in SUBSET Slots /\ i \in C
    BY <1>2, <2>3
  <2>5. i \notin Good /\ w[i] = Product(D, known, g, i) /\ \A k \in Good : w[k] = g[k]
    OBVIOUS
  <2> HIDE DEF w
  <2>6. \A k \in C : parent[k] \in Good \cup {NoParent}
    BY <1>2, <2>2 DEF Products
  <2>7. \A k \in C : Product(D, known, w, k) = Product(D, known, g, k)
    BY <2>5, <2>6 DEF Product
  <2>8. \A k \in C : w[k] = Product(D, known, g, k)
    BY <1>2, <2>5 DEF Products
  <2>9. Products(D, known, C, w)
    BY <2>6, <2>7, <2>8 DEF Products
  <2> QED
    BY <1>1, <2>4, <2>5, <2>9
<1> HIDE DEF Good, IsProduct
<1> QED
  BY <1>2, <1>3

Dirty == { i \in Slots : dirty[i] }

\* What the recursive functions are solutions of.
RecomputedSteps(w) ==
  w = [i \in Slots |-> IF ~dirty[i] THEN world[i]
                       ELSE IF parent[i] = NoParent THEN <<local[i]>>
                       ELSE Append(w[parent[i]], local[i])]

TrueWorldSteps(w) ==
  w = [i \in Slots |-> IF parent[i] = NoParent THEN <<local[i]>>
                       ELSE Append(w[parent[i]], local[i])]

LEMMA RecomputedDefined ==
  ASSUME TreeInv
  PROVE  /\ Recomputed \in [Slots -> Seq(Local)]
         /\ \A i \in Slots : Recomputed[i] = Product(Dirty, world, Recomputed, i)
<1> DEFINE w == CHOOSE f : RecomputedSteps(f)
<1>1. Recomputed = w
  BY Zenon DEF Recomputed, RecomputedSteps
<1>2. world \in [Slots -> Seq(Local)]
  BY DEF TreeInv, TypeInv
<1>3. PICK f \in [Slots -> Seq(Local)] : Products(Dirty, world, Slots, f)
  BY <1>2, ProductsExist
<1>4. \A i \in Slots : f[i] = Product(Dirty, world, f, i)
  BY <1>3 DEF Products
<1>5. RecomputedSteps(f)
  <2>1. f = [i \in Slots |-> f[i]]
    OBVIOUS
  <2>2. \A i \in Slots : f[i] = IF ~dirty[i] THEN world[i]
                                ELSE IF parent[i] = NoParent THEN <<local[i]>>
                                ELSE Append(f[parent[i]], local[i])
    BY <1>4 DEF Product, Dirty
  <2> QED
    BY <2>1, <2>2 DEF RecomputedSteps
<1>6. RecomputedSteps(w)
  BY <1>5
<1> HIDE DEF w
<1>7. w = [i \in Slots |-> w[i]] /\ \A i \in Slots : w[i] = Product(Dirty, world, w, i)
  BY <1>6 DEF RecomputedSteps, Product, Dirty
<1>8. Products(Dirty, world, Slots, w)
  BY <1>7 DEF Products, TreeInv, TypeInv
<1>9. \A i \in Slots : w[i] = f[i]
  BY <1>3, <1>8, ProductsUnique
<1>10. w \in [Slots -> Seq(Local)]
  BY <1>7, <1>9
<1> QED
  BY <1>1, <1>7, <1>10

LEMMA TrueWorldDefined ==
  ASSUME TreeInv
  PROVE  /\ TrueWorld \in [Slots -> Seq(Local)]
         /\ \A i \in Slots : TrueWorld[i] = Product(Slots, world, TrueWorld, i)
<1> DEFINE w == CHOOSE f : TrueWorldSteps(f)
<1>1. TrueWorld = w
  BY Zenon DEF TrueWorld, TrueWorldSteps
<1>2. world \in [Slots -> Seq(Local)]
  BY DEF TreeInv, TypeInv
<1>3. PICK f \in [Slots -> Seq(Local)] : Products(Slots, world, Slots, f)
  BY <1>2, ProductsExist
<1>4. \A i \in Slots : f[i] = Product(Slots, world, f, i)
  BY <1>3 DEF Products
<1>5. TrueWorldSteps(f)
  <2>1. f = [i \in Slots |-> f[i]]
    OBVIOUS
  <2>2. \A i \in Slots : f[i] = IF parent[i] = NoParent THEN <<local[i]>>
                                ELSE Append(f[parent[i]], local[i])
    BY <1>4 DEF Product
  <2> QED
    BY <2>1, <2>2 DEF TrueWorldSteps
<1>6. TrueWorldSteps(w)
  BY <1>5
<1> HIDE DEF w
<1>7. w = [i \in Slots |-> w[i]] /\ \A i \in Slots : w[i] = Product(Slots, world, w, i)
  BY <1>6 DEF TrueWorldSteps, Product
<1>8. Products(Slots, world, Slots, w)
  BY <1>7 DEF Products, TreeInv, TypeInv
<1>9. \A i \in Slots : w[i] = f[i]
  BY <1>3, <1>8, ProductsUnique
<1>10. w \in [Slots -> Seq(Local)]
  BY <1>7, <1>9
<1> QED
  BY <1>1, <1>7, <1>10

\* Where nothing between a slot and its first clean ancestor is wrong, what is
\* recomputed is the product of all local transforms from the root.
LEMMA RecomputedIsTrue ==
  ASSUME TreeInv, CacheIsTrue, NEW i \in LiveSlots,
         \A j \in Path(i) : j \notin orphaned
  PROVE  Recomputed[i] = TrueWorld[i]
<1> SUFFICES ASSUME Recomputed[i] # TrueWorld[i] PROVE FALSE
  OBVIOUS
<1>0. TypeInv /\ ParentsLive /\ NoParent \notin Slots
  BY NoParentAssumption DEF TreeInv
<1> DEFINE S == { j \in LiveSlots : /\ \A k \in Path(j) : k \notin orphaned
                                    /\ Recomputed[j] # TrueWorld[j] }
<1>1. S \in SUBSET Slots /\ i \in S
  BY DEF LiveSlots
<1>2. PICK j \in S : parent[j] \notin S
  BY <1>1 DEF TreeInv, Acyclic
<1>3. /\ j \in Slots /\ j \in LiveSlots
      /\ Recomputed[j] = Product(Dirty, world, Recomputed, j)
      /\ TrueWorld[j] = Product(Slots, world, TrueWorld, j)
  BY RecomputedDefined, TrueWorldDefined DEF LiveSlots
<1>4. dirty[j]
  BY <1>3 DEF CacheIsTrue, Product, Dirty
<1>5. parent[j] # NoParent
  BY <1>3, <1>4 DEF Product, Dirty
<1>6. parent[j] \in LiveSlots /\ Path(parent[j]) \subseteq Path(j)
  <2>1. parent[j] \in LiveSlots /\ parent[j] \in Slots
    BY <1>0, <1>3, <1>5 DEF ParentsLive, LiveSlots
  <2>2. \A k \in Path(parent[j]) : k \in Path(j)
    BY <1>0, <1>3, <2>1, SubtreeOfChild DEF Path
  <2> QED
    BY <2>1, <2>2
<1>7. Recomputed[parent[j]] = TrueWorld[parent[j]]
  BY <1>2, <1>6
<1> QED
  BY <1>2, <1>3, <1>4, <1>5, <1>7 DEF Product, Dirty
---------------------------------------------------------------------------
(* The tree, step by step                                                  *)

\* Cutting slots off their parents makes no cycle.
LEMMA CuttingKeepsAcyclic ==
  ASSUME Acyclic, \A i \in Slots : parent'[i] \in {parent[i], NoParent}
  PROVE  Acyclic'
<1> SUFFICES ASSUME NEW S \in SUBSET Slots, S # {}
             PROVE  \E i \in S : parent'[i] \notin S
  BY DEF Acyclic
<1>1. PICK i \in S : parent[i] \notin S
  BY DEF Acyclic
<1> QED
  BY <1>1, NoParentAssumption

\* Nor does hanging i under a slot that is not below it: the slots of a cycle
\* that are not below i would make one by themselves.
LEMMA SetParentKeepsAcyclic ==
  ASSUME TreeInv, NEW i \in Slots, NEW p \in Slots \cup {NoParent}, SetParent(i, p)
  PROVE  Acyclic'
<1>0. TypeInv /\ ParentsLive /\ NoParent \notin Slots /\ alive[i]
  BY NoParentAssumption DEF TreeInv, SetParent
<1>1. parent'[i] = p /\ \A j \in Slots : j # i => parent'[j] = parent[j]
  BY <1>0 DEF SetParent, TypeInv
<1>2. CASE p = NoParent
  BY <1>1, <1>2, CuttingKeepsAcyclic DEF TreeInv
<1>3. CASE p # NoParent
  <2> SUFFICES ASSUME NEW S \in SUBSET Slots, S # {}, \A j \in S : parent'[j] \in S
               PROVE  FALSE
    BY DEF Acyclic
  <2> DEFINE T == (S \cap LiveSlots) \ Subtree(i)
  <2>1. i \in S
    BY <1>1 DEF TreeInv, Acyclic
  <2>2. p \in T
    BY <1>1, <1>3, <2>1 DEF SetParent
  <2>3. ASSUME NEW j \in T PROVE parent[j] \in T
    <3>1. j # i /\ j \in LiveSlots
      BY SubtreeHasRoot
    <3>2. parent[j] \in S
      BY <1>1, <3>1
    <3>3. parent[j] \in LiveSlots
      BY <1>0, <3>1, <3>2 DEF ParentsLive
    <3>4. parent[j] \notin Subtree(i)
      BY <1>0, <3>1, SubtreeOfChild
    <3> QED
      BY <3>2, <3>3, <3>4
  <2> QED
    BY <2>2, <2>3 DEF TreeInv, Acyclic
<1> QED
  BY <1>2, <1>3

LEMMA AllocKeepsTree ==
  ASSUME TreeInv, NEW i \in Slots, Alloc(i) PROVE TreeInv'
<1>0. TypeInv /\ Acyclic /\ ParentsLive /\ NoParent \notin Slots
  BY NoParentAssumption DEF TreeInv
<1>1. TypeInv'
  BY <1>0, IdentityAssumption DEF Alloc, TypeInv
<1>2. /\ alive'[i] /\ parent'[i] = NoParent
      /\ \A j \in Slots : j # i => alive'[j] = alive[j] /\ parent'[j] = parent[j]
  BY <1>0 DEF Alloc, TypeInv
<1>3. Acyclic'
  BY <1>0, <1>2, CuttingKeepsAcyclic
<1>4. ParentsLive'
  BY <1>0, <1>2 DEF ParentsLive, LiveSlots
<1> QED
  BY <1>1, <1>3, <1>4 DEF TreeInv

LEMMA FreeKeepsTree ==
  ASSUME TreeInv, NEW i \in Slots, Free(i) PROVE TreeInv'
<1>0. TypeInv /\ Acyclic /\ ParentsLive /\ NoParent \notin Slots
  BY NoParentAssumption DEF TreeInv
<1>1. parent' \in [Slots -> Slots \cup {NoParent}]
  BY <1>0 DEF Free, ParentsAfterFree, TypeInv
<1>2. TypeInv'
  BY <1>0, <1>1 DEF Free, TypeInv, Children, LiveSlots
<1>3. /\ ~alive'[i]
      /\ \A j \in Slots : j # i => alive'[j] = alive[j]
      /\ \A j \in Children(i) : parent'[j] = NoParent
      /\ \A j \in Slots \ Children(i) : parent'[j] = parent[j]
  BY <1>0 DEF Free, ParentsAfterFree, TypeInv, Children, LiveSlots
<1>4. Acyclic'
  BY <1>0, <1>3, CuttingKeepsAcyclic
<1>5. ParentsLive'
  <2> SUFFICES ASSUME NEW j \in Slots, alive'[j], parent'[j] # NoParent
               PROVE  parent'[j] \in Slots /\ alive'[parent'[j]]
    BY DEF ParentsLive, LiveSlots
  <2>1. j \in LiveSlots /\ j \notin Children(i)
    BY <1>3 DEF LiveSlots
  <2>2. parent'[j] = parent[j] /\ parent[j] # i /\ parent[j] \in LiveSlots
    BY <1>0, <1>3, <2>1 DEF Children, ParentsLive
  <2> QED
    BY <1>3, <2>2 DEF LiveSlots
<1> QED
  BY <1>2, <1>4, <1>5 DEF TreeInv

LEMMA MarkDirtyType ==
  ASSUME TypeInv, NEW i \in Slots, MarkDirty(i)
  PROVE  /\ dirty' \in [Slots -> BOOLEAN]
         /\ orphaned' \subseteq Slots
         /\ orphaned' = orphaned \ Subtree(i)
         /\ \A j \in Subtree(i) : dirty'[j]
         /\ \A j \in Slots \ Subtree(i) : dirty'[j] = dirty[j]
<1>1. dirty' = [j \in Slots |-> dirty[j] \/ j \in Subtree(i)]
  BY DEF MarkDirty, DirtyBelow
<1>2. dirty' \in [Slots -> BOOLEAN]
  BY <1>1
<1>3. orphaned' = orphaned \ Subtree(i) /\ orphaned' \subseteq Slots
  BY DEF MarkDirty, StillOrphaned, TypeInv
<1> QED
  BY <1>1, <1>2, <1>3, SubtreeHasRoot DEF TypeInv

LEMMA SetLocalKeepsTree ==
  ASSUME TreeInv, NEW i \in Slots, NEW v \in Local, SetLocal(i, v) PROVE TreeInv'
<1>1. TypeInv'
  BY MarkDirtyType DEF TreeInv, TypeInv, SetLocal
<1>2. UNCHANGED <<alive, parent>>
  BY DEF SetLocal
<1> QED
  BY <1>1, <1>2 DEF TreeInv, Acyclic, ParentsLive, LiveSlots

LEMMA SetParentKeepsTree ==
  ASSUME TreeInv, NEW i \in Slots, NEW p \in Slots \cup {NoParent}, SetParent(i, p)
  PROVE  TreeInv'
<1>0. TypeInv /\ ParentsLive
  BY DEF TreeInv
<1>1. TypeInv'
  BY <1>0, MarkDirtyType DEF TypeInv, SetParent
<1>2. ParentsLive'
  BY <1>0 DEF SetParent, ParentsLive, LiveSlots, TypeInv
<1> QED
  BY <1>1, <1>2, SetParentKeepsAcyclic DEF TreeInv

LEMMA UpdateKeepsTree ==
  ASSUME TreeInv, NEW U, Update(U), UNCHANGED <<alive, parent, local, orphaned>>
  PROVE  TreeInv'
<1>1. /\ world' = [j \in Slots |-> IF j \in U THEN Recomputed[j] ELSE world[j]]
      /\ dirty' = [j \in Slots |-> dirty[j] /\ j \notin U]
  BY DEF Update
<1>2. world' \in [Slots -> Seq(Local)]
  BY <1>1, RecomputedDefined DEF TreeInv, TypeInv
<1>3. dirty' \in [Slots -> BOOLEAN]
  BY <1>1
<1>4. TypeInv'
  BY <1>2, <1>3 DEF TreeInv, TypeInv
<1> QED
  BY <1>4 DEF TreeInv, Acyclic, ParentsLive, LiveSlots
---------------------------------------------------------------------------
(* What a step leaves alone                                                *)

\* Every step but an update changes at most the tree below one slot.
KeptOutside(i) ==
  \A j \in LiveSlots \ Subtree(i) :
    /\ alive'[j] /\ parent'[j] = parent[j] /\ local'[j] = local[j]
    /\ world'[j] = world[j] /\ dirty'[j] = dirty[j]

SubtreesClosed == \A i \in Slots : i \in Subtree(i) /\ Closed(Subtree(i))

LEMMA SubtreesAreClosed == SubtreesClosed
BY SubtreeHasRoot, SubtreeClosed DEF SubtreesClosed

\* A slot outside the subtree of i is below the same slots as before.
LEMMA KeptPath ==
  ASSUME TypeInv, NEW i \in Slots, KeptOutside(i),
         NEW k \in Slots, NEW j \in Subtree(k), j \notin Subtree(i)
  PROVE  j \in Subtree(k)'
<1> DEFINE S == { m \in Slots : m \in Subtree(i) \/ m \in Subtree(k)' }
<1>1. SubtreesClosed'
  BY SubtreesAreClosed, PTL
<1>2. k \in S
  BY <1>1 DEF SubtreesClosed
<1>3. ASSUME NEW m \in S \cap Subtree(k), NEW n \in Children(m) PROVE n \in S
  <2>1. n \in Slots /\ n \in LiveSlots /\ parent[n] = m
    BY DEF Children, LiveSlots
  <2>2. CASE n \in Subtree(i)
    BY <2>1, <2>2
  <2>3. CASE n \notin Subtree(i)
    <3>1. m \notin Subtree(i)
      BY <2>1, <2>3, SubtreeOfChild
    <3>2. n \in Children(m)'
      BY <2>1, <2>3 DEF KeptOutside, Children, LiveSlots
    <3>3. m \in Subtree(k)'
      BY <3>1
    <3>4. n \in Subtree(k)'
      BY <1>1, <3>2, <3>3 DEF SubtreesClosed, Closed
    <3> QED
      BY <2>1, <3>4
  <2> QED
    BY <2>2, <2>3
<1>4. Subtree(k) \subseteq S
  BY <1>2, <1>3, SubtreeLeast
<1> QED
  BY <1>4

\* What TrueWorldDefined says, to be used of the next state too.
TrueWorldSolves ==
  TreeInv => \A i \in Slots : TrueWorld[i] = Product(Slots, world, TrueWorld, i)

LEMMA TrueWorldIsSolved == TrueWorldSolves
BY TrueWorldDefined DEF TrueWorldSolves

\* The true world transforms of slots whose paths are as they were are too.
LEMMA KeptWorld ==
  ASSUME TreeInv, TreeInv', NEW K \in SUBSET Slots,
         \A j \in K : /\ parent[j] \in K \cup {NoParent}
                      /\ parent'[j] = parent[j] /\ local'[j] = local[j],
         NEW i \in K
  PROVE  TrueWorld'[i] = TrueWorld[i]
<1> SUFFICES ASSUME TrueWorld'[i] # TrueWorld[i] PROVE FALSE
  OBVIOUS
<1> DEFINE S == { j \in K : TrueWorld'[j] # TrueWorld[j] }
<1>1. S \in SUBSET Slots /\ i \in S
  OBVIOUS
<1>2. PICK j \in S : parent[j] \notin S
  BY <1>1 DEF TreeInv, Acyclic
<1>3. TrueWorldSolves /\ TrueWorldSolves'
  BY TrueWorldIsSolved, PTL
<1>4. TrueWorld[j] = IF parent[j] = NoParent THEN <<local[j]>>
                     ELSE Append(TrueWorld[parent[j]], local[j])
  BY <1>3 DEF TrueWorldSolves, Product
<1>5. TrueWorld'[j] = IF parent'[j] = NoParent THEN <<local'[j]>>
                      ELSE Append(TrueWorld'[parent'[j]], local'[j])
  BY <1>3 DEF TrueWorldSolves, Product
<1>6. parent[j] # NoParent => TrueWorld'[parent[j]] = TrueWorld[parent[j]]
  BY <1>2
<1> QED
  BY <1>4, <1>5, <1>6

\* CacheIsTrue, of one entity.
TrueOrOrphaned(j) == world[j] = TrueWorld[j] \/ \E k \in Path(j) : k \in orphaned

LEMMA KeptCache ==
  ASSUME TreeInv, TreeInv', CacheIsTrue, NEW i \in Slots, KeptOutside(i),
         orphaned \ Subtree(i) \subseteq orphaned',
         NEW j \in LiveSlots, j \notin Subtree(i), ~dirty[j]
  PROVE  TrueOrOrphaned(j)'
<1>0. TypeInv /\ ParentsLive
  BY DEF TreeInv
<1>1. CASE world[j] = TrueWorld[j]
  <2> DEFINE K == LiveSlots \ Subtree(i)
  <2>1. K \in SUBSET Slots /\ j \in K
    BY DEF LiveSlots
  <2>2. \A k \in K : parent[k] \in K \cup {NoParent}
    BY <1>0, SubtreeOfChild DEF ParentsLive
  <2>3. \A k \in K : parent'[k] = parent[k] /\ local'[k] = local[k] /\ world'[k] = world[k]
    BY DEF KeptOutside
  <2> HIDE DEF K
  <2>4. TrueWorld'[j] = TrueWorld[j]
    BY <2>1, <2>2, <2>3, KeptWorld
  <2> QED
    BY <1>1, <2>1, <2>3, <2>4 DEF TrueOrOrphaned
<1>2. CASE world[j] # TrueWorld[j]
  <2>1. PICK k \in Path(j) : k \in orphaned
    BY <1>2 DEF CacheIsTrue
  <2>2. k \in Slots /\ j \in Subtree(k)
    BY DEF Path
  <2>3. k \notin Subtree(i)
    BY <2>2, SubtreeTransitive
  <2>4. j \in Subtree(k)'
    BY <1>0, <2>2, KeptPath
  <2> QED
    BY <2>1, <2>2, <2>3, <2>4 DEF TrueOrOrphaned, Path
<1> QED
  BY <1>1, <1>2

\* Nothing is below a dead slot.
LEMMA NothingBelowDead ==
  ASSUME TreeInv, NEW i \in Slots, ~alive[i] PROVE Subtree(i) = {i}
<1>1. \A k \in {i} : Children(k) \subseteq {i}
  BY NoParentAssumption DEF TreeInv, ParentsLive, Children, LiveSlots
<1>2. {i} \in SUBSET Slots
  OBVIOUS
<1>3. Subtree(i) \subseteq {i}
  BY <1>1, <1>2, SubtreeLeast
<1> QED
  BY <1>3, SubtreeHasRoot
---------------------------------------------------------------------------
(* The cache, step by step                                                 *)

CacheInv == TreeInv /\ CleanAbove /\ CacheIsTrue

\* CacheIsTrue of the next state, entity by entity.
LEMMA CacheByEntity ==
  ASSUME \A j \in LiveSlots' : ~dirty'[j] => TrueOrOrphaned(j)'
  PROVE  CacheIsTrue'
BY DEF CacheIsTrue, TrueOrOrphaned

\* A step that marks dirty whatever is below i, if it changed anything there.
LEMMA MarkingStep ==
  ASSUME CacheInv, TreeInv', NEW i \in Slots, KeptOutside(i),
         orphaned \ Subtree(i) \subseteq orphaned',
         LiveSlots' \subseteq LiveSlots \cup {i},
         \A j \in Subtree(i) : dirty'[j]
  PROVE  CacheInv'
<1>0. TypeInv /\ ParentsLive
  BY DEF CacheInv, TreeInv
<1>1. ASSUME NEW j \in LiveSlots', ~dirty'[j]
      PROVE  j \in LiveSlots /\ j \notin Subtree(i) /\ ~dirty[j] /\ parent'[j] = parent[j]
  <2>1. j \in Slots /\ j \notin Subtree(i) /\ j # i
    BY <1>1, SubtreeHasRoot DEF LiveSlots
  <2> QED
    BY <1>1, <2>1 DEF KeptOutside
<1>2. CleanAbove'
  <2> SUFFICES ASSUME NEW j \in LiveSlots', ~dirty'[j], parent'[j] # NoParent
               PROVE  ~dirty'[parent'[j]]
    BY DEF CleanAbove
  <2>1. /\ j \in LiveSlots /\ parent'[j] = parent[j] /\ parent[j] \in LiveSlots
        /\ ~dirty[parent[j]]
    BY <1>0, <1>1 DEF CacheInv, CleanAbove, ParentsLive
  <2>2. parent[j] \notin Subtree(i)
    BY <1>0, <1>1, SubtreeOfChild
  <2> QED
    BY <2>1, <2>2 DEF KeptOutside
<1>3. \A j \in LiveSlots' : ~dirty'[j] => TrueOrOrphaned(j)'
  BY <1>1, KeptCache DEF CacheInv
<1> QED
  BY <1>2, <1>3, CacheByEntity DEF CacheInv

LEMMA AllocStep ==
  ASSUME CacheInv, NEW i \in Slots, Alloc(i) PROVE CacheInv'
<1>1. TreeInv' /\ TypeInv
  BY AllocKeepsTree DEF CacheInv, TreeInv
<1>2. Subtree(i) = {i}
  BY NothingBelowDead DEF CacheInv, Alloc
<1>3. KeptOutside(i) /\ LiveSlots' \subseteq LiveSlots \cup {i} /\ orphaned' = orphaned
  BY <1>1, <1>2 DEF Alloc, KeptOutside, LiveSlots, TypeInv
<1>4. dirty'[i]
  BY <1>1 DEF Alloc, TypeInv
<1> QED
  BY <1>1, <1>2, <1>3, <1>4, MarkingStep

LEMMA SetLocalStep ==
  ASSUME CacheInv, NEW i \in Slots, NEW v \in Local, SetLocal(i, v) PROVE CacheInv'
<1>1. TreeInv' /\ TypeInv
  BY SetLocalKeepsTree DEF CacheInv, TreeInv
<1>2. /\ orphaned' = orphaned \ Subtree(i)
      /\ \A j \in Subtree(i) : dirty'[j]
      /\ \A j \in Slots \ Subtree(i) : dirty'[j] = dirty[j]
  BY <1>1, MarkDirtyType DEF SetLocal
<1>3. KeptOutside(i) /\ LiveSlots' = LiveSlots
  BY <1>1, <1>2, SubtreeHasRoot DEF SetLocal, KeptOutside, LiveSlots, TypeInv
<1> QED
  BY <1>1, <1>2, <1>3, MarkingStep

LEMMA SetParentStep ==
  ASSUME CacheInv, NEW i \in Slots, NEW p \in Slots \cup {NoParent}, SetParent(i, p)
  PROVE  CacheInv'
<1>1. TreeInv' /\ TypeInv
  BY SetParentKeepsTree DEF CacheInv, TreeInv
<1>2. /\ orphaned' = orphaned \ Subtree(i)
      /\ \A j \in Subtree(i) : dirty'[j]
      /\ \A j \in Slots \ Subtree(i) : dirty'[j] = dirty[j]
  BY <1>1, MarkDirtyType DEF SetParent
<1>3. KeptOutside(i) /\ LiveSlots' = LiveSlots
  BY <1>1, <1>2, SubtreeHasRoot DEF SetParent, KeptOutside, LiveSlots, TypeInv
<1> QED
  BY <1>1, <1>2, <1>3, MarkingStep

\* What was below i is below one of its children, which free makes a root
\* and does not mark: it is orphaned.
LEMMA BelowAnOrphan ==
  ASSUME TreeInv, NEW i \in Slots, Free(i), NEW j \in Subtree(i), j # i
  PROVE  \E k \in Path(j)' : k \in orphaned'
<1>0. TypeInv
  BY DEF TreeInv
<1> DEFINE S == { m \in Slots : m = i \/ \E k \in Children(i) : m \in Subtree(k)' }
<1>1. SubtreesClosed'
  BY SubtreesAreClosed, PTL
<1>2. ASSUME NEW m \in S \cap Subtree(i), NEW n \in Children(m) PROVE n \in S
  <2>1. n \in Slots /\ alive[n] /\ parent[n] = m
    BY DEF Children, LiveSlots
  <2>2. CASE m = i
    BY <1>1, <2>1, <2>2 DEF SubtreesClosed
  <2>3. CASE m # i /\ n # i
    <3>1. PICK k \in Children(i) : m \in Subtree(k)'
      BY <2>3
    <3>2. alive'[n] /\ parent'[n] = m
      BY <1>0, <2>1, <2>3 DEF Free, ParentsAfterFree, Children, TypeInv
    <3>3. n \in Subtree(k)'
      BY <1>1, <2>1, <3>1, <3>2 DEF SubtreesClosed, Closed, Children, LiveSlots
    <3> QED
      BY <2>1, <3>3
  <2> QED
    BY <2>1, <2>2, <2>3
<1>3. Subtree(i) \subseteq S
  BY <1>2, SubtreeLeast
<1>4. PICK k \in Children(i) : j \in Subtree(k)'
  BY <1>3
<1> QED
  BY <1>4 DEF Free, Path, Children, LiveSlots

LEMMA FreeStep ==
  ASSUME CacheInv, NEW i \in Slots, Free(i) PROVE CacheInv'
<1>1. TreeInv' /\ TypeInv /\ ParentsLive /\ TreeInv
  BY FreeKeepsTree DEF CacheInv, TreeInv
<1>2. /\ LiveSlots' = LiveSlots \ {i}
      /\ \A j \in Slots \ Children(i) : parent'[j] = parent[j]
      /\ \A j \in Children(i) : parent'[j] = NoParent
      /\ local' = local /\ world' = world /\ dirty' = dirty
      /\ orphaned \ {i} \subseteq orphaned'
  BY <1>1 DEF Free, ParentsAfterFree, TypeInv, LiveSlots, Children
<1>3. i \in Subtree(i) /\ Children(i) \subseteq Subtree(i)
  BY SubtreeHasRoot, SubtreeClosed DEF Closed
<1>4. KeptOutside(i)
  BY <1>2, <1>3 DEF KeptOutside, LiveSlots
<1>5. CleanAbove'
  <2> SUFFICES ASSUME NEW j \in LiveSlots', ~dirty'[j], parent'[j] # NoParent
               PROVE  ~dirty'[parent'[j]]
    BY DEF CleanAbove
  <2>1. j \in LiveSlots /\ j \in Slots /\ parent'[j] = parent[j]
    BY <1>2 DEF LiveSlots
  <2> QED
    BY <1>2, <2>1 DEF CacheInv, CleanAbove
<1>6. ASSUME NEW j \in LiveSlots', ~dirty'[j] PROVE TrueOrOrphaned(j)'
  <2>1. CASE j \in Subtree(i)
    BY <1>1, <1>2, <1>6, <2>1, BelowAnOrphan DEF TrueOrOrphaned
  <2>2. CASE j \notin Subtree(i)
    BY <1>1, <1>2, <1>3, <1>4, <1>6, <2>2, KeptCache DEF CacheInv
  <2> QED
    BY <2>1, <2>2
<1> QED
  BY <1>1, <1>5, <1>6, CacheByEntity DEF CacheInv

\* An update that leaves no updated entity below a dirty parent.
LEMMA UpdateStep ==
  ASSUME CacheInv, NEW U, Update(U), UNCHANGED <<alive, parent, local, orphaned>>,
         \A j \in LiveSlots \cap U :
           parent[j] # NoParent /\ dirty[parent[j]] => parent[j] \in U
  PROVE  CacheInv'
<1>1. TreeInv' /\ TypeInv /\ ParentsLive /\ TreeInv
  BY UpdateKeepsTree DEF CacheInv, TreeInv
<1>2. /\ \A j \in Slots : world'[j] = IF j \in U THEN Recomputed[j] ELSE world[j]
      /\ \A j \in Slots : dirty'[j] <=> dirty[j] /\ j \notin U
      /\ LiveSlots' = LiveSlots /\ LiveSlots \subseteq Slots
  BY DEF Update, LiveSlots
<1>3. CleanAbove'
  <2> SUFFICES ASSUME NEW j \in LiveSlots, ~dirty'[j], parent[j] # NoParent
               PROVE  ~dirty'[parent[j]]
    BY <1>2 DEF CleanAbove
  <2>1. parent[j] \in Slots /\ j \in Slots
    BY <1>1, <1>2 DEF ParentsLive
  <2> QED
    BY <1>2, <2>1 DEF CacheInv, CleanAbove
<1>4. ASSUME NEW j \in LiveSlots', ~dirty'[j] PROVE TrueOrOrphaned(j)'
  <2>1. j \in LiveSlots /\ j \in Slots
    BY <1>2
  <2>2. TrueWorld'[j] = TrueWorld[j]
    <3>1. \A k \in Slots : /\ parent[k] \in Slots \cup {NoParent}
                           /\ parent'[k] = parent[k] /\ local'[k] = local[k]
      BY <1>1 DEF TypeInv
    <3> QED
      BY <1>1, <2>1, <3>1, KeptWorld
  <2>3. Path(j)' = Path(j)
    BY DEF Path, Subtree, Children, LiveSlots
  <2>4. CASE \E k \in Path(j) : k \in orphaned
    BY <2>3, <2>4 DEF TrueOrOrphaned
  <2>5. CASE \A k \in Path(j) : k \notin orphaned
    <3>1. j \in U => Recomputed[j] = TrueWorld[j]
      BY <1>1, <2>1, <2>5, RecomputedIsTrue DEF CacheInv
    <3>2. j \notin U => world[j] = TrueWorld[j]
      BY <1>2, <1>4, <2>1, <2>5 DEF CacheInv, CacheIsTrue
    <3> QED
      BY <1>2, <2>1, <2>2, <3>1, <3>2 DEF TrueOrOrphaned
  <2> QED
    BY <2>4, <2>5
<1> QED
  BY <1>1, <1>3, <1>4, CacheByEntity DEF CacheInv

LEMMA ReadGlobalStep ==
  ASSUME CacheInv, NEW i \in Slots, ReadGlobal(i) PROVE CacheInv'
<1>0. TreeInv /\ TypeInv /\ ParentsLive
  BY DEF CacheInv, TreeInv
<1> DEFINE U == UpdatedWith(i)
<1>1. ASSUME NEW j \in LiveSlots \cap U, parent[j] # NoParent, dirty[parent[j]]
      PROVE  parent[j] \in U
  <2>1. /\ j \in Slots /\ i \in Subtree(j)
        /\ parent[j] \in Slots
        /\ \A k \in Path(i) : k \in Subtree(j) => dirty[k]
    BY <1>0, <1>1 DEF UpdatedWith, Path, ParentsLive, LiveSlots
  <2>2. j \in Subtree(parent[j])
    BY <1>0, <2>1, SubtreeOfChild, SubtreeHasRoot
  <2>3. i \in Subtree(parent[j])
    BY <2>1, <2>2, SubtreeTransitive
  <2>4. ASSUME NEW k \in Path(i), k \in Subtree(parent[j]), k \notin Subtree(j)
        PROVE  k = parent[j]
    <3>1. k \in Slots /\ i \in Subtree(k)
      BY DEF Path
    <3>2. j \in Subtree(k) /\ j # k
      BY <1>0, <2>1, <2>4, <3>1, PathsAreLinear, SubtreeHasRoot
    <3>3. parent[j] \in Subtree(k)
      BY <1>0, <3>1, <3>2, SubtreeParents
    <3> QED
      BY <1>0, <2>1, <2>4, <3>1, <3>3, NoTwoWayPaths
  <2> QED
    BY <1>1, <2>1, <2>3, <2>4 DEF UpdatedWith, Path
<1> HIDE DEF U
<1>2. Update(U) /\ UNCHANGED <<alive, parent, local, orphaned>>
  BY DEF ReadGlobal, U
<1> QED
  BY <1>1, <1>2, UpdateStep

LEMMA UpdateTransformsStep ==
  ASSUME CacheInv, UpdateTransforms PROVE CacheInv'
<1> DEFINE U == { i \in LiveSlots : dirty[i] }
<1>1. \A j \in LiveSlots \cap U : parent[j] # NoParent /\ dirty[parent[j]] => parent[j] \in U
  BY DEF CacheInv, TreeInv, ParentsLive
<1>2. Update(U) /\ UNCHANGED <<alive, parent, local, orphaned>>
  BY DEF UpdateTransforms
<1> HIDE DEF U
<1> QED
  BY <1>1, <1>2, UpdateStep
---------------------------------------------------------------------------
LEMMA CacheInvInductive == Spec => []CacheInv
<1>1. Init => CacheInv
  <2> SUFFICES ASSUME Init PROVE CacheInv
    OBVIOUS
  <2>1. <<>> \in Seq(Local)
    OBVIOUS
  <2>2. TypeInv
    BY <2>1, IdentityAssumption DEF Init, TypeInv
  <2>3. Acyclic /\ ParentsLive /\ CleanAbove /\ CacheIsTrue
    BY NoParentAssumption DEF Init, Acyclic, ParentsLive, CleanAbove, CacheIsTrue, LiveSlots
  <2> QED
    BY <2>2, <2>3 DEF CacheInv, TreeInv
<1>2. CacheInv /\ [Next]_vars => CacheInv'
  <2> SUFFICES ASSUME CacheInv, [Next]_vars PROVE CacheInv'
    OBVIOUS
  <2>1. CASE UpdateTransforms
    BY <2>1, UpdateTransformsStep
  <2>2. ASSUME NEW i \in Slots, Alloc(i) PROVE CacheInv'
    BY <2>2, AllocStep
  <2>3. ASSUME NEW i \in Slots, Free(i) PROVE CacheInv'
    BY <2>3, FreeStep
  <2>4. ASSUME NEW i \in Slots, ReadGlobal(i) PROVE CacheInv'
    BY <2>4, ReadGlobalStep
  <2>5. ASSUME NEW i \in Slots, NEW v \in Local, SetLocal(i, v) PROVE CacheInv'
    BY <2>5, SetLocalStep
  <2>6. ASSUME NEW i \in Slots, NEW p \in Slots \cup {NoParent}, SetParent(i, p)
        PROVE  CacheInv'
    BY <2>6, SetParentStep
  <2>7. CASE UNCHANGED vars
    <3>1. world' = world /\ dirty' = dirty /\ UNCHANGED <<alive, parent, local, orphaned>>
      BY <2>7 DEF vars
    <3>2. Update({})
      <4>1. world = [j \in Slots |-> world[j]] /\ dirty = [j \in Slots |-> dirty[j]]
        BY DEF CacheInv, TreeInv, TypeInv
      <4>2. \A j \in Slots : dirty[j] \in BOOLEAN
        BY DEF CacheInv, TreeInv, TypeInv
      <4> QED
        BY <3>1, <4>1, <4>2 DEF Update
    <3> QED
      BY <3>1, <3>2, UpdateStep
  <2> QED
    BY <2>1, <2>2, <2>3, <2>4, <2>5, <2>6, <2>7 DEF Next
<1> QED
  BY <1>1, <1>2, PTL DEF Spec

(* The tree and the values of the caches are as they should be: no entity  *)
(* is its own ancestor and the parent of a living entity lives, however    *)
(* entities are moved, freed and made (tc_entity_pool_set_parent, _free).  *)
THEOREM TreeStaysWhole == Spec => []TreeInv
BY CacheInvInductive, PTL DEF CacheInv

(* update_entity_transform may stop at the first clean ancestor: above a   *)
(* clean entity everything is clean, whatever was set, moved, freed or     *)
(* read before.                                                            *)
THEOREM CleanStaysAbove == Spec => []CleanAbove
BY CacheInvInductive, PTL DEF CacheInv

(* A cached world transform that is not marked dirty is the product of the *)
(* local transforms from the root, or is below an entity that lost its     *)
(* parent to tc_entity_pool_free and was not marked.                       *)
THEOREM CacheStaysTrue == Spec => []CacheIsTrue
BY CacheInvInductive, PTL DEF CacheInv
=============================================================================
