------------------------- MODULE SwapArrays_proofs -------------------------
(***************************************************************************)
(* Facts about the growable arrays and their swap-removal, about loops     *)
(* over an array, and about arrays put in a row, for any items and any     *)
(* length.                                                                 *)
(***************************************************************************)
EXTENDS SwapArrays, SequenceTheorems, WellFoundedInduction, TLAPS

\* entity_id_array_remove and its like look for the first occurrence: an
\* array that holds x has one.
LEMMA FirstIndexFound ==
  ASSUME NEW S, NEW arr \in Seq(S), NEW x, Contains(arr, x)
  PROVE  FirstIndex(arr, x) \in 1..Len(arr) /\ arr[FirstIndex(arr, x)] = x
<1> DEFINE Where == { k \in 1..Len(arr) : arr[k] = x }
           Less == { p \in Nat \X Nat : p[1] < p[2] }
<1>1. Where \subseteq Nat /\ Where # {}
  BY DEF Contains
<1>2. IsWellFoundedOn(Less, Nat)
  BY NatLessThanWellFounded, Zenon DEF OpToRel
<1>3. PICK n \in Where : \A m \in Where : ~(<<m, n>> \in Less)
  <2> HIDE DEF Where, Less
  <2> QED
    BY <1>1, <1>2, WFMin
<1>4. ASSUME NEW j \in 1..n-1, arr[j] = x PROVE FALSE
  <2>1. n \in 1..Len(arr) /\ j \in Nat /\ n \in Nat /\ j < n
    OBVIOUS
  <2>2. <<j, n>> \in Less
    BY <2>1
  <2>3. j \in Where
    BY <1>4, <2>1
  <2> QED
    BY <1>3, <2>2, <2>3
<1> QED
  BY <1>3, <1>4 DEF FirstIndex

\* Moving the last item over another one yields an array of the same items'
\* type.
LEMMA SwapRemoveAtType ==
  ASSUME NEW S, NEW arr \in Seq(S), NEW k \in 1..Len(arr)
  PROVE  /\ SwapRemoveAt(arr, k) \in Seq(S)
         /\ Len(SwapRemoveAt(arr, k)) = Len(arr) - 1
  BY DEF SwapRemoveAt, Last

LEMMA SwapRemoveType ==
  ASSUME NEW S, NEW arr \in Seq(S), NEW x
  PROVE  SwapRemove(arr, x) \in Seq(S)
  BY FirstIndexFound, SwapRemoveAtType DEF SwapRemove

\* Swap-removal of position k loses the item at k and no other.
LEMMA SwapRemoveAtItems ==
  ASSUME NEW S, NEW arr \in Seq(S), IsInjective(arr), NEW k \in 1..Len(arr)
  PROVE  /\ ToSet(SwapRemoveAt(arr, k)) = ToSet(arr) \ {arr[k]}
         /\ IsInjective(SwapRemoveAt(arr, k))
<1> DEFINE new == SwapRemoveAt(arr, k)
<1>1. DOMAIN new = 1..Len(arr)-1
  BY DEF SwapRemoveAt
<1>2. \A j \in 1..Len(arr)-1 : new[j] = IF j = k THEN arr[Len(arr)] ELSE arr[j]
  BY DEF SwapRemoveAt, Last
<1>3. ASSUME NEW x \in ToSet(arr) \ {arr[k]} PROVE x \in ToSet(new)
  <2>1. PICK j \in 1..Len(arr) : arr[j] = x
    BY DEF ToSet
  <2>2. CASE j < Len(arr)
    BY <1>1, <1>2, <1>3, <2>1, <2>2 DEF ToSet
  <2>3. CASE j = Len(arr)
    <3>1. k \in 1..Len(arr)-1 /\ new[k] = x
      BY <1>2, <1>3, <2>1, <2>3
    <3> QED
      BY <1>1, <3>1 DEF ToSet
  <2> QED
    BY <2>2, <2>3
<1>4. ASSUME NEW x \in ToSet(new) PROVE x \in ToSet(arr) \ {arr[k]}
  <2>1. PICK j \in 1..Len(arr)-1 : new[j] = x
    BY <1>1 DEF ToSet
  <2> QED
    BY <1>2, <2>1 DEF ToSet, IsInjective
<1>5. IsInjective(new)
  BY <1>1, <1>2 DEF IsInjective
<1> QED
  BY <1>3, <1>4, <1>5

\* The same of removal by value: x is gone, everything else is still there.
LEMMA SwapRemoveItems ==
  ASSUME NEW S, NEW arr \in Seq(S), IsInjective(arr), NEW x
  PROVE  /\ ToSet(SwapRemove(arr, x)) = ToSet(arr) \ {x}
         /\ IsInjective(SwapRemove(arr, x))
<1>1. CASE Contains(arr, x)
  BY <1>1, FirstIndexFound, SwapRemoveAtItems DEF SwapRemove
<1>2. CASE ~Contains(arr, x)
  BY <1>2 DEF SwapRemove, Contains, ToSet
<1> QED
  BY <1>1, <1>2

\* Contains is membership in the set of items.
LEMMA ContainsIsMembership ==
  ASSUME NEW S, NEW arr \in Seq(S), NEW x
  PROVE  Contains(arr, x) <=> x \in ToSet(arr)
  BY DEF Contains, ToSet

\* Pushing an item that is not in the array.
LEMMA AppendItems ==
  ASSUME NEW S, NEW arr \in Seq(S), NEW x \in S
  PROVE  /\ Append(arr, x) \in Seq(S)
         /\ ToSet(Append(arr, x)) = ToSet(arr) \cup {x}
         /\ IsInjective(arr) /\ x \notin ToSet(arr) => IsInjective(Append(arr, x))
<1> DEFINE new == Append(arr, x)
<1>1. new \in Seq(S) /\ DOMAIN new = 1..Len(arr)+1
  OBVIOUS
<1>2. new[Len(arr)+1] = x /\ \A j \in 1..Len(arr) : new[j] = arr[j]
  OBVIOUS
<1>3. ToSet(new) = ToSet(arr) \cup {x}
  BY <1>1, <1>2 DEF ToSet
<1>4. ASSUME IsInjective(arr), x \notin ToSet(arr) PROVE IsInjective(new)
  BY <1>1, <1>2, <1>4 DEF IsInjective, ToSet
<1> QED
  BY <1>1, <1>3, <1>4

\* Popping the last item, as tc_entity_pool_alloc pops the free stack.
LEMMA FrontItems ==
  ASSUME NEW S, NEW arr \in Seq(S), arr # <<>>, IsInjective(arr)
  PROVE  /\ Last(arr) \in ToSet(arr)
         /\ Front(arr) \in Seq(S)
         /\ ToSet(Front(arr)) = ToSet(arr) \ {Last(arr)}
         /\ IsInjective(Front(arr))
<1>1. Len(arr) \in Nat \ {0}
  OBVIOUS
<1>2. Front(arr) \in Seq(S) /\ Len(Front(arr)) = Len(arr) - 1
  <2> DEFINE n == Len(arr) - 1
  <2>1. n \in Nat /\ \A i \in 1..n : arr[i] \in S
    BY <1>1
  <2> HIDE DEF n
  <2>2. /\ SubSeq(arr, 1, n) \in Seq(S)
        /\ Len(SubSeq(arr, 1, n)) = IF 1 <= n THEN n - 1 + 1 ELSE 0
    BY <2>1, SubSeqProperties
  <2>3. Len(SubSeq(arr, 1, n)) = n
    BY <2>1, <2>2
  <2> QED
    BY <2>2, <2>3 DEF n, Front
<1>3. \A j \in 1..Len(arr)-1 : Front(arr)[j] = arr[j]
  BY <1>1 DEF Front
<1>4. DOMAIN Front(arr) = 1..Len(arr)-1
  BY <1>1, <1>2
<1>5. Last(arr) \in ToSet(arr)
  BY <1>1 DEF Last, ToSet
<1>6. ToSet(Front(arr)) = ToSet(arr) \ {Last(arr)}
  BY <1>1, <1>3, <1>4 DEF ToSet, Last, IsInjective
<1>7. IsInjective(Front(arr))
  BY <1>3, <1>4 DEF IsInjective
<1> QED
  BY <1>2, <1>5, <1>6, <1>7

\* Induction: a set that holds 0, and with a number below n the next one.
LEMMA CountingUp ==
  ASSUME NEW n \in Nat, NEW S, 0 \in S, \A k \in 0..n-1 : k \in S => k+1 \in S
  PROVE  0..n \subseteq S
<1> DEFINE Less == { p \in Nat \X Nat : p[1] < p[2] }
           Left == (0..n) \ S
<1>1. IsWellFoundedOn(Less, Nat)
  BY NatLessThanWellFounded, Zenon DEF OpToRel
<1>2. Left \subseteq Nat
  OBVIOUS
<1>3. ASSUME NEW k \in Left PROVE k-1 \in Left /\ <<k-1, k>> \in Less
  <2>1. k # 0 /\ k \in 1..n
    OBVIOUS
  <2>2. k-1 \in 0..n-1 /\ (k-1)+1 = k
    BY <2>1
  <2> QED
    BY <2>1, <2>2
<1>4. Left = {}
  <2> HIDE DEF Less, Left
  <2> SUFFICES ASSUME Left # {} PROVE FALSE
    OBVIOUS
  <2>1. \E k \in Left : \A m \in Left : ~(<<m, k>> \in Less)
    BY <1>1, <1>2, WFMin
  <2> QED
    BY <1>3, <2>1
<1> QED
  BY <1>4

\* The states of an array from which items are removed in turn.
LEMMA RemovalsDefined ==
  ASSUME NEW S, NEW arr \in Seq(S), NEW items \in Seq(S)
  PROVE  \E f : f = [k \in 0..Len(items) |-> IF k = 0 THEN arr ELSE SwapRemove(f[k-1], items[k])]
<1> DEFINE N == Len(items)
           Steps(n, f) ==
             \A k \in 0..n : f[k] = IF k = 0 THEN arr ELSE SwapRemove(f[k-1], items[k])
           Reached == { n \in 0..N : \E f \in [0..n -> Seq(S)] : Steps(n, f) }
<1>1. N \in Nat
  OBVIOUS
<1>2. 0 \in Reached
  <2>1. [k \in 0..0 |-> arr] \in [0..0 -> Seq(S)] /\ Steps(0, [k \in 0..0 |-> arr])
    OBVIOUS
  <2>2. 0 \in 0..N
    BY <1>1
  <2> HIDE DEF Steps
  <2> QED
    BY <2>1, <2>2
<1>3. ASSUME NEW n \in 0..N-1, n \in Reached PROVE n+1 \in Reached
  <2>1. PICK f \in [0..n -> Seq(S)] : Steps(n, f)
    BY <1>3
  <2> DEFINE x == SwapRemove(f[n], items[n+1])
             g == [k \in 0..n+1 |-> IF k = n+1 THEN x ELSE f[k]]
  <2>2. x \in Seq(S)
    BY <1>1, SwapRemoveType
  <2>3. g \in [0..n+1 -> Seq(S)]
    BY <1>1, <2>2
  <2>4. ASSUME NEW k \in 0..n+1
        PROVE  g[k] = IF k = 0 THEN arr ELSE SwapRemove(g[k-1], items[k])
    BY <1>1, <2>1
  <2> HIDE DEF g
  <2>5. Steps(n+1, g)
    BY <2>4
  <2>6. n+1 \in 0..N
    BY <1>1
  <2> HIDE DEF Steps
  <2> QED
    BY <2>3, <2>5, <2>6
<1>4. N \in Reached
  <2> HIDE DEF Reached
  <2>1. 0..N \subseteq Reached
    BY <1>1, <1>2, <1>3, CountingUp
  <2> QED
    BY <1>1, <2>1
<1>5. PICK f \in [0..N -> Seq(S)] : Steps(N, f)
  BY <1>4
<1>6. f = [k \in 0..N |-> IF k = 0 THEN arr ELSE SwapRemove(f[k-1], items[k])]
  BY <1>5
<1> QED
  BY <1>6

\* after[k] is what is left of the array when the first k items are removed.
LEMMA RemovalStates ==
  ASSUME NEW S, NEW arr \in Seq(S), NEW items \in Seq(S)
  PROVE  \E after :
           /\ after[0] = arr
           /\ \A k \in 0..Len(items)-1 : after[k+1] = SwapRemove(after[k], items[k+1])
           /\ \A k \in 0..Len(items) : after[k] \in Seq(S)
           /\ RemovedInTurn(arr, items) = after[Len(items)]
<1> DEFINE N == Len(items)
           Steps(f) == f = [k \in 0..N |-> IF k = 0 THEN arr ELSE SwapRemove(f[k-1], items[k])]
           after == CHOOSE f : Steps(f)
           Typed == { n \in 0..N : after[n] \in Seq(S) }
<1>1. RemovedInTurn(arr, items) = after[N]
  BY Zenon DEF RemovedInTurn
<1>2. Steps(after)
  <2>1. \E f : Steps(f)
    BY RemovalsDefined
  <2> HIDE DEF Steps
  <2> QED
    BY <2>1
<1>3. N \in Nat
  OBVIOUS
<1>4. after[0] = arr /\ \A k \in 0..N-1 : after[k+1] = SwapRemove(after[k], items[k+1])
  <2> HIDE DEF after
  <2>1. after[0] = arr
    BY <1>2, <1>3
  <2>2. ASSUME NEW k \in 0..N-1 PROVE after[k+1] = SwapRemove(after[k], items[k+1])
    <3>1. k+1 \in 0..N /\ k+1 # 0 /\ (k+1)-1 = k
      BY <1>3
    <3> QED
      BY <1>2, <3>1
  <2> QED
    BY <2>1, <2>2
<1> HIDE DEF after, Steps
<1>5. 0..N \subseteq Typed
  <2>1. 0 \in Typed
    BY <1>3, <1>4
  <2>2. ASSUME NEW k \in 0..N-1, k \in Typed PROVE k+1 \in Typed
    <3>1. after[k+1] \in Seq(S)
      BY <1>4, <2>2, SwapRemoveType
    <3> QED
      BY <1>3, <3>1
  <2> HIDE DEF Typed
  <2> QED
    BY <1>3, <2>1, <2>2, CountingUp
<1> QED
  BY <1>1, <1>4, <1>5

\* What is left when items are removed in turn, as tc_entity_pool_free takes
\* components off a list.
LEMMA RemovedInTurnItems ==
  ASSUME NEW S, NEW arr \in Seq(S), NEW items \in Seq(S)
  PROVE  /\ RemovedInTurn(arr, items) \in Seq(S)
         /\ IsInjective(arr) => /\ ToSet(RemovedInTurn(arr, items)) = ToSet(arr) \ ToSet(items)
                                /\ IsInjective(RemovedInTurn(arr, items))
<1> DEFINE N == Len(items)
           First(n) == { items[k] : k \in 1..n }
<1>1. PICK after :
        /\ after[0] = arr
        /\ \A k \in 0..N-1 : after[k+1] = SwapRemove(after[k], items[k+1])
        /\ \A k \in 0..N : after[k] \in Seq(S)
        /\ RemovedInTurn(arr, items) = after[N]
  BY RemovalStates
<1> DEFINE Right == { n \in 0..N : /\ ToSet(after[n]) = ToSet(arr) \ First(n)
                                   /\ IsInjective(after[n]) }
<1>2. N \in Nat /\ N \in 0..N
  OBVIOUS
<1>3. IsInjective(arr) => 0..N \subseteq Right
  <2> SUFFICES ASSUME IsInjective(arr) PROVE 0..N \subseteq Right
    OBVIOUS
  <2>1. 0 \in Right
    BY <1>1, <1>2
  <2>2. ASSUME NEW k \in 0..N-1, k \in Right PROVE k+1 \in Right
    <3>1. /\ after[k] \in Seq(S) /\ IsInjective(after[k])
          /\ ToSet(after[k]) = ToSet(arr) \ First(k)
      BY <1>1, <1>2, <2>2
    <3>2. /\ ToSet(after[k+1]) = ToSet(after[k]) \ {items[k+1]}
          /\ IsInjective(after[k+1])
      BY <1>1, <3>1, SwapRemoveItems
    <3>3. First(k+1) = First(k) \cup {items[k+1]} /\ k+1 \in 0..N
      BY <1>2
    <3> HIDE DEF First
    <3> QED
      BY <3>1, <3>2, <3>3
  <2> HIDE DEF Right
  <2> QED
    BY <1>2, <2>1, <2>2, CountingUp
<1>4. First(N) = ToSet(items)
  BY DEF ToSet
<1> HIDE DEF First
<1> QED
  BY <1>1, <1>2, <1>3, <1>4

\* The items of the array from position n on.
Rest(arr, n) == { arr[j] : j \in { i \in 1..Len(arr) : i >= n } }

\* Swap-removal moves an item towards the front only.
LEMMA SwapRemoveRest ==
  ASSUME NEW S, NEW arr \in Seq(S), NEW x, NEW n \in Nat
  PROVE  Rest(SwapRemove(arr, x), n) \subseteq Rest(arr, n)
<1>1. CASE Contains(arr, x)
  <2> DEFINE k == FirstIndex(arr, x)
             new == SwapRemoveAt(arr, k)
  <2>1. k \in 1..Len(arr) /\ Len(arr) \in Nat
    BY <1>1, FirstIndexFound
  <2> HIDE DEF k
  <2>2. Len(new) = Len(arr) - 1
        /\ \A j \in 1..Len(arr)-1 : new[j] = IF j = k THEN arr[Len(arr)] ELSE arr[j]
    BY <2>1, SwapRemoveAtType DEF SwapRemoveAt, Last
  <2> HIDE DEF new
  <2>3. \A j \in 1..Len(new) : j >= n => \E i \in 1..Len(arr) : i >= n /\ arr[i] = new[j]
    <3> TAKE j \in 1..Len(new)
    <3> HAVE j >= n
    <3>1. j \in 1..Len(arr) /\ Len(arr) \in 1..Len(arr) /\ Len(arr) >= n /\ j \in 1..Len(arr)-1
      BY <2>1, <2>2
    <3> QED
      BY <2>2, <3>1
  <2>4. Rest(new, n) \subseteq Rest(arr, n)
    BY <2>3 DEF Rest
  <2> QED
    BY <1>1, <2>4 DEF SwapRemove, k, new
<1>2. CASE ~Contains(arr, x)
  BY <1>2 DEF SwapRemove
<1> QED
  BY <1>1, <1>2

LEMMA RemovedInTurnRest ==
  ASSUME NEW S, NEW arr \in Seq(S), NEW items \in Seq(S), NEW n \in Nat
  PROVE  Rest(RemovedInTurn(arr, items), n) \subseteq Rest(arr, n)
<1> DEFINE N == Len(items)
<1>1. PICK after :
        /\ after[0] = arr
        /\ \A k \in 0..N-1 : after[k+1] = SwapRemove(after[k], items[k+1])
        /\ \A k \in 0..N : after[k] \in Seq(S)
        /\ RemovedInTurn(arr, items) = after[N]
  BY RemovalStates
<1> DEFINE Right == { k \in 0..N : Rest(after[k], n) \subseteq Rest(arr, n) }
<1>2. N \in Nat /\ N \in 0..N
  OBVIOUS
<1>3. 0 \in Right
  BY <1>1, <1>2
<1>4. ASSUME NEW k \in 0..N-1, k \in Right PROVE k+1 \in Right
  <2>1. after[k] \in Seq(S) /\ Rest(after[k], n) \subseteq Rest(arr, n) /\ k+1 \in 0..N
    BY <1>1, <1>2, <1>4
  <2>2. Rest(after[k+1], n) \subseteq Rest(after[k], n)
    BY <1>1, <2>1, SwapRemoveRest
  <2> QED
    BY <2>1, <2>2
<1>5. 0..N \subseteq Right
  <2> HIDE DEF Right
  <2> QED
    BY <1>2, <1>3, <1>4, CountingUp
<1> QED
  BY <1>1, <1>2, <1>5

LEMMA AppendRest ==
  ASSUME NEW S, NEW arr \in Seq(S), NEW x \in S, NEW n \in Nat
  PROVE  Rest(Append(arr, x), n) \subseteq Rest(arr, n) \cup {x}
<1>1. Len(Append(arr, x)) = Len(arr) + 1 /\ Len(arr) \in Nat
  OBVIOUS
<1>2. \A j \in 1..Len(arr)+1 : Append(arr, x)[j] = IF j = Len(arr)+1 THEN x ELSE arr[j]
  OBVIOUS
<1>3. \A j \in 1..Len(arr)+1 : j # Len(arr)+1 => j \in 1..Len(arr)
  BY <1>1
<1> QED
  BY <1>1, <1>2, <1>3 DEF Rest
----------------------------------------------------------------------------
(* Recursion along a sequence, and sequences in a row                      *)

\* f has the results of a loop of N rounds, in V: F tells what a round makes of
\* the result of the one before.
Loops(f, N, V, base, F) ==
  f \in [0..N -> V] /\ f[0] = base /\ \A k \in 1..N : f[k] = F[<<k, f[k-1]>>]

LEMMA LoopDefined ==
  ASSUME NEW N \in Nat, NEW V, NEW base \in V, NEW F \in [(1..N) \X V -> V]
  PROVE  \E f : Loops(f, N, V, base, F)
<1> DEFINE Steps(n, f) == f[0] = base /\ \A k \in 1..n : f[k] = F[<<k, f[k-1]>>]
           Reached == { n \in 0..N : \E f \in [0..n -> V] : Steps(n, f) }
<1>1. 0 \in Reached
  <2>1. [k \in 0..0 |-> base] \in [0..0 -> V] /\ Steps(0, [k \in 0..0 |-> base])
    OBVIOUS
  <2> HIDE DEF Steps
  <2> QED
    BY <2>1
<1>2. ASSUME NEW n \in 0..N-1, n \in Reached PROVE n+1 \in Reached
  <2>1. PICK f \in [0..n -> V] : Steps(n, f)
    BY <1>2
  <2> DEFINE x == F[<<n+1, f[n]>>]
             g == [k \in 0..n+1 |-> IF k = n+1 THEN x ELSE f[k]]
  <2>2. x \in V
    <3>1. n+1 \in 1..N /\ f[n] \in V
      OBVIOUS
    <3> QED
      BY <3>1
  <2> HIDE DEF x
  <2>3. g \in [0..n+1 -> V]
    BY <2>2
  <2>4. g[0] = base
    BY <2>1
  <2>5. ASSUME NEW k \in 1..n+1 PROVE g[k] = F[<<k, g[k-1]>>]
    <3>1. CASE k = n+1
      <4>1. g[k] = x /\ g[k-1] = f[n] /\ k-1 = n
        BY <3>1
      <4> QED
        BY <3>1, <4>1 DEF x
    <3>2. CASE k # n+1
      <4>1. k \in 1..n /\ g[k] = f[k] /\ g[k-1] = f[k-1]
        BY <3>2
      <4> QED
        BY <2>1, <4>1
    <3> QED
      BY <3>1, <3>2
  <2> HIDE DEF g
  <2>6. Steps(n+1, g) /\ n+1 \in 0..N
    BY <2>4, <2>5
  <2> HIDE DEF Steps
  <2> QED
    BY <2>3, <2>6
<1>3. N \in Reached
  <2> HIDE DEF Reached
  <2>1. 0..N \subseteq Reached
    BY <1>1, <1>2, CountingUp
  <2> QED
    BY <2>1
<1> QED
  BY <1>3 DEF Loops

\* Two arrays without an item in common, one after the other.
LEMMA ConcatItems ==
  ASSUME NEW S, NEW a \in Seq(S), NEW b \in Seq(S)
  PROVE  /\ a \o b \in Seq(S) /\ Len(a \o b) = Len(a) + Len(b)
         /\ ToSet(a \o b) = ToSet(a) \cup ToSet(b)
         /\ IsInjective(a) /\ IsInjective(b) /\ ToSet(a) \cap ToSet(b) = {}
              => IsInjective(a \o b)
<1> DEFINE s == a \o b
           m == Len(a)
           n == Len(b)
<1>1. s \in Seq(S) /\ Len(s) = m + n /\ DOMAIN s = 1..m+n /\ m \in Nat /\ n \in Nat
      /\ DOMAIN a = 1..m /\ DOMAIN b = 1..n
  BY ConcatProperties
<1>2. \A j \in 1..m+n : s[j] = IF j <= m THEN a[j] ELSE b[j-m]
  BY ConcatProperties
<1> HIDE DEF s, m, n
<1>3. ASSUME NEW j \in 1..m+n
      PROVE  \/ j \in 1..m /\ s[j] = a[j] /\ s[j] \in ToSet(a)
             \/ j-m \in 1..n /\ s[j] = b[j-m] /\ s[j] \in ToSet(b)
  <2>1. CASE j <= m
    <3>1. j \in 1..m /\ s[j] = a[j]
      BY <1>1, <1>2, <2>1
    <3> QED
      BY <1>1, <3>1 DEF ToSet
  <2>2. CASE ~(j <= m)
    <3>1. j-m \in 1..n /\ s[j] = b[j-m]
      BY <1>1, <1>2, <2>2
    <3> QED
      BY <1>1, <3>1 DEF ToSet
  <2> QED
    BY <1>1, <2>1, <2>2
<1>4. ToSet(s) = ToSet(a) \cup ToSet(b)
  <2>1. ToSet(s) \subseteq ToSet(a) \cup ToSet(b)
    BY <1>1, <1>3 DEF ToSet
  <2>2. ASSUME NEW j \in 1..m PROVE a[j] \in ToSet(s)
    <3>1. j \in 1..m+n /\ s[j] = a[j]
      BY <1>1, <1>2
    <3> QED
      BY <1>1, <3>1 DEF ToSet
  <2>3. ASSUME NEW j \in 1..n PROVE b[j] \in ToSet(s)
    <3>1. m+j \in 1..m+n /\ ~(m+j <= m) /\ (m+j)-m = j
      BY <1>1
    <3>2. s[m+j] = b[j]
      BY <1>2, <3>1
    <3> QED
      BY <1>1, <3>1, <3>2 DEF ToSet
  <2> QED
    BY <1>1, <2>1, <2>2, <2>3 DEF ToSet
<1>5. ASSUME IsInjective(a), IsInjective(b), ToSet(a) \cap ToSet(b) = {}
      PROVE  IsInjective(s)
  <2> SUFFICES ASSUME NEW j \in 1..m+n, NEW k \in 1..m+n, s[j] = s[k] PROVE j = k
    BY <1>1 DEF IsInjective
  <2>1. CASE j \in 1..m /\ s[j] = a[j] /\ s[j] \in ToSet(a)
    <3>1. k \in 1..m /\ s[k] = a[k]
      BY <1>3, <1>5, <2>1
    <3> QED
      BY <1>1, <1>5, <2>1, <3>1 DEF IsInjective
  <2>2. CASE j-m \in 1..n /\ s[j] = b[j-m] /\ s[j] \in ToSet(b)
    <3>1. k-m \in 1..n /\ s[k] = b[k-m]
      BY <1>3, <1>5, <2>2
    <3>2. j-m = k-m
      BY <1>1, <1>5, <2>2, <3>1 DEF IsInjective
    <3> QED
      BY <1>1, <3>2
  <2> QED
    BY <1>3, <2>1, <2>2
<1> QED
  BY <1>1, <1>4, <1>5 DEF s, m, n

\* The sequences in a row are what appending one after the other makes.
LEMMA FlattenStates ==
  ASSUME NEW S, NEW seqs \in Seq(Seq(S))
  PROVE  \E f \in [0..Len(seqs) -> Seq(S)] :
           /\ f[0] = <<>>
           /\ \A k \in 1..Len(seqs) : f[k] = f[k-1] \o seqs[k]
           /\ FlattenSeq(seqs) = f[Len(seqs)]
<1> DEFINE N == Len(seqs)
           F == [kv \in (1..N) \X Seq(S) |-> kv[2] \o seqs[kv[1]]]
<1>1. N \in Nat /\ \A k \in 1..N : seqs[k] \in Seq(S)
  OBVIOUS
<1>2. <<>> \in Seq(S)
  OBVIOUS
<1>3. F \in [(1..N) \X Seq(S) -> Seq(S)]
  <2>1. \A k \in 1..N, v \in Seq(S) : v \o seqs[k] \in Seq(S)
    BY <1>1, ConcatProperties
  <2> QED
    BY <2>1
<1>4. \A k \in 1..N, v \in Seq(S) : F[<<k, v>>] = v \o seqs[k]
  OBVIOUS
<1> HIDE DEF F, N
<1>5. PICK f \in [0..N -> Seq(S)] : f[0] = <<>> /\ \A k \in 1..N : f[k] = F[<<k, f[k-1]>>]
  <2>1. \E f : Loops(f, N, Seq(S), <<>>, F)
    BY <1>1, <1>2, <1>3, LoopDefined
  <2> QED
    BY <2>1 DEF Loops
<1>6. ASSUME NEW k \in 1..N PROVE f[k] = f[k-1] \o seqs[k]
  <2>1. k-1 \in 0..N
    BY <1>1
  <2>2. f[k-1] \in Seq(S)
    BY <2>1
  <2> QED
    BY <1>4, <1>5, <2>2
<1> USE DEF N
<1>7. CASE N = 0
  <2>1. FlattenSeq(seqs) = seqs /\ seqs = <<>>
    BY <1>7 DEF FlattenSeq
  <2> QED
    BY <1>5, <1>6, <1>7, <2>1
<1>8. CASE N # 0
  <2> DEFINE Steps(g) == g = [i \in 1..N |-> IF i = 1 THEN seqs[i] ELSE g[i-1] \o seqs[i]]
             flat == CHOOSE g : Steps(g)
  <2>1. FlattenSeq(seqs) = flat[N]
    BY <1>8, Zenon DEF FlattenSeq
  <2>2. Steps([i \in 1..N |-> f[i]])
    <3> DEFINE g == [i \in 1..N |-> f[i]]
    <3>1. ASSUME NEW i \in 1..N PROVE f[i] = IF i = 1 THEN seqs[i] ELSE g[i-1] \o seqs[i]
      <4>1. CASE i = 1
        <5>1. f[1] = f[1-1] \o seqs[1]
          BY <1>6, <4>1
        <5>2. f[1-1] = <<>>
          BY <1>5
        <5>3. seqs[1] \in Seq(S)
          BY <1>1, <4>1
        <5>4. f[1] = seqs[1]
          BY <5>1, <5>2, <5>3, ConcatEmptySeq
        <5> QED
          BY <4>1, <5>4
      <4>2. CASE i # 1
        <5>1. g[i-1] = f[i-1]
          BY <4>2
        <5> QED
          BY <1>6, <4>2, <5>1
      <4> QED
        BY <4>1, <4>2
    <3> QED
      BY <3>1
  <2>3. Steps(flat)
    <3>1. \E g : Steps(g)
      BY <2>2
    <3> HIDE DEF Steps
    <3> QED
      BY <3>1
  <2> HIDE DEF flat
  <2>4. flat[1] = seqs[1] /\ \A k \in 1..N-1 : flat[k+1] = flat[k] \o seqs[k+1]
    <3>1. 1 \in 1..N
      BY <1>1, <1>8
    <3>2. flat[1] = seqs[1]
      BY <2>3, <3>1
    <3>3. ASSUME NEW k \in 1..N-1 PROVE flat[k+1] = flat[k] \o seqs[k+1]
      <4>1. k+1 \in 1..N /\ k+1 # 1 /\ (k+1)-1 = k
        BY <1>1
      <4> QED
        BY <2>3, <4>1
    <3> QED
      BY <3>2, <3>3
  <2> DEFINE Same == { k \in 0..N : k # 0 => flat[k] = f[k] }
  <2>5. 0 \in Same
    BY <1>1
  <2>6. ASSUME NEW k \in 0..N-1, k \in Same PROVE k+1 \in Same
    <3>1. k+1 \in 1..N /\ k+1 \in 0..N /\ (k+1)-1 = k
      BY <1>1
    <3>2. CASE k = 0
      <4>0. 1 \in 1..N
        BY <3>1, <3>2
      <4>1. f[1] = f[1-1] \o seqs[1]
        BY <1>6, <4>0
      <4>2. f[1-1] = <<>>
        BY <1>5
      <4>3. seqs[1] \in Seq(S)
        BY <1>1, <3>1, <3>2
      <4>4. f[1] = seqs[1]
        BY <4>1, <4>2, <4>3, ConcatEmptySeq
      <4> QED
        BY <2>4, <3>1, <3>2, <4>4
    <3>3. CASE k # 0
      <4>1. k \in 1..N-1 /\ flat[k] = f[k]
        BY <1>1, <2>6, <3>3
      <4>2. flat[k+1] = flat[k] \o seqs[k+1]
        BY <2>4, <4>1
      <4>3. f[k+1] = f[k] \o seqs[k+1]
        <5>1. f[k+1] = f[(k+1)-1] \o seqs[k+1]
          BY <1>6, <3>1
        <5> QED
          BY <3>1, <5>1
      <4> QED
        BY <3>1, <4>1, <4>2, <4>3
    <3> QED
      BY <3>2, <3>3
  <2> HIDE DEF Same
  <2>7. 0..N \subseteq Same
    BY <1>1, <2>5, <2>6, CountingUp
  <2>8. flat[N] = f[N]
    BY <1>1, <1>8, <2>7 DEF Same
  <2> QED
    BY <1>5, <1>6, <2>1, <2>8
<1> QED
  BY <1>7, <1>8

LEMMA FlattenItems ==
  ASSUME NEW S, NEW seqs \in Seq(Seq(S))
  PROVE  /\ FlattenSeq(seqs) \in Seq(S)
         /\ ToSet(FlattenSeq(seqs)) = UNION { ToSet(seqs[k]) : k \in 1..Len(seqs) }
         /\ /\ \A k \in 1..Len(seqs) : IsInjective(seqs[k])
            /\ \A j, k \in 1..Len(seqs) : j # k => ToSet(seqs[j]) \cap ToSet(seqs[k]) = {}
            => IsInjective(FlattenSeq(seqs))
<1> DEFINE N == Len(seqs)
           Upto(n) == UNION { ToSet(seqs[k]) : k \in 1..n }
           Apart == /\ \A k \in 1..N : IsInjective(seqs[k])
                    /\ \A j, k \in 1..N : j # k => ToSet(seqs[j]) \cap ToSet(seqs[k]) = {}
<1>1. PICK f \in [0..N -> Seq(S)] :
        /\ f[0] = <<>>
        /\ \A k \in 1..N : f[k] = f[k-1] \o seqs[k]
        /\ FlattenSeq(seqs) = f[N]
  BY FlattenStates
<1>2. N \in Nat /\ \A k \in 1..N : seqs[k] \in Seq(S)
  OBVIOUS
<1> DEFINE Right == { n \in 0..N : ToSet(f[n]) = Upto(n) /\ (Apart => IsInjective(f[n])) }
<1>3. 0 \in Right
  <2>1. Upto(0) = {} /\ ToSet(f[0]) = {} /\ IsInjective(f[0])
    BY <1>1 DEF ToSet, IsInjective
  <2> HIDE DEF Upto, Apart
  <2> QED
    BY <1>2, <2>1
<1>4. ASSUME NEW n \in 0..N-1, n \in Right PROVE n+1 \in Right
  <2>1. n+1 \in 1..N /\ n \in 0..N /\ (n+1)-1 = n /\ n+1 \in 0..N
    BY <1>2
  <2>2. f[n+1] = f[n] \o seqs[n+1] /\ f[n] \in Seq(S) /\ seqs[n+1] \in Seq(S)
    BY <1>1, <1>2, <2>1
  <2>3. Upto(n+1) = Upto(n) \cup ToSet(seqs[n+1])
    <3>1. 1..n+1 = (1..n) \cup {n+1}
      BY <2>1
    <3> QED
      BY <3>1
  <2>4. Apart => IsInjective(seqs[n+1]) /\ Upto(n) \cap ToSet(seqs[n+1]) = {}
    <3>1. \A k \in 1..n : k \in 1..N /\ k # n+1
      BY <1>2
    <3> QED
      BY <2>1, <3>1
  <2>5. ToSet(f[n]) = Upto(n) /\ (Apart => IsInjective(f[n]))
    BY <1>4
  <2> HIDE DEF Upto, Apart
  <2>6. ToSet(f[n+1]) = ToSet(f[n]) \cup ToSet(seqs[n+1])
    BY <2>2, ConcatItems
  <2>7. Apart => IsInjective(f[n+1])
    BY <2>2, <2>4, <2>5, ConcatItems
  <2> QED
    BY <2>1, <2>3, <2>5, <2>6, <2>7
<1>5. N \in Right
  <2> HIDE DEF Right
  <2>1. 0..N \subseteq Right
    BY <1>2, <1>3, <1>4, CountingUp
  <2> QED
    BY <1>2, <2>1
<1>6. ToSet(FlattenSeq(seqs)) = Upto(N) /\ (Apart => IsInjective(FlattenSeq(seqs)))
  BY <1>1, <1>5
<1>7. FlattenSeq(seqs) \in Seq(S)
  BY <1>1, <1>2
<1> QED
  BY <1>6, <1>7
=============================================================================
