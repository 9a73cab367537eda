-------------------------- MODULE Migration_proofs --------------------------
(***************************************************************************)
(* The properties of Migration, for any pools, things and components.      *)
(* First facts about trees, children arrays and traversals; then what each *)
(* operation does to a pool taken by itself; then the three results: the   *)
(* forest of every pool, the components, and the refinement of             *)
(* SceneForest.                                                            *)
(***************************************************************************)
EXTENDS Migration, SwapArrays_proofs, FiniteSetTheorems

(* Trees: a set A whose members have a parent up[v], which is in A or not  *)

\* No set holds the parents of all its members.
Rooted(A, up) == \A S \in SUBSET A : S # {} => \E v \in S : up[v] \notin S

\* i and everything below it.
Down(A, up, i) ==
  { x \in A : \A S \in SUBSET A :
                i \in S /\ (\A v \in A : up[v] \in S => v \in S) => x \in S }

LEMMA DownClosed ==
  ASSUME NEW A, NEW up, NEW i \in A
  PROVE  /\ i \in Down(A, up, i) /\ Down(A, up, i) \subseteq A
         /\ \A v \in A : up[v] \in Down(A, up, i) => v \in Down(A, up, i)
<1>1. i \in Down(A, up, i) /\ Down(A, up, i) \subseteq A
  BY DEF Down
<1>2. ASSUME NEW v \in A, up[v] \in Down(A, up, i) PROVE v \in Down(A, up, i)
  <2> SUFFICES ASSUME NEW S \in SUBSET A, i \in S, \A w \in A : up[w] \in S => w \in S
               PROVE  v \in S
    BY DEF Down
  <2>1. up[v] \in S
    BY <1>2 DEF Down
  <2> QED
    BY <2>1
<1> QED
  BY <1>1, <1>2

LEMMA DownLeast ==
  ASSUME NEW A, NEW up, NEW i, NEW S \in SUBSET A, i \in S,
         \A v \in A : up[v] \in S => v \in S
  PROVE  Down(A, up, i) \subseteq S
BY DEF Down

\* What is below i is i or has its parent below i.
LEMMA DownParents ==
  ASSUME NEW A, NEW up, NEW i \in A, NEW x \in Down(A, up, i), x # i
  PROVE  up[x] \in Down(A, up, i)
<1> DEFINE S == {i} \cup { v \in A : up[v] \in Down(A, up, i) }
<1>1. S \in SUBSET A /\ i \in S
  OBVIOUS
<1>2. S \subseteq Down(A, up, i)
  BY DownClosed
<1>3. \A v \in A : up[v] \in S => v \in S
  BY <1>2
<1>4. x \in S
  <2> HIDE DEF S
  <2> QED
    BY <1>1, <1>3, DownLeast
<1> QED
  BY <1>4

\* It is i or below a child of i.
LEMMA DownChildren ==
  ASSUME NEW A, NEW up, NEW i \in A, NEW x \in Down(A, up, i), x # i
  PROVE  \E v \in A : up[v] = i /\ x \in Down(A, up, v)
<1> DEFINE S == {i} \cup { y \in A : \E v \in A : up[v] = i /\ y \in Down(A, up, v) }
<1>1. S \in SUBSET A /\ i \in S
  OBVIOUS
<1>2. ASSUME NEW v \in A, up[v] \in S PROVE v \in S
  <2>1. CASE up[v] = i
    BY <2>1, DownClosed
  <2>2. CASE up[v] # i
    <3>1. PICK w \in A : up[w] = i /\ up[v] \in Down(A, up, w)
      BY <1>2, <2>2
    <3>2. v \in Down(A, up, w)
      BY <3>1, DownClosed
    <3> QED
      BY <3>1, <3>2
  <2> QED
    BY <2>1, <2>2
<1>3. x \in S
  <2> HIDE DEF S
  <2> QED
    BY <1>1, <1>2, DownLeast
<1> QED
  BY <1>3

LEMMA DownTransitive ==
  ASSUME NEW A, NEW up, NEW i \in A, NEW k \in Down(A, up, i)
  PROVE  Down(A, up, k) \subseteq Down(A, up, i)
<1>1. Down(A, up, i) \in SUBSET A /\ \A v \in A : up[v] \in Down(A, up, i) => v \in Down(A, up, i)
  BY DownClosed
<1> QED
  BY <1>1, DownLeast

\* Two that something is below are one below the other.
LEMMA DownLinear ==
  ASSUME NEW A, NEW up, NEW i \in A, NEW k \in A,
         NEW x \in Down(A, up, i), x \in Down(A, up, k)
  PROVE  i \in Down(A, up, k) \/ k \in Down(A, up, i)
<1> SUFFICES ASSUME i \notin Down(A, up, k), k \notin Down(A, up, i) PROVE FALSE
  OBVIOUS
<1> DEFINE S == Down(A, up, i) \ Down(A, up, k)
<1>1. S \in SUBSET A /\ i \in S
  BY DownClosed
<1>2. ASSUME NEW v \in A, up[v] \in S PROVE v \in S
  <2>1. v \in Down(A, up, i)
    BY <1>2, DownClosed
  <2>2. v \notin Down(A, up, k)
    BY <1>2, <2>1, DownParents
  <2> QED
    BY <2>1, <2>2
<1>3. x \in S
  <2> HIDE DEF S
  <2> QED
    BY <1>1, <1>2, DownLeast
<1> QED
  BY <1>3

\* Nothing is below its child, and nothing below two children of one.
LEMMA DownOfChild ==
  ASSUME NEW A, NEW up, Rooted(A, up), NEW i \in A, NEW v \in A, up[v] = i
  PROVE  i \notin Down(A, up, v)
<1> SUFFICES ASSUME i \in Down(A, up, v) PROVE FALSE
  OBVIOUS
<1> DEFINE S == { x \in Down(A, up, v) : i \in Down(A, up, x) }
<1>1. S \in SUBSET A /\ i \in S
  BY DownClosed
<1>2. ASSUME NEW x \in S PROVE up[x] \in S
  <2>1. CASE x = v
    BY <1>1, <2>1
  <2>2. CASE x # v
    <3>1. up[x] \in Down(A, up, v) /\ up[x] \in A /\ x \in A
      BY <2>2, DownParents, DownClosed
    <3>2. x \in Down(A, up, up[x])
      BY <3>1, DownClosed
    <3>3. i \in Down(A, up, up[x])
      BY <3>1, <3>2, DownTransitive
    <3> QED
      BY <3>1, <3>3
  <2> QED
    BY <2>1, <2>2
<1> HIDE DEF S
<1> QED
  BY <1>1, <1>2 DEF Rooted

LEMMA DownOfSiblings ==
  ASSUME NEW A, NEW up, Rooted(A, up), NEW i \in A,
         NEW v \in A, NEW w \in A, up[v] = i, up[w] = i, v # w
  PROVE  Down(A, up, v) \cap Down(A, up, w) = {}
<1> SUFFICES ASSUME NEW x, x \in Down(A, up, v), x \in Down(A, up, w) PROVE FALSE
  OBVIOUS
<1>1. v \in Down(A, up, w) \/ w \in Down(A, up, v)
  BY DownLinear
<1>2. i \in Down(A, up, w) \/ i \in Down(A, up, v)
  BY <1>1, DownParents
<1> QED
  BY <1>2, DownOfChild

\* The way from i down to x.
Path(A, up, i, x) == { v \in Down(A, up, i) : x \in Down(A, up, v) }

LEMMA PathShortens ==
  ASSUME NEW A, IsFiniteSet(A), NEW up, Rooted(A, up), NEW i \in A, NEW v \in A, up[v] = i,
         NEW x \in Down(A, up, v)
  PROVE  /\ Cardinality(Path(A, up, v, x)) \in Nat /\ Cardinality(Path(A, up, i, x)) \in Nat
         /\ Cardinality(Path(A, up, v, x)) < Cardinality(Path(A, up, i, x))
<1> DEFINE P == Path(A, up, i, x)
           Q == Path(A, up, v, x)
<1>1. v \in Down(A, up, i)
  BY DownClosed
<1>2. Q \subseteq P /\ i \in P /\ i \notin Q /\ P \subseteq A
  BY <1>1, DownTransitive, DownClosed, DownOfChild DEF Path
<1>3. IsFiniteSet(P) /\ IsFiniteSet(Q)
  BY <1>2, FS_Subset
<1> HIDE DEF P, Q
<1>4. Q \subseteq P /\ Q # P
  BY <1>2
<1>5. Cardinality(P) \in Nat /\ Cardinality(Q) \in Nat
  BY <1>3, FS_CardinalityType
<1>6. Cardinality(Q) < Cardinality(P)
  BY <1>3, <1>4, <1>5, FS_Subset
<1> QED
  BY <1>5, <1>6 DEF P, Q
----------------------------------------------------------------------------
(* Children arrays                                                         *)

\* The slots of the living among the first k items.
LivingOf(p, items, k) == { items[j].index : j \in { m \in 1..k : Alive(p, items[m]) } }

LEMMA LiveChildrenStates ==
  ASSUME NEW p, NEW i, children[p][i] \in Seq(EntityId)
  PROVE  \E f : /\ f[0] = <<>>
                /\ \A k \in 1..Len(children[p][i]) :
                     f[k] = IF Alive(p, children[p][i][k])
                            THEN Append(f[k-1], children[p][i][k].index) ELSE f[k-1]
                /\ LiveChildren(p, i) = f[Len(children[p][i])]
<1> DEFINE items == children[p][i]
           N == Len(items)
           F == [kv \in (1..N) \X Seq(Slots) |->
                   IF Alive(p, items[kv[1]]) THEN Append(kv[2], items[kv[1]].index) ELSE kv[2]]
           Steps(f) == f = [k \in 0..N |->
                              IF k = 0 THEN <<>>
                              ELSE IF Alive(p, items[k]) THEN Append(f[k-1], items[k].index)
                              ELSE f[k-1]]
           living == CHOOSE f : Steps(f)
<1>1. LiveChildren(p, i) = living[N]
  BY Zenon DEF LiveChildren
<1>2. N \in Nat /\ \A k \in 1..N : items[k] \in EntityId
  OBVIOUS
<1>3. \A k \in 1..N, v \in Seq(Slots) :
        F[<<k, v>>] = IF Alive(p, items[k]) THEN Append(v, items[k].index) ELSE v
  OBVIOUS
<1>4. F \in [(1..N) \X Seq(Slots) -> Seq(Slots)]
  <2>1. ASSUME NEW k \in 1..N, NEW v \in Seq(Slots)
        PROVE  (IF Alive(p, items[k]) THEN Append(v, items[k].index) ELSE v) \in Seq(Slots)
    <3>1. items[k].index \in Slots
      BY <1>2 DEF EntityId
    <3> QED
      BY <3>1
  <2> QED
    BY <2>1
<1> HIDE DEF F, items, N
<1>5. \E f : Loops(f, N, Seq(Slots), <<>>, F)
  <2>1. <<>> \in Seq(Slots)
    OBVIOUS
  <2> QED
    BY <1>2, <1>4, <2>1, LoopDefined
<1>6. PICK f : Loops(f, N, Seq(Slots), <<>>, F)
  BY <1>5
<1>7. Steps(f)
  <2>1. ASSUME NEW k \in 1..N
        PROVE  f[k] = IF Alive(p, items[k]) THEN Append(f[k-1], items[k].index) ELSE f[k-1]
    <3>1. k-1 \in 0..N
      BY <1>2
    <3>2. f[k-1] \in Seq(Slots) /\ f[k] = F[<<k, f[k-1]>>]
      BY <1>6, <3>1 DEF Loops
    <3> QED
      BY <1>3, <3>2
  <2>2. f \in [0..N -> Seq(Slots)] /\ f[0] = <<>>
    BY <1>6 DEF Loops
  <2>3. \A k \in 0..N : k # 0 => k \in 1..N
    BY <1>2
  <2> QED
    BY <2>1, <2>2, <2>3
<1>8. Steps(living)
  <2> HIDE DEF Steps
  <2> QED
    BY <1>7
<1> HIDE DEF living
<1>9. living[0] = <<>>
  BY <1>2, <1>8
<1>10. \A k \in 1..N : living[k] = IF Alive(p, items[k])
                                   THEN Append(living[k-1], items[k].index) ELSE living[k-1]
  <2> TAKE k \in 1..N
  <2>1. k \in 0..N /\ k # 0
    BY <1>2
  <2> QED
    BY <1>8, <2>1, Zenon
<1> QED
  BY <1>1, <1>9, <1>10 DEF items, N

\* The living children are the slots of the living items, each once if the
\* array holds each once.
LEMMA LiveChildrenItems ==
  ASSUME NEW p, NEW i, children[p][i] \in Seq(EntityId)
  PROVE  /\ LiveChildren(p, i) \in Seq(Slots)
         /\ ToSet(LiveChildren(p, i))
              = { x.index : x \in { y \in ToSet(children[p][i]) : Alive(p, y) } }
         /\ IsInjective(children[p][i]) => IsInjective(LiveChildren(p, i))
<1> DEFINE items == children[p][i]
           N == Len(items)
<1>1. PICK f : /\ f[0] = <<>>
               /\ \A k \in 1..N : f[k] = IF Alive(p, items[k])
                                         THEN Append(f[k-1], items[k].index) ELSE f[k-1]
               /\ LiveChildren(p, i) = f[N]
  BY LiveChildrenStates
<1>2. /\ N \in Nat /\ items \in Seq(EntityId) /\ DOMAIN items = 1..N
      /\ \A k \in 1..N : items[k] \in EntityId /\ items[k].index \in Slots
  <2>1. N \in Nat /\ items \in Seq(EntityId) /\ DOMAIN items = 1..N
    OBVIOUS
  <2>2. \A k \in 1..N : items[k] \in EntityId
    BY <2>1
  <2>3. \A x \in EntityId : x.index \in Slots
    BY DEF EntityId
  <2> QED
    BY <2>1, <2>2, <2>3
<1> HIDE DEF items, N
<1> DEFINE Right == { k \in 0..N : /\ f[k] \in Seq(Slots) /\ ToSet(f[k]) = LivingOf(p, items, k)
                                   /\ IsInjective(items) => IsInjective(f[k]) }
<1>3. 0 \in Right
  <2>1. f[0] \in Seq(Slots) /\ ToSet(f[0]) = {} /\ IsInjective(f[0])
    BY <1>1 DEF ToSet, IsInjective
  <2>2. LivingOf(p, items, 0) = {}
    BY DEF LivingOf
  <2>3. 0 \in 0..N
    BY <1>2
  <2> QED
    BY <2>1, <2>2, <2>3
<1>4. ASSUME NEW k \in 0..N-1, k \in Right PROVE k+1 \in Right
  <2>1. k+1 \in 1..N /\ (k+1)-1 = k /\ k+1 \in 0..N /\ 1..k+1 = (1..k) \cup {k+1} /\ 1..k \subseteq 1..N
        /\ k+1 \notin 1..k
    BY <1>2
  <2>2. /\ f[k] \in Seq(Slots) /\ ToSet(f[k]) = LivingOf(p, items, k)
        /\ IsInjective(items) => IsInjective(f[k])
    BY <1>4
  <2>3. CASE Alive(p, items[k+1])
    <3> DEFINE x == items[k+1].index
    <3>1. f[k+1] = Append(f[k], x) /\ x \in Slots
      BY <1>1, <1>2, <2>1, <2>3
    <3>2. LivingOf(p, items, k+1) = LivingOf(p, items, k) \cup {x}
      BY <2>1, <2>3 DEF LivingOf
    <3>3. IsInjective(items) => x \notin LivingOf(p, items, k)
      <4> SUFFICES ASSUME IsInjective(items), NEW j \in 1..k, Alive(p, items[j]), items[j].index = x
                   PROVE  FALSE
        BY DEF LivingOf
      <4>1. j \in 1..N /\ j # k+1
        BY <2>1
      <4>2. items[j] \in EntityId /\ items[k+1] \in EntityId
        BY <1>2, <2>1, <4>1
      <4>3. items[j].generation = items[k+1].generation
        BY <2>3 DEF Alive
      <4>4. items[j] = items[k+1]
        BY <4>2, <4>3 DEF EntityId
      <4> QED
        BY <1>2, <2>1, <4>1, <4>4 DEF IsInjective
    <3> HIDE DEF x
    <3>4. f[k+1] \in Seq(Slots) /\ ToSet(f[k+1]) = ToSet(f[k]) \cup {x}
      BY <2>2, <3>1, AppendItems
    <3>5. IsInjective(items) => IsInjective(f[k+1])
      BY <2>2, <3>1, <3>3, AppendItems
    <3> QED
      BY <2>1, <2>2, <3>2, <3>4, <3>5
  <2>4. CASE ~Alive(p, items[k+1])
    <3>1. f[k+1] = f[k]
      BY <1>1, <2>1, <2>4
    <3>2. LivingOf(p, items, k+1) = LivingOf(p, items, k)
      BY <2>1, <2>4 DEF LivingOf
    <3> QED
      BY <2>1, <2>2, <3>1, <3>2
  <2> QED
    BY <2>3, <2>4
<1>5. N \in Right
  <2> HIDE DEF Right
  <2>1. 0..N \subseteq Right
    BY <1>2, <1>3, <1>4, CountingUp
  <2> QED
    BY <1>2, <2>1
<1>6. LivingOf(p, items, N) = { x.index : x \in { y \in ToSet(items) : Alive(p, y) } }
  BY <1>2 DEF LivingOf, ToSet
<1> QED
  BY <1>1, <1>5, <1>6 DEF items
----------------------------------------------------------------------------
(* Traversals                                                              *)

ArraysTyped(p) == alive[p] \subseteq Slots /\ \A i \in Slots : children[p][i] \in Seq(EntityId)

KidsOf(A, up, i) == { v \in A : up[v] = i }

\* The living children of each living entity of p are those that have it above
\* them in the forest `up`.
Matches(p, up) ==
  /\ Rooted(alive[p], up)
  /\ \A i \in alive[p] :
       IsInjective(LiveChildren(p, i)) /\ ToSet(LiveChildren(p, i)) = KidsOf(alive[p], up, i)

\* What a traversal makes of slot i, given those of its children.
Under(p, i, v) ==
  FlattenSeq([k \in 1..Len(LiveChildren(p, i)) |-> v[LiveChildren(p, i)[k]]])

Around(p, i, v, parents_first) ==
  IF parents_first THEN <<i>> \o Under(p, i, v) ELSE Under(p, i, v) \o <<i>>

LEMMA UnderItems ==
  ASSUME NEW p \in Pool, ArraysTyped(p), NEW i \in Slots, NEW v \in [Slots -> Seq(Slots)]
  PROVE  /\ Under(p, i, v) \in Seq(Slots)
         /\ ToSet(Under(p, i, v)) = UNION { ToSet(v[j]) : j \in ToSet(LiveChildren(p, i)) }
         /\ /\ IsInjective(LiveChildren(p, i))
            /\ \A j \in ToSet(LiveChildren(p, i)) : IsInjective(v[j])
            /\ \A j, k \in ToSet(LiveChildren(p, i)) : j # k => ToSet(v[j]) \cap ToSet(v[k]) = {}
            => IsInjective(Under(p, i, v))
<1> DEFINE kids == LiveChildren(p, i)
           parts == [k \in 1..Len(kids) |-> v[kids[k]]]
<1>1. kids \in Seq(Slots)
  BY LiveChildrenItems DEF ArraysTyped
<1> HIDE DEF kids
<1>2. DOMAIN kids = 1..Len(kids) /\ Len(kids) \in Nat /\ \A k \in 1..Len(kids) : kids[k] \in Slots
  BY <1>1
<1>3. parts \in Seq(Seq(Slots)) /\ Len(parts) = Len(kids) /\ \A k \in 1..Len(kids) : parts[k] = v[kids[k]]
  BY <1>2
<1>4. Under(p, i, v) = FlattenSeq(parts)
  BY DEF Under, kids
<1> HIDE DEF parts
<1>5. UNION { ToSet(parts[k]) : k \in 1..Len(parts) } = UNION { ToSet(v[j]) : j \in ToSet(kids) }
  <2>1. ToSet(kids) = { kids[k] : k \in 1..Len(kids) }
    BY <1>2 DEF ToSet
  <2>2. \A k \in 1..Len(parts) : k \in 1..Len(kids) /\ kids[k] \in ToSet(kids) /\ parts[k] = v[kids[k]]
    BY <1>3, <2>1
  <2>3. UNION { ToSet(parts[k]) : k \in 1..Len(parts) } \subseteq UNION { ToSet(v[j]) : j \in ToSet(kids) }
    BY <2>2
  <2>4. ASSUME NEW x, NEW j \in ToSet(kids), x \in ToSet(v[j])
        PROVE  x \in UNION { ToSet(parts[k]) : k \in 1..Len(parts) }
    <3>1. PICK k \in 1..Len(kids) : j = kids[k]
      BY <2>1
    <3>2. k \in 1..Len(parts) /\ x \in ToSet(parts[k])
      BY <1>3, <2>4, <3>1
    <3> QED
      BY <3>2
  <2> QED
    BY <2>3, <2>4
<1>6. ASSUME IsInjective(kids), \A j \in ToSet(kids) : IsInjective(v[j]),
             \A j, k \in ToSet(kids) : j # k => ToSet(v[j]) \cap ToSet(v[k]) = {}
      PROVE  /\ \A k \in 1..Len(parts) : IsInjective(parts[k])
             /\ \A j, k \in 1..Len(parts) : j # k => ToSet(parts[j]) \cap ToSet(parts[k]) = {}
  <2>1. \A k \in 1..Len(parts) : kids[k] \in ToSet(kids) /\ parts[k] = v[kids[k]]
    BY <1>2, <1>3 DEF ToSet
  <2>2. \A j, k \in 1..Len(parts) : j # k => kids[j] # kids[k]
    BY <1>2, <1>3, <1>6 DEF IsInjective
  <2> QED
    BY <1>6, <2>1, <2>2
<1>7. FlattenSeq(parts) \in Seq(Slots)
      /\ ToSet(FlattenSeq(parts)) = UNION { ToSet(parts[k]) : k \in 1..Len(parts) }
  BY <1>3, FlattenItems
<1>8. /\ \A k \in 1..Len(parts) : IsInjective(parts[k])
      /\ \A j, k \in 1..Len(parts) : j # k => ToSet(parts[j]) \cap ToSet(parts[k]) = {}
      => IsInjective(FlattenSeq(parts))
  BY <1>3, FlattenItems
<1> QED
  BY <1>4, <1>5, <1>6, <1>7, <1>8 DEF kids

LEMMA AroundItems ==
  ASSUME NEW p \in Pool, ArraysTyped(p), NEW i \in Slots, NEW v \in [Slots -> Seq(Slots)],
         NEW first \in BOOLEAN
  PROVE  /\ Around(p, i, v, first) \in Seq(Slots)
         /\ ToSet(Around(p, i, v, first)) = {i} \cup ToSet(Under(p, i, v))
         /\ IsInjective(Under(p, i, v)) /\ i \notin ToSet(Under(p, i, v))
              => IsInjective(Around(p, i, v, first))
         /\ first = FALSE => Around(p, i, v, first) # <<>> /\ Last(Around(p, i, v, first)) = i
<1> DEFINE u == Under(p, i, v)
           one == <<i>>
<1>1. u \in Seq(Slots)
  BY UnderItems
<1>2. one \in Seq(Slots) /\ ToSet(one) = {i} /\ IsInjective(one) /\ Len(one) = 1 /\ one[1] = i
  BY DEF ToSet, IsInjective
<1> HIDE DEF u, one
<1>3. /\ one \o u \in Seq(Slots) /\ ToSet(one \o u) = {i} \cup ToSet(u)
      /\ IsInjective(u) /\ i \notin ToSet(u) => IsInjective(one \o u)
  <2>1. one \o u \in Seq(Slots)
    BY <1>1, <1>2, ConcatItems
  <2>2. ToSet(one \o u) = ToSet(one) \cup ToSet(u)
    BY <1>1, <1>2, ConcatItems
  <2>3. IsInjective(one) /\ IsInjective(u) /\ ToSet(one) \cap ToSet(u) = {} => IsInjective(one \o u)
    BY <1>1, <1>2, ConcatItems
  <2> QED
    BY <1>2, <2>1, <2>2, <2>3
<1>4. /\ u \o one \in Seq(Slots) /\ ToSet(u \o one) = {i} \cup ToSet(u)
      /\ IsInjective(u) /\ i \notin ToSet(u) => IsInjective(u \o one)
  <2>1. u \o one \in Seq(Slots)
    BY <1>1, <1>2, ConcatItems
  <2>2. ToSet(u \o one) = ToSet(u) \cup ToSet(one)
    BY <1>1, <1>2, ConcatItems
  <2>3. IsInjective(u) /\ IsInjective(one) /\ ToSet(u) \cap ToSet(one) = {} => IsInjective(u \o one)
    BY <1>1, <1>2, ConcatItems
  <2> QED
    BY <1>2, <2>1, <2>2, <2>3
<1>5. u \o one # <<>> /\ Last(u \o one) = i
  <2>1. Len(u \o one) = Len(u) + 1 /\ Len(u) \in Nat
    <3>1. Len(u \o one) = Len(u) + Len(one)
      BY <1>1, <1>2, ConcatItems
    <3>2. Len(u) \in Nat
      BY <1>1
    <3> QED
      BY <1>2, <3>1, <3>2
  <2>2. (u \o one)[Len(u) + 1] = one[1]
    <3>1. \A k \in 1..Len(u)+Len(one) : (u \o one)[k] = IF k <= Len(u) THEN u[k] ELSE one[k-Len(u)]
      BY <1>1, <1>2, ConcatProperties
    <3>2. Len(u)+1 \in 1..Len(u)+Len(one) /\ ~(Len(u)+1 <= Len(u)) /\ (Len(u)+1)-Len(u) = 1
      BY <1>2, <2>1
    <3> QED
      BY <3>1, <3>2
  <2> QED
    BY <1>2, <2>1, <2>2 DEF Last
<1>6. CASE first = TRUE
  <2>1. Around(p, i, v, first) = one \o u
    BY <1>6 DEF Around, u, one
  <2> QED
    BY <1>3, <1>6, <2>1 DEF u
<1>7. CASE first = FALSE
  <2>1. Around(p, i, v, first) = u \o one
    BY <1>7 DEF Around, u, one
  <2> QED
    BY <1>4, <1>5, <1>7, <2>1 DEF u
<1> QED
  BY <1>6, <1>7

LEMMA TraversalStates ==
  ASSUME NEW p \in Pool, ArraysTyped(p), NEW first \in BOOLEAN, NEW root \in Slots
  PROVE  \E f : /\ f[0] = [i \in Slots |-> <<>>]
                /\ \A n \in 1..Capacity :
                     f[n] = [i \in Slots |-> Around(p, i, f[n-1], first)]
                /\ Traversal(p, root, first) = f[Capacity][root]
<1> DEFINE V == [Slots -> Seq(Slots)]
           base == [i \in Slots |-> <<>>]
           F == [nv \in (1..Capacity) \X V |-> [i \in Slots |-> Around(p, i, nv[2], first)]]
           Steps(f) ==
             f = [n \in 0..Capacity |->
                   [i \in Slots |->
                     IF n = 0 THEN <<>>
                     ELSE LET kids == LiveChildren(p, i)
                              under == FlattenSeq([k \in 1..Len(kids) |-> f[n-1][kids[k]]])
                          IN  IF first THEN <<i>> \o under ELSE under \o <<i>>]]
           below == CHOOSE f : Steps(f)
<1>1. Traversal(p, root, first) = below[Capacity][root]
  BY Zenon DEF Traversal
<1>2. Capacity \in Nat
  BY MigrationAssumption
<1>3. \A n \in 1..Capacity, v \in V : F[<<n, v>>] = [i \in Slots |-> Around(p, i, v, first)]
  OBVIOUS
<1>4. F \in [(1..Capacity) \X V -> V]
  <2>1. ASSUME NEW v \in V PROVE [i \in Slots |-> Around(p, i, v, first)] \in V
    BY AroundItems
  <2> HIDE DEF V
  <2> QED
    BY <2>1
<1>5. base \in V
  OBVIOUS
<1>6. ASSUME NEW f
      PROVE  Steps(f) <=> f = [n \in 0..Capacity |->
                                 IF n = 0 THEN base
                                 ELSE [i \in Slots |-> Around(p, i, f[n-1], first)]]
  <2>1. \A n \in 0..Capacity :
          [i \in Slots |-> IF n = 0 THEN <<>>
                           ELSE LET kids == LiveChildren(p, i)
                                    under == FlattenSeq([k \in 1..Len(kids) |-> f[n-1][kids[k]]])
                                IN  IF first THEN <<i>> \o under ELSE under \o <<i>>]
          = IF n = 0 THEN base ELSE [i \in Slots |-> Around(p, i, f[n-1], first)]
    BY DEF Around, Under
  <2> QED
    BY <2>1
<1> HIDE DEF F, V, base, Steps
<1>7. PICK f : Loops(f, Capacity, V, base, F)
  BY <1>2, <1>4, <1>5, LoopDefined
<1>8. f = [n \in 0..Capacity |->
             IF n = 0 THEN base ELSE [i \in Slots |-> Around(p, i, f[n-1], first)]]
  <2>1. ASSUME NEW n \in 1..Capacity
        PROVE  f[n] = [i \in Slots |-> Around(p, i, f[n-1], first)]
    <3>1. n-1 \in 0..Capacity
      BY <1>2
    <3>2. f[n-1] \in V /\ f[n] = F[<<n, f[n-1]>>]
      BY <1>7, <3>1 DEF Loops
    <3> QED
      BY <1>3, <3>2
  <2>2. f \in [0..Capacity -> V] /\ f[0] = base
    BY <1>7 DEF Loops
  <2>3. \A n \in 0..Capacity : n # 0 => n \in 1..Capacity
    BY <1>2
  <2> QED
    BY <2>1, <2>2, <2>3
<1>9. Steps(below)
  <2>1. Steps(f)
    BY <1>6, <1>8
  <2> QED
    BY <2>1
<1> HIDE DEF below
<1>10. below = [n \in 0..Capacity |->
                  IF n = 0 THEN base ELSE [i \in Slots |-> Around(p, i, below[n-1], first)]]
  BY <1>6, <1>9
<1>11. below[0] = base
  BY <1>2, <1>10
<1>12. \A n \in 1..Capacity : below[n] = [i \in Slots |-> Around(p, i, below[n-1], first)]
  <2> TAKE n \in 1..Capacity
  <2>1. n \in 0..Capacity /\ n # 0
    BY <1>2
  <2> QED
    BY <1>10, <2>1, Zenon
<1> QED
  BY <1>1, <1>11, <1>12 DEF base

\* v[i] holds what is below each i: nothing else, nothing twice, and
\* everything that n steps reach.
Reaching(A, up, v, n) ==
  /\ v \in [Slots -> Seq(Slots)]
  /\ \A i \in A : IsInjective(v[i])
  /\ \A i \in A : ToSet(v[i]) \subseteq Down(A, up, i)
  /\ \A i \in A : \A x \in Down(A, up, i) : Cardinality(Path(A, up, i, x)) <= n => x \in ToSet(v[i])

LEMMA AliveFinite ==
  ASSUME NEW p \in Pool, ArraysTyped(p)
  PROVE  /\ IsFiniteSet(Slots) /\ Cardinality(Slots) = Capacity
         /\ \A S \in SUBSET alive[p] : IsFiniteSet(S) /\ Cardinality(S) \in Nat /\ Cardinality(S) <= Capacity
<1>1. Capacity \in Nat
  BY MigrationAssumption
<1>2. IsFiniteSet(0..Capacity-1) /\ Cardinality(0..Capacity-1) = Capacity
  BY <1>1, FS_Interval
<1>3. ASSUME NEW S \in SUBSET alive[p] 
      PROVE  IsFiniteSet(S) /\ Cardinality(S) \in Nat /\ Cardinality(S) <= Capacity
  <2>1. S \subseteq 0..Capacity-1
    BY DEF ArraysTyped, Slots
  <2> QED
    BY <1>2, <2>1, FS_Subset, FS_CardinalityType
<1> QED
  BY <1>2, <1>3 DEF Slots

LEMMA TraversalReaches ==
  ASSUME NEW p \in Pool, ArraysTyped(p), NEW up, Matches(p, up), NEW first \in BOOLEAN,
         NEW n \in Nat, NEW v, Reaching(alive[p], up, v, n)
  PROVE  Reaching(alive[p], up, [i \in Slots |-> Around(p, i, v, first)], n+1)
<1> DEFINE A == alive[p]
           w == [i \in Slots |-> Around(p, i, v, first)]
<1>1. A \subseteq Slots /\ Rooted(A, up) /\ v \in [Slots -> Seq(Slots)]
  BY DEF ArraysTyped, Matches, Reaching
<1>2. w \in [Slots -> Seq(Slots)] /\ \A i \in Slots : w[i] = Around(p, i, v, first)
  BY <1>1, AroundItems
<1>3. \A j \in A : IsInjective(v[j]) /\ ToSet(v[j]) \subseteq Down(A, up, j)
  BY DEF Reaching
<1>4. ASSUME NEW i \in A
      PROVE  /\ ToSet(w[i]) = {i} \cup UNION { ToSet(v[j]) : j \in KidsOf(A, up, i) }
             /\ IsInjective(w[i])
             /\ ToSet(w[i]) \subseteq Down(A, up, i)
  <2> DEFINE u == Under(p, i, v)
             K == KidsOf(A, up, i)
  <2>1. IsInjective(LiveChildren(p, i)) /\ ToSet(LiveChildren(p, i)) = K
    BY DEF Matches
  <2>2. \A j \in K : j \in A /\ up[j] = i
    BY DEF KidsOf
  <2>3. \A j \in K : j \in Down(A, up, i)
    BY <2>2, DownClosed
  <2>4. \A j \in K : Down(A, up, j) \subseteq Down(A, up, i) \ {i}
    BY <1>1, <2>2, <2>3, DownTransitive, DownOfChild
  <2>5. \A j, k \in K : j # k => Down(A, up, j) \cap Down(A, up, k) = {}
    BY <1>1, <2>2, DownOfSiblings
  <2>6. i \in Slots /\ i \in Down(A, up, i)
    BY <1>1, DownClosed
  <2> HIDE DEF K, A, w
  <2>7. \A j \in K : IsInjective(v[j]) /\ ToSet(v[j]) \subseteq Down(A, up, j)
    BY <1>3, <2>2
  <2>8. \A j, k \in K : j # k => ToSet(v[j]) \cap ToSet(v[k]) = {}
    BY <2>5, <2>7
  <2>9. ToSet(u) = UNION { ToSet(v[j]) : j \in K }
    BY <1>1, <2>1, <2>6, UnderItems
  <2>10. IsInjective(u)
    BY <1>1, <2>1, <2>6, <2>7, <2>8, UnderItems
  <2>11. w[i] = Around(p, i, v, first)
    BY <1>2, <2>6
  <2> HIDE DEF u
  <2>12. ToSet(u) \subseteq Down(A, up, i) \ {i}
    BY <2>4, <2>7, <2>9
  <2>13. ToSet(w[i]) = {i} \cup ToSet(u)
    <3>1. ToSet(Around(p, i, v, first)) = {i} \cup ToSet(Under(p, i, v))
      BY <1>1, <2>6, AroundItems
    <3> QED
      BY <2>11, <3>1 DEF u
  <2>14. IsInjective(w[i])
    <3>1. i \notin ToSet(u)
      BY <2>12
    <3> QED
      BY <1>1, <2>6, <2>10, <2>11, <3>1, AroundItems DEF u
  <2> QED
    BY <2>6, <2>9, <2>12, <2>13, <2>14 DEF K
<1>5. ASSUME NEW i \in A, NEW x \in Down(A, up, i), Cardinality(Path(A, up, i, x)) <= n+1
      PROVE  x \in ToSet(w[i])
  <2>1. CASE x = i
    BY <1>4, <2>1
  <2>2. CASE x # i
    <3>1. PICK j \in A : up[j] = i /\ x \in Down(A, up, j)
      BY <2>2, DownChildren
    <3>2. IsFiniteSet(A)
      BY AliveFinite
    <3>3. /\ Cardinality(Path(A, up, j, x)) \in Nat /\ Cardinality(Path(A, up, i, x)) \in Nat
          /\ Cardinality(Path(A, up, j, x)) < Cardinality(Path(A, up, i, x))
      BY <1>1, <3>1, <3>2, PathShortens
    <3>4. Cardinality(Path(A, up, j, x)) <= n
      BY <1>5, <3>3
    <3>5. x \in ToSet(v[j])
      BY <3>1, <3>4 DEF Reaching
    <3>6. j \in KidsOf(A, up, i)
      BY <3>1 DEF KidsOf
    <3> QED
      BY <1>4, <3>5, <3>6
  <2> QED
    BY <2>1, <2>2
<1> HIDE DEF A, w
<1> QED
  BY <1>2, <1>4, <1>5 DEF Reaching, A, w

LEMMA TraversalItems ==
  ASSUME NEW p \in Pool, ArraysTyped(p), NEW up, Matches(p, up), NEW first \in BOOLEAN,
         NEW root \in alive[p]
  PROVE  /\ Traversal(p, root, first) \in Seq(Slots)
         /\ ToSet(Traversal(p, root, first)) = Down(alive[p], up, root)
         /\ IsInjective(Traversal(p, root, first))
         /\ first = FALSE => /\ Traversal(p, root, first) # <<>>
                             /\ Last(Traversal(p, root, first)) = root
<1> DEFINE A == alive[p]
<1>0. root \in Slots /\ Capacity \in Nat /\ Capacity # 0 /\ A \subseteq Slots
  BY MigrationAssumption DEF ArraysTyped, Slots
<1>1. PICK f : /\ f[0] = [i \in Slots |-> <<>>]
               /\ \A n \in 1..Capacity : f[n] = [i \in Slots |-> Around(p, i, f[n-1], first)]
               /\ Traversal(p, root, first) = f[Capacity][root]
  BY <1>0, TraversalStates
<1> DEFINE Right == { n \in 0..Capacity : Reaching(A, up, f[n], n) }
<1>2. 0 \in Right
  <2>1. f[0] \in [Slots -> Seq(Slots)] /\ \A i \in A : IsInjective(f[0][i]) /\ ToSet(f[0][i]) = {}
    BY <1>0, <1>1 DEF IsInjective, ToSet
  <2>2. ASSUME NEW i \in A, NEW x \in Down(A, up, i) PROVE ~(Cardinality(Path(A, up, i, x)) <= 0)
    <3>1. i \in Path(A, up, i, x) /\ Path(A, up, i, x) \subseteq A
      BY DownClosed DEF Path
    <3>2. IsFiniteSet(Path(A, up, i, x)) /\ Cardinality(Path(A, up, i, x)) \in Nat
      BY <3>1, AliveFinite
    <3>3. Cardinality(Path(A, up, i, x)) # 0
      BY <3>1, <3>2, FS_EmptySet
    <3> QED
      BY <3>2, <3>3
  <2>3. 0 \in 0..Capacity
    BY <1>0
  <2>4. Reaching(A, up, f[0], 0)
    <3> HIDE DEF A
    <3> QED
      BY <2>1, <2>2 DEF Reaching
  <2> QED
    BY <2>3, <2>4
<1>3. ASSUME NEW n \in 0..Capacity-1, n \in Right PROVE n+1 \in Right
  <2>1. n+1 \in 1..Capacity /\ n+1 \in 0..Capacity /\ (n+1)-1 = n /\ n \in Nat
    BY <1>0
  <2>2. f[n+1] = [i \in Slots |-> Around(p, i, f[n], first)]
    <3>1. f[n+1] = [i \in Slots |-> Around(p, i, f[(n+1)-1], first)]
      BY <1>1, <2>1
    <3> QED
      BY <2>1, <3>1
  <2>3. Reaching(A, up, f[n], n)
    BY <1>3
  <2>4. Reaching(A, up, f[n+1], n+1)
    BY <2>1, <2>2, <2>3, TraversalReaches
  <2> QED
    BY <2>1, <2>4
<1>4. Reaching(A, up, f[Capacity], Capacity)
  <2> HIDE DEF Right
  <2>1. 0..Capacity \subseteq Right
    BY <1>0, <1>2, <1>3, CountingUp
  <2>2. Capacity \in Right
    BY <1>0, <2>1
  <2> QED
    BY <2>2 DEF Right
<1>5. ASSUME NEW x \in Down(A, up, root) PROVE Cardinality(Path(A, up, root, x)) <= Capacity
  <2>1. Path(A, up, root, x) \subseteq A
    BY DownClosed DEF Path
  <2> QED
    BY <2>1, AliveFinite
<1>6. first = FALSE => /\ Traversal(p, root, first) # <<>>
                       /\ Last(Traversal(p, root, first)) = root
  <2>1. Capacity \in 1..Capacity /\ Capacity-1 \in 0..Capacity /\ Capacity-1 \in 0..Capacity-1
    BY <1>0
  <2>2. Traversal(p, root, first) = Around(p, root, f[Capacity-1], first)
    BY <1>0, <1>1, <2>1
  <2>3. f[Capacity-1] \in [Slots -> Seq(Slots)]
    <3> HIDE DEF Right
    <3>1. 0..Capacity \subseteq Right
      BY <1>0, <1>2, <1>3, CountingUp
    <3>2. Capacity-1 \in Right
      BY <2>1, <3>1
    <3> QED
      BY <3>2 DEF Right, Reaching
  <2> SUFFICES ASSUME first = FALSE
               PROVE  Around(p, root, f[Capacity-1], FALSE) # <<>>
                      /\ Last(Around(p, root, f[Capacity-1], FALSE)) = root
    BY <2>2
  <2> QED
    BY <1>0, <2>3, AroundItems
<1>7. f[Capacity] \in [Slots -> Seq(Slots)] /\ IsInjective(f[Capacity][root])
      /\ ToSet(f[Capacity][root]) = Down(A, up, root)
  BY <1>4, <1>5 DEF Reaching
<1> QED
  BY <1>0, <1>1, <1>6, <1>7
----------------------------------------------------------------------------
(* A pool: generations g, living slots a, free stack s, parents par and    *)
(* children arrays ch                                                      *)

Named(g, i) == [index |-> i, generation |-> g[i]]

UpOf(par) == [i \in Slots |-> IF par[i] = None THEN -1 ELSE par[i].index]

Typed(g, a, s, par, ch) ==
  /\ g \in [Slots -> Nat] /\ a \in SUBSET Slots /\ s \in Seq(Slots)
  /\ par \in [Slots -> EntityId \cup {None}] /\ ch \in [Slots -> Seq(EntityId)]

\* A free slot is not occupied, and is stacked once.
FreeOnce(a, s) == IsInjective(s) /\ ToSet(s) \cap a = {}

\* A living entity is a root or hangs below a living one.
ParentsLive(g, a, par) == \A i \in a : par[i] = None \/ \E k \in a : par[i] = Named(g, k)

\* An array holds a living entity exactly if that names its holder as parent.
Mirror(g, a, par, ch) ==
  \A i, j \in a : Named(g, j) \in ToSet(ch[i]) <=> par[j] = Named(g, i)

Once(a, ch) == \A i \in a : IsInjective(ch[i])

\* What else an array holds is an id of the past, that no entity has again.
Past(g, a, ch) ==
  \A i \in a : \A x \in ToSet(ch[i]) :
    x.generation < g[x.index] \/ (x.index \in a /\ x = Named(g, x.index))

Good(g, a, s, par, ch) ==
  /\ Typed(g, a, s, par, ch)
  /\ FreeOnce(a, s)
  /\ ParentsLive(g, a, par)
  /\ Rooted(a, UpOf(par))
  /\ Mirror(g, a, par, ch)
  /\ Once(a, ch)
  /\ Past(g, a, ch)

PoolGood(p) == Good(generations[p], alive[p], free_stack[p], parent_ids[p], children[p])

LEMMA NamedId ==
  ASSUME NEW g \in [Slots -> Nat], NEW i \in Slots
  PROVE  /\ Named(g, i) \in EntityId /\ Named(g, i) # None
         /\ Named(g, i).index = i /\ Named(g, i).generation = g[i]
<1>1. g[i] \in Nat
  OBVIOUS
<1>2. Named(g, i) \in EntityId
  BY <1>1 DEF Named, EntityId
<1> QED
  BY <1>2, NoneAssumption DEF Named

LEMMA NamedIndex ==
  ASSUME NEW x \in EntityId
  PROVE  /\ x.index \in Slots /\ x.generation \in Nat /\ x # None
         /\ \A g : x.generation = g[x.index] => x = Named(g, x.index)
BY NoneAssumption DEF EntityId, Named

\* The forest is what the parents say.
LEMMA UpOfLiving ==
  ASSUME NEW g, NEW a, NEW s, NEW par, NEW ch, Typed(g, a, s, par, ch),
         ParentsLive(g, a, par), NEW i \in a
  PROVE  /\ UpOf(par)[i] = -1 <=> par[i] = None
         /\ UpOf(par)[i] # -1 => UpOf(par)[i] \in a
         /\ \A k \in a : UpOf(par)[i] = k <=> par[i] = Named(g, k)
<1>1. g \in [Slots -> Nat] /\ a \subseteq Slots /\ i \in Slots /\ -1 \notin Slots
  BY MigrationAssumption DEF Typed, Slots
<1>2. UpOf(par)[i] = IF par[i] = None THEN -1 ELSE par[i].index
  BY <1>1 DEF UpOf
<1>3. \A k \in a : Named(g, k).index = k /\ Named(g, k) # None
  BY <1>1, NamedId
<1>4. CASE par[i] = None
  BY <1>1, <1>2, <1>3, <1>4
<1>5. ASSUME NEW k \in a, par[i] = Named(g, k) PROVE UpOf(par)[i] = k /\ par[i] # None
  BY <1>2, <1>3, <1>5
<1>6. par[i] = None \/ \E k \in a : par[i] = Named(g, k)
  BY DEF ParentsLive
<1> QED
  BY <1>1, <1>2, <1>3, <1>4, <1>5, <1>6

LEMMA AliveIds ==
  ASSUME NEW p, PoolGood(p), NEW x \in EntityId
  PROVE  Alive(p, x) <=> x.index \in alive[p] /\ x = Named(generations[p], x.index)
<1>1. x # None /\ (x.generation = generations[p][x.index] => x = Named(generations[p], x.index))
  BY NamedIndex
<1>2. x = Named(generations[p], x.index) => x.generation = generations[p][x.index]
  BY DEF Named
<1> QED
  BY <1>1, <1>2 DEF Alive

LEMMA GoodArrays ==
  ASSUME NEW p, PoolGood(p)
  PROVE  /\ ArraysTyped(p)
         /\ \A i \in alive[p] :
              /\ IsInjective(LiveChildren(p, i))
              /\ LiveChildren(p, i) \in Seq(Slots)
              /\ ToSet(LiveChildren(p, i)) = { j \in alive[p] : parent_ids[p][j] = IdAt(p, i) }
<1> DEFINE g == generations[p]
           a == alive[p]
           par == parent_ids[p]
           ch == children[p]
<1>1. /\ g \in [Slots -> Nat] /\ a \subseteq Slots /\ \A i \in Slots : ch[i] \in Seq(EntityId)
      /\ Mirror(g, a, par, ch) /\ Once(a, ch)
  BY DEF PoolGood, Good, Typed
<1>2. ASSUME NEW i \in a
      PROVE  /\ IsInjective(LiveChildren(p, i))
             /\ LiveChildren(p, i) \in Seq(Slots)
             /\ ToSet(LiveChildren(p, i)) = { j \in alive[p] : parent_ids[p][j] = IdAt(p, i) }
  <2>1. i \in Slots /\ ch[i] \in Seq(EntityId) /\ IsInjective(ch[i])
    BY <1>1 DEF Once
  <2>2. /\ LiveChildren(p, i) \in Seq(Slots)
        /\ ToSet(LiveChildren(p, i)) = { x.index : x \in { y \in ToSet(ch[i]) : Alive(p, y) } }
        /\ IsInjective(LiveChildren(p, i))
    BY <2>1, LiveChildrenItems
  <2>3. \A x \in ToSet(ch[i]) : x \in EntityId
    BY <2>1 DEF ToSet
  <2>4. \A x \in ToSet(ch[i]) : Alive(p, x) => x.index \in a /\ x = Named(g, x.index)
    BY <2>3, AliveIds
  <2>5. \A j \in a : Named(g, j) \in ToSet(ch[i]) => Alive(p, Named(g, j)) /\ Named(g, j).index = j
    <3>1. \A j \in a : Named(g, j) \in EntityId /\ Named(g, j).index = j
      BY <1>1, NamedId
    <3> QED
      BY <3>1, AliveIds
  <2>6. \A j \in a : Named(g, j) \in ToSet(ch[i]) <=> par[j] = Named(g, i)
    BY <1>1 DEF Mirror
  <2>7. IdAt(p, i) = Named(g, i)
    BY DEF IdAt, Named
  <2> HIDE DEF g, a, par, ch
  <2>8. { x.index : x \in { y \in ToSet(ch[i]) : Alive(p, y) } } = { j \in a : Named(g, j) \in ToSet(ch[i]) }
    <3>1. ASSUME NEW x \in ToSet(ch[i]), Alive(p, x)
          PROVE  x.index \in { j \in a : Named(g, j) \in ToSet(ch[i]) }
      BY <2>4, <3>1
    <3>2. ASSUME NEW j \in a, Named(g, j) \in ToSet(ch[i])
          PROVE  j \in { x.index : x \in { y \in ToSet(ch[i]) : Alive(p, y) } }
      BY <2>5, <3>2
    <3> QED
      BY <3>1, <3>2
  <2> QED
    BY <2>2, <2>6, <2>7, <2>8 DEF a, par
<1> QED
  BY <1>1, <1>2 DEF ArraysTyped

LEMMA GoodMatches ==
  ASSUME NEW p, PoolGood(p)
  PROVE  ArraysTyped(p) /\ Matches(p, UpOf(parent_ids[p]))
<1>1. /\ Typed(generations[p], alive[p], free_stack[p], parent_ids[p], children[p])
      /\ ParentsLive(generations[p], alive[p], parent_ids[p])
      /\ Rooted(alive[p], UpOf(parent_ids[p]))
  BY DEF PoolGood, Good
<1>2. ASSUME NEW i \in alive[p]
      PROVE  { j \in alive[p] : parent_ids[p][j] = IdAt(p, i) } = KidsOf(alive[p], UpOf(parent_ids[p]), i)
  <2>1. IdAt(p, i) = Named(generations[p], i)
    BY DEF IdAt, Named
  <2>2. \A j \in alive[p] : UpOf(parent_ids[p])[j] = i <=> parent_ids[p][j] = Named(generations[p], i)
    BY <1>1, UpOfLiving
  <2> QED
    BY <2>1, <2>2 DEF KidsOf
<1>3. /\ ArraysTyped(p)
      /\ \A i \in alive[p] : /\ IsInjective(LiveChildren(p, i))
                             /\ ToSet(LiveChildren(p, i)) = { j \in alive[p] : parent_ids[p][j] = IdAt(p, i) }
  BY GoodArrays
<1>4. \A i \in alive[p] : /\ IsInjective(LiveChildren(p, i))
                         /\ ToSet(LiveChildren(p, i)) = KidsOf(alive[p], UpOf(parent_ids[p]), i)
  BY <1>2, <1>3
<1> QED
  BY <1>1, <1>3, <1>4 DEF Matches

\* What is below slot i of pool p, i included.
Offspring(p, i) == Down(alive[p], UpOf(parent_ids[p]), i)

LEMMA SubtreeItems ==
  ASSUME NEW p \in Pool, PoolGood(p), NEW i \in alive[p]
  PROVE  /\ Preorder(p, i) \in Seq(Slots) /\ IsInjective(Preorder(p, i))
         /\ ToSet(Preorder(p, i)) = Offspring(p, i) /\ Subtree(p, i) = Offspring(p, i)
         /\ Postorder(p, i) \in Seq(Slots) /\ IsInjective(Postorder(p, i))
         /\ ToSet(Postorder(p, i)) = Offspring(p, i)
         /\ Front(Postorder(p, i)) \in Seq(Slots) /\ IsInjective(Front(Postorder(p, i)))
         /\ ToSet(Front(Postorder(p, i))) = Offspring(p, i) \ {i}
<1> DEFINE up == UpOf(parent_ids[p])
<1>1. ArraysTyped(p) /\ Matches(p, up)
  BY GoodMatches
<1> HIDE DEF up
<1>2. /\ Traversal(p, i, TRUE) \in Seq(Slots)
      /\ ToSet(Traversal(p, i, TRUE)) = Down(alive[p], up, i)
      /\ IsInjective(Traversal(p, i, TRUE))
  BY <1>1, TraversalItems
<1>3. /\ Traversal(p, i, FALSE) \in Seq(Slots)
      /\ ToSet(Traversal(p, i, FALSE)) = Down(alive[p], up, i)
      /\ IsInjective(Traversal(p, i, FALSE))
      /\ Traversal(p, i, FALSE) # <<>> /\ Last(Traversal(p, i, FALSE)) = i
  BY <1>1, TraversalItems
<1>4. /\ Front(Postorder(p, i)) \in Seq(Slots) /\ IsInjective(Front(Postorder(p, i)))
      /\ ToSet(Front(Postorder(p, i))) = Offspring(p, i) \ {i}
  BY <1>3, FrontItems DEF Postorder, Offspring, up
<1> QED
  BY <1>2, <1>3, <1>4 DEF Preorder, Postorder, Offspring, Subtree, up
----------------------------------------------------------------------------
(* What the operations do to a good pool                                   *)

LEMMA GoodParts ==
  ASSUME NEW g, NEW a, NEW s, NEW par, NEW ch, Good(g, a, s, par, ch)
  PROVE  /\ g \in [Slots -> Nat] /\ a \subseteq Slots /\ s \in Seq(Slots) /\ -1 \notin Slots
         /\ \A i \in Slots : ch[i] \in Seq(EntityId)
         /\ \A i \in Slots : par[i] \in EntityId \cup {None}
         /\ FreeOnce(a, s) /\ ParentsLive(g, a, par) /\ Rooted(a, UpOf(par))
         /\ Mirror(g, a, par, ch) /\ Once(a, ch) /\ Past(g, a, ch)
         /\ \A i \in a : Named(g, i).index = i /\ Named(g, i) # None /\ Named(g, i) \in EntityId
<1>1. g \in [Slots -> Nat] /\ a \subseteq Slots /\ s \in Seq(Slots)
  BY DEF Good, Typed
<1>2. -1 \notin Slots
  BY MigrationAssumption DEF Slots
<1>3. \A i \in a : Named(g, i).index = i /\ Named(g, i) # None /\ Named(g, i) \in EntityId
  BY <1>1, NamedId
<1>4. (\A i \in Slots : ch[i] \in Seq(EntityId)) /\ (\A i \in Slots : par[i] \in EntityId \cup {None})
  BY DEF Good, Typed
<1> QED
  BY <1>1, <1>2, <1>3, <1>4 DEF Good

\* An id in an array whose index is not occupied is not the slot's next id.
LEMMA PastIsPast ==
  ASSUME NEW g, NEW a, NEW s, NEW par, NEW ch, Good(g, a, s, par, ch),
         NEW i \in a, NEW j \in Slots, j \notin a
  PROVE  Named(g, j) \notin ToSet(ch[i]) /\ par[i] # Named(g, j)
<1>1. /\ g \in [Slots -> Nat] /\ Past(g, a, ch) /\ ParentsLive(g, a, par)
      /\ \A k \in a : Named(g, k).index = k
  BY GoodParts
<1>2. Named(g, j).index = j /\ Named(g, j).generation = g[j] /\ g[j] \in Nat /\ Named(g, j) # None
  BY <1>1, NamedId
<1>3. ~(g[j] < g[j])
  BY <1>2
<1>4. Named(g, j) \notin ToSet(ch[i])
  BY <1>1, <1>2, <1>3 DEF Past
<1>5. par[i] # Named(g, j)
  BY <1>1, <1>2 DEF ParentsLive
<1> QED
  BY <1>4, <1>5

\* Slot i gets an entity that is a root, and has no children.
Enters(a, i, par, ch, par2, ch2) ==
  /\ par2 \in [Slots -> EntityId \cup {None}] /\ par2[i] = None
  /\ \A j \in a : par2[j] = par[j]
  /\ ch2 \in [Slots -> Seq(EntityId)] /\ ch2[i] = <<>>
  /\ \A j \in a : ch2[j] = ch[j]

LEMMA CreateGood ==
  ASSUME NEW g, NEW a, NEW s, NEW par, NEW ch, Good(g, a, s, par, ch), s # <<>>,
         NEW i, i = Last(s), NEW par2, NEW ch2, Enters(a, i, par, ch, par2, ch2)
  PROVE  /\ Good(g, a \cup {i}, Front(s), par2, ch2)
         /\ i \in Slots /\ i \notin a
<1> DEFINE a2 == a \cup {i}
<1> USE DEF Enters
<1>1. /\ g \in [Slots -> Nat] /\ a \subseteq Slots /\ s \in Seq(Slots) /\ -1 \notin Slots
      /\ FreeOnce(a, s) /\ ParentsLive(g, a, par) /\ Rooted(a, UpOf(par))
      /\ Mirror(g, a, par, ch) /\ Once(a, ch) /\ Past(g, a, ch)
      /\ \A j \in a : Named(g, j).index = j
  BY GoodParts
<1>2. /\ i \in ToSet(s) /\ Front(s) \in Seq(Slots) /\ IsInjective(Front(s))
      /\ ToSet(Front(s)) = ToSet(s) \ {i}
  BY <1>1, FrontItems DEF FreeOnce
<1>3. i \in Slots /\ i \notin a
  <2>1. \A x \in ToSet(s) : x \in Slots
    BY <1>1 DEF ToSet
  <2> QED
    BY <1>1, <1>2, <2>1 DEF FreeOnce
<1>4. Named(g, i).index = i /\ Named(g, i) # None
  BY <1>1, <1>3, NamedId
<1>5. \A j \in a : Named(g, i) \notin ToSet(ch[j]) /\ par[j] # Named(g, i)
  BY <1>3, PastIsPast
<1>6. Typed(g, a2, Front(s), par2, ch2)
  BY <1>1, <1>2, <1>3 DEF Typed
<1>7. FreeOnce(a2, Front(s))
  BY <1>1, <1>2 DEF FreeOnce
<1>8. ParentsLive(g, a2, par2)
  <2>1. ASSUME NEW j \in a PROVE par2[j] = None \/ \E k \in a : par2[j] = Named(g, k)
    <3>1. par2[j] = par[j] /\ (par[j] = None \/ \E k \in a : par[j] = Named(g, k))
      BY <1>1, Zenon DEF ParentsLive
    <3> QED
      BY <3>1
  <2> QED
    BY <2>1 DEF ParentsLive
<1>9. Rooted(a2, UpOf(par2))
  <2> SUFFICES ASSUME NEW S \in SUBSET a2, S # {} PROVE \E v \in S : UpOf(par2)[v] \notin S
    BY DEF Rooted
  <2>1. UpOf(par2)[i] = -1 /\ \A j \in a : UpOf(par2)[j] = UpOf(par)[j]
    BY <1>1, <1>3 DEF UpOf
  <2>2. CASE i \in S
    BY <1>1, <1>3, <2>1, <2>2
  <2>3. CASE i \notin S
    <3>1. S \in SUBSET a
      BY <2>3
    <3>2. PICK v \in S : UpOf(par)[v] \notin S
      BY <1>1, <3>1 DEF Rooted
    <3> QED
      BY <2>1, <3>1, <3>2
  <2> QED
    BY <2>2, <2>3
<1>10. Mirror(g, a2, par2, ch2)
  <2> SUFFICES ASSUME NEW j \in a2, NEW k \in a2
               PROVE  Named(g, k) \in ToSet(ch2[j]) <=> par2[k] = Named(g, j)
    BY DEF Mirror
  <2>1. ToSet(ch2[i]) = {}
    BY DEF ToSet
  <2>2. CASE j = i
    <3>1. Named(g, k) \notin ToSet(ch2[j])
      BY <2>1, <2>2
    <3>2. par2[k] # Named(g, j)
      BY <1>4, <1>5, <2>2
    <3> QED
      BY <3>1, <3>2
  <2>3. CASE j \in a /\ k = i
    <3>1. Named(g, k) \notin ToSet(ch2[j])
      BY <1>5, <2>3
    <3>2. Named(g, j) # None
      BY <2>3, GoodParts
    <3> QED
      BY <2>3, <3>1, <3>2
  <2>4. CASE j \in a /\ k \in a
    BY <1>1, <2>4 DEF Mirror
  <2> QED
    BY <2>2, <2>3, <2>4
<1>11. Once(a2, ch2)
  <2>1. IsInjective(<<>>)
    BY DEF IsInjective
  <2> QED
    BY <1>1, <2>1 DEF Once
<1>12. Past(g, a2, ch2)
  <2>1. ToSet(ch2[i]) = {}
    BY DEF ToSet
  <2> QED
    BY <1>1, <2>1 DEF Past
<1> QED
  BY <1>3, <1>6, <1>7, <1>8, <1>9, <1>10, <1>11, <1>12 DEF Good

\* The entities of `gone` give up their slots; those they were parents of
\* become roots, and no array loses one that stays.
Leave(g, a, par, ch, gone, g2, par2, ch2) ==
  /\ g2 \in [Slots -> Nat]
  /\ \A i \in Slots : g2[i] = IF i \in gone THEN g[i]+1 ELSE g[i]
  /\ par2 \in [Slots -> EntityId \cup {None}]
  /\ \A i \in a \ gone : (\E k \in gone : par[i] = Named(g, k)) => par2[i] = None
  /\ \A i \in a \ gone : ~(\E k \in gone : par[i] = Named(g, k)) => par2[i] = par[i]
  /\ ch2 \in [Slots -> Seq(EntityId)]
  /\ \A i \in a \ gone : IsInjective(ch2[i]) /\ ToSet(ch2[i]) \subseteq ToSet(ch[i])
  /\ \A i, j \in a \ gone : Named(g, j) \in ToSet(ch[i]) => Named(g, j) \in ToSet(ch2[i])

LEMMA ReleaseGood ==
  ASSUME NEW g, NEW a, NEW s, NEW par, NEW ch, Good(g, a, s, par, ch),
         NEW order \in Seq(Slots), IsInjective(order), NEW gone, gone = ToSet(order), gone \subseteq a,
         NEW g2, NEW par2, NEW ch2, Leave(g, a, par, ch, gone, g2, par2, ch2)
  PROVE  Good(g2, a \ gone, s \o order, par2, ch2)
<1> DEFINE a2 == a \ gone
<1> USE DEF Leave
<1>1. /\ g \in [Slots -> Nat] /\ a \subseteq Slots /\ s \in Seq(Slots) /\ -1 \notin Slots
      /\ \A i \in Slots : ch[i] \in Seq(EntityId)
      /\ FreeOnce(a, s) /\ ParentsLive(g, a, par) /\ Rooted(a, UpOf(par))
      /\ Mirror(g, a, par, ch) /\ Past(g, a, ch)
      /\ \A i \in a : Named(g, i).index = i /\ Named(g, i) # None
  BY GoodParts
<1>2. \A i \in a2 : Named(g2, i) = Named(g, i)
  BY <1>1 DEF Named
<1>3. Typed(g2, a2, s \o order, par2, ch2)
  <2>1. s \o order \in Seq(Slots)
    BY <1>1, ConcatItems
  <2> QED
    BY <1>1, <2>1 DEF Typed
<1>4. FreeOnce(a2, s \o order)
  <2>1. ToSet(s \o order) = ToSet(s) \cup gone
    BY <1>1, ConcatItems
  <2>2. ToSet(s) \cap ToSet(order) = {} /\ ToSet(s) \cap a = {} /\ IsInjective(s)
    BY <1>1 DEF FreeOnce
  <2>3. IsInjective(s \o order)
    BY <1>1, <2>2, ConcatItems
  <2> QED
    BY <2>1, <2>2, <2>3 DEF FreeOnce
<1>5. ASSUME NEW i \in a2
      PROVE  \/ par2[i] = None
             \/ par2[i] = par[i] /\ \E k \in a2 : par[i] = Named(g, k) /\ par[i] = Named(g2, k)
  BY <1>1, <1>2 DEF ParentsLive
<1>6. ParentsLive(g2, a2, par2)
  BY <1>5 DEF ParentsLive
<1>7. Rooted(a2, UpOf(par2))
  <2> SUFFICES ASSUME NEW S \in SUBSET a2, S # {} PROVE \E v \in S : UpOf(par2)[v] \notin S
    BY DEF Rooted
  <2>1. PICK v \in S : UpOf(par)[v] \notin S
    BY <1>1 DEF Rooted
  <2>2. UpOf(par2)[v] = -1 \/ UpOf(par2)[v] = UpOf(par)[v]
    BY <1>1, <1>5 DEF UpOf
  <2> QED
    BY <1>1, <2>1, <2>2
<1>8. Mirror(g2, a2, par2, ch2)
  <2> SUFFICES ASSUME NEW i \in a2, NEW j \in a2
               PROVE  Named(g2, j) \in ToSet(ch2[i]) <=> par2[j] = Named(g2, i)
    BY DEF Mirror
  <2>1. Named(g2, i) = Named(g, i) /\ Named(g2, j) = Named(g, j) /\ Named(g, i) # None /\ Named(g, i).index = i
    BY <1>1, <1>2
  <2>2. Named(g, j) \in ToSet(ch2[i]) <=> Named(g, j) \in ToSet(ch[i])
    OBVIOUS
  <2>3. Named(g, j) \in ToSet(ch[i]) <=> par[j] = Named(g, i)
    BY <1>1 DEF Mirror
  <2>4. par2[j] = Named(g, i) => par[j] = Named(g, i)
    BY <1>5, <2>1
  <2>5. ASSUME par[j] = Named(g, i) PROVE par2[j] = Named(g, i)
    <3>1. ~(\E k \in gone : par[j] = Named(g, k))
      <4>1. \A k \in gone : Named(g, k).index = k /\ k # i
        BY <1>1
      <4> QED
        BY <2>1, <2>5, <4>1
    <3> QED
      BY <2>5, <3>1
  <2> QED
    BY <2>1, <2>2, <2>3, <2>4, <2>5
<1>9. Once(a2, ch2)
  BY DEF Once
<1>10. Past(g2, a2, ch2)
  <2> SUFFICES ASSUME NEW i \in a2, NEW x \in ToSet(ch2[i])
               PROVE  x.generation < g2[x.index] \/ (x.index \in a2 /\ x = Named(g2, x.index))
    BY DEF Past
  <2>1. x \in ToSet(ch[i]) /\ i \in a /\ i \in Slots
    BY <1>1
  <2>2. x \in EntityId
    BY <1>1, <2>1 DEF ToSet
  <2>3. x.index \in Slots /\ x.generation \in Nat
    BY <2>2, NamedIndex
  <2>4. g[x.index] \in Nat /\ g2[x.index] \in Nat
        /\ g2[x.index] = IF x.index \in gone THEN g[x.index]+1 ELSE g[x.index]
    BY <1>1, <2>3
  <2>5. x.generation < g[x.index] \/ (x.index \in a /\ x = Named(g, x.index))
    BY <1>1, <2>1 DEF Past
  <2>6. x = Named(g, x.index) => x.generation = g[x.index]
    BY DEF Named
  <2>7. CASE x.generation < g[x.index]
    BY <2>3, <2>4, <2>7
  <2>8. CASE x.index \in gone /\ x = Named(g, x.index)
    BY <2>3, <2>4, <2>6, <2>8
  <2>9. CASE x.index \in a2 /\ x = Named(g, x.index)
    BY <1>2, <2>9
  <2> QED
    BY <2>5, <2>7, <2>8, <2>9
<1> QED
  BY <1>3, <1>4, <1>6, <1>7, <1>8, <1>9, <1>10 DEF Good

\* The entity in slot i gets the parent `up`, in whose array it is then and
\* in no other.
Hangs(g, a, par, ch, i, up, par2, ch2) ==
  /\ up = None \/ \E k \in a : k \notin Down(a, UpOf(par), i) /\ up = Named(g, k)
  /\ par2[i] = up
  /\ \A j \in a : j # i => par2[j] = par[j]
  /\ \A j \in a : IsInjective(ch2[j])
  /\ \A j \in a : \A x \in EntityId : x # Named(g, i) =>
       (x \in ToSet(ch2[j]) <=> x \in ToSet(ch[j]))
  /\ \A j \in a : Named(g, i) \in ToSet(ch2[j]) <=> up = Named(g, j)

LEMMA SetParentGood ==
  ASSUME NEW g, NEW a, NEW s, NEW par, NEW ch, Good(g, a, s, par, ch), NEW i \in a,
         NEW up, NEW par2, NEW ch2, Typed(g, a, s, par2, ch2),
         Hangs(g, a, par, ch, i, up, par2, ch2)
  PROVE  Good(g, a, s, par2, ch2)
<1> DEFINE below == Down(a, UpOf(par), i)
<1> USE DEF Hangs
<1>1. /\ g \in [Slots -> Nat] /\ a \subseteq Slots /\ s \in Seq(Slots) /\ -1 \notin Slots
      /\ FreeOnce(a, s) /\ ParentsLive(g, a, par) /\ Rooted(a, UpOf(par))
      /\ Mirror(g, a, par, ch) /\ Past(g, a, ch)
      /\ \A j \in a : Named(g, j).index = j /\ Named(g, j) # None /\ Named(g, j) \in EntityId
  BY GoodParts
<1>2. i \in below /\ below \subseteq a /\ \A v \in a : UpOf(par)[v] \in below => v \in below
  BY DownClosed
<1> HIDE DEF below
<1>3. UpOf(par2)[i] \notin below /\ \A v \in a : v # i => UpOf(par2)[v] = UpOf(par)[v]
  <2>1. \A v \in a : UpOf(par2)[v] = IF par2[v] = None THEN -1 ELSE par2[v].index
    BY <1>1 DEF UpOf
  <2>2. \A v \in a : v # i => UpOf(par2)[v] = UpOf(par)[v]
    BY <1>1 DEF UpOf
  <2>3. UpOf(par2)[i] \notin below
    <3>1. CASE up = None
      BY <1>1, <1>2, <2>1, <3>1
    <3>2. ASSUME NEW k \in a, k \notin below, up = Named(g, k) PROVE UpOf(par2)[i] \notin below
      BY <1>1, <2>1, <3>2
    <3> QED
      BY <3>1, <3>2 DEF below
  <2> QED
    BY <2>2, <2>3
<1>4. Rooted(a, UpOf(par2))
  <2> SUFFICES ASSUME NEW S \in SUBSET a, S # {} PROVE \E v \in S : UpOf(par2)[v] \notin S
    BY DEF Rooted
  <2>1. CASE S \ below # {}
    <3>1. PICK v \in S \ below : UpOf(par)[v] \notin S \ below
      BY <1>1, <2>1 DEF Rooted
    <3>2. v # i /\ UpOf(par2)[v] = UpOf(par)[v] /\ UpOf(par)[v] \notin below
      BY <1>2, <1>3, <3>1
    <3> QED
      BY <3>1, <3>2
  <2>2. CASE S \subseteq below /\ i \in S
    BY <1>3, <2>2
  <2>3. CASE S \subseteq below /\ i \notin S
    <3>1. PICK v \in S : UpOf(par)[v] \notin S
      BY <1>1 DEF Rooted
    <3> QED
      BY <1>3, <2>3, <3>1
  <2> QED
    BY <2>1, <2>2, <2>3
<1>5. Typed(g, a, s, par2, ch2)
  OBVIOUS
<1>6. ParentsLive(g, a, par2)
  <2>1. ASSUME NEW j \in a PROVE par2[j] = None \/ \E k \in a : par2[j] = Named(g, k)
    <3>1. CASE j = i
      BY <3>1
    <3>2. CASE j # i
      <4>1. par2[j] = par[j] /\ ParentsLive(g, a, par)
        BY <1>1, <3>2
      <4> QED
        BY <4>1, Zenon DEF ParentsLive
    <3> QED
      BY <3>1, <3>2
  <2> QED
    BY <2>1 DEF ParentsLive
<1>7. Mirror(g, a, par2, ch2)
  <2> SUFFICES ASSUME NEW j \in a, NEW k \in a
               PROVE  Named(g, k) \in ToSet(ch2[j]) <=> par2[k] = Named(g, j)
    BY DEF Mirror
  <2>1. CASE k = i
    BY <2>1
  <2>2. CASE k # i
    <3>1. Named(g, k) # Named(g, i) /\ Named(g, k) \in EntityId
      BY <1>1, <2>2
    <3>2. Named(g, k) \in ToSet(ch[j]) <=> par[k] = Named(g, j)
      BY <1>1 DEF Mirror
    <3> QED
      BY <2>2, <3>1, <3>2
  <2> QED
    BY <2>1, <2>2
<1>8. Once(a, ch2)
  BY DEF Once
<1>9. Past(g, a, ch2)
  <2> SUFFICES ASSUME NEW j \in a, NEW x \in ToSet(ch2[j])
               PROVE  x.generation < g[x.index] \/ (x.index \in a /\ x = Named(g, x.index))
    BY DEF Past
  <2>1. j \in Slots
    BY <1>1
  <2>2. x \in EntityId
    <3>1. ch2[j] \in Seq(EntityId)
      BY <2>1 DEF Typed
    <3> QED
      BY <3>1 DEF ToSet
  <2>3. CASE x = Named(g, i)
    BY <1>1, <2>3
  <2>4. CASE x # Named(g, i)
    BY <1>1, <2>2, <2>4 DEF Past
  <2> QED
    BY <2>3, <2>4
<1> QED
  BY <1>1, <1>4, <1>5, <1>6, <1>7, <1>8, <1>9 DEF Good

\* m gives each slot of T, what is below `root` in a pool with parents par0,
\* a slot of I in the pool that takes them in.
Arrive(g0, a0, par0, root, T, m, I, g, a, par, ch, par2, ch2) ==
  /\ \A j, k \in T : m[j] = m[k] => j = k
  /\ (\A j \in T : m[j] \in I) /\ \A x \in I : \E j \in T : x = m[j]
  /\ \A k \in a : par2[k] = par[k] /\ ch2[k] = ch[k]
  /\ par2[m[root]] = None
  /\ \A j \in T : j # root => par2[m[j]] = Named(g, m[par0[j].index])
  /\ \A j \in T : IsInjective(ch2[m[j]])
  /\ \A j \in T : \A x \in ToSet(ch2[m[j]]) :
       \E k \in a0 : par0[k] = Named(g0, j) /\ x = Named(g, m[k])
  /\ \A j \in T, k \in a0 : par0[k] = Named(g0, j) => Named(g, m[k]) \in ToSet(ch2[m[j]])

LEMMA ReceiveGood ==
  ASSUME NEW g0, NEW a0, NEW s0, NEW par0, NEW ch0, Good(g0, a0, s0, par0, ch0), NEW root \in a0,
         NEW g, NEW a, NEW s, NEW par, NEW ch, Good(g, a, s, par, ch),
         NEW I, I \subseteq ToSet(s),
         NEW s2, IsInjective(s2), ToSet(s2) \subseteq ToSet(s) \ I,
         NEW par2, NEW ch2, Typed(g, a \cup I, s2, par2, ch2), NEW m,
         Arrive(g0, a0, par0, root, Down(a0, UpOf(par0), root), m, I, g, a, par, ch, par2, ch2)
  PROVE  Good(g, a \cup I, s2, par2, ch2)
<1> USE DEF Arrive
<1> DEFINE a2 == a \cup I
           up0 == UpOf(par0)
           T == Down(a0, UpOf(par0), root)
<1>1. /\ g \in [Slots -> Nat] /\ a \subseteq Slots /\ s \in Seq(Slots) /\ -1 \notin Slots
      /\ FreeOnce(a, s) /\ ParentsLive(g, a, par) /\ Rooted(a, UpOf(par))
      /\ Mirror(g, a, par, ch) /\ Past(g, a, ch) /\ Once(a, ch)
      /\ \A j \in a : Named(g, j).index = j /\ Named(g, j) # None /\ Named(g, j) \in EntityId
  BY GoodParts
<1>2. /\ a0 \subseteq Slots /\ Rooted(a0, up0) /\ ParentsLive(g0, a0, par0)
      /\ Typed(g0, a0, s0, par0, ch0)
      /\ \A j \in a0 : Named(g0, j).index = j /\ Named(g0, j) # None
  BY GoodParts DEF Good
<1>3. T \subseteq a0 /\ root \in T /\ \A v \in a0 : up0[v] \in T => v \in T
  BY DownClosed
<1>4. up0[root] \notin T
  <2>1. CASE up0[root] = -1
    BY <1>1, <1>2, <1>3, <2>1
  <2>2. CASE up0[root] # -1
    <3>1. up0[root] \in a0
      BY <1>2, <2>2, UpOfLiving
    <3>2. ASSUME up0[root] \in T PROVE FALSE
      <4>1. root # up0[root] \/ up0[root] = root
        OBVIOUS
      <4>2. up0[root] \in Down(a0, up0, root)
        BY <3>2
      <4> QED
        BY <1>2, <3>1, <4>2, DownOfChild
    <3> QED
      BY <3>2
  <2> QED
    BY <2>1, <2>2
<1>5. \A j \in T : \A k \in a0 : par0[k] = Named(g0, j) <=> up0[k] = j
  BY <1>2, <1>3, UpOfLiving
<1>6. ASSUME NEW j \in T, j # root
      PROVE  up0[j] = par0[j].index /\ up0[j] \in T /\ par2[m[j]] = Named(g, m[up0[j]])
  <2>1. up0[j] \in T
    BY <1>6, DownParents
  <2>2. par0[j] = Named(g0, up0[j])
    BY <1>3, <1>5, <2>1
  <2>3. par0[j].index = up0[j]
    BY <1>2, <1>3, <2>1, <2>2
  <2> QED
    BY <1>6, <2>1, <2>3
<1> HIDE DEF up0
<1>7. /\ \A x \in I : x \in Slots /\ x \notin a /\ Named(g, x).index = x /\ Named(g, x) # None
      /\ \A j \in T : m[j] \in I
  <2>1. \A x \in ToSet(s) : x \in Slots
    BY <1>1 DEF ToSet
  <2>2. \A x \in I : x \in ToSet(s)
    OBVIOUS
  <2>3. \A x \in I : Named(g, x).index = x /\ Named(g, x) # None
    BY <1>1, <2>1, <2>2, NamedId
  <2>4. \A j \in T : m[j] \in I
    OBVIOUS
  <2> QED
    BY <1>1, <2>1, <2>2, <2>3, <2>4 DEF FreeOnce
<1>8. \A k \in a, x \in I : Named(g, x) \notin ToSet(ch[k]) /\ par[k] # Named(g, x)
  BY <1>7, PastIsPast
<1>9. Typed(g, a2, s2, par2, ch2)
  OBVIOUS
<1>10. FreeOnce(a2, s2)
  BY <1>1 DEF FreeOnce
<1>11. ParentsLive(g, a2, par2)
  <2>1. ASSUME NEW j \in a PROVE par2[j] = None \/ \E k \in a : par2[j] = Named(g, k)
    <3>1. par2[j] = par[j]
      OBVIOUS
    <3>2. par[j] = None \/ \E k \in a : par[j] = Named(g, k)
      BY <1>1, Zenon DEF ParentsLive
    <3> QED
      BY <3>1, <3>2
  <2>2. \A j \in T : par2[m[j]] = None \/ \E k \in I : par2[m[j]] = Named(g, k)
    BY <1>6, <1>7
  <2> QED
    BY <2>1, <2>2 DEF ParentsLive
<1>12. Rooted(a2, UpOf(par2))
  <2> SUFFICES ASSUME NEW S \in SUBSET a2, S # {} PROVE \E v \in S : UpOf(par2)[v] \notin S
    BY DEF Rooted
  <2>1. \A v \in a2 : UpOf(par2)[v] = IF par2[v] = None THEN -1 ELSE par2[v].index
    BY <1>1, <1>7 DEF UpOf
  <2>2. \A v \in a : UpOf(par)[v] = UpOf(par2)[v] /\ (UpOf(par2)[v] = -1 \/ UpOf(par2)[v] \in a)
    <3>1. \A v \in a : UpOf(par)[v] = IF par[v] = None THEN -1 ELSE par[v].index
      BY <1>1 DEF UpOf
    <3> QED
      BY <1>1, <2>1, <3>1 DEF ParentsLive
  <2>3. CASE S \cap a # {}
    <3>1. PICK v \in S \cap a : UpOf(par)[v] \notin S \cap a
      BY <1>1, <2>3 DEF Rooted
    <3>2. UpOf(par2)[v] \notin S \cap a /\ (UpOf(par2)[v] = -1 \/ UpOf(par2)[v] \in a)
      BY <2>2, <3>1
    <3>3. -1 \notin S
      BY <1>1, <1>7
    <3> QED
      BY <3>1, <3>2, <3>3
  <2>4. CASE S \cap a = {}
    <3> DEFINE R == { j \in T : m[j] \in S }
    <3>1. R \in SUBSET a0 /\ R # {}
      BY <1>3, <2>4
    <3>2. PICK j \in R : up0[j] \notin R
      <4> HIDE DEF R
      <4> QED
        BY <1>2, <3>1 DEF Rooted
    <3>3. CASE j = root
      BY <1>1, <1>7, <2>1, <3>2, <3>3
    <3>4. CASE j # root
      <4>1. up0[j] \in T /\ par2[m[j]] = Named(g, m[up0[j]])
        BY <1>6, <3>2, <3>4
      <4>2. m[up0[j]] \notin S /\ m[up0[j]] \in I /\ m[j] \in S
        BY <1>7, <3>2, <4>1
      <4>3. UpOf(par2)[m[j]] = m[up0[j]]
        BY <1>7, <2>1, <4>1, <4>2
      <4> QED
        BY <4>2, <4>3
    <3> QED
      BY <3>3, <3>4
  <2> QED
    BY <2>3, <2>4
<1>13. Mirror(g, a2, par2, ch2)
  <2> SUFFICES ASSUME NEW h \in a2, NEW k \in a2
               PROVE  Named(g, k) \in ToSet(ch2[h]) <=> par2[k] = Named(g, h)
    BY DEF Mirror
  <2>1. CASE h \in a /\ k \in a
    BY <1>1, <2>1 DEF Mirror
  <2>2. CASE h \in a /\ k \in I
    <3>1. Named(g, k) \notin ToSet(ch2[h])
      BY <1>8, <2>2
    <3>2. PICK j \in T : k = m[j]
      BY <2>2
    <3>3. par2[k] # Named(g, h)
      <4>1. CASE j = root
        BY <1>1, <2>2, <3>2, <4>1
      <4>2. CASE j # root
        BY <1>1, <1>6, <1>7, <2>2, <3>2, <4>2
      <4> QED
        BY <4>1, <4>2
    <3> QED
      BY <3>1, <3>3
  <2>3. CASE h \in I /\ k \in a
    <3>1. par2[k] # Named(g, h)
      BY <1>8, <2>3
    <3>2. PICK j \in T : h = m[j]
      BY <2>3
    <3>3. ASSUME Named(g, k) \in ToSet(ch2[h]) PROVE FALSE
      <4>1. PICK x \in a0 : par0[x] = Named(g0, j) /\ Named(g, k) = Named(g, m[x])
        BY <3>2, <3>3
      <4>2. x \in T
        BY <1>3, <1>5, <4>1
      <4>3. Named(g, k).index = k /\ Named(g, m[x]).index = m[x] /\ m[x] \notin a
        BY <1>1, <1>7, <2>3, <4>2
      <4> QED
        BY <2>3, <4>1, <4>3
    <3> QED
      BY <3>1, <3>3
  <2>4. CASE h \in I /\ k \in I
    <3>1. PICK i \in T, j \in T : h = m[i] /\ k = m[j]
      BY <2>4
    <3>2. Named(g, k) \in ToSet(ch2[h]) <=> up0[j] = i
      <4>1. ASSUME up0[j] = i PROVE Named(g, k) \in ToSet(ch2[h])
        BY <1>3, <1>5, <3>1, <4>1
      <4>2. ASSUME Named(g, k) \in ToSet(ch2[h]) PROVE up0[j] = i
        <5>1. PICK x \in a0 : par0[x] = Named(g0, i) /\ Named(g, k) = Named(g, m[x])
          BY <3>1, <4>2
        <5>2. x \in T /\ up0[x] = i
          BY <1>3, <1>5, <3>1, <5>1
        <5>3. Named(g, k).index = k /\ Named(g, m[x]).index = m[x]
          BY <1>7, <2>4, <5>2
        <5>4. x = j
          BY <3>1, <5>1, <5>2, <5>3
        <5> QED
          BY <5>2, <5>4
      <4> QED
        BY <4>1, <4>2
    <3>3. par2[k] = Named(g, h) <=> up0[j] = i
      <4>1. CASE j = root
        BY <1>4, <1>7, <2>4, <3>1, <4>1
      <4>2. CASE j # root
        <5>1. up0[j] \in T /\ par2[k] = Named(g, m[up0[j]])
          BY <1>6, <3>1, <4>2
        <5>2. Named(g, h).index = h /\ Named(g, m[up0[j]]).index = m[up0[j]]
          BY <1>7, <2>4, <5>1
        <5> QED
          BY <3>1, <5>1, <5>2
      <4> QED
        BY <4>1, <4>2
    <3> QED
      BY <3>2, <3>3
  <2> QED
    BY <2>1, <2>2, <2>3, <2>4
<1>14. Once(a2, ch2)
  BY <1>1 DEF Once
<1>15. Past(g, a2, ch2)
  <2> SUFFICES ASSUME NEW h \in a2, NEW x \in ToSet(ch2[h])
               PROVE  x.generation < g[x.index] \/ (x.index \in a2 /\ x = Named(g, x.index))
    BY DEF Past
  <2>1. CASE h \in a
    BY <1>1, <2>1 DEF Past
  <2>2. CASE h \in I
    <3>1. PICK j \in T : h = m[j]
      BY <2>2
    <3>2. PICK k \in a0 : par0[k] = Named(g0, j) /\ x = Named(g, m[k])
      BY <3>1
    <3>3. k \in T
      BY <1>3, <1>5, <3>1, <3>2
    <3> QED
      BY <1>7, <3>2, <3>3
  <2> QED
    BY <2>1, <2>2
<1> QED
  BY <1>9, <1>10, <1>11, <1>12, <1>13, <1>14, <1>15 DEF Good
----------------------------------------------------------------------------
(* The arrays that freed entities leave, and the slots that migrants get   *)

LEMMA UnhookedItems ==
  ASSUME NEW p, PoolGood(p), NEW arrays \in [Slots -> Seq(EntityId)], NEW i \in Slots
  PROVE  /\ Unhooked(p, arrays, i) \in [Slots -> Seq(EntityId)]
         /\ \A k \in Slots : k # i /\ IsInjective(arrays[k]) =>
              /\ IsInjective(Unhooked(p, arrays, i)[k])
              /\ ToSet(Unhooked(p, arrays, i)[k]) \subseteq ToSet(arrays[k])
              /\ ToSet(arrays[k]) \ {IdAt(p, i)} \subseteq ToSet(Unhooked(p, arrays, i)[k])
<1> DEFINE up == parent_ids[p][i]
           orphaned == [arrays EXCEPT ![i] = <<>>]
           new == Unhooked(p, arrays, i)
           x == IdAt(p, i)
<1>1. up \in EntityId \cup {None}
  BY DEF PoolGood, Good, Typed
<1>2. orphaned \in [Slots -> Seq(EntityId)] /\ \A k \in Slots : k # i => orphaned[k] = arrays[k]
  OBVIOUS
<1> HIDE DEF up, orphaned, x
<1>3. CASE ~Alive(p, up)
  <2>1. new = orphaned
    BY <1>3 DEF Unhooked, up, orphaned
  <2> HIDE DEF new
  <2> QED
    BY <1>2, <2>1 DEF new
<1>4. CASE Alive(p, up)
  <2>1. up.index \in Slots
    BY <1>1, <1>4, NamedIndex DEF Alive
  <2>2. new = [orphaned EXCEPT ![up.index] = SwapRemove(@, x)]
    BY <1>4 DEF Unhooked, up, orphaned, x
  <2>3. orphaned[up.index] \in Seq(EntityId)
    BY <1>2, <2>1
  <2>4. SwapRemove(orphaned[up.index], x) \in Seq(EntityId)
    BY <2>3, SwapRemoveType
  <2> HIDE DEF new
  <2>5. new \in [Slots -> Seq(EntityId)]
    BY <1>2, <2>1, <2>2, <2>4
  <2>6. ASSUME NEW k \in Slots, k # i, IsInjective(arrays[k])
        PROVE  /\ IsInjective(new[k])
               /\ ToSet(new[k]) \subseteq ToSet(arrays[k])
               /\ ToSet(arrays[k]) \ {x} \subseteq ToSet(new[k])
    <3>1. CASE k = up.index
      <4>1. new[k] = SwapRemove(arrays[k], x) /\ arrays[k] \in Seq(EntityId)
        BY <1>2, <2>2, <2>6, <3>1
      <4>2. /\ ToSet(SwapRemove(arrays[k], x)) = ToSet(arrays[k]) \ {x}
            /\ IsInjective(SwapRemove(arrays[k], x))
        BY <2>6, <4>1, SwapRemoveItems
      <4> QED
        BY <4>1, <4>2
    <3>2. CASE k # up.index
      <4>1. new[k] = arrays[k]
        BY <1>2, <2>2, <2>6, <3>2
      <4> QED
        BY <2>6, <4>1
    <3> QED
      BY <3>1, <3>2
  <2> QED
    BY <2>5, <2>6 DEF new, x
<1> QED
  BY <1>3, <1>4

\* What is left of the arrays of all but `gone` once these ids are dropped.
LeftOf(arrays, old, gone, dropped) ==
  /\ arrays \in [Slots -> Seq(EntityId)]
  /\ \A k \in Slots : k \notin gone /\ IsInjective(old[k]) =>
       IsInjective(arrays[k]) /\ ToSet(arrays[k]) \subseteq ToSet(old[k])
  /\ \A k \in Slots : k \notin gone /\ IsInjective(old[k]) =>
       \A x \in ToSet(old[k]) : x \notin dropped => x \in ToSet(arrays[k])

LEMMA UnhookedInTurnItems ==
  ASSUME NEW p, PoolGood(p), NEW order \in Seq(Slots)
  PROVE  LeftOf(UnhookedInTurn(p, order), children[p], ToSet(order), { IdAt(p, i) : i \in ToSet(order) })
<1> DEFINE N == Len(order)
           V == [Slots -> Seq(EntityId)]
           F == [kv \in (1..N) \X V |-> Unhooked(p, kv[2], order[kv[1]])]
           Steps(f) == f = [k \in 0..N |->
                              IF k = 0 THEN children[p] ELSE Unhooked(p, f[k-1], order[k])]
           after == CHOOSE f : Steps(f)
           gone == ToSet(order)
           dropped == { IdAt(p, i) : i \in gone }
<1>1. UnhookedInTurn(p, order) = after[N]
  BY Zenon DEF UnhookedInTurn
<1>2. N \in Nat /\ (\A k \in 1..N : order[k] \in Slots /\ order[k] \in gone) /\ children[p] \in V
  BY DEF ToSet, PoolGood, Good, Typed
<1>3. \A k \in 1..N, v \in V : F[<<k, v>>] = Unhooked(p, v, order[k])
  OBVIOUS
<1>4. F \in [(1..N) \X V -> V]
  <2>1. ASSUME NEW k \in 1..N, NEW v \in V PROVE Unhooked(p, v, order[k]) \in V
    BY <1>2, UnhookedItems
  <2> HIDE DEF V
  <2> QED
    BY <2>1
<1> HIDE DEF F, N, V
<1>5. PICK f : Loops(f, N, V, children[p], F)
  BY <1>2, <1>4, LoopDefined
<1>6. /\ f \in [0..N -> V] /\ f[0] = children[p]
      /\ \A k \in 1..N : f[k] = Unhooked(p, f[k-1], order[k])
  <2>1. ASSUME NEW k \in 1..N PROVE f[k] = Unhooked(p, f[k-1], order[k])
    <3>1. k-1 \in 0..N
      BY <1>2
    <3>2. f[k-1] \in V /\ f[k] = F[<<k, f[k-1]>>]
      BY <1>5, <3>1 DEF Loops
    <3> QED
      BY <1>3, <3>2
  <2>2. f \in [0..N -> V] /\ f[0] = children[p]
    BY <1>5 DEF Loops
  <2> QED
    BY <2>1, <2>2
<1>7. Steps(f)
  <2>1. \A k \in 0..N : k # 0 => k \in 1..N
    BY <1>2
  <2> QED
    BY <1>6, <2>1
<1>8. Steps(after)
  <2> HIDE DEF Steps
  <2> QED
    BY <1>7
<1> HIDE DEF after, gone, dropped
<1> DEFINE Right == { k \in 0..N : LeftOf(after[k], children[p], gone, dropped) }
<1>9. 0 \in Right
  <2>1. after[0] = children[p] /\ 0 \in 0..N
    BY <1>2, <1>8
  <2> QED
    BY <1>2, <2>1 DEF LeftOf, V
<1>10. ASSUME NEW k \in 0..N-1, k \in Right PROVE k+1 \in Right
  <2>1. k+1 \in 0..N /\ k+1 # 0 /\ (k+1)-1 = k /\ k+1 \in 1..N
    BY <1>2
  <2>2. after[k+1] = Unhooked(p, after[k], order[k+1])
    <3>1. after[k+1] = Unhooked(p, after[(k+1)-1], order[k+1])
      BY <1>8, <2>1, Zenon
    <3> QED
      BY <2>1, <3>1
  <2> DEFINE old == after[k]
             new == after[k+1]
             i == order[k+1]
  <2>3. LeftOf(old, children[p], gone, dropped) /\ i \in Slots /\ i \in gone /\ IdAt(p, i) \in dropped
    BY <1>2, <1>10, <2>1 DEF dropped
  <2>4. old \in [Slots -> Seq(EntityId)]
    BY <2>3 DEF LeftOf
  <2>5. new = Unhooked(p, old, i)
    BY <2>2
  <2> HIDE DEF old, new, i
  <2>6. new \in [Slots -> Seq(EntityId)]
    BY <2>3, <2>4, <2>5, UnhookedItems
  <2>7. ASSUME NEW j \in Slots, j \notin gone, IsInjective(children[p][j])
        PROVE  /\ IsInjective(new[j]) /\ ToSet(new[j]) \subseteq ToSet(children[p][j])
               /\ \A x \in ToSet(children[p][j]) : x \notin dropped => x \in ToSet(new[j])
    <3>1. /\ IsInjective(old[j]) /\ ToSet(old[j]) \subseteq ToSet(children[p][j])
          /\ \A x \in ToSet(children[p][j]) : x \notin dropped => x \in ToSet(old[j])
      BY <2>3, <2>7 DEF LeftOf
    <3>2. j # i
      BY <2>3, <2>7
    <3>3. /\ IsInjective(new[j])
          /\ ToSet(new[j]) \subseteq ToSet(old[j])
          /\ ToSet(old[j]) \ {IdAt(p, i)} \subseteq ToSet(new[j])
      BY <2>3, <2>4, <2>5, <3>1, <3>2, UnhookedItems
    <3> QED
      BY <2>3, <3>1, <3>3
  <2>8. LeftOf(new, children[p], gone, dropped)
    BY <2>6, <2>7 DEF LeftOf
  <2> QED
    BY <2>1, <2>8 DEF new
<1>11. N \in Right
  <2> HIDE DEF Right
  <2>1. 0..N \subseteq Right
    BY <1>2, <1>9, <1>10, CountingUp
  <2> QED
    BY <1>2, <2>1
<1> QED
  BY <1>1, <1>11 DEF gone, dropped

\* The part of the free stack of q that migrants leave.
Unused(p, i, q) == SubSeq(free_stack[q], 1, Len(free_stack[q]) - Len(Preorder(p, i)))

Images(p, i, q) == { Image(p, i, q, j) : j \in Offspring(p, i) }

LEMMA ImageItems ==
  ASSUME NEW p \in Pool, PoolGood(p), NEW i \in alive[p], NEW q, PoolGood(q),
         Len(Preorder(p, i)) <= Len(free_stack[q])
  PROVE  /\ \A j \in Offspring(p, i) : /\ Image(p, i, q, j) \in ToSet(free_stack[q])
                                       /\ Image(p, i, q, j) \in Slots
                                       /\ Image(p, i, q, j) \notin alive[q]
         /\ \A j, k \in Offspring(p, i) : Image(p, i, q, j) = Image(p, i, q, k) => j = k
         /\ \A j \in Offspring(p, i) : Original(p, i, q, Image(p, i, q, j)) = j
         /\ Unused(p, i, q) \in Seq(Slots) /\ IsInjective(Unused(p, i, q))
         /\ ToSet(Unused(p, i, q)) \subseteq ToSet(free_stack[q]) \ Images(p, i, q)
<1> DEFINE pre == Preorder(p, i)
           s == free_stack[q]
           n == Len(pre)
           N == Len(s)
           K(j) == CHOOSE k \in 1..n : pre[k] = j
           T == Offspring(p, i)
           u == Unused(p, i, q)
<1>1. pre \in Seq(Slots) /\ IsInjective(pre) /\ ToSet(pre) = T /\ Subtree(p, i) = T
  BY SubtreeItems
<1>2. s \in Seq(Slots) /\ FreeOnce(alive[q], s)
  BY DEF PoolGood, Good, Typed
<1>3. \A j \in T : Image(p, i, q, j) = s[N + 1 - K(j)]
  BY DEF Image
<1>4. n \in Nat /\ N \in Nat /\ n <= N /\ DOMAIN s = 1..N /\ IsInjective(s)
  BY <1>1, <1>2 DEF FreeOnce
<1>5. \A j \in T : \E k \in 1..n : pre[k] = j
  BY <1>1 DEF ToSet
<1> HIDE DEF T, pre, n, s, N
<1>6. \A j \in T : K(j) \in 1..n /\ pre[K(j)] = j
  BY <1>5
<1> HIDE DEF K
<1>7. ASSUME NEW j \in T PROVE N + 1 - K(j) \in 1..N /\ N + 1 - K(j) > N - n
  BY <1>4, <1>6
<1>8. ASSUME NEW j \in T
      PROVE  /\ Image(p, i, q, j) \in ToSet(s) /\ Image(p, i, q, j) \in Slots
             /\ Image(p, i, q, j) \notin alive[q]
  <2>1. Image(p, i, q, j) \in ToSet(s)
    BY <1>3, <1>4, <1>7 DEF ToSet
  <2>2. \A x \in ToSet(s) : x \in Slots
    BY <1>2 DEF ToSet
  <2> QED
    BY <1>2, <2>1, <2>2 DEF FreeOnce
<1>9. ASSUME NEW j \in T, NEW k \in T, Image(p, i, q, j) = Image(p, i, q, k) PROVE j = k
  <2>1. N + 1 - K(j) = N + 1 - K(k)
    <3>1. s[N + 1 - K(j)] = s[N + 1 - K(k)]
      BY <1>3, <1>9
    <3> QED
      BY <1>4, <1>7, <3>1 DEF IsInjective
  <2>2. K(j) = K(k)
    BY <1>4, <1>6, <2>1
  <2> QED
    BY <1>6, <2>2
<1>10. ASSUME NEW j \in T PROVE Original(p, i, q, Image(p, i, q, j)) = j
  <2>1. Original(p, i, q, Image(p, i, q, j))
          = CHOOSE k \in T : Image(p, i, q, k) = Image(p, i, q, j)
    BY <1>1 DEF Original
  <2> QED
    BY <1>9, <2>1
<1>11. /\ u \in Seq(Slots) /\ Len(u) = N - n /\ DOMAIN u = 1..N-n
       /\ \A k \in 1..N-n : k \in 1..N /\ u[k] = s[k]
  <2>1. u = SubSeq(s, 1, N - n)
    BY DEF Unused, s, N, n, pre
  <2>2. N - n \in 0..N
    BY <1>4
  <2>3. u \in Seq(Slots)
    BY <1>2, <1>4, <2>1, <2>2, SubSeqProperties DEF N
  <2>4. Len(u) = N - n /\ \A k \in 1..N-n : u[k] = s[k]
    <3>1. \A k \in 1..N-n : s[k] \in Slots
      BY <1>2, <1>4, <2>2 DEF N
    <3>2. Len(u) = IF 1 <= N-n THEN (N-n)-1+1 ELSE 0
      BY <1>4, <2>1, <3>1, SubSeqProperties
    <3>3. \A k \in 1..(N-n)-1+1 : u[k] = s[1+k-1]
      BY <1>4, <2>1, <3>1, SubSeqProperties
    <3>4. \A k \in 1..N-n : 1+k-1 = k
      BY <1>4
    <3> QED
      BY <1>4, <3>2, <3>3, <3>4
  <2> QED
    BY <1>4, <2>2, <2>3, <2>4
<1> HIDE DEF u
<1>12. IsInjective(u)
  BY <1>4, <1>11 DEF IsInjective
<1>13. ASSUME NEW x \in ToSet(u) PROVE x \in ToSet(s) /\ \A j \in T : x # Image(p, i, q, j)
  <2>1. PICK k \in 1..N-n : x = u[k]
    BY <1>11 DEF ToSet
  <2>2. k \in 1..N /\ x = s[k]
    BY <1>11, <2>1
  <2>3. ASSUME NEW j \in T, x = Image(p, i, q, j) PROVE FALSE
    <3>1. k = N + 1 - K(j)
      <4>1. s[k] = s[N + 1 - K(j)]
        BY <1>3, <2>2, <2>3
      <4> QED
        BY <1>4, <1>7, <2>2, <4>1 DEF IsInjective
    <3>2. N + 1 - K(j) > N - n /\ k <= N - n
      BY <1>4, <1>7, <2>1
    <3> QED
      BY <1>4, <1>6, <3>1, <3>2
  <2> QED
    BY <1>4, <2>2, <2>3 DEF ToSet
<1>14. ToSet(u) \subseteq ToSet(s) \ Images(p, i, q)
  BY <1>13 DEF Images, T
<1> QED
  BY <1>8, <1>9, <1>10, <1>11, <1>12, <1>14 DEF T, s, u
----------------------------------------------------------------------------
(* The forest of every pool stays good                                     *)

OnPools ==
  /\ generations = [p \in Pool |-> generations[p]] /\ alive = [p \in Pool |-> alive[p]]
  /\ free_stack = [p \in Pool |-> free_stack[p]]
  /\ parent_ids = [p \in Pool |-> parent_ids[p]] /\ children = [p \in Pool |-> children[p]]

ForestInv == OnPools /\ \A p \in Pool : PoolGood(p)

LEMMA PoolTyped ==
  ASSUME NEW p, PoolGood(p)
  PROVE  /\ generations[p] \in [Slots -> Nat] /\ alive[p] \subseteq Slots
         /\ free_stack[p] \in Seq(Slots)
         /\ parent_ids[p] \in [Slots -> EntityId \cup {None}]
         /\ children[p] \in [Slots -> Seq(EntityId)]
BY DEF PoolGood, Good, Typed

LEMMA CreateForest ==
  ASSUME ForestInv, NEW p \in Pool, NEW e \in Thing, Create(p, e)
  PROVE  ForestInv'
<1> DEFINE i == Last(free_stack[p])
<1>1. OnPools'
  BY DEF ForestInv, OnPools, Create
<1>2. ASSUME NEW r \in Pool, r # p PROVE PoolGood(r)'
  <2>1. /\ generations'[r] = generations[r] /\ alive'[r] = alive[r] /\ free_stack'[r] = free_stack[r]
        /\ parent_ids'[r] = parent_ids[r] /\ children'[r] = children[r]
    BY <1>2 DEF ForestInv, OnPools, Create
  <2> QED
    BY <2>1 DEF ForestInv, PoolGood
<1>3. PoolGood(p)'
  <2>1. Good(generations[p], alive[p], free_stack[p], parent_ids[p], children[p])
    BY DEF ForestInv, PoolGood
  <2>2. free_stack[p] # <<>>
    BY DEF Create
  <2>3. /\ parent_ids[p] \in [Slots -> EntityId \cup {None}] /\ children[p] \in [Slots -> Seq(EntityId)]
        /\ free_stack[p] \in Seq(Slots) /\ IsInjective(free_stack[p])
        /\ ToSet(free_stack[p]) \cap alive[p] = {}
    BY <2>1 DEF Good, Typed, FreeOnce
  <2>4. i \in ToSet(free_stack[p]) /\ i \in Slots
    <3>1. i \in ToSet(free_stack[p])
      BY <2>2, <2>3, FrontItems
    <3> QED
      BY <2>3, <3>1 DEF ToSet
  <2>5. /\ generations'[p] = generations[p] /\ alive'[p] = alive[p] \cup {i}
        /\ free_stack'[p] = Front(free_stack[p])
        /\ parent_ids'[p] = [parent_ids[p] EXCEPT ![i] = None]
        /\ children'[p] = [children[p] EXCEPT ![i] = <<>>]
    BY DEF ForestInv, OnPools, Create
  <2> HIDE DEF i
  <2>6. /\ parent_ids'[p] \in [Slots -> EntityId \cup {None}] /\ parent_ids'[p][i] = None
        /\ children'[p] \in [Slots -> Seq(EntityId)] /\ children'[p][i] = <<>>
    BY <2>3, <2>4, <2>5
  <2>7. \A j \in alive[p] : parent_ids'[p][j] = parent_ids[p][j] /\ children'[p][j] = children[p][j]
    BY <2>3, <2>4, <2>5
  <2>8. i = Last(free_stack[p])
    BY DEF i
  <2>m. Enters(alive[p], i, parent_ids[p], children[p], parent_ids'[p], children'[p])
    BY <2>6, <2>7 DEF Enters
  <2>9. Good(generations[p], alive[p] \cup {i}, Front(free_stack[p]), parent_ids'[p], children'[p])
    BY <2>1, <2>2, <2>8, <2>m, CreateGood
  <2> QED
    BY <2>5, <2>9 DEF PoolGood
<1> QED
  BY <1>1, <1>2, <1>3 DEF ForestInv

LEMMA FreeForest ==
  ASSUME ForestInv, NEW p \in Pool, NEW order \in Seq(Slots), IsInjective(order),
         ToSet(order) \subseteq alive[p], FreeAll(p, order)
  PROVE  ForestInv'
<1> DEFINE gone == ToSet(order)
           g == generations[p]
           par == parent_ids[p]
           ch == children[p]
           dropped == { IdAt(p, j) : j \in gone }
<1>1. OnPools'
  BY DEF ForestInv, OnPools, FreeAll, ReleaseSlots
<1>2. ASSUME NEW r \in Pool, r # p PROVE PoolGood(r)'
  <2>1. /\ generations'[r] = generations[r] /\ alive'[r] = alive[r] /\ free_stack'[r] = free_stack[r]
        /\ parent_ids'[r] = parent_ids[r] /\ children'[r] = children[r]
    BY <1>2 DEF ForestInv, OnPools, FreeAll, ReleaseSlots
  <2> QED
    BY <2>1 DEF ForestInv, PoolGood
<1>3. PoolGood(p)'
  <2>1. Good(g, alive[p], free_stack[p], par, ch) /\ PoolGood(p)
    BY DEF ForestInv, PoolGood
  <2>2. /\ g \in [Slots -> Nat] /\ alive[p] \subseteq Slots
        /\ par \in [Slots -> EntityId \cup {None}] /\ ch \in [Slots -> Seq(EntityId)]
        /\ \A j \in alive[p] : Named(g, j).index = j /\ IsInjective(ch[j])
    BY <2>1, GoodParts, PoolTyped DEF Once
  <2>3. /\ generations'[p] = [j \in Slots |-> IF j \in gone THEN g[j]+1 ELSE g[j]]
        /\ alive'[p] = alive[p] \ gone
        /\ free_stack'[p] = free_stack[p] \o order
        /\ parent_ids'[p] = [j \in Slots |->
             IF j \in gone \/ \E k \in gone : Contains(LiveChildren(p, k), j) THEN None ELSE par[j]]
        /\ children'[p] = UnhookedInTurn(p, order)
    BY DEF ForestInv, OnPools, FreeAll, ReleaseSlots
  <2>4. \A j \in alive[p] \ gone : Named(g, j) \notin dropped
    BY <2>2 DEF IdAt, Named
  <2>5. LeftOf(children'[p], ch, gone, dropped)
    <3>1. LeftOf(UnhookedInTurn(p, order), children[p], ToSet(order), { IdAt(p, i) : i \in ToSet(order) })
      BY <2>1, UnhookedInTurnItems
    <3> QED
      BY <2>3, <3>1
  <2>6. \A j \in alive[p], k \in gone : Contains(LiveChildren(p, k), j) <=> par[j] = Named(g, k)
    <3> TAKE j \in alive[p], k \in gone
    <3>1. /\ LiveChildren(p, k) \in Seq(Slots)
          /\ ToSet(LiveChildren(p, k)) = { x \in alive[p] : parent_ids[p][x] = IdAt(p, k) }
      BY <2>1, GoodArrays
    <3>2. Contains(LiveChildren(p, k), j) <=> j \in ToSet(LiveChildren(p, k))
      BY <3>1, ContainsIsMembership
    <3> QED
      BY <3>1, <3>2 DEF IdAt, Named
  <2>7. \A j \in Slots : generations'[p][j] = IF j \in gone THEN g[j]+1 ELSE g[j]
    BY <2>3
  <2>8. generations'[p] \in [Slots -> Nat]
    BY <2>2, <2>3
  <2>9. parent_ids'[p] \in [Slots -> EntityId \cup {None}]
    BY <2>2, <2>3
  <2> DEFINE Orphan(j) == \E k \in gone : Contains(LiveChildren(p, k), j)
             Below(j) == \E k \in gone : par[j] = Named(g, k)
  <2>10. ASSUME NEW j \in alive[p] \ gone
         PROVE  (Below(j) => parent_ids'[p][j] = None) /\ (~Below(j) => parent_ids'[p][j] = par[j])
    <3>1. parent_ids'[p] = [k \in Slots |-> IF k \in gone \/ Orphan(k) THEN None ELSE par[k]]
      BY <2>3
    <3>2. j \in Slots /\ j \notin gone
      BY <2>2
    <3>3. Orphan(j) <=> Below(j)
      BY <2>6
    <3> HIDE DEF Orphan, Below, gone
    <3>4. parent_ids'[p][j] = IF Orphan(j) THEN None ELSE par[j]
      BY <3>1, <3>2
    <3> QED
      BY <3>3, <3>4
  <2>11. children'[p] \in [Slots -> Seq(EntityId)]
    BY <2>5 DEF LeftOf
  <2>12. \A j \in alive[p] \ gone : IsInjective(children'[p][j]) /\ ToSet(children'[p][j]) \subseteq ToSet(ch[j])
    BY <2>2, <2>5 DEF LeftOf
  <2>13. \A j, k \in alive[p] \ gone : Named(g, k) \in ToSet(ch[j]) => Named(g, k) \in ToSet(children'[p][j])
    <3> HIDE DEF dropped
    <3> QED
      BY <2>2, <2>4, <2>5 DEF LeftOf
  <2>14. Good(generations'[p], alive[p] \ gone, free_stack[p] \o order, parent_ids'[p], children'[p])
    <3>1. Leave(g, alive[p], par, ch, gone, generations'[p], parent_ids'[p], children'[p])
      BY <2>7, <2>8, <2>9, <2>10, <2>11, <2>12, <2>13 DEF Leave
    <3> HIDE DEF g, par, ch, gone
    <3>2. gone = ToSet(order) /\ gone \subseteq alive[p]
      BY DEF gone
    <3> QED
      BY <2>1, <3>1, <3>2, ReleaseGood
  <2> QED
    BY <2>3, <2>14 DEF PoolGood
<1> QED
  BY <1>1, <1>2, <1>3 DEF ForestInv

LEMMA SetParentForest ==
  ASSUME ForestInv, NEW p \in Pool, NEW i \in Slots, NEW up,
         up = None \/ \E j \in alive[p] : up = IdAt(p, j), SetParent(p, i, up)
  PROVE  ForestInv'
<1> DEFINE g == generations[p]
           a == alive[p]
           par == parent_ids[p]
           ch == children[p]
           id == IdAt(p, i)
           mid == ChildrenWithout(p, id)
<1>1. OnPools'
  BY DEF ForestInv, OnPools, SetParent, slotVars
<1>2. ASSUME NEW r \in Pool, r # p PROVE PoolGood(r)'
  <2>1. /\ generations'[r] = generations[r] /\ alive'[r] = alive[r] /\ free_stack'[r] = free_stack[r]
        /\ parent_ids'[r] = parent_ids[r] /\ children'[r] = children[r]
    BY <1>2 DEF ForestInv, OnPools, SetParent, slotVars
  <2> QED
    BY <2>1 DEF ForestInv, PoolGood
<1>3. /\ Good(g, a, free_stack[p], par, ch) /\ PoolGood(p) /\ i \in a
      /\ g \in [Slots -> Nat] /\ a \subseteq Slots /\ free_stack[p] \in Seq(Slots)
      /\ par \in [Slots -> EntityId \cup {None}] /\ ch \in [Slots -> Seq(EntityId)]
      /\ \A j \in a : Named(g, j).index = j /\ Named(g, j) # None /\ Named(g, j) \in EntityId
      /\ \A j \in a : IsInjective(ch[j])
      /\ Mirror(g, a, par, ch) /\ ParentsLive(g, a, par)
  <2>1. PoolGood(p) /\ Good(g, a, free_stack[p], par, ch)
    BY DEF ForestInv, PoolGood
  <2> QED
    BY <2>1, GoodParts, PoolTyped DEF Once, SetParent
<1>4. id = Named(g, i) /\ \A j : IdAt(p, j) = Named(g, j)
  BY DEF IdAt, Named
<1>5. \A j \in a : Alive(p, Named(g, j))
  BY <1>3, AliveIds
<1>6. ~Alive(p, None)
  BY DEF Alive
<1>7. /\ generations'[p] = g /\ alive'[p] = a /\ free_stack'[p] = free_stack[p]
      /\ parent_ids'[p] = [par EXCEPT ![i] = up]
      /\ children'[p] = IF up = None THEN mid ELSE [mid EXCEPT ![up.index] = Append(@, id)]
  <2>1. Alive(p, up) <=> up # None
    BY <1>3, <1>4, <1>5, <1>6
  <2>2. /\ generations'[p] = g /\ alive'[p] = a /\ free_stack'[p] = free_stack[p]
    BY DEF SetParent, slotVars
  <2>3. parent_ids'[p] = [par EXCEPT ![i] = IF Alive(p, up) THEN up ELSE None]
    BY DEF ForestInv, OnPools, SetParent
  <2>4. children'[p] = IF Alive(p, up) THEN [mid EXCEPT ![up.index] = Append(@, id)] ELSE mid
    BY DEF ForestInv, OnPools, SetParent
  <2> HIDE DEF mid, g, a, par
  <2> QED
    BY <2>1, <2>2, <2>3, <2>4
<1>8. mid \in [Slots -> Seq(EntityId)]
      /\ \A j \in a : IsInjective(mid[j]) /\ ToSet(mid[j]) = ToSet(ch[j]) \ {id}
  <2>1. \A j \in a : id \in ToSet(ch[j]) <=> par[i] = Named(g, j)
    BY <1>3, <1>4 DEF Mirror
  <2>2. CASE par[i] = None
    <3>1. mid = ch
      BY <1>4, <1>6, <2>2, <1>3 DEF ChildrenWithout
    <3> HIDE DEF mid
    <3> QED
      BY <1>3, <2>1, <2>2, <3>1
  <2>3. ASSUME NEW k \in a, par[i] = Named(g, k)
        PROVE  mid \in [Slots -> Seq(EntityId)]
               /\ \A j \in a : IsInjective(mid[j]) /\ ToSet(mid[j]) = ToSet(ch[j]) \ {id}
    <3>1. parent_ids[p][id.index] = Named(g, k) /\ Named(g, k).index = k /\ k \in Slots
      BY <1>3, <1>4, <2>3
    <3>2. mid = [ch EXCEPT ![k] = SwapRemove(@, id)]
      BY <1>5, <3>1 DEF ChildrenWithout
    <3> HIDE DEF mid, id
    <3>3. ch[k] \in Seq(EntityId) /\ IsInjective(ch[k])
      BY <1>3, <3>1
    <3>4. SwapRemove(ch[k], id) \in Seq(EntityId)
      BY <3>3, SwapRemoveType
    <3>5. ToSet(SwapRemove(ch[k], id)) = ToSet(ch[k]) \ {id} /\ IsInjective(SwapRemove(ch[k], id))
      BY <3>3, SwapRemoveItems
    <3>6. mid[k] = SwapRemove(ch[k], id) /\ \A j \in a : j # k => mid[j] = ch[j]
      BY <1>3, <3>1, <3>2
    <3>7. \A j \in a : j # k => id \notin ToSet(ch[j])
      BY <1>3, <2>1, <2>3, <3>1
    <3>8. mid \in [Slots -> Seq(EntityId)]
      BY <1>3, <3>2, <3>4
    <3>9. ASSUME NEW j \in a PROVE IsInjective(mid[j]) /\ ToSet(mid[j]) = ToSet(ch[j]) \ {id}
      <4>1. CASE j = k
        BY <3>5, <3>6, <4>1
      <4>2. CASE j # k
        BY <1>3, <3>6, <3>7, <4>2
      <4> QED
        BY <4>1, <4>2
    <3> QED
      BY <3>8, <3>9
  <2> QED
    BY <1>3, <2>2, <2>3 DEF ParentsLive
<1> HIDE DEF mid
<1>9. /\ children'[p] \in [Slots -> Seq(EntityId)]
      /\ \A j \in a : /\ IsInjective(children'[p][j])
                      /\ ToSet(children'[p][j])
                           = (ToSet(ch[j]) \ {id}) \cup (IF up = Named(g, j) THEN {id} ELSE {})
  <2>1. CASE up = None
    <3>1. children'[p] = mid
      BY <1>7, <2>1
    <3>2. \A j \in a : up # Named(g, j)
      BY <1>3, <2>1
    <3> HIDE DEF g, ch, id
    <3> QED
      BY <1>8, <3>1, <3>2
  <2>2. ASSUME NEW k \in a, up = Named(g, k)
        PROVE  /\ children'[p] \in [Slots -> Seq(EntityId)]
               /\ \A j \in a : /\ IsInjective(children'[p][j])
                               /\ ToSet(children'[p][j])
                                    = (ToSet(ch[j]) \ {id}) \cup (IF up = Named(g, j) THEN {id} ELSE {})
    <3>1. up.index = k /\ up # None /\ k \in Slots
      BY <1>3, <2>2
    <3>2. children'[p] = [mid EXCEPT ![k] = Append(@, id)]
      BY <1>7, <3>1
    <3>3. mid[k] \in Seq(EntityId) /\ IsInjective(mid[k]) /\ ToSet(mid[k]) = ToSet(ch[k]) \ {id}
          /\ id \in EntityId
      BY <1>3, <1>4, <1>8, <3>1
    <3> HIDE DEF id, ch
    <3>4. /\ Append(mid[k], id) \in Seq(EntityId) /\ IsInjective(Append(mid[k], id))
          /\ ToSet(Append(mid[k], id)) = ToSet(mid[k]) \cup {id}
      BY <3>3, AppendItems
    <3>5. children'[p] \in [Slots -> Seq(EntityId)]
      BY <1>8, <3>2, <3>4
    <3>6. children'[p][k] = Append(mid[k], id) /\ \A j \in a : j # k => children'[p][j] = mid[j]
      BY <1>3, <1>8, <3>1, <3>2
    <3>7. ASSUME NEW j \in a
          PROVE  /\ IsInjective(children'[p][j])
                 /\ ToSet(children'[p][j])
                      = (ToSet(ch[j]) \ {id}) \cup (IF up = Named(g, j) THEN {id} ELSE {})
      <4>1. CASE j = k
        BY <2>2, <3>3, <3>4, <3>6, <4>1
      <4>2. CASE j # k
        <5>1. up # Named(g, j)
          BY <1>3, <2>2, <4>2
        <5> QED
          BY <1>8, <3>6, <4>2, <5>1
      <4> QED
        BY <4>1, <4>2
    <3> QED
      BY <3>5, <3>7
  <2>3. up = None \/ \E k \in a : up = Named(g, k)
    BY <1>4
  <2> HIDE DEF a
  <2> QED
    BY <2>1, <2>2, <2>3, Zenon
<1>10. up = None \/ \E k \in a : k \notin Down(a, UpOf(par), i) /\ up = Named(g, k)
  <2>1. ASSUME NEW k \in a, up = Named(g, k) PROVE k \notin Down(a, UpOf(par), i)
    <3>1. up.index = k /\ Alive(p, up)
      BY <1>3, <1>5, <2>1
    <3>2. k \notin Subtree(p, i)
      BY <3>1 DEF SetParent
    <3> QED
      BY <1>3, <3>2, SubtreeItems DEF Offspring
  <2> QED
    BY <1>4, <2>1
<1>11. /\ parent_ids'[p] \in [Slots -> EntityId \cup {None}] /\ parent_ids'[p][i] = up
       /\ \A j \in a : j # i => parent_ids'[p][j] = par[j]
  <2>1. up \in EntityId \cup {None}
    BY <1>3, <1>4
  <2> QED
    BY <1>3, <1>7, <2>1
<1>12. Hangs(g, a, par, ch, i, up, parent_ids'[p], children'[p])
  <2>1. \A j \in a : IsInjective(children'[p][j])
    BY <1>9
  <2>2. \A j \in a : \A x \in EntityId : x # Named(g, i) =>
          (x \in ToSet(children'[p][j]) <=> x \in ToSet(ch[j]))
    BY <1>4, <1>9
  <2>3. \A j \in a : Named(g, i) \in ToSet(children'[p][j]) <=> up = Named(g, j)
    BY <1>4, <1>9
  <2> HIDE DEF g, a, par, ch
  <2> QED
    BY <1>10, <1>11, <2>1, <2>2, <2>3 DEF Hangs
<1>13. Typed(g, a, free_stack[p], parent_ids'[p], children'[p])
  BY <1>3, <1>9, <1>11 DEF Typed
<1>14. PoolGood(p)'
  <2> HIDE DEF g, a, par, ch
  <2>1. Good(g, a, free_stack[p], parent_ids'[p], children'[p])
    BY <1>3, <1>12, <1>13, SetParentGood
  <2> QED
    BY <1>7, <2>1 DEF PoolGood
<1> QED
  BY <1>1, <1>2, <1>14 DEF ForestInv

SlotEach(m, S) == (\A k \in S : m[k] \in Slots) /\ (\A j, k \in S : m[j] = m[k] => j = k)

ImagesOf(kids, m, g) == [k \in 1..Len(kids) |-> Named(g, m[kids[k]])]

Lists(arr, S, m, g) ==
  /\ arr \in Seq(EntityId) /\ IsInjective(arr)
  /\ \A x \in ToSet(arr) : \E k \in S : x = Named(g, m[k])
  /\ \A k \in S : Named(g, m[k]) \in ToSet(arr)

\* The array of an image: the ids of the images of its children.
LEMMA ArrayOfImages ==
  ASSUME NEW kids \in Seq(Slots), IsInjective(kids), NEW m, NEW g \in [Slots -> Nat],
         SlotEach(m, ToSet(kids))
  PROVE  Lists(ImagesOf(kids, m, g), ToSet(kids), m, g)
<1> DEFINE arr == ImagesOf(kids, m, g)
<1>0. (\A k \in ToSet(kids) : m[k] \in Slots) /\ (\A j, k \in ToSet(kids) : m[j] = m[k] => j = k)
  BY DEF SlotEach
<1>1. /\ DOMAIN arr = 1..Len(kids) /\ DOMAIN kids = 1..Len(kids) /\ Len(kids) \in Nat
      /\ \A k \in 1..Len(kids) : arr[k] = Named(g, m[kids[k]]) /\ kids[k] \in ToSet(kids)
  BY DEF ToSet, ImagesOf
<1> HIDE DEF arr
<1>2. \A k \in ToSet(kids) : Named(g, m[k]) \in EntityId /\ Named(g, m[k]).index = m[k]
  BY <1>0, NamedId
<1>3. arr \in Seq(EntityId)
  <2>1. \A k \in 1..Len(kids) : Named(g, m[kids[k]]) \in EntityId
    BY <1>1, <1>2
  <2> QED
    BY <1>1, <2>1 DEF arr, ImagesOf
<1>4. IsInjective(arr)
  <2> SUFFICES ASSUME NEW j \in 1..Len(kids), NEW k \in 1..Len(kids), arr[j] = arr[k] PROVE j = k
    BY <1>1 DEF IsInjective
  <2>1. m[kids[j]] = m[kids[k]]
    BY <1>1, <1>2
  <2>2. kids[j] = kids[k]
    BY <1>0, <1>1, <2>1
  <2> QED
    BY <1>1, <2>2 DEF IsInjective
<1>5. ToSet(arr) = { arr[k] : k \in 1..Len(kids) } /\ ToSet(kids) = { kids[k] : k \in 1..Len(kids) }
  BY <1>1 DEF ToSet
<1>6. \A x \in ToSet(arr) : \E k \in ToSet(kids) : x = Named(g, m[k])
  BY <1>1, <1>5
<1>7. ASSUME NEW k \in ToSet(kids) PROVE Named(g, m[k]) \in ToSet(arr)
  <2>1. PICK j \in 1..Len(kids) : k = kids[j]
    BY <1>5
  <2>2. arr[j] = Named(g, m[k])
    BY <1>0, <1>1, <2>1
  <2> QED
    BY <1>5, <2>2
<1> QED
  BY <1>3, <1>4, <1>6, <1>7 DEF Lists, arr

LEMMA MigrateForest ==
  ASSUME ForestInv, NEW p \in Pool, NEW i \in Slots, NEW q \in Pool, Migrate(p, i, q)
  PROVE  ForestInv'
<1> DEFINE g == generations[p]
           a == alive[p]
           par == parent_ids[p]
           ch == children[p]
           T == Offspring(p, i)
           I == Images(p, i, q)
           post == Postorder(p, i)
           m == [j \in T |-> Image(p, i, q, j)]
<1>1. OnPools'
  BY DEF ForestInv, OnPools, Migrate, ReleaseSlots
<1>2. p # q /\ i \in a /\ Len(Preorder(p, i)) <= Len(free_stack[q])
  BY DEF Migrate
<1>3. PoolGood(p) /\ PoolGood(q) /\ Good(g, a, free_stack[p], par, ch)
      /\ Good(generations[q], alive[q], free_stack[q], parent_ids[q], children[q])
  BY DEF ForestInv, PoolGood
<1>4. /\ Subtree(p, i) = T /\ post \in Seq(Slots) /\ IsInjective(post) /\ ToSet(post) = T
  BY <1>2, <1>3, SubtreeItems
<1>5. { Image(p, i, q, j) : j \in Subtree(p, i) } = I
  BY <1>4 DEF Images
<1>6. /\ generations' = [generations EXCEPT ![p] = [j \in Slots |-> IF j \in ToSet(post) THEN @[j] + 1 ELSE @[j]]]
      /\ alive' = [alive EXCEPT ![p] = @ \ T, ![q] = @ \cup I]
      /\ free_stack' = [free_stack EXCEPT ![p] = @ \o post, ![q] = Unused(p, i, q)]
      /\ parent_ids' = [parent_ids EXCEPT ![q] = ImageParents(p, i, q, I)]
      /\ children' = [children EXCEPT ![q] = ImageChildren(p, i, q, I)]
  <2> HIDE DEF T, I, post
  <2>1. ReleaseSlots(p, post)
    BY DEF Migrate, post
  <2>2. alive' = [alive EXCEPT ![p] = @ \ T, ![q] = @ \cup I]
    BY <1>4, <1>5 DEF Migrate
  <2>3. free_stack' = [free_stack EXCEPT ![p] = @ \o post, ![q] = Unused(p, i, q)]
    BY DEF Migrate, Unused, post, ForestInv, OnPools
  <2>4. parent_ids' = [parent_ids EXCEPT ![q] = ImageParents(p, i, q, I)]
    BY <1>5 DEF Migrate
  <2>5. children' = [children EXCEPT ![q] = ImageChildren(p, i, q, I)]
    BY <1>5 DEF Migrate
  <2> QED
    BY <2>1, <2>2, <2>3, <2>4, <2>5 DEF ReleaseSlots
<1>7. ASSUME NEW r \in Pool, r # p, r # q PROVE PoolGood(r)'
  <2>1. /\ generations'[r] = generations[r] /\ alive'[r] = alive[r] /\ free_stack'[r] = free_stack[r]
        /\ parent_ids'[r] = parent_ids[r] /\ children'[r] = children[r]
    BY <1>6, <1>7 DEF ForestInv, OnPools
  <2> QED
    BY <2>1 DEF ForestInv, PoolGood
<1>8. /\ g \in [Slots -> Nat] /\ a \subseteq Slots
      /\ par \in [Slots -> EntityId \cup {None}] /\ ch \in [Slots -> Seq(EntityId)]
      /\ \A j \in a : Named(g, j).index = j /\ Named(g, j) # None /\ IsInjective(ch[j])
      /\ i \in T /\ T \subseteq a /\ \A v \in a : UpOf(par)[v] \in T => v \in T
  <2>1. \A j \in a : Named(g, j).index = j /\ Named(g, j) # None /\ IsInjective(ch[j])
    BY <1>3, GoodParts DEF Once
  <2>2. i \in T /\ T \subseteq a /\ \A v \in a : UpOf(par)[v] \in T => v \in T
    BY <1>2, DownClosed DEF Offspring
  <2> QED
    BY <1>3, <2>1, <2>2, PoolTyped
<1>9. \A j \in T : \A k \in a : par[k] = Named(g, j) <=> UpOf(par)[k] = j
  <2>1. Typed(g, a, free_stack[p], par, ch) /\ ParentsLive(g, a, par)
    BY <1>3 DEF Good
  <2> HIDE DEF g, a, par, ch, T
  <2> QED
    BY <1>8, <2>1, UpOfLiving
<1>10. PoolGood(p)'
  <2>1. /\ generations'[p] = [j \in Slots |-> IF j \in T THEN g[j]+1 ELSE g[j]]
        /\ alive'[p] = a \ T /\ free_stack'[p] = free_stack[p] \o post
        /\ parent_ids'[p] = par /\ children'[p] = ch
    <3> HIDE DEF T, I, post
    <3> QED
      BY <1>2, <1>4, <1>6 DEF ForestInv, OnPools
  <2> HIDE DEF T
  <2>2. ASSUME NEW j \in a \ T PROVE ~\E k \in T : par[j] = Named(g, k)
    BY <1>8, <1>9, <2>2
  <2>3. generations'[p] \in [Slots -> Nat]
        /\ \A j \in Slots : generations'[p][j] = IF j \in T THEN g[j]+1 ELSE g[j]
    BY <1>8, <2>1
  <2>4. Leave(g, a, par, ch, T, generations'[p], parent_ids'[p], children'[p])
    <3> HIDE DEF g, a, par, ch
    <3> QED
      BY <1>8, <2>1, <2>2, <2>3 DEF Leave
  <2>5. Good(generations'[p], a \ T, free_stack[p] \o post, parent_ids'[p], children'[p])
    <3> HIDE DEF g, a, par, ch, post
    <3> QED
      BY <1>3, <1>4, <1>8, <2>4, ReleaseGood
  <2> QED
    BY <2>1, <2>5 DEF PoolGood
<1>11. PoolGood(q)'
  <2> DEFINE gq == generations[q]
             aq == alive[q]
             parq == parent_ids[q]
             chq == children[q]
             u == Unused(p, i, q)
  <2>1. /\ generations'[q] = gq
        /\ alive'[q] = aq \cup I /\ free_stack'[q] = u
        /\ parent_ids'[q] = ImageParents(p, i, q, I) /\ children'[q] = ImageChildren(p, i, q, I)
    <3> HIDE DEF T, I, post, u
    <3> QED
      BY <1>2, <1>6 DEF ForestInv, OnPools, u
  <2>2. /\ gq \in [Slots -> Nat] /\ aq \subseteq Slots
        /\ parq \in [Slots -> EntityId \cup {None}] /\ chq \in [Slots -> Seq(EntityId)]
    BY <1>3, PoolTyped
  <2>3. /\ \A j \in T : /\ Image(p, i, q, j) \in ToSet(free_stack[q])
                        /\ Image(p, i, q, j) \in Slots /\ Image(p, i, q, j) \notin aq
        /\ \A j, k \in T : Image(p, i, q, j) = Image(p, i, q, k) => j = k
        /\ \A j \in T : Original(p, i, q, Image(p, i, q, j)) = j
        /\ u \in Seq(Slots) /\ IsInjective(u) /\ ToSet(u) \subseteq ToSet(free_stack[q]) \ I
    BY <1>2, <1>3, ImageItems
  <2>4. \A j \in T : m[j] = Image(p, i, q, j)
    OBVIOUS
  <2>5. /\ \A j \in T : m[j] \in I
        /\ \A x \in I : \E k \in T : x = m[k]
        /\ I \subseteq ToSet(free_stack[q]) /\ I \subseteq Slots /\ I \cap aq = {}
    BY <2>3 DEF Images
  <2> HIDE DEF T, I, u, m
  <2>6. /\ \A j \in T : j # i => par[j].index \in T /\ UpOf(par)[j] = par[j].index
    <3> SUFFICES ASSUME NEW j \in T, j # i PROVE par[j].index \in T /\ UpOf(par)[j] = par[j].index
      OBVIOUS
    <3>1. UpOf(par)[j] \in T
      BY <1>2, DownParents DEF T, Offspring
    <3>2. par[j] = Named(g, UpOf(par)[j])
      BY <1>8, <1>9, <3>1
    <3> QED
      BY <1>8, <3>1, <3>2
  <2>7. /\ \A k \in Slots \ I : parent_ids'[q][k] = parq[k] /\ children'[q][k] = chq[k]
        /\ parent_ids'[q][m[i]] = None
        /\ \A j \in T : j # i => parent_ids'[q][m[j]] = Named(gq, m[par[j].index])
        /\ \A j \in T : children'[q][m[j]]
             = [k \in 1..Len(LiveChildren(p, j)) |-> Named(gq, m[LiveChildren(p, j)[k]])]
    <3>1. \A k \in Slots \ I : parent_ids'[q][k] = parq[k] /\ children'[q][k] = chq[k]
      BY <2>1 DEF ImageParents, ImageChildren
    <3>2. ASSUME NEW j \in T
          PROVE  parent_ids'[q][m[j]] = IF j = i THEN None
                                        ELSE IdAt(q, Image(p, i, q, par[j].index))
      <4>1. m[j] \in Slots /\ m[j] \in I /\ Original(p, i, q, m[j]) = j
        BY <2>3, <2>4, <2>5
      <4> QED
        BY <2>1, <4>1 DEF ImageParents
    <3>3. \A k : IdAt(q, k) = Named(gq, k)
      BY DEF IdAt, Named
    <3>4. ASSUME NEW j \in T
          PROVE  children'[q][m[j]]
             = [k \in 1..Len(LiveChildren(p, j)) |-> Named(gq, m[LiveChildren(p, j)[k]])]
      <4>1. m[j] \in Slots /\ m[j] \in I /\ Original(p, i, q, m[j]) = j
        BY <2>3, <2>4, <2>5
      <4>2. children'[q][m[j]]
              = [k \in 1..Len(LiveChildren(p, j)) |-> IdAt(q, Image(p, i, q, LiveChildren(p, j)[k]))]
        BY <2>1, <4>1 DEF ImageChildren
      <4>3. \A k \in 1..Len(LiveChildren(p, j)) : LiveChildren(p, j)[k] \in T
        <5>1. /\ LiveChildren(p, j) \in Seq(Slots)
              /\ ToSet(LiveChildren(p, j)) = { x \in alive[p] : parent_ids[p][x] = IdAt(p, j) }
          BY <1>3, <1>8, GoodArrays
        <5>2. \A x \in ToSet(LiveChildren(p, j)) : x \in T
          BY <1>8, <1>9, <5>1 DEF IdAt, Named
        <5> QED
          BY <5>1, <5>2 DEF ToSet
      <4> QED
        BY <2>4, <3>3, <4>2, <4>3
    <3> QED
      BY <1>8, <2>4, <2>6, <3>1, <3>2, <3>3, <3>4
  <2>8. ASSUME NEW j \in T
        PROVE  /\ children'[q][m[j]] \in Seq(EntityId) /\ IsInjective(children'[q][m[j]])
               /\ \A x \in ToSet(children'[q][m[j]]) :
                    \E k \in a : par[k] = Named(g, j) /\ x = Named(gq, m[k])
               /\ \A k \in a : par[k] = Named(g, j) => Named(gq, m[k]) \in ToSet(children'[q][m[j]])
    <3> DEFINE kids == LiveChildren(p, j)
               arr == children'[q][m[j]]
    <3>1. /\ kids \in Seq(Slots) /\ IsInjective(kids)
          /\ ToSet(kids) = { x \in a : par[x] = Named(g, j) }
      BY <1>3, <1>8, GoodArrays DEF IdAt, Named
    <3>2. arr = ImagesOf(kids, m, gq)
      BY <2>7 DEF ImagesOf
    <3>3. \A x \in ToSet(kids) : x \in T
      BY <1>8, <1>9, <3>1
    <3>4. SlotEach(m, ToSet(kids))
      BY <2>3, <2>4, <3>3 DEF SlotEach
    <3> HIDE DEF kids, arr
    <3>5. /\ arr \in Seq(EntityId) /\ IsInjective(arr)
          /\ \A x \in ToSet(arr) : \E k \in ToSet(kids) : x = Named(gq, m[k])
          /\ \A k \in ToSet(kids) : Named(gq, m[k]) \in ToSet(arr)
      <4>1. Lists(ImagesOf(kids, m, gq), ToSet(kids), m, gq)
        BY <2>2, <3>1, <3>4, ArrayOfImages
      <4> QED
        BY <3>2, <4>1 DEF Lists
    <3> HIDE DEF a, par, g
    <3>6. /\ \A x \in ToSet(arr) : \E k \in a : par[k] = Named(g, j) /\ x = Named(gq, m[k])
          /\ \A k \in a : par[k] = Named(g, j) => Named(gq, m[k]) \in ToSet(arr)
      BY <3>1, <3>5
    <3> QED
      BY <3>5, <3>6 DEF arr
  <2>9. Arrive(g, a, par, i, T, m, I, gq, aq, parq, chq, parent_ids'[q], children'[q])
    <3>1. \A j, k \in T : m[j] = m[k] => j = k
      BY <2>3, <2>4
    <3>2. \A k \in aq : parent_ids'[q][k] = parq[k] /\ children'[q][k] = chq[k]
      BY <2>2, <2>5, <2>7
    <3> HIDE DEF g, a, par, gq, aq, parq, chq
    <3> QED
      BY <2>5, <2>7, <2>8, <3>1, <3>2 DEF Arrive
  <2>10. Typed(gq, aq \cup I, u, parent_ids'[q], children'[q])
    <3>1. \A x \in Slots : parent_ids'[q][x] \in EntityId \cup {None} /\ children'[q][x] \in Seq(EntityId)
      <4> SUFFICES ASSUME NEW x \in Slots
                   PROVE  parent_ids'[q][x] \in EntityId \cup {None} /\ children'[q][x] \in Seq(EntityId)
        OBVIOUS
      <4>1. CASE x \notin I
        BY <2>2, <2>7, <4>1
      <4>2. CASE x \in I
        <5>1. PICK j \in T : x = m[j]
          BY <2>5, <4>2
        <5>2. children'[q][x] \in Seq(EntityId)
          BY <2>8, <5>1
        <5>3. CASE j = i
          BY <2>7, <5>1, <5>2, <5>3
        <5>4. CASE j # i
          <6>1. parent_ids'[q][x] = Named(gq, m[par[j].index]) /\ par[j].index \in T
            BY <2>6, <2>7, <5>1, <5>4
          <6>2. m[par[j].index] \in Slots
            BY <2>3, <2>4, <6>1
          <6> QED
            BY <2>2, <5>2, <6>1, <6>2, NamedId
        <5> QED
          BY <5>3, <5>4
      <4> QED
        BY <4>1, <4>2
    <3>2. /\ parent_ids'[q] = [x \in Slots |-> parent_ids'[q][x]]
          /\ children'[q] = [x \in Slots |-> children'[q][x]]
      BY <2>1 DEF ImageParents, ImageChildren
    <3>3. parent_ids'[q] \in [Slots -> EntityId \cup {None}] /\ children'[q] \in [Slots -> Seq(EntityId)]
      BY <3>1, <3>2
    <3> QED
      BY <2>2, <2>3, <2>5, <3>3 DEF Typed
  <2>11. Good(gq, aq \cup I, u, parent_ids'[q], children'[q])
    <3>1. T = Down(a, UpOf(par), i)
      BY DEF T, Offspring
    <3> HIDE DEF g, a, par, ch, gq, aq, parq, chq
    <3>2. /\ Good(g, a, free_stack[p], par, ch) /\ Good(gq, aq, free_stack[q], parq, chq)
      BY <1>3 DEF gq, aq, parq, chq
    <3> QED
      BY <1>2, <2>3, <2>5, <2>9, <2>10, <3>1, <3>2, ReceiveGood
  <2> QED
    BY <2>1, <2>11 DEF PoolGood
<1> QED
  BY <1>1, <1>7, <1>10, <1>11 DEF ForestInv

LEMMA InitForest == Init => ForestInv
<1> SUFFICES ASSUME Init PROVE ForestInv
  OBVIOUS
<1>1. OnPools
  BY DEF Init, OnPools
<1>2. ASSUME NEW p \in Pool PROVE PoolGood(p)
  <2> DEFINE s == free_stack[p]
             R == Room[p]
  <2>1. /\ generations[p] = [i \in Slots |-> 0] /\ alive[p] = {} /\ s = [k \in 1..R |-> R - k]
        /\ parent_ids[p] = [i \in Slots |-> None] /\ children[p] = [i \in Slots |-> <<>>]
    BY DEF Init
  <2>2. R \in 1..Capacity /\ Capacity \in Nat
    BY MigrationAssumption
  <2> HIDE DEF s, R
  <2>3. \A k \in 1..R : R - k \in Slots /\ s[k] = R - k
    BY <2>1, <2>2 DEF Slots
  <2>4. s \in Seq(Slots) /\ DOMAIN s = 1..R
    BY <2>1, <2>2, <2>3
  <2>5. IsInjective(s)
    BY <2>2, <2>3, <2>4 DEF IsInjective
  <2>6. Typed(generations[p], alive[p], s, parent_ids[p], children[p])
    BY <2>1, <2>4 DEF Typed
  <2> QED
    BY <2>1, <2>5, <2>6
    DEF PoolGood, Good, FreeOnce, ParentsLive, Rooted, Mirror, Once, Past, s
<1> QED
  BY <1>1, <1>2 DEF ForestInv

LEMMA OneSlot ==
  ASSUME NEW i \in Slots
  PROVE  <<i>> \in Seq(Slots) /\ IsInjective(<<i>>) /\ ToSet(<<i>>) = {i}
BY DEF IsInjective, ToSet

LEMMA NextForest ==
  ASSUME ForestInv, [Next]_vars
  PROVE  ForestInv'
<1>1. ASSUME UNCHANGED <<slotVars, treeVars>> PROVE ForestInv'
  <2>1. OnPools'
    BY <1>1 DEF ForestInv, OnPools, slotVars, treeVars
  <2>2. ASSUME NEW p \in Pool PROVE PoolGood(p)'
    BY <1>1 DEF ForestInv, PoolGood, slotVars, treeVars
  <2> QED
    BY <2>1, <2>2 DEF ForestInv
<1>2. CASE UNCHANGED vars
  BY <1>1, <1>2 DEF vars
<1>3. ASSUME NEW p \in Pool, NEW e \in Thing, Create(p, e) PROVE ForestInv'
  BY <1>3, CreateForest
<1>4. ASSUME NEW p \in Pool, NEW i \in Slots, Free(p, i) PROVE ForestInv'
  BY <1>4, OneSlot, FreeForest DEF Free
<1>5. ASSUME NEW p \in Pool, NEW i \in Slots, DestroyChildren(p, i) PROVE ForestInv'
  <2>1. PoolGood(p) /\ i \in alive[p] /\ FreeAll(p, Front(Postorder(p, i)))
    BY <1>5 DEF ForestInv, DestroyChildren
  <2>2. /\ Front(Postorder(p, i)) \in Seq(Slots) /\ IsInjective(Front(Postorder(p, i)))
        /\ ToSet(Front(Postorder(p, i))) = Offspring(p, i) \ {i}
    BY <2>1, SubtreeItems
  <2>3. Offspring(p, i) \subseteq alive[p]
    BY <2>1, DownClosed DEF Offspring
  <2> QED
    BY <2>1, <2>2, <2>3, FreeForest
<1>6. ASSUME NEW p \in Pool, NEW i \in Slots,
             NEW up, up = None \/ \E j \in alive[p] : up = IdAt(p, j), SetParent(p, i, up)
      PROVE  ForestInv'
  BY <1>6, SetParentForest
<1>7. ASSUME NEW p \in Pool, NEW i \in Slots, NEW c \in Component,
             AddComponent(p, i, c) \/ RemoveComponent(p, i, c)
      PROVE  ForestInv'
  BY <1>1, <1>7 DEF AddComponent, RemoveComponent
<1>8. ASSUME NEW p \in Pool, NEW i \in Slots, NEW q \in Pool, Migrate(p, i, q) PROVE ForestInv'
  BY <1>8, MigrateForest
<1> QED
  BY <1>2, <1>3, <1>4, <1>5, <1>6, <1>7, <1>8 DEF Next

LEMMA ForestAgrees == ForestInv => ChildrenAgree
BY GoodArrays DEF ForestInv, ChildrenAgree

\* Of every pool, in every reachable state: a free slot is stacked once and
\* not occupied; parents are alive and no set of entities holds the parents of
\* all its members, so that the entities are a forest; and an entity's array
\* holds, among ids of the past, exactly the entities that name it as parent.
THEOREM ForestStays == Spec => []ForestInv
<1>1. ForestInv /\ [Next]_vars => ForestInv'
  BY NextForest
<1> QED
  BY <1>1, InitForest, PTL DEF Spec

\* The living items of an entity's children array are exactly the entities
\* that name it as their parent, each once (tc_entity_pool_children_at).
THEOREM ChildrenStayAgreed == Spec => []ChildrenAgree
BY ForestStays, ForestAgrees, PTL
----------------------------------------------------------------------------
(* Components follow their entities                                        *)

Carried(p, i) == ToSet(components[p][i])

ComponentInv ==
  /\ components \in [Pool -> [Slots -> Seq(Component)]]
  /\ owner = [c \in Component |-> owner[c]]
  /\ registered = [p \in Pool |-> registered[p]]
  /\ ComponentsFollow

LEMMA Handles ==
  ASSUME NEW p, NEW i, NEW q, NEW j
  PROVE  /\ HandleAt(p, i).pool = p /\ HandleAt(p, i).id.index = i
         /\ HandleAt(p, i) = HandleAt(q, j) => p = q /\ i = j
<1>1. \A r, k : HandleAt(r, k).pool = r /\ HandleAt(r, k).id.index = k
  BY DEF HandleAt, IdAt
<1> QED
  BY <1>1

LEMMA Carriers ==
  ASSUME ComponentInv, NEW p \in Pool, NEW i \in Slots
  PROVE  /\ components[p] \in [Slots -> Seq(Component)]
         /\ components[p][i] \in Seq(Component) /\ IsInjective(components[p][i])
         /\ Carried(p, i) \subseteq Component
         /\ \A c \in Carried(p, i) : i \in alive[p] /\ owner[c] = HandleAt(p, i)
         /\ \A c : c \in registered[p] <=> \E j \in Slots : c \in Carried(p, j)
         /\ \A q \in Pool, j \in Slots : Carried(p, i) \cap Carried(q, j) # {} => p = q /\ i = j
<1>1. components[p] \in [Slots -> Seq(Component)] /\ components[p][i] \in Seq(Component)
  BY DEF ComponentInv
<1>2. IsInjective(components[p][i])
  BY DEF ComponentInv, ComponentsFollow
<1>3. Carried(p, i) \subseteq Component
  BY <1>1 DEF Carried, ToSet
<1>4. \A q \in Pool, j \in Slots : \A c \in Carried(q, j) : j \in alive[q] /\ owner[c] = HandleAt(q, j)
  BY DEF ComponentInv, ComponentsFollow, Carried
<1>5. \A c : c \in registered[p] <=> \E j \in Slots : c \in Carried(p, j)
  BY DEF ComponentInv, ComponentsFollow, Carried
<1>6. \A q \in Pool, j \in Slots : Carried(p, i) \cap Carried(q, j) # {} => p = q /\ i = j
  <2> SUFFICES ASSUME NEW q \in Pool, NEW j \in Slots, NEW c, c \in Carried(p, i), c \in Carried(q, j)
               PROVE  p = q /\ i = j
    OBVIOUS
  <2>1. HandleAt(p, i) = HandleAt(q, j)
    BY <1>4
  <2> QED
    BY <2>1, Handles
<1> QED
  BY <1>1, <1>2, <1>3, <1>4, <1>5, <1>6

\* What has to be shown of a step: of each array what it holds then.
LEMMA FollowSteps ==
  ASSUME components' \in [Pool -> [Slots -> Seq(Component)]],
         owner' = [c \in Component |-> owner'[c]],
         registered' = [p \in Pool |-> registered'[p]],
         \A p \in Pool, i \in Slots : IsInjective(components'[p][i]),
         \A p \in Pool, i \in Slots : \A c \in ToSet(components'[p][i]) :
           i \in alive'[p] /\ owner'[c] = HandleAt(p, i)',
         \A p \in Pool : \A c : c \in registered'[p] <=> \E i \in Slots : c \in ToSet(components'[p][i])
  PROVE  ComponentInv'
<1>1. \A p \in Pool : registered'[p] = UNION { ToSet(components'[p][i]) : i \in Slots }
  OBVIOUS
<1> QED
  BY <1>1 DEF ComponentInv, ComponentsFollow

LEMMA InitComponents == Init => ComponentInv
<1> SUFFICES ASSUME Init PROVE ComponentInv
  OBVIOUS
<1>1. IsInjective(<<>>) /\ ToSet(<<>>) = {}
  BY DEF IsInjective, ToSet
<1>2. \A p \in Pool, i \in Slots : components[p][i] = <<>>
  BY DEF Init
<1>3. \A p \in Pool : registered[p] = {}
  BY DEF Init
<1>4. components \in [Pool -> [Slots -> Seq(Component)]] /\ owner = [c \in Component |-> owner[c]]
      /\ registered = [p \in Pool |-> registered[p]]
  BY DEF Init
<1>5. \A p \in Pool : UNION { ToSet(components[p][i]) : i \in Slots } = {}
  BY <1>1, <1>2
<1> QED
  BY <1>1, <1>2, <1>3, <1>4, <1>5 DEF ComponentInv, ComponentsFollow

LEMMA CreateComponents ==
  ASSUME ForestInv, ComponentInv, NEW p \in Pool, NEW e \in Thing, Create(p, e)
  PROVE  ComponentInv'
<1> DEFINE i == Last(free_stack[p])
<1>1. i \in Slots /\ i \notin alive[p]
  <2>1. PoolGood(p) /\ free_stack[p] # <<>>
    BY DEF ForestInv, Create
  <2>2. free_stack[p] \in Seq(Slots) /\ IsInjective(free_stack[p]) /\ ToSet(free_stack[p]) \cap alive[p] = {}
    BY <2>1 DEF PoolGood, Good, Typed, FreeOnce
  <2>3. i \in ToSet(free_stack[p])
    BY <2>1, <2>2, FrontItems
  <2>4. \A x \in ToSet(free_stack[p]) : x \in Slots
    BY <2>2 DEF ToSet
  <2> QED
    BY <2>2, <2>3, <2>4
<1>2. Carried(p, i) = {}
  BY <1>1, Carriers
<1>3. /\ components' = [components EXCEPT ![p] = [components[p] EXCEPT ![i] = <<>>]]
      /\ generations' = generations /\ owner' = owner /\ registered' = registered
  BY DEF Create
<1>4. \A r \in Pool : alive[r] \subseteq alive'[r]
  BY DEF Create, ForestInv, OnPools
<1> HIDE DEF i
<1>5. ToSet(<<>>) = {} /\ IsInjective(<<>>)
  BY DEF ToSet, IsInjective
<1>6. components' \in [Pool -> [Slots -> Seq(Component)]]
  BY <1>1, <1>3 DEF ComponentInv
<1>7. \A r \in Pool, j \in Slots : ToSet(components'[r][j]) = Carried(r, j) /\ IsInjective(components'[r][j])
  <2> SUFFICES ASSUME NEW r \in Pool, NEW j \in Slots
               PROVE  ToSet(components'[r][j]) = Carried(r, j) /\ IsInjective(components'[r][j])
    OBVIOUS
  <2>1. CASE r = p /\ j = i
    <3>1. components'[r][j] = <<>>
      BY <1>1, <1>3, <2>1 DEF ComponentInv
    <3> QED
      BY <1>2, <1>5, <2>1, <3>1
  <2>2. CASE ~(r = p /\ j = i)
    <3>1. components'[r][j] = components[r][j]
      BY <1>1, <1>3, <2>2 DEF ComponentInv
    <3> QED
      BY <3>1, Carriers DEF Carried
  <2> QED
    BY <2>1, <2>2
<1>8. \A r, j : HandleAt(r, j)' = HandleAt(r, j)
  BY <1>3 DEF HandleAt, IdAt
<1>9. owner' = [c \in Component |-> owner'[c]] /\ registered' = [r \in Pool |-> registered'[r]]
  BY <1>3 DEF ComponentInv
<1>10. \A r \in Pool, j \in Slots : \A c \in ToSet(components'[r][j]) :
         j \in alive'[r] /\ owner'[c] = HandleAt(r, j)'
  BY <1>3, <1>4, <1>7, <1>8, Carriers
<1>11. \A r \in Pool : \A c : c \in registered'[r] <=> \E j \in Slots : c \in ToSet(components'[r][j])
  <2>1. \A r \in Pool : \A c : c \in registered[r] <=> \E j \in Slots : c \in Carried(r, j)
    BY <1>1, Carriers
  <2> QED
    BY <1>3, <1>7, <2>1
<1> QED
  BY <1>6, <1>7, <1>9, <1>10, <1>11, FollowSteps

LEMMA FreeComponents ==
  ASSUME ForestInv, ComponentInv, NEW p \in Pool, NEW order, ToSet(order) \subseteq Slots,
         FreeAll(p, order)
  PROVE  ComponentInv'
<1> DEFINE gone == ToSet(order)
           dropped == UNION { ToSet(components[p][i]) : i \in gone }
<1>1. /\ components' = [components EXCEPT ![p] = [i \in Slots |-> IF i \in gone THEN <<>> ELSE components[p][i]]]
      /\ registered' = [registered EXCEPT ![p] = @ \ dropped]
      /\ owner' = [c \in Component |-> IF c \in dropped THEN DeadOwner ELSE owner[c]]
      /\ alive' = [alive EXCEPT ![p] = @ \ gone]
      /\ generations' = [generations EXCEPT ![p] = [i \in Slots |-> IF i \in gone THEN @[i] + 1 ELSE @[i]]]
  BY DEF FreeAll, ReleaseSlots, ComponentInv
<1>2. \A c : c \in dropped <=> \E i \in gone : c \in Carried(p, i)
  BY DEF Carried
<1> HIDE DEF dropped, gone
<1>3. gone \subseteq Slots /\ generations = [r \in Pool |-> generations[r]] /\ alive = [r \in Pool |-> alive[r]]
      /\ \A r \in Pool : generations[r] \in [Slots -> Nat]
  <2>1. \A r \in Pool : generations[r] \in [Slots -> Nat]
    BY PoolTyped DEF ForestInv
  <2> QED
    BY <2>1 DEF ForestInv, OnPools, gone
<1>4. ToSet(<<>>) = {} /\ IsInjective(<<>>) /\ <<>> \in Seq(Component)
  BY DEF ToSet, IsInjective
<1>5. \A i \in Slots : components[p][i] \in Seq(Component)
  BY Carriers
<1>6. components' \in [Pool -> [Slots -> Seq(Component)]]
  <2>1. [i \in Slots |-> IF i \in gone THEN <<>> ELSE components[p][i]] \in [Slots -> Seq(Component)]
    BY <1>4, <1>5
  <2> QED
    BY <1>1, <2>1 DEF ComponentInv
<1>7. ASSUME NEW r \in Pool, NEW j \in Slots
      PROVE  /\ IsInjective(components'[r][j])
             /\ ToSet(components'[r][j]) = IF r = p /\ j \in gone THEN {} ELSE Carried(r, j)
  <2>1. CASE r = p /\ j \in gone
    <3>1. components'[r][j] = <<>>
      BY <1>1, <2>1 DEF ComponentInv
    <3> QED
      BY <1>4, <2>1, <3>1
  <2>2. CASE ~(r = p /\ j \in gone)
    <3>1. components'[r][j] = components[r][j]
      BY <1>1, <2>2 DEF ComponentInv
    <3> QED
      BY <2>2, <3>1, Carriers DEF Carried
  <2> QED
    BY <2>1, <2>2
<1>8. ASSUME NEW r \in Pool, NEW j \in Slots, ~(r = p /\ j \in gone), NEW c \in Carried(r, j)
      PROVE  c \notin dropped /\ j \in alive'[r] /\ owner'[c] = HandleAt(r, j)'
  <2>1. /\ c \in Component /\ j \in alive[r] /\ owner[c] = HandleAt(r, j)
        /\ \A q \in Pool, k \in Slots : Carried(r, j) \cap Carried(q, k) # {} => r = q /\ j = k
    BY Carriers
  <2>2. c \notin dropped
    <3> SUFFICES ASSUME NEW k \in gone, c \in Carried(p, k) PROVE FALSE
      BY <1>2
    <3>1. r = p /\ j = k
      BY <1>3, <2>1
    <3> QED
      BY <1>8, <3>1
  <2>3. generations'[r][j] = generations[r][j]
    BY <1>1, <1>3, <1>8
  <2>4. HandleAt(r, j)' = HandleAt(r, j)
    BY <2>3 DEF HandleAt, IdAt
  <2>5. j \in alive'[r]
    BY <1>1, <1>3, <1>8, <2>1
  <2> QED
    BY <1>1, <2>1, <2>2, <2>4, <2>5
<1>9. \A r \in Pool, j \in Slots : \A c \in ToSet(components'[r][j]) :
        j \in alive'[r] /\ owner'[c] = HandleAt(r, j)'
  BY <1>7, <1>8
<1>10. ASSUME NEW r \in Pool, NEW c
       PROVE  c \in registered'[r] <=> \E j \in Slots : c \in ToSet(components'[r][j])
  <2>1. c \in registered[r] <=> \E j \in Slots : c \in Carried(r, j)
    <3>1. 0 \in Slots
      BY MigrationAssumption DEF Slots
    <3> QED
      BY <3>1, Carriers
  <2>2. CASE r # p
    <3>1. registered'[r] = registered[r]
      BY <1>1, <2>2 DEF ComponentInv
    <3> QED
      BY <1>7, <2>1, <2>2, <3>1
  <2>3. CASE r = p
    <3>1. registered'[r] = registered[r] \ dropped
      BY <1>1, <2>3 DEF ComponentInv
    <3>2. \A j \in Slots : c \in ToSet(components'[r][j]) <=> j \notin gone /\ c \in Carried(p, j)
      BY <1>7, <2>3
    <3>3. \A j \in Slots : j \notin gone /\ c \in Carried(p, j) => c \notin dropped
      BY <1>8
    <3> QED
      BY <1>2, <2>1, <2>3, <3>1, <3>2, <3>3
  <2> QED
    BY <2>2, <2>3
<1>11. owner' = [c \in Component |-> owner'[c]] /\ registered' = [r \in Pool |-> registered'[r]]
  BY <1>1 DEF ComponentInv
<1> QED
  BY <1>6, <1>7, <1>9, <1>10, <1>11, FollowSteps

\* A step that changes one array of components, and neither slots nor handles
\* to other components.
LEMMA ArrayComponents ==
  ASSUME ComponentInv, NEW p \in Pool, NEW i \in Slots, NEW c \in Component, NEW arr \in Seq(Component),
         IsInjective(arr), ToSet(arr) \ {c} = Carried(p, i) \ {c},
         \A q \in Pool, j \in Slots : c \in Carried(q, j) => q = p /\ j = i,
         components' = [components EXCEPT ![p][i] = arr],
         owner' = [owner EXCEPT ![c] = owner'[c]],
         c \in ToSet(arr) => i \in alive[p] /\ owner'[c] = HandleAt(p, i),
         registered' = [registered EXCEPT ![p] = registered'[p]],
         \A d : d \in registered'[p] <=> IF d = c THEN c \in ToSet(arr) ELSE d \in registered[p],
         UNCHANGED slotVars
  PROVE  ComponentInv'
<1>1. components' \in [Pool -> [Slots -> Seq(Component)]]
  BY DEF ComponentInv
<1>2. components'[p][i] = arr
      /\ \A q \in Pool, j \in Slots : ~(q = p /\ j = i) => components'[q][j] = components[q][j]
  BY DEF ComponentInv
<1>3. \A q \in Pool, j \in Slots : IsInjective(components'[q][j])
  BY <1>2, Carriers
<1>4. owner' = [d \in Component |-> owner'[d]] /\ registered' = [q \in Pool |-> registered'[q]]
      /\ \A d \in Component : d # c => owner'[d] = owner[d]
  BY DEF ComponentInv
<1>5. alive' = alive /\ \A q, j : HandleAt(q, j)' = HandleAt(q, j)
  BY DEF slotVars, HandleAt, IdAt
<1>6. \A q \in Pool, j \in Slots : ~(q = p /\ j = i) => ToSet(components'[q][j]) = Carried(q, j)
  BY <1>2 DEF Carried
<1>7. ASSUME NEW q \in Pool, NEW j \in Slots, NEW d \in ToSet(components'[q][j])
      PROVE  j \in alive'[q] /\ owner'[d] = HandleAt(q, j)'
  <2>1. CASE d = c
    <3>1. q = p /\ j = i
      BY <1>6, <1>7, <2>1
    <3> QED
      BY <1>2, <1>5, <1>7, <2>1, <3>1
  <2>2. CASE d # c
    <3>1. d \in Carried(q, j)
      BY <1>2, <1>6, <1>7, <2>2
    <3>2. d \in Component /\ j \in alive[q] /\ owner[d] = HandleAt(q, j)
      BY <3>1, Carriers
    <3> QED
      BY <1>4, <1>5, <2>2, <3>2
  <2> QED
    BY <2>1, <2>2
<1>8. ASSUME NEW q \in Pool, NEW d
      PROVE  d \in registered'[q] <=> \E j \in Slots : d \in ToSet(components'[q][j])
  <2>1. d \in registered[q] <=> \E j \in Slots : d \in Carried(q, j)
    BY Carriers
  <2>2. CASE q # p
    <3>1. registered'[q] = registered[q]
      BY <2>2 DEF ComponentInv
    <3> QED
      BY <1>6, <2>1, <2>2, <3>1
  <2>3. CASE q = p /\ d # c
    <3>1. \A j \in Slots : d \in ToSet(components'[q][j]) <=> d \in Carried(q, j)
      BY <1>2, <1>6, <2>3
    <3> QED
      BY <2>1, <2>3, <3>1
  <2>4. CASE q = p /\ d = c
    <3>1. \A j \in Slots : j # i => d \notin ToSet(components'[q][j])
      BY <1>6, <2>4
    <3> QED
      BY <1>2, <2>4, <3>1
  <2> QED
    BY <2>2, <2>3, <2>4
<1> QED
  BY <1>1, <1>3, <1>4, <1>7, <1>8, FollowSteps

LEMMA AddComponents ==
  ASSUME ComponentInv, NEW p \in Pool, NEW i \in Slots, NEW c \in Component, AddComponent(p, i, c)
  PROVE  ComponentInv'
<1> DEFINE arr == Append(components[p][i], c)
<1>1. components[p][i] \in Seq(Component) /\ IsInjective(components[p][i])
  BY Carriers
<1>2. \A q \in Pool, j \in Slots : c \notin Carried(q, j)
  BY DEF AddComponent, Attached, Carried
<1>3. /\ arr \in Seq(Component) /\ ToSet(arr) = Carried(p, i) \cup {c} /\ IsInjective(arr)
  BY <1>1, <1>2, AppendItems DEF Carried
<1>4. /\ components' = [components EXCEPT ![p][i] = arr]
      /\ owner' = [owner EXCEPT ![c] = HandleAt(p, i)]
      /\ registered' = [registered EXCEPT ![p] = @ \cup {c}]
      /\ UNCHANGED slotVars /\ i \in alive[p]
  BY DEF AddComponent
<1> HIDE DEF arr
<1>5. owner'[c] = HandleAt(p, i) /\ registered'[p] = registered[p] \cup {c}
  BY <1>4 DEF ComponentInv
<1>6. owner' = [owner EXCEPT ![c] = owner'[c]] /\ registered' = [registered EXCEPT ![p] = registered'[p]]
  BY <1>4, <1>5
<1>7. \A d : d \in registered'[p] <=> IF d = c THEN c \in ToSet(arr) ELSE d \in registered[p]
  BY <1>3, <1>5
<1>8. ToSet(arr) \ {c} = Carried(p, i) \ {c}
  BY <1>3
<1> QED
  BY <1>2, <1>3, <1>4, <1>5, <1>6, <1>7, <1>8, ArrayComponents

LEMMA RemoveComponents ==
  ASSUME ComponentInv, NEW p \in Pool, NEW i \in Slots, NEW c \in Component, RemoveComponent(p, i, c)
  PROVE  ComponentInv'
<1> DEFINE arr == SwapRemove(components[p][i], c)
<1>1. components[p][i] \in Seq(Component) /\ IsInjective(components[p][i])
  BY Carriers
<1>2. c \in Carried(p, i)
  BY <1>1, ContainsIsMembership DEF RemoveComponent, Carried
<1>3. \A q \in Pool, j \in Slots : c \in Carried(q, j) => q = p /\ j = i
  BY <1>2, Carriers
<1>4. /\ arr \in Seq(Component) /\ ToSet(arr) = Carried(p, i) \ {c} /\ IsInjective(arr)
  BY <1>1, SwapRemoveItems, SwapRemoveType DEF Carried
<1>5. /\ components' = [components EXCEPT ![p][i] = arr]
      /\ owner' = [owner EXCEPT ![c] = None]
      /\ registered' = [registered EXCEPT ![p] = @ \ {c}]
      /\ UNCHANGED slotVars
  BY DEF RemoveComponent
<1> HIDE DEF arr
<1>6. owner'[c] = None /\ registered'[p] = registered[p] \ {c}
  BY <1>5 DEF ComponentInv
<1>7. owner' = [owner EXCEPT ![c] = owner'[c]] /\ registered' = [registered EXCEPT ![p] = registered'[p]]
  BY <1>5, <1>6
<1>8. \A d : d \in registered'[p] <=> IF d = c THEN c \in ToSet(arr) ELSE d \in registered[p]
  BY <1>4, <1>6
<1>9. ToSet(arr) \ {c} = Carried(p, i) \ {c} /\ c \notin ToSet(arr)
  BY <1>4
<1> QED
  BY <1>3, <1>4, <1>5, <1>7, <1>8, <1>9, ArrayComponents

\* A component is in the array of the entity its handle leads to.
LEMMA HomeIs ==
  ASSUME ComponentInv, NEW p \in Pool, NEW j \in Slots, NEW c \in ToSet(components[p][j])
  PROVE  owner[c].id.index = Holder(p, c)
<1>1. Holder(p, c) \in Slots /\ c \in ToSet(components[p][Holder(p, c)])
  BY DEF Holder
<1>2. owner[c] = HandleAt(p, Holder(p, c))
  BY <1>1 DEF ComponentInv, ComponentsFollow
<1> QED
  BY <1>2, Handles

LEMMA MigrateComponents ==
  ASSUME ForestInv, ComponentInv, NEW p \in Pool, NEW i \in Slots, NEW q \in Pool, Migrate(p, i, q)
  PROVE  ComponentInv'
<1> DEFINE T == Offspring(p, i)
           I == Images(p, i, q)
           moved == UNION { ToSet(components[p][j]) : j \in T }
<1>1. p # q /\ i \in alive[p] /\ Len(Preorder(p, i)) <= Len(free_stack[q])
  BY DEF Migrate
<1>2. PoolGood(p) /\ PoolGood(q)
  BY DEF ForestInv
<1>0. T \subseteq alive[p] /\ T \subseteq Slots
  <2>1. T \subseteq alive[p]
    BY <1>1, DownClosed DEF Offspring
  <2> QED
    BY <1>2, <2>1, PoolTyped
<1>3. Subtree(p, i) = T /\ ToSet(Postorder(p, i)) = T
  BY <1>1, <1>2, SubtreeItems
<1>4. { Image(p, i, q, j) : j \in Subtree(p, i) } = I
  BY <1>3 DEF Images
<1>5. /\ generations' = [generations EXCEPT ![p] = [j \in Slots |-> IF j \in T THEN @[j] + 1 ELSE @[j]]]
      /\ alive' = [alive EXCEPT ![p] = @ \ T, ![q] = @ \cup I]
      /\ components' = [components EXCEPT
           ![p] = [j \in Slots |-> IF j \in T THEN <<>> ELSE components[p][j]],
           ![q] = [j \in Slots |-> IF j \in I THEN components[p][Original(p, i, q, j)] ELSE components[q][j]]]
      /\ owner' = [c \in Component |->
           IF c \in moved THEN HandleAt(q, Image(p, i, q, owner[c].id.index)) ELSE owner[c]]
      /\ registered' = [registered EXCEPT ![p] = @ \ moved, ![q] = @ \cup moved]
  <2> HIDE DEF T, I
  <2>1. ReleaseSlots(p, Postorder(p, i))
    BY DEF Migrate
  <2>2. alive' = [alive EXCEPT ![p] = @ \ T, ![q] = @ \cup I]
    BY <1>3, <1>4 DEF Migrate
  <2>3. components' = [components EXCEPT
           ![p] = [j \in Slots |-> IF j \in T THEN <<>> ELSE components[p][j]],
           ![q] = [j \in Slots |-> IF j \in I THEN components[p][Original(p, i, q, j)] ELSE components[q][j]]]
    BY <1>1, <1>3, <1>4 DEF Migrate, ComponentInv
  <2>4. UNION { ToSet(components[p][j]) : j \in Subtree(p, i) } = moved
    BY <1>3
  <2>6. \A c \in moved : owner[c].id.index = Holder(p, c)
    BY <1>0, HomeIs DEF T, moved
  <2>5. owner' = [c \in Component |->
           IF c \in moved THEN HandleAt(q, Image(p, i, q, owner[c].id.index)) ELSE owner[c]]
        /\ registered' = [registered EXCEPT ![p] = @ \ moved, ![q] = @ \cup moved]
    <3>1. owner' = [c \in Component |->
            IF c \in moved THEN HandleAt(q, Image(p, i, q, Holder(p, c))) ELSE owner[c]]
      BY <2>4 DEF Migrate, OwnersMoved
    <3>2. registered' = [registered EXCEPT ![p] = @ \ moved, ![q] = @ \cup moved]
      BY <2>4 DEF Migrate
    <3> HIDE DEF moved
    <3>3. \A c \in moved : Image(p, i, q, Holder(p, c)) = Image(p, i, q, owner[c].id.index)
      BY <2>6
    <3> QED
      BY <3>1, <3>2, <3>3
  <2> QED
    BY <1>3, <2>1, <2>2, <2>3, <2>5 DEF ReleaseSlots
<1>6. \A c : c \in moved <=> \E j \in T : c \in Carried(p, j)
  BY DEF Carried
<1>8. /\ \A j \in T : Image(p, i, q, j) \in Slots /\ Image(p, i, q, j) \notin alive[q] /\ Image(p, i, q, j) \in I
      /\ \A j \in T : Original(p, i, q, Image(p, i, q, j)) = j
      /\ \A x \in I : \E j \in T : x = Image(p, i, q, j)
  BY <1>1, <1>2, ImageItems DEF Images
<1> HIDE DEF T, I, moved
<1>9. \A r \in Pool : generations[r] \in [Slots -> Nat]
  BY PoolTyped DEF ForestInv
<1>10. generations = [r \in Pool |-> generations[r]] /\ alive = [r \in Pool |-> alive[r]]
  BY DEF ForestInv, OnPools
<1>11. ToSet(<<>>) = {} /\ IsInjective(<<>>) /\ <<>> \in Seq(Component)
  BY DEF ToSet, IsInjective
\* What each array holds afterwards.
<1>12. /\ components'[p] = [j \in Slots |-> IF j \in T THEN <<>> ELSE components[p][j]]
       /\ components'[q] = [j \in Slots |-> IF j \in I THEN components[p][Original(p, i, q, j)] ELSE components[q][j]]
       /\ \A r \in Pool : r # p /\ r # q => components'[r] = components[r]
  BY <1>1, <1>5 DEF ComponentInv
<1>13. /\ \A j \in T : components'[p][j] = <<>>
       /\ \A j \in Slots \ T : components'[p][j] = components[p][j]
       /\ \A j \in T : components'[q][Image(p, i, q, j)] = components[p][j]
       /\ \A x \in Slots \ I : components'[q][x] = components[q][x]
  BY <1>0, <1>8, <1>12
<1>14. components' \in [Pool -> [Slots -> Seq(Component)]]
  <2>1. [j \in Slots |-> IF j \in T THEN <<>> ELSE components[p][j]] \in [Slots -> Seq(Component)]
    BY <1>11 DEF ComponentInv
  <2>2. ASSUME NEW x \in I PROVE components[p][Original(p, i, q, x)] \in Seq(Component)
    <3>1. Original(p, i, q, x) \in Slots
      BY <1>0, <1>8
    <3> QED
      BY <3>1 DEF ComponentInv
  <2>3. [j \in Slots |-> IF j \in I THEN components[p][Original(p, i, q, j)] ELSE components[q][j]]
          \in [Slots -> Seq(Component)]
    BY <2>2 DEF ComponentInv
  <2> QED
    BY <1>5, <2>1, <2>3 DEF ComponentInv
<1>15. ASSUME NEW r \in Pool, NEW j \in Slots
       PROVE  \/ r = p /\ j \in T /\ components'[r][j] = <<>>
              \/ r = q /\ \E k \in T : j = Image(p, i, q, k) /\ components'[r][j] = components[p][k]
              \/ ~(r = p /\ j \in T) /\ ~(r = q /\ j \in I) /\ components'[r][j] = components[r][j]
  BY <1>1, <1>8, <1>12, <1>13
<1>16. \A r \in Pool, j \in Slots : IsInjective(components'[r][j])
  <2> SUFFICES ASSUME NEW r \in Pool, NEW j \in Slots PROVE IsInjective(components'[r][j])
    OBVIOUS
  <2>1. \A s \in Pool, k \in Slots : IsInjective(components[s][k])
    BY Carriers
  <2> QED
    BY <1>0, <1>11, <1>15, <2>1
<1>17. ASSUME NEW r \in Pool, NEW j \in Slots, NEW c \in ToSet(components'[r][j])
       PROVE  j \in alive'[r] /\ owner'[c] = HandleAt(r, j)'
  <2>1. CASE r = p /\ j \in T /\ components'[r][j] = <<>>
    BY <1>11, <1>17, <2>1
  <2>2. ASSUME r = q, NEW k \in T, j = Image(p, i, q, k), components'[r][j] = components[p][k]
        PROVE  j \in alive'[r] /\ owner'[c] = HandleAt(r, j)'
    <3>1. c \in Carried(p, k) /\ k \in Slots
      BY <1>0, <1>17, <2>2 DEF Carried
    <3>2. c \in Component /\ owner[c] = HandleAt(p, k) /\ c \in moved
      BY <1>6, <3>1, Carriers
    <3>3. owner[c].id.index = k
      BY <3>2, Handles
    <3>4. owner'[c] = HandleAt(q, j)
      BY <1>5, <2>2, <3>2, <3>3
    <3>5. generations'[q] = generations[q] /\ j \in alive'[q]
      BY <1>1, <1>5, <1>8, <1>10, <2>2
    <3>6. HandleAt(q, j)' = HandleAt(q, j)
      BY <3>5 DEF HandleAt, IdAt
    <3> QED
      BY <2>2, <3>4, <3>5, <3>6
  <2>3. CASE ~(r = p /\ j \in T) /\ ~(r = q /\ j \in I) /\ components'[r][j] = components[r][j]
    <3>1. c \in Carried(r, j)
      BY <1>17, <2>3 DEF Carried
    <3>2. /\ c \in Component /\ j \in alive[r] /\ owner[c] = HandleAt(r, j)
          /\ \A s \in Pool, k \in Slots : Carried(r, j) \cap Carried(s, k) # {} => r = s /\ j = k
      BY <3>1, Carriers
    <3>3. c \notin moved
      <4> SUFFICES ASSUME NEW k \in T, c \in Carried(p, k) PROVE FALSE
        BY <1>6
      <4>1. r = p /\ j = k
        BY <1>0, <3>1, <3>2
      <4> QED
        BY <2>3, <4>1
    <3>4. generations'[r][j] = generations[r][j]
      BY <1>5, <1>9, <1>10, <2>3
    <3>5. HandleAt(r, j)' = HandleAt(r, j)
      BY <3>4 DEF HandleAt, IdAt
    <3>6. j \in alive'[r]
      BY <1>1, <1>5, <1>10, <2>3, <3>2
    <3> QED
      BY <1>5, <3>2, <3>3, <3>5, <3>6
  <2> QED
    BY <1>15, <2>1, <2>2, <2>3
<1>18. ASSUME NEW r \in Pool, NEW c
       PROVE  c \in registered'[r] <=> \E j \in Slots : c \in ToSet(components'[r][j])
  <2>1. \A s \in Pool : c \in registered[s] <=> \E j \in Slots : c \in Carried(s, j)
    <3>1. 0 \in Slots
      BY MigrationAssumption DEF Slots
    <3> QED
      BY <3>1, Carriers
  <2>2. CASE r # p /\ r # q
    <3>1. registered'[r] = registered[r] /\ components'[r] = components[r]
      BY <1>5, <1>12, <2>2 DEF ComponentInv
    <3> QED
      BY <2>1, <3>1 DEF Carried
  <2>3. CASE r = p
    <3>1. registered'[r] = registered[r] \ moved
      BY <1>1, <1>5, <2>3 DEF ComponentInv
    <3>2. \A j \in Slots : c \in ToSet(components'[r][j]) <=> j \notin T /\ c \in Carried(p, j)
      BY <1>11, <1>13, <2>3 DEF Carried
    <3>3. ASSUME NEW j \in Slots, j \notin T, c \in Carried(p, j) PROVE c \notin moved
      <4>1. \A s \in Pool, k \in Slots : Carried(p, j) \cap Carried(s, k) # {} => p = s /\ j = k
        BY Carriers
      <4> QED
        BY <1>6, <1>0, <3>3, <4>1
    <3> QED
      BY <1>6, <2>1, <2>3, <3>1, <3>2, <3>3
  <2>4. CASE r = q
    <3>1. registered'[r] = registered[r] \cup moved
      BY <1>1, <1>5, <2>4 DEF ComponentInv
    <3>2. \A x \in Slots \ I : c \in ToSet(components'[r][x]) <=> c \in Carried(q, x)
      BY <1>13, <2>4 DEF Carried
    <3>3. \A j \in T : c \in ToSet(components'[r][Image(p, i, q, j)]) <=> c \in Carried(p, j)
      BY <1>13, <2>4 DEF Carried
    <3>4. \A x \in I : c \notin Carried(q, x)
      BY <1>8, Carriers
    <3> QED
      BY <1>6, <1>8, <2>1, <2>4, <3>1, <3>2, <3>3, <3>4
  <2> QED
    BY <2>2, <2>3, <2>4
<1>19. owner' = [c \in Component |-> owner'[c]] /\ registered' = [r \in Pool |-> registered'[r]]
  BY <1>5 DEF ComponentInv
<1> QED
  BY <1>14, <1>16, <1>17, <1>18, <1>19, FollowSteps

LEMMA NextComponents ==
  ASSUME ForestInv, ComponentInv, [Next]_vars
  PROVE  ComponentInv'
<1>1. ASSUME UNCHANGED <<slotVars, componentVars>> PROVE ComponentInv'
  <2>1. \A p, i : HandleAt(p, i)' = HandleAt(p, i)
    BY <1>1 DEF HandleAt, IdAt, slotVars
  <2>2. components' = components /\ owner' = owner /\ registered' = registered /\ alive' = alive
    BY <1>1 DEF slotVars, componentVars
  <2> QED
    BY <2>1, <2>2 DEF ComponentInv, ComponentsFollow
<1>2. CASE UNCHANGED vars
  BY <1>1, <1>2 DEF vars
<1>3. ASSUME NEW p \in Pool, NEW e \in Thing, Create(p, e) PROVE ComponentInv'
  BY <1>3, CreateComponents
<1>4. ASSUME NEW p \in Pool, NEW i \in Slots, Free(p, i) PROVE ComponentInv'
  <2>1. ToSet(<<i>>) \subseteq Slots
    BY OneSlot
  <2> QED
    BY <1>4, <2>1, FreeComponents DEF Free
<1>5. ASSUME NEW p \in Pool, NEW i \in Slots, DestroyChildren(p, i) PROVE ComponentInv'
  <2>1. PoolGood(p) /\ i \in alive[p] /\ FreeAll(p, Front(Postorder(p, i)))
    BY <1>5 DEF ForestInv, DestroyChildren
  <2>2. ToSet(Front(Postorder(p, i))) \subseteq Slots
    BY <2>1, SubtreeItems DEF ToSet
  <2> QED
    BY <2>1, <2>2, FreeComponents
<1>6. ASSUME NEW p \in Pool, NEW i \in Slots, NEW up, SetParent(p, i, up) PROVE ComponentInv'
  BY <1>1, <1>6 DEF SetParent
<1>7. ASSUME NEW p \in Pool, NEW i \in Slots, NEW c \in Component,
             AddComponent(p, i, c) \/ RemoveComponent(p, i, c)
      PROVE  ComponentInv'
  BY <1>7, AddComponents, RemoveComponents
<1>8. ASSUME NEW p \in Pool, NEW i \in Slots, NEW q \in Pool, Migrate(p, i, q) PROVE ComponentInv'
  BY <1>8, MigrateComponents
<1> QED
  BY <1>2, <1>3, <1>4, <1>5, <1>6, <1>7, <1>8 DEF Next

LEMMA ComponentsStay == Spec => [](ForestInv /\ ComponentInv)
<1>1. Init => ForestInv /\ ComponentInv
  BY InitForest, InitComponents
<1>2. ForestInv /\ ComponentInv /\ [Next]_vars => (ForestInv /\ ComponentInv)'
  BY NextForest, NextComponents
<1> QED
  BY <1>1, <1>2, PTL DEF Spec

\* A component is in one array, of a living entity; its handle leads to that
\* entity in that pool, and it is on the lists of that pool's scene and of no
\* other, whatever was freed and migrated before.
THEOREM ComponentsStayWithEntities == Spec => []ComponentsFollow
<1>1. ForestInv /\ ComponentInv => ComponentsFollow
  BY DEF ComponentInv
<1> QED
  BY <1>1, ComponentsStay, PTL
----------------------------------------------------------------------------
(* The entities are a SceneForest                                          *)

\* A thing is nowhere or at an occupied slot, no two at the same, and there is
\* one at every occupied slot.
AtInv ==
  /\ at = [e \in Thing |-> at[e]]
  /\ \A e \in Thing : at[e] = None \/ \E p \in Pool : \E i \in alive[p] : at[e] = <<p, i>>
  /\ \A p \in Pool : \A i \in alive[p] : \E e \in Thing : at[e] = <<p, i>>
  /\ \A e, d \in Thing : at[e] = at[d] => e = d \/ at[e] = None

Whole == ForestInv /\ ComponentInv /\ AtInv

\* The slot above slot i of pool p, or -1.
Over(p, i) == UpOf(parent_ids[p])[i]

\* What the users of things see of pools and slots.
Placed(e, p) == \E i \in alive[p] : at[e] = <<p, i>>

Kin(e, d) ==
  \E p \in Pool : \E i, k \in alive[p] : at[e] = <<p, i>> /\ at[d] = <<p, k>> /\ Over(p, i) = k

Holds(e, c) == \E p \in Pool : \E i \in alive[p] : at[e] = <<p, i>> /\ c \in Carried(p, i)

Reflects ==
  /\ SceneOf \in [Thing -> Pool \cup {None}]
  /\ ParentOf \in [Thing -> Thing \cup {None}]
  /\ HolderOf \in [Component -> Thing \cup {None}]
  /\ \A e \in Thing : \A p \in Pool : SceneOf[e] = p <=> Placed(e, p)
  /\ \A e, d \in Thing : ParentOf[e] = d <=> Kin(e, d)
  /\ \A c \in Component : \A e \in Thing : HolderOf[c] = e <=> Holds(e, c)

LEMMA OverLiving ==
  ASSUME NEW p, PoolGood(p), NEW i \in alive[p]
  PROVE  /\ i \in Slots /\ (Over(p, i) = -1 \/ Over(p, i) \in alive[p])
         /\ Over(p, i) = -1 => parent_ids[p][i] = None
         /\ Over(p, i) # -1 => /\ parent_ids[p][i].index = Over(p, i)
                               /\ parent_ids[p][i] = Named(generations[p], Over(p, i))
         /\ Alive(p, parent_ids[p][i]) <=> Over(p, i) # -1
         /\ \A k \in alive[p] : Over(p, i) = k <=> parent_ids[p][i] = Named(generations[p], k)
<1> DEFINE g == generations[p]
           a == alive[p]
           par == parent_ids[p]
<1>1. Typed(g, a, free_stack[p], par, children[p]) /\ ParentsLive(g, a, par)
      /\ g \in [Slots -> Nat] /\ a \subseteq Slots /\ -1 \notin Slots
  BY MigrationAssumption DEF PoolGood, Good, Typed, Slots
<1>2. /\ Over(p, i) = -1 <=> par[i] = None
      /\ Over(p, i) # -1 => Over(p, i) \in a
      /\ \A k \in a : Over(p, i) = k <=> par[i] = Named(g, k)
  <2> HIDE DEF g, a, par
  <2>1. i \in a /\ Over(p, i) = UpOf(par)[i]
    BY DEF Over, par, a
  <2> QED
    BY <1>1, <2>1, UpOfLiving
<1>3. \A k \in a : Named(g, k).index = k /\ Named(g, k) \in EntityId
  BY <1>1, NamedId
<1>4. \A k \in a : Alive(p, Named(g, k))
  BY <1>3, AliveIds
<1>5. ~Alive(p, None)
  BY DEF Alive
<1> QED
  BY <1>1, <1>2, <1>3, <1>4, <1>5

LEMMA ThingPlaces ==
  ASSUME AtInv, \A p \in Pool : alive[p] \subseteq Slots
  PROVE  /\ \A p \in Pool : \A i \in alive[p] : <<p, i>> # None /\ ThingAt(p, i) \in Thing
                                              /\ at[ThingAt(p, i)] = <<p, i>>
         /\ \A e \in Thing : \A p \in Pool : \A i \in alive[p] : at[e] = <<p, i>> => ThingAt(p, i) = e
<1>1. \A p \in Pool : \A i \in alive[p] : <<p, i>> # None
  BY NoneAssumption
<1>2. ASSUME NEW p \in Pool, NEW i \in alive[p]
      PROVE  ThingAt(p, i) \in Thing /\ at[ThingAt(p, i)] = <<p, i>>
  BY DEF AtInv, ThingAt
<1>3. ASSUME NEW e \in Thing, NEW p \in Pool, NEW i \in alive[p], at[e] = <<p, i>>
      PROVE  ThingAt(p, i) = e
  <2>1. ThingAt(p, i) \in Thing /\ at[ThingAt(p, i)] = at[e] /\ at[e] # None
    BY <1>1, <1>2, <1>3
  <2> QED
    BY <2>1 DEF AtInv
<1> QED
  BY <1>1, <1>2, <1>3

LEMMA SlotsLive ==
  ASSUME ForestInv
  PROVE  \A p \in Pool : alive[p] \subseteq Slots
BY PoolTyped DEF ForestInv

\* Of a thing that is at slot i of pool p.
LEMMA SceneOfPlaced ==
  ASSUME Whole, NEW e \in Thing, NEW p \in Pool, NEW i \in alive[p], at[e] = <<p, i>>
  PROVE  /\ SceneOf[e] = p
         /\ ParentOf[e] = IF Over(p, i) = -1 THEN None ELSE ThingAt(p, Over(p, i))
<1>1. at[e] # None /\ at[e][1] = p /\ at[e][2] = i
  BY SlotsLive, ThingPlaces DEF Whole
<1>2. SceneOf[e] = p
  BY <1>1 DEF SceneOf
<1>3. ParentOf[e] = IF ~Alive(p, parent_ids[p][i]) THEN None ELSE ThingAt(p, parent_ids[p][i].index)
  BY <1>1 DEF ParentOf
<1>4. PoolGood(p)
  BY DEF Whole, ForestInv
<1>5. CASE Over(p, i) = -1
  BY <1>2, <1>3, <1>4, <1>5, OverLiving
<1>6. CASE Over(p, i) # -1
  <2>1. parent_ids[p][i].index = Over(p, i) /\ Alive(p, parent_ids[p][i])
    BY <1>4, <1>6, OverLiving
  <2> QED
    BY <1>2, <1>3, <1>6, <2>1
<1> QED
  BY <1>5, <1>6

LEMMA WholeReflects == Whole => Reflects
<1> SUFFICES ASSUME Whole PROVE Reflects
  OBVIOUS
<1>1. /\ \A p \in Pool : PoolGood(p) /\ alive[p] \subseteq Slots
      /\ \A p \in Pool : \A i \in alive[p] : <<p, i>> # None /\ ThingAt(p, i) \in Thing
                                              /\ at[ThingAt(p, i)] = <<p, i>>
      /\ \A e \in Thing : \A p \in Pool : \A i \in alive[p] : at[e] = <<p, i>> => ThingAt(p, i) = e
  BY SlotsLive, ThingPlaces DEF Whole, ForestInv
<1>2. None \notin Pool \cup Thing
  BY NoneAssumption
<1>3. ASSUME NEW e \in Thing, at[e] = None
      PROVE  /\ SceneOf[e] = None /\ ParentOf[e] = None
             /\ \A p \in Pool : ~Placed(e, p)
             /\ \A d \in Thing : ~Kin(e, d)
             /\ \A c : ~Holds(e, c)
  BY <1>1, <1>3 DEF SceneOf, ParentOf, Placed, Kin, Holds
<1>4. ASSUME NEW e \in Thing, NEW p \in Pool, NEW i \in alive[p], at[e] = <<p, i>>
      PROVE  /\ SceneOf[e] = p /\ ParentOf[e] \in Thing \cup {None}
             /\ \A r \in Pool : Placed(e, r) <=> r = p
             /\ \A d \in Thing : Kin(e, d) <=> ParentOf[e] = d
             /\ \A c : Holds(e, c) <=> c \in Carried(p, i)
  <2>1. /\ SceneOf[e] = p
        /\ ParentOf[e] = IF Over(p, i) = -1 THEN None ELSE ThingAt(p, Over(p, i))
    BY <1>4, SceneOfPlaced
  <2>2. Over(p, i) = -1 \/ Over(p, i) \in alive[p]
    BY <1>1, OverLiving
  <2>3. \A r \in Pool : \A j \in alive[r] : at[e] = <<r, j>> <=> r = p /\ j = i
    BY <1>4
  <2>4. \A d \in Thing : Kin(e, d) <=> \E k \in alive[p] : at[d] = <<p, k>> /\ Over(p, i) = k
    BY <1>4, <2>3 DEF Kin
  <2>5. ASSUME NEW d \in Thing PROVE Kin(e, d) <=> ParentOf[e] = d
    <3>1. CASE Over(p, i) = -1
      <4>1. -1 \notin alive[p] /\ d # None
        BY <1>1, <1>2, MigrationAssumption DEF Slots
      <4> QED
        BY <2>1, <2>4, <3>1, <4>1
    <3>2. CASE Over(p, i) \in alive[p]
      <4>1. Over(p, i) # -1
        BY <1>1, <3>2, MigrationAssumption DEF Slots
      <4> QED
        BY <1>1, <2>1, <2>4, <3>2, <4>1
    <3> QED
      BY <2>2, <3>1, <3>2
  <2>6. ParentOf[e] \in Thing \cup {None}
    BY <1>1, <2>1, <2>2
  <2> QED
    BY <1>4, <2>1, <2>3, <2>5, <2>6 DEF Placed, Holds
<1>5. \A e \in Thing : at[e] = None \/ \E p \in Pool : \E i \in alive[p] : at[e] = <<p, i>>
  BY DEF Whole, AtInv
<1>6. /\ SceneOf = [e \in Thing |-> SceneOf[e]] /\ ParentOf = [e \in Thing |-> ParentOf[e]]
      /\ HolderOf = [c \in Component |-> HolderOf[c]]
  BY DEF SceneOf, ParentOf, HolderOf
<1>7. ASSUME NEW c \in Component
      PROVE  HolderOf[c] \in Thing \cup {None} /\ \A e \in Thing : HolderOf[c] = e <=> Holds(e, c)
  <2>1. \A e \in Thing : at[e] # None /\ Contains(components[at[e][1]][at[e][2]], c) <=> Holds(e, c)
    <3> TAKE e \in Thing
    <3>1. CASE at[e] = None
      BY <1>3, <3>1
    <3>2. ASSUME NEW p \in Pool, NEW i \in alive[p], at[e] = <<p, i>>
          PROVE  at[e] # None /\ Contains(components[at[e][1]][at[e][2]], c) <=> Holds(e, c)
      <4>1. components[p][i] \in Seq(Component)
        BY <1>1, <3>2, Carriers DEF Whole
      <4>2. Contains(components[p][i], c) <=> c \in Carried(p, i)
        BY <4>1, ContainsIsMembership DEF Carried
      <4> QED
        BY <1>1, <1>4, <3>2, <4>2
    <3> QED
      BY <1>5, <3>1, <3>2
  <2> DEFINE Has(e) == at[e] # None /\ Contains(components[at[e][1]][at[e][2]], c)
  <2>2. HolderOf[c] = IF \E e \in Thing : Has(e) THEN CHOOSE e \in Thing : Has(e) ELSE None
    BY DEF HolderOf
  <2>3. \A e \in Thing : Has(e) <=> Holds(e, c)
    BY <2>1
  <2> HIDE DEF Has
  <2>4. ASSUME NEW e \in Thing, NEW d \in Thing, Holds(e, c), Holds(d, c) PROVE e = d
    <3>1. PICK p \in Pool : \E i \in alive[p] : at[e] = <<p, i>> /\ c \in Carried(p, i)
      BY <2>4 DEF Holds
    <3>2. PICK i \in alive[p] : at[e] = <<p, i>> /\ c \in Carried(p, i)
      BY <3>1
    <3>3. PICK q \in Pool : \E j \in alive[q] : at[d] = <<q, j>> /\ c \in Carried(q, j)
      BY <2>4 DEF Holds
    <3>4. PICK j \in alive[q] : at[d] = <<q, j>> /\ c \in Carried(q, j)
      BY <3>3
    <3>5. p = q /\ i = j
      BY <1>1, <3>2, <3>4, Carriers DEF Whole
    <3> QED
      BY <1>1, <3>2, <3>4, <3>5
  <2>5. CASE \E e \in Thing : Has(e)
    <3>1. PICK h \in Thing : HolderOf[c] = h /\ Has(h)
      BY <2>2, <2>5, Zenon
    <3> QED
      BY <2>3, <2>4, <3>1
  <2>6. CASE ~\E e \in Thing : Has(e)
    BY <1>2, <2>2, <2>3, <2>6
  <2> QED
    BY <2>5, <2>6
<1>8. ASSUME NEW e \in Thing
      PROVE  /\ SceneOf[e] \in Pool \cup {None} /\ ParentOf[e] \in Thing \cup {None}
             /\ \A p \in Pool : SceneOf[e] = p <=> Placed(e, p)
             /\ \A d \in Thing : ParentOf[e] = d <=> Kin(e, d)
  <2>1. CASE at[e] = None
    BY <1>2, <1>3, <2>1
  <2>2. ASSUME NEW p \in Pool, NEW i \in alive[p], at[e] = <<p, i>>
        PROVE  /\ SceneOf[e] \in Pool \cup {None} /\ ParentOf[e] \in Thing \cup {None}
               /\ \A r \in Pool : SceneOf[e] = r <=> Placed(e, r)
               /\ \A d \in Thing : ParentOf[e] = d <=> Kin(e, d)
    BY <1>4, <2>2
  <2> QED
    BY <1>5, <2>1, <2>2
<1> QED
  BY <1>6, <1>7, <1>8 DEF Reflects

\* Of two things, of which one is at slot i of pool p.
LEMMA KinOfPlaced ==
  ASSUME Whole, NEW e \in Thing, NEW p \in Pool, NEW i \in alive[p], at[e] = <<p, i>>
  PROVE  /\ \A d \in Thing : Kin(e, d) <=> Over(p, i) \in alive[p] /\ at[d] = <<p, Over(p, i)>>
         /\ \A d \in Thing : Kin(d, e) <=> \E k \in alive[p] : at[d] = <<p, k>> /\ Over(p, k) = i
         /\ \A r \in Pool : Placed(e, r) <=> r = p
         /\ \A c : Holds(e, c) <=> c \in Carried(p, i)
<1>1. \A r \in Pool : \A j \in alive[r] : at[e] = <<r, j>> <=> r = p /\ j = i
  OBVIOUS
<1> QED
  BY <1>1 DEF Kin, Placed, Holds

LEMMA BelowIsOffspring ==
  ASSUME Whole, NEW e \in Thing, NEW p \in Pool, NEW i \in alive[p], at[e] = <<p, i>>
  PROVE  Forest!Below(e) = { d \in Thing : \E k \in Offspring(p, i) : at[d] = <<p, k>> }
<1> DEFINE D == { d \in Thing : \E k \in Offspring(p, i) : at[d] = <<p, k>> }
<1>1. \A x, d \in Thing : ParentOf[x] = d <=> Kin(x, d)
  BY WholeReflects DEF Reflects
<1>2. /\ i \in Offspring(p, i) /\ Offspring(p, i) \subseteq alive[p]
      /\ \A v \in alive[p] : Over(p, v) \in Offspring(p, i) => v \in Offspring(p, i)
  BY DownClosed DEF Offspring, Over
<1>3. \A d \in Thing : d \in Forest!Below(e) <=>
        \A S \in SUBSET Thing : e \in S /\ (\A x \in Thing : ParentOf[x] \in S => x \in S) => d \in S
  BY DEF Forest!Below
<1>4. ASSUME NEW x \in Thing, ParentOf[x] \in D PROVE x \in D
  <2>1. PICK d \in D : ParentOf[x] = d
    BY <1>4
  <2>2. PICK k \in Offspring(p, i) : at[d] = <<p, k>>
    OBVIOUS
  <2>3. Kin(x, d)
    BY <1>1, <2>1
  <2>4. PICK j \in alive[p] : at[x] = <<p, j>> /\ Over(p, j) = k
    BY <1>2, <2>2, <2>3, KinOfPlaced
  <2> QED
    BY <1>2, <2>4
<1>5. ASSUME NEW S \in SUBSET Thing, e \in S, \A x \in Thing : ParentOf[x] \in S => x \in S,
             NEW d \in D
      PROVE  d \in S
  <2> DEFINE K == { k \in alive[p] : \E x \in S : at[x] = <<p, k>> }
  <2>1. i \in K /\ K \in SUBSET alive[p]
    BY <1>5
  <2>2. ASSUME NEW v \in alive[p], Over(p, v) \in K PROVE v \in K
    <3>1. PICK x \in S : at[x] = <<p, Over(p, v)>> /\ Over(p, v) \in alive[p]
      BY <2>2
    <3>2. PICK y \in Thing : at[y] = <<p, v>>
      BY DEF Whole, AtInv
    <3>3. Kin(y, x)
      BY <3>1, <3>2 DEF Kin
    <3> QED
      BY <1>1, <1>5, <3>2, <3>3
  <2>3. Offspring(p, i) \subseteq K
    <3> HIDE DEF K
    <3>1. \A v \in alive[p] : UpOf(parent_ids[p])[v] \in K => v \in K
      BY <2>2 DEF Over
    <3> QED
      BY <2>1, <3>1, DownLeast DEF Offspring
  <2>4. PICK k \in Offspring(p, i) : at[d] = <<p, k>>
    OBVIOUS
  <2>5. PICK x \in S : at[x] = <<p, k>>
    BY <2>3
  <2>6. <<p, k>> # None
    BY <1>2, SlotsLive, NoneAssumption DEF Whole
  <2> QED
    BY <2>4, <2>5, <2>6 DEF Whole, AtInv
<1>6. D \in SUBSET Thing /\ e \in D
  BY <1>2
<1>7. Forest!Below(e) \subseteq Thing
  BY DEF Forest!Below
<1> HIDE DEF D
<1>8. \A d \in Forest!Below(e) : d \in D
  BY <1>3, <1>4, <1>6, <1>7
<1>9. \A d \in D : d \in Forest!Below(e)
  BY <1>3, <1>5, <1>6
<1> QED
  BY <1>8, <1>9 DEF D

\* Functions that agree on what they map to b, whatever b of B, agree.
LEMMA OneFunction ==
  ASSUME NEW A, NEW B, NEW none, none \notin B, NEW f \in [A -> B \cup {none}],
         NEW h \in [A -> B \cup {none}], \A a \in A : \A b \in B : f[a] = b <=> h[a] = b
  PROVE  f = h
<1>1. \A a \in A : f[a] = h[a]
  OBVIOUS
<1> QED
  BY <1>1

\* What steps do, to things and to what is seen of them.
LEMMA ScenesAfter ==
  ASSUME Reflects, Reflects', NEW s \in [Thing -> Pool \cup {None}],
         \A e \in Thing : \A p \in Pool : s[e] = p <=> Placed(e, p)'
  PROVE  SceneOf' = s
<1>1. SceneOf' \in [Thing -> Pool \cup {None}] /\ None \notin Pool
  BY NoneAssumption DEF Reflects
<1>2. \A e \in Thing : \A p \in Pool : SceneOf'[e] = p <=> Placed(e, p)'
  BY DEF Reflects
<1> QED
  BY <1>1, <1>2, OneFunction

LEMMA ParentsAfter ==
  ASSUME Reflects, Reflects', NEW s \in [Thing -> Thing \cup {None}],
         \A e, d \in Thing : s[e] = d <=> Kin(e, d)'
  PROVE  ParentOf' = s
<1>1. ParentOf' \in [Thing -> Thing \cup {None}] /\ None \notin Thing
  BY NoneAssumption DEF Reflects
<1>2. \A e, d \in Thing : ParentOf'[e] = d <=> Kin(e, d)'
  BY DEF Reflects
<1> QED
  BY <1>1, <1>2, OneFunction

LEMMA HoldersAfter ==
  ASSUME Reflects, Reflects', NEW s \in [Component -> Thing \cup {None}],
         \A c \in Component : \A e \in Thing : s[c] = e <=> Holds(e, c)'
  PROVE  HolderOf' = s
<1>1. HolderOf' \in [Component -> Thing \cup {None}] /\ None \notin Thing
  BY NoneAssumption DEF Reflects
<1>2. \A c \in Component : \A e \in Thing : HolderOf'[c] = e <=> Holds(e, c)'
  BY DEF Reflects
<1> QED
  BY <1>1, <1>2, OneFunction

CreatesAt(p, e, i) ==
  /\ i \in Slots \ alive[p] /\ at[e] = None
  /\ alive' = [alive EXCEPT ![p] = @ \cup {i}]
  /\ at' = [at EXCEPT ![e] = <<p, i>>]
  /\ Over(p, i)' = -1 /\ Carried(p, i)' = {}
  /\ \A r \in Pool : \A j \in alive[r] : Over(r, j)' = Over(r, j) /\ Carried(r, j)' = Carried(r, j)

LEMMA CreateEffect ==
  ASSUME Whole, NEW p \in Pool, NEW e \in Thing, Create(p, e)
  PROVE  \E i \in Slots : CreatesAt(p, e, i)
<1>1. Last(free_stack[p]) \in Slots /\ Last(free_stack[p]) \notin alive[p]
  <2>1. PoolGood(p) /\ free_stack[p] # <<>>
    BY DEF Whole, ForestInv, Create
  <2>2. free_stack[p] \in Seq(Slots) /\ IsInjective(free_stack[p]) /\ ToSet(free_stack[p]) \cap alive[p] = {}
    BY <2>1 DEF PoolGood, Good, Typed, FreeOnce
  <2>3. Last(free_stack[p]) \in ToSet(free_stack[p])
    BY <2>1, <2>2, FrontItems
  <2>4. \A x \in ToSet(free_stack[p]) : x \in Slots
    BY <2>2 DEF ToSet
  <2> QED
    BY <2>2, <2>3, <2>4
<1> PICK i \in Slots : i = Last(free_stack[p]) /\ i \notin alive[p]
  BY <1>1
<1>2. /\ parent_ids' = [parent_ids EXCEPT ![p][i] = None] /\ components' = [components EXCEPT ![p][i] = <<>>]
      /\ alive' = [alive EXCEPT ![p] = @ \cup {i}] /\ at' = [at EXCEPT ![e] = <<p, i>>] /\ at[e] = None
  BY DEF Create
<1>3. /\ parent_ids = [r \in Pool |-> parent_ids[r]] /\ components \in [Pool -> [Slots -> Seq(Component)]]
      /\ \A r \in Pool : parent_ids[r] \in [Slots -> EntityId \cup {None}] /\ alive[r] \subseteq Slots
  BY PoolTyped DEF Whole, ForestInv, OnPools, ComponentInv
<1>4. /\ parent_ids'[p][i] = None /\ components'[p][i] = <<>>
      /\ \A r \in Pool : \A j \in alive[r] :
           parent_ids'[r][j] = parent_ids[r][j] /\ components'[r][j] = components[r][j]
  BY <1>1, <1>2, <1>3
<1>5. ToSet(<<>>) = {}
  BY DEF ToSet
<1>6. Over(p, i)' = -1 /\ Carried(p, i)' = {}
  <2>1. Over(p, i)' = IF parent_ids'[p][i] = None THEN -1 ELSE parent_ids'[p][i].index
    BY <1>1 DEF Over, UpOf
  <2>2. Carried(p, i)' = ToSet(<<>>)
    BY <1>4 DEF Carried
  <2> QED
    BY <1>4, <1>5, <2>1, <2>2
<1>7. \A r \in Pool : \A j \in alive[r] : Over(r, j)' = Over(r, j) /\ Carried(r, j)' = Carried(r, j)
  BY <1>3, <1>4 DEF Over, UpOf, Carried
<1> QED
  BY <1>2, <1>6, <1>7 DEF CreatesAt

LEMMA CreateAt ==
  ASSUME Whole, NEW p \in Pool, NEW e \in Thing, NEW i, CreatesAt(p, e, i)
  PROVE  AtInv'
<1>1. /\ at = [d \in Thing |-> at[d]] /\ alive = [r \in Pool |-> alive[r]]
      /\ \A r \in Pool : \A j \in alive[r] : <<r, j>> # None
      /\ <<p, i>> # None
  BY SlotsLive, NoneAssumption DEF Whole, AtInv, ForestInv, OnPools, CreatesAt
<1>2. /\ at'[e] = <<p, i>> /\ at[e] = None /\ \A d \in Thing : d # e => at'[d] = at[d]
      /\ at' = [d \in Thing |-> at'[d]]
  BY <1>1 DEF CreatesAt
<1>3. /\ alive'[p] = alive[p] \cup {i} /\ i \notin alive[p]
      /\ \A r \in Pool : r # p => alive'[r] = alive[r]
  BY <1>1 DEF CreatesAt
<1>4. /\ \A d \in Thing : at[d] = None \/ \E r \in Pool : \E j \in alive[r] : at[d] = <<r, j>>
      /\ \A r \in Pool : \A j \in alive[r] : \E d \in Thing : at[d] = <<r, j>>
      /\ \A d, x \in Thing : at[d] = at[x] => d = x \/ at[d] = None
  BY DEF Whole, AtInv
<1>5. \A d \in Thing : at[d] # <<p, i>>
  BY <1>1, <1>3, <1>4
<1>6. \A d \in Thing : at'[d] = None \/ \E r \in Pool : \E j \in alive'[r] : at'[d] = <<r, j>>
  <2> TAKE d \in Thing
  <2>1. CASE d = e
    BY <1>2, <1>3, <2>1
  <2>2. ASSUME d # e, NEW r \in Pool, NEW j \in alive[r], at[d] = <<r, j>>
        PROVE  \E s \in Pool : \E k \in alive'[s] : at'[d] = <<s, k>>
    <3>1. j \in alive'[r] /\ at'[d] = <<r, j>>
      BY <1>2, <1>3, <2>2
    <3> QED
      BY <3>1
  <2> QED
    BY <1>2, <1>4, <2>1, <2>2
<1>7. ASSUME NEW r \in Pool, NEW j \in alive'[r] PROVE \E d \in Thing : at'[d] = <<r, j>>
  <2>1. CASE r = p /\ j = i
    BY <1>2, <2>1
  <2>2. CASE j \in alive[r]
    <3>1. PICK d \in Thing : at[d] = <<r, j>>
      BY <1>4, <2>2
    <3>2. d # e
      BY <1>1, <1>2, <2>2, <3>1
    <3> QED
      BY <1>2, <3>1, <3>2
  <2> QED
    BY <1>3, <2>1, <2>2
<1>8. \A d, x \in Thing : at'[d] = at'[x] => d = x \/ at'[d] = None
  BY <1>2, <1>4, <1>5
<1> QED
  BY <1>2, <1>6, <1>7, <1>8 DEF AtInv

LEMMA CreateSeen ==
  ASSUME Whole, Whole', NEW p \in Pool, NEW e \in Thing, NEW i, CreatesAt(p, e, i)
  PROVE  Forest!Create(e, p)
<1>1. /\ at = [d \in Thing |-> at[d]] /\ alive = [r \in Pool |-> alive[r]]
      /\ \A r \in Pool : \A j \in alive[r] : <<r, j>> # None
      /\ <<p, i>> # None
  BY SlotsLive, NoneAssumption DEF Whole, AtInv, ForestInv, OnPools, CreatesAt
<1>2. /\ at'[e] = <<p, i>> /\ at[e] = None /\ \A d \in Thing : d # e => at'[d] = at[d]
  BY <1>1 DEF CreatesAt
<1>3. /\ alive'[p] = alive[p] \cup {i} /\ i \notin alive[p] /\ i \in Slots
      /\ \A r \in Pool : r # p => alive'[r] = alive[r]
  BY <1>1 DEF CreatesAt
<1>4. Reflects /\ Reflects'
  BY WholeReflects, PTL
<1>5. \A d \in Thing : at[d] # <<p, i>>
  <2>1. \A d \in Thing : at[d] = None \/ \E r \in Pool : \E j \in alive[r] : at[d] = <<r, j>>
    BY DEF Whole, AtInv
  <2> QED
    BY <1>1, <1>3, <2>1
<1>6. \A d \in Thing : \A r \in Pool : \A j : j \in alive'[r] /\ at'[d] = <<r, j>>
        <=> (d = e /\ r = p /\ j = i) \/ (j \in alive[r] /\ at[d] = <<r, j>>)
  <2> SUFFICES ASSUME NEW d \in Thing, NEW r \in Pool, NEW j
               PROVE  j \in alive'[r] /\ at'[d] = <<r, j>>
                        <=> (d = e /\ r = p /\ j = i) \/ (j \in alive[r] /\ at[d] = <<r, j>>)
    OBVIOUS
  <2>1. CASE d = e
    <3>1. at'[d] = <<r, j>> <=> r = p /\ j = i
      BY <1>2, <2>1
    <3>2. ~(j \in alive[r] /\ at[d] = <<r, j>>)
      BY <1>1, <1>2, <2>1
    <3> QED
      BY <1>3, <2>1, <3>1, <3>2
  <2>2. CASE d # e
    <3>1. at'[d] = at[d] /\ at[d] # <<p, i>>
      BY <1>2, <1>5, <2>2
    <3> QED
      BY <1>3, <2>2, <3>1
  <2> QED
    BY <2>1, <2>2
<1>7. /\ ~Placed(e, p) /\ \A r \in Pool : Placed(e, r)' <=> r = p
      /\ \A d \in Thing : d # e => \A r \in Pool : Placed(d, r)' <=> Placed(d, r)
  BY <1>1, <1>2, <1>6 DEF Placed
<1>8. \A r \in Pool : \A j \in alive[r] : Over(r, j)' = Over(r, j) /\ Carried(r, j)' = Carried(r, j)
                                          /\ (Over(r, j) = -1 \/ Over(r, j) \in alive[r])
  BY OverLiving DEF CreatesAt, Whole, ForestInv
<1>9. Over(p, i)' = -1 /\ Carried(p, i)' = {} /\ -1 \notin Slots /\ \A r \in Pool : alive[r] \subseteq Slots
  BY SlotsLive, MigrationAssumption DEF CreatesAt, Slots, Whole
<1>10. \A d, x \in Thing : Kin(d, x)' <=> Kin(d, x)
  <2> SUFFICES ASSUME NEW d \in Thing, NEW x \in Thing PROVE Kin(d, x)' <=> Kin(d, x)
    OBVIOUS
  <2>1. ASSUME Kin(d, x) PROVE Kin(d, x)'
    <3>1. PICK r \in Pool : \E j, k \in alive[r] : at[d] = <<r, j>> /\ at[x] = <<r, k>> /\ Over(r, j) = k
      BY <2>1 DEF Kin
    <3>2. PICK j \in alive[r], k \in alive[r] : at[d] = <<r, j>> /\ at[x] = <<r, k>> /\ Over(r, j) = k
      BY <3>1
    <3>3. j \in alive'[r] /\ k \in alive'[r] /\ at'[d] = <<r, j>> /\ at'[x] = <<r, k>> /\ Over(r, j)' = k
      BY <1>6, <1>8, <3>2
    <3> QED
      BY <3>3 DEF Kin
  <2>2. ASSUME Kin(d, x)' PROVE Kin(d, x)
    <3>1. PICK r \in Pool : \E j, k \in alive'[r] : at'[d] = <<r, j>> /\ at'[x] = <<r, k>> /\ Over(r, j)' = k
      BY <2>2 DEF Kin
    <3>2. PICK j \in alive'[r], k \in alive'[r] : at'[d] = <<r, j>> /\ at'[x] = <<r, k>> /\ Over(r, j)' = k
      BY <3>1
    <3>3. k \in Slots
      BY <1>3, <1>9, <3>2
    <3>4. j \in alive[r] /\ at[d] = <<r, j>>
      BY <1>6, <1>9, <3>2, <3>3
    <3>5. Over(r, j) = k /\ k \in alive[r]
      BY <1>8, <1>9, <3>2, <3>3, <3>4
    <3>6. at[x] = <<r, k>>
      BY <1>3, <1>6, <3>2, <3>5
    <3> QED
      BY <3>4, <3>5, <3>6 DEF Kin
  <2> QED
    BY <2>1, <2>2
<1>11. \A d \in Thing : \A c : Holds(d, c)' <=> Holds(d, c)
  BY <1>6, <1>8, <1>9 DEF Holds
<1>12. SceneOf' = [SceneOf EXCEPT ![e] = p]
  <2> DEFINE s == [SceneOf EXCEPT ![e] = p]
  <2>1. s \in [Thing -> Pool \cup {None}] /\ s[e] = p /\ \A d \in Thing : d # e => s[d] = SceneOf[d]
    BY <1>4 DEF Reflects
  <2>2. \A d \in Thing : \A r \in Pool : SceneOf[d] = r <=> Placed(d, r)
    BY <1>4 DEF Reflects
  <2> HIDE DEF s
  <2>3. \A d \in Thing : \A r \in Pool : s[d] = r <=> Placed(d, r)'
    BY <1>7, <2>1, <2>2
  <2>4. SceneOf' = s
    BY <1>4, <2>1, <2>3, ScenesAfter
  <2> QED
    BY <2>4 DEF s
<1>13. ParentOf' = ParentOf
  <2>1. ParentOf \in [Thing -> Thing \cup {None}] /\ \A d, x \in Thing : ParentOf[d] = x <=> Kin(d, x)'
    BY <1>4, <1>10 DEF Reflects
  <2> QED
    BY <1>4, <2>1, ParentsAfter
<1>14. HolderOf' = HolderOf
  <2>1. HolderOf \in [Component -> Thing \cup {None}]
        /\ \A c \in Component : \A d \in Thing : HolderOf[c] = d <=> Holds(d, c)'
    BY <1>4, <1>11 DEF Reflects
  <2> QED
    BY <1>4, <2>1, HoldersAfter
<1>15. SceneOf[e] = None
  BY <1>2 DEF SceneOf
<1> QED
  BY <1>12, <1>13, <1>14, <1>15 DEF Forest!Create, Forest!Existing

Frees(p, gone) ==
  /\ gone \subseteq alive[p]
  /\ alive' = [alive EXCEPT ![p] = @ \ gone]
  /\ at' = [e \in Thing |-> IF \E k \in gone : at[e] = <<p, k>> THEN None ELSE at[e]]
  /\ \A r \in Pool : \A j \in alive'[r] :
       /\ Carried(r, j)' = Carried(r, j)
       /\ Over(r, j)' = IF r = p /\ Over(p, j) \in gone THEN -1 ELSE Over(r, j)

ThingsAt(p, S) == { d \in Thing : \E k \in S : at[d] = <<p, k>> }

LEMMA FreeEffect ==
  ASSUME Whole, NEW p \in Pool, NEW order, ToSet(order) \subseteq alive[p], FreeAll(p, order)
  PROVE  Frees(p, ToSet(order))
<1> DEFINE gone == ToSet(order)
           Orphan(j) == \E k \in gone : Contains(LiveChildren(p, k), j)
<1>1. /\ alive' = [alive EXCEPT ![p] = @ \ gone]
      /\ at' = [e \in Thing |-> IF \E k \in gone : at[e] = <<p, k>> THEN None ELSE at[e]]
      /\ parent_ids' = [parent_ids EXCEPT ![p] =
           [j \in Slots |-> IF j \in gone \/ Orphan(j) THEN None ELSE @[j]]]
      /\ components' = [components EXCEPT ![p] = [j \in Slots |-> IF j \in gone THEN <<>> ELSE @[j]]]
  BY DEF FreeAll
<1>2. /\ parent_ids = [r \in Pool |-> parent_ids[r]] /\ components \in [Pool -> [Slots -> Seq(Component)]]
      /\ alive = [r \in Pool |-> alive[r]]
      /\ \A r \in Pool : alive[r] \subseteq Slots /\ PoolGood(r)
  BY SlotsLive DEF Whole, ForestInv, OnPools, ComponentInv
<1>3. \A j \in alive[p] : Orphan(j) <=> Over(p, j) \in gone
  <2> TAKE j \in alive[p]
  <2>1. ASSUME NEW k \in gone PROVE Contains(LiveChildren(p, k), j) <=> Over(p, j) = k
    <3>1. /\ LiveChildren(p, k) \in Seq(Slots)
          /\ ToSet(LiveChildren(p, k)) = { x \in alive[p] : parent_ids[p][x] = IdAt(p, k) }
      BY <1>2, <2>1, GoodArrays
    <3>2. Contains(LiveChildren(p, k), j) <=> j \in ToSet(LiveChildren(p, k))
      BY <3>1, ContainsIsMembership
    <3>3. Over(p, j) = k <=> parent_ids[p][j] = Named(generations[p], k)
      BY <1>2, <2>1, OverLiving
    <3> QED
      BY <3>1, <3>2, <3>3 DEF IdAt, Named
  <2> QED
    BY <2>1
<1> HIDE DEF Orphan, gone
<1>4. ASSUME NEW r \in Pool, r # p
      PROVE  alive'[r] = alive[r] /\ parent_ids'[r] = parent_ids[r] /\ components'[r] = components[r]
  BY <1>1, <1>2, <1>4
<1>5. ASSUME NEW j \in alive'[p]
      PROVE  /\ j \in alive[p] /\ components'[p][j] = components[p][j]
             /\ parent_ids'[p][j] = IF Orphan(j) THEN None ELSE parent_ids[p][j]
  <2>1. j \in alive[p] /\ j \notin gone /\ j \in Slots
    BY <1>1, <1>2, <1>5
  <2>2. parent_ids'[p] = [k \in Slots |-> IF k \in gone \/ Orphan(k) THEN None ELSE parent_ids[p][k]]
    BY <1>1, <1>2
  <2>3. components'[p] = [k \in Slots |-> IF k \in gone THEN <<>> ELSE components[p][k]]
    BY <1>1, <1>2
  <2> QED
    BY <2>1, <2>2, <2>3
<1>6. ASSUME NEW r \in Pool, NEW j \in alive'[r]
      PROVE  /\ Carried(r, j)' = Carried(r, j)
             /\ Over(r, j)' = IF r = p /\ Over(p, j) \in gone THEN -1 ELSE Over(r, j)
  <2>1. CASE r # p
    BY <1>4, <2>1 DEF Over, Carried
  <2>2. CASE r = p
    <3>1. j \in alive[p] /\ j \in Slots
      BY <1>2, <1>5, <2>2
    <3>2. Over(p, j)' = IF parent_ids'[p][j] = None THEN -1 ELSE parent_ids'[p][j].index
      BY <3>1 DEF Over, UpOf
    <3>3. Over(p, j) = IF parent_ids[p][j] = None THEN -1 ELSE parent_ids[p][j].index
      BY <3>1 DEF Over, UpOf
    <3>4. Carried(p, j)' = Carried(p, j)
      BY <1>5, <2>2 DEF Carried
    <3> QED
      BY <1>3, <1>5, <2>2, <3>1, <3>2, <3>3, <3>4
  <2> QED
    BY <2>1, <2>2
<1> QED
  BY <1>1, <1>6 DEF Frees, gone

LEMMA FreeAt ==
  ASSUME Whole, NEW p \in Pool, NEW gone, Frees(p, gone)
  PROVE  /\ AtInv'
         /\ \A d \in Thing : \A r \in Pool : \A j : j \in alive'[r] /\ at'[d] = <<r, j>>
              <=> d \notin ThingsAt(p, gone) /\ j \in alive[r] /\ at[d] = <<r, j>>
         /\ \A r \in Pool : alive'[r] \subseteq alive[r]
<1>1. /\ at = [d \in Thing |-> at[d]] /\ alive = [r \in Pool |-> alive[r]]
      /\ \A r \in Pool : \A j \in alive[r] : <<r, j>> # None
      /\ \A d \in Thing : at[d] = None \/ \E r \in Pool : \E j \in alive[r] : at[d] = <<r, j>>
      /\ \A r \in Pool : \A j \in alive[r] : \E d \in Thing : at[d] = <<r, j>>
      /\ \A d, x \in Thing : at[d] = at[x] => d = x \/ at[d] = None
  <2>1. alive = [r \in Pool |-> alive[r]] /\ \A r \in Pool : \A j \in alive[r] : <<r, j>> # None
    BY SlotsLive, NoneAssumption DEF Whole, ForestInv, OnPools
  <2> QED
    BY <2>1 DEF Whole, AtInv
<1>2. /\ at' = [d \in Thing |-> at'[d]]
      /\ \A d \in Thing : at'[d] = IF d \in ThingsAt(p, gone) THEN None ELSE at[d]
  BY DEF Frees, ThingsAt
<1>3. /\ gone \subseteq alive[p] /\ alive'[p] = alive[p] \ gone
      /\ \A r \in Pool : r # p => alive'[r] = alive[r]
  BY <1>1 DEF Frees
<1>4. \A d \in Thing : \A r \in Pool : \A j \in alive[r] : at[d] = <<r, j>> =>
        (d \in ThingsAt(p, gone) <=> r = p /\ j \in gone)
  BY DEF ThingsAt
<1>5. \A d \in Thing : \A r \in Pool : \A j : j \in alive'[r] /\ at'[d] = <<r, j>>
        <=> d \notin ThingsAt(p, gone) /\ j \in alive[r] /\ at[d] = <<r, j>>
  BY <1>1, <1>2, <1>3, <1>4
<1>6. \A d \in Thing : at'[d] = None \/ \E r \in Pool : \E j \in alive'[r] : at'[d] = <<r, j>>
  BY <1>1, <1>2, <1>5
<1>7. \A r \in Pool : \A j \in alive'[r] : \E d \in Thing : at'[d] = <<r, j>>
  <2> SUFFICES ASSUME NEW r \in Pool, NEW j \in alive'[r] PROVE \E d \in Thing : at'[d] = <<r, j>>
    OBVIOUS
  <2>1. j \in alive[r] /\ ~(r = p /\ j \in gone)
    BY <1>3
  <2>2. PICK d \in Thing : at[d] = <<r, j>>
    BY <1>1, <2>1
  <2> QED
    BY <1>4, <1>5, <2>1, <2>2
<1>8. \A d, x \in Thing : at'[d] = at'[x] => d = x \/ at'[d] = None
  BY <1>1, <1>2
<1>9. \A r \in Pool : alive'[r] \subseteq alive[r]
  BY <1>3
<1> QED
  BY <1>2, <1>5, <1>6, <1>7, <1>8, <1>9 DEF AtInv

LEMMA FreeSeen ==
  ASSUME Whole, Whole', NEW p \in Pool, NEW gone, Frees(p, gone)
  PROVE  Forest!Destroy(ThingsAt(p, gone))
<1> DEFINE D == ThingsAt(p, gone)
<1>1. Reflects /\ Reflects'
  BY WholeReflects, PTL
<1>2. /\ \A d \in Thing : \A r \in Pool : \A j : j \in alive'[r] /\ at'[d] = <<r, j>>
           <=> d \notin D /\ j \in alive[r] /\ at[d] = <<r, j>>
      /\ \A r \in Pool : alive'[r] \subseteq alive[r] /\ alive[r] \subseteq Slots
  BY FreeAt, SlotsLive DEF Whole
<1>3. \A r \in Pool : \A j \in alive'[r] :
        /\ Carried(r, j)' = Carried(r, j)
        /\ Over(r, j)' = IF r = p /\ Over(p, j) \in gone THEN -1 ELSE Over(r, j)
  BY DEF Frees
<1>4. \A d \in Thing : \A k : at[d] = <<p, k>> => (d \in D <=> k \in gone)
  BY DEF ThingsAt
<1>5. -1 \notin Slots
  BY MigrationAssumption DEF Slots
<1> HIDE DEF D
<1>6. \A d \in Thing : \A r \in Pool : Placed(d, r)' <=> d \notin D /\ Placed(d, r)
  BY <1>2 DEF Placed
<1>7. \A d \in Thing : \A c : Holds(d, c)' <=> d \notin D /\ Holds(d, c)
  BY <1>2, <1>3 DEF Holds
<1>8. ASSUME NEW d \in Thing, NEW x \in Thing PROVE Kin(d, x)' <=> d \notin D /\ x \notin D /\ Kin(d, x)
  <2>1. ASSUME d \notin D, x \notin D, Kin(d, x) PROVE Kin(d, x)'
    <3>1. PICK r \in Pool : \E j, k \in alive[r] : at[d] = <<r, j>> /\ at[x] = <<r, k>> /\ Over(r, j) = k
      BY <2>1 DEF Kin
    <3>2. PICK j \in alive[r], k \in alive[r] : at[d] = <<r, j>> /\ at[x] = <<r, k>> /\ Over(r, j) = k
      BY <3>1
    <3>3. j \in alive'[r] /\ k \in alive'[r] /\ at'[d] = <<r, j>> /\ at'[x] = <<r, k>>
      BY <1>2, <2>1, <3>2
    <3>4. ~(r = p /\ k \in gone)
      BY <1>4, <2>1, <3>2
    <3>5. Over(r, j)' = k
      BY <1>3, <3>2, <3>3, <3>4
    <3> QED
      BY <3>3, <3>5 DEF Kin
  <2>2. ASSUME Kin(d, x)' PROVE d \notin D /\ x \notin D /\ Kin(d, x)
    <3>1. PICK r \in Pool : \E j, k \in alive'[r] : at'[d] = <<r, j>> /\ at'[x] = <<r, k>> /\ Over(r, j)' = k
      BY <2>2 DEF Kin
    <3>2. PICK j \in alive'[r], k \in alive'[r] : at'[d] = <<r, j>> /\ at'[x] = <<r, k>> /\ Over(r, j)' = k
      BY <3>1
    <3>3. /\ d \notin D /\ j \in alive[r] /\ at[d] = <<r, j>>
          /\ x \notin D /\ k \in alive[r] /\ at[x] = <<r, k>>
      BY <1>2, <3>2
    <3>4. Over(r, j) = k
      BY <1>2, <1>3, <1>5, <3>2, <3>3
    <3> QED
      BY <3>3, <3>4 DEF Kin
  <2> QED
    BY <2>1, <2>2
<1>9. SceneOf' = [e \in Thing |-> IF e \in D THEN None ELSE SceneOf[e]]
  <2> DEFINE s == [e \in Thing |-> IF e \in D THEN None ELSE SceneOf[e]]
  <2>1. s \in [Thing -> Pool \cup {None}] /\ \A e \in Thing : \A r \in Pool : s[e] = r <=> Placed(e, r)'
    BY <1>1, <1>6, NoneAssumption DEF Reflects
  <2> HIDE DEF s
  <2>2. SceneOf' = s
    BY <1>1, <2>1, ScenesAfter
  <2> QED
    BY <2>2 DEF s
<1>10. ParentOf' = [e \in Thing |-> IF e \in D \/ ParentOf[e] \in D THEN None ELSE ParentOf[e]]
  <2> DEFINE s == [e \in Thing |-> IF e \in D \/ ParentOf[e] \in D THEN None ELSE ParentOf[e]]
  <2>1. s \in [Thing -> Thing \cup {None}] /\ \A e, d \in Thing : s[e] = d <=> Kin(e, d)'
    BY <1>1, <1>8, NoneAssumption DEF Reflects
  <2> HIDE DEF s
  <2>2. ParentOf' = s
    BY <1>1, <2>1, ParentsAfter
  <2> QED
    BY <2>2 DEF s
<1>11. HolderOf' = [c \in Component |-> IF HolderOf[c] \in D THEN None ELSE HolderOf[c]]
  <2> DEFINE s == [c \in Component |-> IF HolderOf[c] \in D THEN None ELSE HolderOf[c]]
  <2>1. s \in [Component -> Thing \cup {None}]
        /\ \A c \in Component : \A e \in Thing : s[c] = e <=> Holds(e, c)'
    BY <1>1, <1>7, NoneAssumption DEF Reflects
  <2> HIDE DEF s
  <2>2. HolderOf' = s
    BY <1>1, <2>1, HoldersAfter
  <2> QED
    BY <2>2 DEF s
<1> QED
  BY <1>9, <1>10, <1>11 DEF Forest!Destroy, D

\* A step that moves no thing, but may change what is above the slots, and
\* what they carry.
LEMMA StillAt ==
  ASSUME AtInv, UNCHANGED <<alive, at>>
  PROVE  AtInv'
BY DEF AtInv

LEMMA StillScenes ==
  ASSUME Reflects, Reflects', UNCHANGED <<alive, at>>
  PROVE  SceneOf' = SceneOf
BY DEF SceneOf

LEMMA StillParents ==
  ASSUME Reflects, Reflects', UNCHANGED <<alive, at>>,
         \A r \in Pool : \A j \in alive[r] : Over(r, j)' = Over(r, j)
  PROVE  ParentOf' = ParentOf
<1>1. \A e, d \in Thing : Kin(e, d)' <=> Kin(e, d)
  BY DEF Kin
<1>2. ParentOf \in [Thing -> Thing \cup {None}] /\ \A e, d \in Thing : ParentOf[e] = d <=> Kin(e, d)'
  BY <1>1 DEF Reflects
<1> QED
  BY <1>2, ParentsAfter

LEMMA StillHolders ==
  ASSUME Reflects, Reflects', UNCHANGED <<alive, at>>,
         \A r \in Pool : \A j \in alive[r] : Carried(r, j)' = Carried(r, j)
  PROVE  HolderOf' = HolderOf
<1>1. \A e \in Thing : \A c : Holds(e, c)' <=> Holds(e, c)
  BY DEF Holds
<1>2. HolderOf \in [Component -> Thing \cup {None}]
      /\ \A c \in Component : \A e \in Thing : HolderOf[c] = e <=> Holds(e, c)'
  BY <1>1 DEF Reflects
<1> QED
  BY <1>2, HoldersAfter

LEMMA SetParentSeen ==
  ASSUME Whole, Whole', NEW p \in Pool, NEW i \in Slots, NEW up,
         up = None \/ \E k \in alive[p] : up = IdAt(p, k), SetParent(p, i, up),
         NEW e \in Thing, at[e] = <<p, i>>
  PROVE  Forest!MakeRoot(e) \/ \E d \in Forest!Existing : Forest!SetParent(e, d)
<1>1. Reflects /\ Reflects'
  BY WholeReflects, PTL
<1>2. /\ i \in alive[p] /\ alive' = alive /\ at' = at /\ generations' = generations
      /\ components' = components
      /\ parent_ids' = [parent_ids EXCEPT ![p][i] = IF Alive(p, up) THEN up ELSE None]
  BY DEF SetParent, slotVars, componentVars
<1>3. /\ parent_ids = [r \in Pool |-> parent_ids[r]]
      /\ \A r \in Pool : parent_ids[r] \in [Slots -> EntityId \cup {None}] /\ alive[r] \subseteq Slots
      /\ PoolGood(p) /\ generations[p] \in [Slots -> Nat] /\ -1 \notin Slots
  <2>1. parent_ids = [r \in Pool |-> parent_ids[r]] /\ \A r \in Pool : PoolGood(r)
    BY DEF Whole, ForestInv, OnPools
  <2>2. -1 \notin Slots
    BY MigrationAssumption DEF Slots
  <2> QED
    BY <2>1, <2>2, PoolTyped
<1>4. ~Alive(p, None)
  BY DEF Alive
<1>5. \A k \in alive[p] : /\ IdAt(p, k) = Named(generations[p], k) /\ IdAt(p, k).index = k
                          /\ IdAt(p, k) # None /\ Alive(p, IdAt(p, k))
  <2>1. \A k \in alive[p] : IdAt(p, k) = Named(generations[p], k)
    BY DEF IdAt, Named
  <2>2. \A k \in alive[p] : /\ Named(generations[p], k) \in EntityId
                            /\ Named(generations[p], k).index = k /\ Named(generations[p], k) # None
    BY <1>3, NamedId
  <2> QED
    BY <1>3, <2>1, <2>2, AliveIds
<1> DEFINE o == IF up = None THEN -1 ELSE up.index
<1>6. /\ parent_ids'[p][i] = up
      /\ \A r \in Pool : \A j \in alive[r] : ~(r = p /\ j = i) => parent_ids'[r][j] = parent_ids[r][j]
  <2>1. (IF Alive(p, up) THEN up ELSE None) = up
    BY <1>4, <1>5
  <2> QED
    BY <1>2, <1>3, <2>1
<1>7. Over(p, i)' = o
  BY <1>6 DEF Over, UpOf
<1>8. \A r \in Pool : \A j \in alive[r] : ~(r = p /\ j = i) => Over(r, j)' = Over(r, j)
  BY <1>3, <1>6 DEF Over, UpOf
<1>9. SceneOf' = SceneOf
  BY <1>1, <1>2, StillScenes
<1>10. HolderOf' = HolderOf
  <2>1. \A r \in Pool : \A j \in alive[r] : Carried(r, j)' = Carried(r, j)
    BY <1>2 DEF Carried
  <2> QED
    BY <1>1, <1>2, <2>1, StillHolders
<1>11. ASSUME NEW x \in Thing, x # e, NEW y \in Thing PROVE Kin(x, y)' <=> Kin(x, y)
  <2>1. at[x] # <<p, i>>
    BY <1>2, <1>11, SlotsLive, ThingPlaces DEF Whole
  <2>2. \A r \in Pool : \A j, k \in alive[r] :
          at[x] = <<r, j>> => (Over(r, j)' = k <=> Over(r, j) = k)
    BY <1>8, <2>1
  <2> QED
    BY <1>2, <2>2 DEF Kin
<1>12. \A y \in Thing : Kin(e, y)' <=> o \in alive[p] /\ at[y] = <<p, o>>
  <2>1. \A r \in Pool : \A j \in alive[r] : at[e] = <<r, j>> <=> r = p /\ j = i
    BY <1>2
  <2>2. \A y \in Thing : Kin(e, y)' <=> \E k \in alive[p] : at[y] = <<p, k>> /\ Over(p, i)' = k
    BY <1>2, <2>1 DEF Kin
  <2> QED
    BY <1>7, <2>2
<1> HIDE DEF o
<1>13. ASSUME NEW to \in Thing \cup {None}, \A y \in Thing : Kin(e, y)' <=> to = y
       PROVE  ParentOf' = [ParentOf EXCEPT ![e] = to]
  <2> DEFINE s == [ParentOf EXCEPT ![e] = to]
  <2>1. s \in [Thing -> Thing \cup {None}] /\ s[e] = to /\ \A x \in Thing : x # e => s[x] = ParentOf[x]
    BY <1>1 DEF Reflects
  <2>2. \A x, y \in Thing : ParentOf[x] = y <=> Kin(x, y)
    BY <1>1 DEF Reflects
  <2> HIDE DEF s
  <2>3. \A x, y \in Thing : s[x] = y <=> Kin(x, y)'
    BY <1>11, <1>13, <2>1, <2>2
  <2>4. ParentOf' = s
    BY <1>1, <2>1, <2>3, ParentsAfter
  <2> QED
    BY <2>4 DEF s
<1>14. CASE up = None
  <2>1. o \notin alive[p]
    BY <1>3, <1>14 DEF o
  <2>2. \A y \in Thing : Kin(e, y)' <=> None = y
    BY <1>12, <2>1, NoneAssumption
  <2> QED
    BY <1>9, <1>10, <1>13, <2>2 DEF Forest!MakeRoot
<1>15. ASSUME NEW k \in alive[p], up = IdAt(p, k)
       PROVE  \E d \in Forest!Existing : Forest!SetParent(e, d)
  <2>1. o = k
    BY <1>5, <1>15 DEF o
  <2>2. PICK d \in Thing : at[d] = <<p, k>>
    BY DEF Whole, AtInv
  <2>3. \A y \in Thing : at[y] = <<p, k>> => y = d
    BY <2>2, SlotsLive, ThingPlaces DEF Whole
  <2>4. \A y \in Thing : Kin(e, y)' <=> d = y
    BY <1>12, <2>1, <2>2, <2>3
  <2>5. ParentOf' = [ParentOf EXCEPT ![e] = d]
    BY <1>13, <2>4
  <2>6. SceneOf[d] = p /\ SceneOf[e] = p
    BY <1>2, <2>2, SceneOfPlaced
  <2>7. d \notin Forest!Below(e)
    <3>1. k \notin Subtree(p, i)
      BY <1>5, <1>15 DEF SetParent
    <3>2. k \notin Offspring(p, i)
      BY <1>2, <1>3, <3>1, SubtreeItems
    <3> QED
      BY <1>2, <2>2, <3>2, BelowIsOffspring
  <2>8. d \in Forest!Existing
    BY <2>6, NoneAssumption DEF Forest!Existing
  <2> QED
    BY <1>9, <1>10, <2>5, <2>6, <2>7, <2>8 DEF Forest!SetParent
<1> QED
  BY <1>14, <1>15

LEMMA AddSeen ==
  ASSUME Whole, Whole', NEW p \in Pool, NEW i \in Slots, NEW c \in Component, AddComponent(p, i, c),
         NEW e \in Thing, at[e] = <<p, i>>
  PROVE  Forest!Attach(c, e)
<1>1. Reflects /\ Reflects'
  BY WholeReflects, PTL
<1>2. /\ i \in alive[p] /\ alive' = alive /\ at' = at /\ parent_ids' = parent_ids
      /\ components' = [components EXCEPT ![p][i] = Append(@, c)]
      /\ \A r \in Pool, j \in Slots : c \notin Carried(r, j)
  BY DEF AddComponent, slotVars, treeVars, Attached, Carried
<1>3. \A r \in Pool : alive[r] \subseteq Slots
  BY SlotsLive DEF Whole
<1>4. Carried(p, i)' = Carried(p, i) \cup {c}
      /\ \A r \in Pool : \A j \in alive[r] : ~(r = p /\ j = i) => Carried(r, j)' = Carried(r, j)
  <2>1. components \in [Pool -> [Slots -> Seq(Component)]]
        /\ components[p][i] \in Seq(Component) /\ IsInjective(components[p][i])
    BY Carriers DEF Whole, ComponentInv
  <2>2. ToSet(Append(components[p][i], c)) = ToSet(components[p][i]) \cup {c}
    BY <1>2, <2>1, AppendItems DEF Carried
  <2>3. components'[p][i] = Append(components[p][i], c)
        /\ \A r \in Pool : \A j \in Slots : ~(r = p /\ j = i) => components'[r][j] = components[r][j]
    BY <1>2, <2>1
  <2> QED
    BY <1>3, <2>2, <2>3 DEF Carried
<1>5. SceneOf' = SceneOf
  BY <1>1, <1>2, StillScenes
<1>6. ParentOf' = ParentOf
  <2>1. \A r \in Pool : \A j \in alive[r] : Over(r, j)' = Over(r, j)
    BY <1>2 DEF Over
  <2> QED
    BY <1>1, <1>2, <2>1, StillParents
<1>7. \A x \in Thing : ~Holds(x, c)
  BY <1>2, <1>3 DEF Holds
<1>8. \A x \in Thing : \A d \in Component : Holds(x, d)' <=> Holds(x, d) \/ (x = e /\ d = c)
  <2> SUFFICES ASSUME NEW x \in Thing, NEW d \in Component
               PROVE  Holds(x, d)' <=> Holds(x, d) \/ (x = e /\ d = c)
    OBVIOUS
  <2>1. CASE x = e
    <3>1. \A r \in Pool : \A j \in alive[r] : at[x] = <<r, j>> <=> r = p /\ j = i
      BY <1>2, <2>1
    <3> QED
      BY <1>2, <1>4, <2>1, <3>1 DEF Holds
  <2>2. CASE x # e
    <3>1. at[x] # <<p, i>>
      BY <1>2, <2>2, SlotsLive, ThingPlaces DEF Whole
    <3>2. \A r \in Pool : \A j \in alive[r] : at[x] = <<r, j>> => Carried(r, j)' = Carried(r, j)
      BY <1>4, <3>1
    <3> QED
      BY <1>2, <2>2, <3>2 DEF Holds
  <2> QED
    BY <2>1, <2>2
<1> DEFINE s == [HolderOf EXCEPT ![c] = e]
<1>9. /\ s \in [Component -> Thing \cup {None}] /\ s[c] = e
      /\ \A d \in Component : d # c => s[d] = HolderOf[d]
      /\ HolderOf[c] \in Thing \cup {None}
      /\ \A d \in Component : \A x \in Thing : HolderOf[d] = x <=> Holds(x, d)
  BY <1>1 DEF Reflects
<1> HIDE DEF s
<1>10. \A d \in Component : \A x \in Thing : s[d] = x <=> Holds(x, d)'
  BY <1>7, <1>8, <1>9
<1>11. HolderOf' = s
  BY <1>1, <1>9, <1>10, HoldersAfter
<1>12. HolderOf[c] = None
  BY <1>7, <1>9
<1> QED
  BY <1>5, <1>6, <1>11, <1>12 DEF Forest!Attach, s

LEMMA RemoveSeen ==
  ASSUME Whole, Whole', NEW p \in Pool, NEW i \in Slots, NEW c \in Component, RemoveComponent(p, i, c)
  PROVE  Forest!Detach(c)
<1>1. Reflects /\ Reflects'
  BY WholeReflects, PTL
<1>2. /\ i \in alive[p] /\ alive' = alive /\ at' = at /\ parent_ids' = parent_ids
      /\ components' = [components EXCEPT ![p][i] = SwapRemove(@, c)]
      /\ Contains(components[p][i], c)
  BY DEF RemoveComponent, slotVars, treeVars
<1>3. \A r \in Pool : alive[r] \subseteq Slots
  BY SlotsLive DEF Whole
<1>4. \A r \in Pool : \A j \in alive[r] : Carried(r, j)' = Carried(r, j) \ {c}
  <2>1. components \in [Pool -> [Slots -> Seq(Component)]]
        /\ components[p][i] \in Seq(Component) /\ IsInjective(components[p][i])
    BY Carriers DEF Whole, ComponentInv
  <2>2. ToSet(SwapRemove(components[p][i], c)) = ToSet(components[p][i]) \ {c}
    BY <2>1, SwapRemoveItems
  <2>3. components'[p][i] = SwapRemove(components[p][i], c)
        /\ \A r \in Pool : \A j \in Slots : ~(r = p /\ j = i) => components'[r][j] = components[r][j]
    BY <1>2, <2>1
  <2>4. c \in Carried(p, i)
    BY <1>2, <2>1, ContainsIsMembership DEF Carried
  <2>5. \A r \in Pool, j \in Slots : c \in Carried(r, j) => r = p /\ j = i
    BY <2>4, Carriers DEF Whole
  <2>6. Carried(p, i)' = Carried(p, i) \ {c}
    BY <2>2, <2>3 DEF Carried
  <2>7. \A r \in Pool : \A j \in Slots : ~(r = p /\ j = i) => Carried(r, j)' = Carried(r, j)
    BY <2>3 DEF Carried
  <2> QED
    BY <1>3, <2>5, <2>6, <2>7
<1>5. SceneOf' = SceneOf
  BY <1>1, <1>2, StillScenes
<1>6. ParentOf' = ParentOf
  <2>1. \A r \in Pool : \A j \in alive[r] : Over(r, j)' = Over(r, j)
    BY <1>2 DEF Over
  <2> QED
    BY <1>1, <1>2, <2>1, StillParents
<1>7. \A x \in Thing : \A d \in Component : Holds(x, d)' <=> Holds(x, d) /\ d # c
  BY <1>2, <1>4 DEF Holds
<1> DEFINE s == [HolderOf EXCEPT ![c] = None]
<1>8. /\ s \in [Component -> Thing \cup {None}] /\ s[c] = None
      /\ \A d \in Component : d # c => s[d] = HolderOf[d]
      /\ \A d \in Component : \A x \in Thing : HolderOf[d] = x <=> Holds(x, d)
  BY <1>1 DEF Reflects
<1> HIDE DEF s
<1>9. \A d \in Component : \A x \in Thing : s[d] = x <=> Holds(x, d)'
  BY <1>7, <1>8, NoneAssumption
<1>10. HolderOf' = s
  BY <1>1, <1>8, <1>9, HoldersAfter
<1> QED
  BY <1>5, <1>6, <1>10 DEF Forest!Detach, s

\* What migration does: what is at the slots T goes to slots m of pool q.
MovesAt(p, i, q, T, m) ==
  /\ p # q /\ i \in T /\ T \subseteq alive[p]
  /\ \A j \in alive[p] : Over(p, j) \in T => j \in T
  /\ \A j \in T : m[j] \in Slots /\ m[j] \notin alive[q]
  /\ \A j, k \in T : m[j] = m[k] => j = k
  /\ alive' = [alive EXCEPT ![p] = @ \ T, ![q] = @ \cup { m[j] : j \in T }]
  /\ at' = [d \in Thing |-> IF \E j \in T : at[d] = <<p, j>> THEN <<q, m[at[d][2]]>> ELSE at[d]]
  /\ \A j \in T : Carried(q, m[j])' = Carried(p, j)
  /\ Over(q, m[i])' = -1
  /\ \A j \in T : j # i => Over(p, j) \in T /\ Over(q, m[j])' = m[Over(p, j)]
  /\ \A r \in Pool : \A j \in alive[r] :
       ~(r = p /\ j \in T) => Over(r, j)' = Over(r, j) /\ Carried(r, j)' = Carried(r, j)

LEMMA MoveEffect ==
  ASSUME Whole, NEW p \in Pool, NEW i \in Slots, NEW q \in Pool, Migrate(p, i, q)
  PROVE  \E T \in SUBSET Slots : \E m \in [T -> Slots] : T = Offspring(p, i) /\ MovesAt(p, i, q, T, m)
<1>1. p # q /\ i \in alive[p] /\ Len(Preorder(p, i)) <= Len(free_stack[q])
  BY DEF Migrate
<1>2. \A r \in Pool : PoolGood(r) /\ alive[r] \subseteq Slots
  BY SlotsLive DEF Whole, ForestInv
<1>3. Subtree(p, i) = Offspring(p, i)
  BY <1>1, <1>2, SubtreeItems
<1>4. /\ i \in Offspring(p, i) /\ Offspring(p, i) \subseteq alive[p]
      /\ \A v \in alive[p] : Over(p, v) \in Offspring(p, i) => v \in Offspring(p, i)
  BY <1>1, DownClosed DEF Offspring, Over
<1>5. /\ \A j \in Offspring(p, i) : Image(p, i, q, j) \in Slots /\ Image(p, i, q, j) \notin alive[q]
      /\ \A j, k \in Offspring(p, i) : Image(p, i, q, j) = Image(p, i, q, k) => j = k
      /\ \A j \in Offspring(p, i) : Original(p, i, q, Image(p, i, q, j)) = j
  BY <1>1, <1>2, ImageItems
<1> PICK T \in SUBSET Slots : T = Offspring(p, i)
  BY <1>2, <1>4
<1> PICK m \in [T -> Slots] : \A j \in T : m[j] = Image(p, i, q, j)
  <2> DEFINE f == [j \in T |-> Image(p, i, q, j)]
  <2>1. f \in [T -> Slots] /\ \A j \in T : f[j] = Image(p, i, q, j)
    BY <1>5
  <2> HIDE DEF f
  <2> QED
    BY <2>1
<1>6. /\ i \in T /\ T \subseteq alive[p] /\ \A j \in alive[p] : Over(p, j) \in T => j \in T
      /\ \A j \in T : m[j] \in Slots /\ m[j] \notin alive[q] /\ Original(p, i, q, m[j]) = j
      /\ \A j, k \in T : m[j] = m[k] => j = k
  BY <1>4, <1>5
<1> DEFINE I == { m[j] : j \in T }
<1>7. { Image(p, i, q, j) : j \in Subtree(p, i) } = I
  BY <1>3
<1>8. /\ alive' = [alive EXCEPT ![p] = @ \ T, ![q] = @ \cup I]
      /\ parent_ids' = [parent_ids EXCEPT ![q] = ImageParents(p, i, q, I)]
      /\ components' = [components EXCEPT
           ![p] = [j \in Slots |-> IF j \in T THEN <<>> ELSE @[j]],
           ![q] = [j \in Slots |-> IF j \in I THEN components[p][Original(p, i, q, j)] ELSE @[j]]]
      /\ at' = [d \in Thing |->
           IF \E j \in T : at[d] = <<p, j>> THEN <<q, Image(p, i, q, at[d][2])>> ELSE at[d]]
  <2> HIDE DEF I
  <2>1. alive' = [alive EXCEPT ![p] = @ \ T, ![q] = @ \cup I]
    BY <1>3, <1>7 DEF Migrate
  <2>2. parent_ids' = [parent_ids EXCEPT ![q] = ImageParents(p, i, q, I)]
    BY <1>7 DEF Migrate
  <2>3. components' = [components EXCEPT
           ![p] = [j \in Slots |-> IF j \in T THEN <<>> ELSE @[j]],
           ![q] = [j \in Slots |-> IF j \in I THEN components[p][Original(p, i, q, j)] ELSE @[j]]]
    BY <1>3, <1>7 DEF Migrate
  <2>4. at' = [d \in Thing |->
           IF \E j \in T : at[d] = <<p, j>> THEN <<q, Image(p, i, q, at[d][2])>> ELSE at[d]]
    BY <1>3 DEF Migrate
  <2> QED
    BY <2>1, <2>2, <2>3, <2>4
<1>9. at' = [d \in Thing |-> IF \E j \in T : at[d] = <<p, j>> THEN <<q, m[at[d][2]]>> ELSE at[d]]
  <2>1. \A d \in Thing : (\E j \in T : at[d] = <<p, j>>) => Image(p, i, q, at[d][2]) = m[at[d][2]]
    OBVIOUS
  <2> QED
    BY <1>8, <2>1
<1>10. /\ \A j \in T : m[j] \in I
       /\ \A r \in Pool : \A j \in alive[r] : r = q => j \notin I
  BY <1>6
<1> HIDE DEF I
<1>11. /\ parent_ids = [r \in Pool |-> parent_ids[r]] /\ components \in [Pool -> [Slots -> Seq(Component)]]
  BY DEF Whole, ForestInv, OnPools, ComponentInv
<1>12. /\ parent_ids'[q] = ImageParents(p, i, q, I)
       /\ \A r \in Pool : r # q => parent_ids'[r] = parent_ids[r]
       /\ components'[p] = [j \in Slots |-> IF j \in T THEN <<>> ELSE components[p][j]]
       /\ components'[q] = [j \in Slots |-> IF j \in I THEN components[p][Original(p, i, q, j)]
                                            ELSE components[q][j]]
       /\ \A r \in Pool : r # p /\ r # q => components'[r] = components[r]
  BY <1>1, <1>8, <1>11
<1>13. \A j \in Slots \ I : parent_ids'[q][j] = parent_ids[q][j] /\ components'[q][j] = components[q][j]
  BY <1>12 DEF ImageParents
<1>14. \A j \in Slots \ T : components'[p][j] = components[p][j]
  BY <1>12
<1>15. \A j \in T : /\ components'[q][m[j]] = components[p][j]
                    /\ parent_ids'[q][m[j]] = IF j = i THEN None
                                              ELSE IdAt(q, Image(p, i, q, parent_ids[p][j].index))
  BY <1>6, <1>10, <1>12 DEF ImageParents
<1>16. \A j \in T : Carried(q, m[j])' = Carried(p, j)
  BY <1>15 DEF Carried
<1>17. \A r \in Pool : \A j \in Slots : Over(r, j)' = IF parent_ids'[r][j] = None THEN -1
                                                      ELSE parent_ids'[r][j].index
  BY DEF Over, UpOf
<1>18. \A r \in Pool : \A j \in Slots : Over(r, j) = IF parent_ids[r][j] = None THEN -1
                                                     ELSE parent_ids[r][j].index
  BY DEF Over, UpOf
<1>19. Over(q, m[i])' = -1
  BY <1>6, <1>15, <1>17
<1>20. ASSUME NEW j \in T, j # i
       PROVE  Over(p, j) \in T /\ Over(q, m[j])' = m[Over(p, j)]
  <2>1. Over(p, j) \in T
    BY <1>1, <1>20, DownParents DEF Offspring, Over
  <2>2. Over(p, j) # -1 /\ j \in alive[p]
    BY <1>2, <1>6, <2>1, MigrationAssumption DEF Slots
  <2>3. parent_ids[p][j].index = Over(p, j)
    BY <1>2, <2>2, OverLiving
  <2>4. parent_ids'[q][m[j]] = IdAt(q, m[Over(p, j)])
    BY <1>15, <1>20, <2>1, <2>3
  <2>5. IdAt(q, m[Over(p, j)]) # None /\ IdAt(q, m[Over(p, j)]).index = m[Over(p, j)]
    <3>1. generations[q] \in [Slots -> Nat] /\ m[Over(p, j)] \in Slots
      BY <1>2, <2>1, PoolTyped
    <3>2. IdAt(q, m[Over(p, j)]) = Named(generations[q], m[Over(p, j)])
      BY DEF IdAt, Named
    <3> QED
      BY <3>1, <3>2, NamedId
  <2> QED
    BY <1>6, <1>17, <2>1, <2>4, <2>5
<1>21. ASSUME NEW r \in Pool, NEW j \in alive[r], ~(r = p /\ j \in T)
       PROVE  Over(r, j)' = Over(r, j) /\ Carried(r, j)' = Carried(r, j)
  <2>1. j \in Slots /\ (r = q => j \notin I)
    BY <1>2, <1>10
  <2>2. parent_ids'[r][j] = parent_ids[r][j]
    BY <1>12, <1>13, <2>1
  <2>3. components'[r][j] = components[r][j]
    BY <1>12, <1>13, <1>14, <1>21, <2>1
  <2> QED
    BY <1>17, <1>18, <2>1, <2>2, <2>3 DEF Carried
<1>22. alive' = [alive EXCEPT ![p] = @ \ T, ![q] = @ \cup { m[j] : j \in T }]
  BY <1>8 DEF I
<1>23. MovesAt(p, i, q, T, m)
  BY <1>1, <1>6, <1>9, <1>16, <1>19, <1>20, <1>21, <1>22 DEF MovesAt
<1> QED
  BY <1>23

\* Where things and occupied slots are afterwards.
Moved(p, q, T, m) ==
  /\ \A d \in Thing : \A j \in T : at[d] = <<p, j>> => at'[d] = <<q, m[j]>> /\ m[j] \in alive'[q]
  /\ \A d \in Thing : d \notin ThingsAt(p, T) => at'[d] = at[d]
  /\ \A r \in Pool : \A j \in alive[r] : ~(r = p /\ j \in T) => j \in alive'[r]
  /\ \A r \in Pool : \A j \in alive'[r] :
       j \in Slots /\ (j \in alive[r] \/ (r = q /\ \E k \in T : j = m[k]))

LEMMA MoveAt ==
  ASSUME Whole, NEW p \in Pool, NEW i, NEW q \in Pool, NEW T, NEW m, MovesAt(p, i, q, T, m)
  PROVE  AtInv' /\ Moved(p, q, T, m)
<1>1. /\ alive = [r \in Pool |-> alive[r]]
      /\ \A r \in Pool : alive[r] \subseteq Slots /\ \A j \in Slots : <<r, j>> # None
  BY SlotsLive, NoneAssumption DEF Whole, ForestInv, OnPools
<1>2. /\ at = [d \in Thing |-> at[d]]
      /\ \A d \in Thing : at[d] = None \/ \E r \in Pool : \E j \in alive[r] : at[d] = <<r, j>>
      /\ \A r \in Pool : \A j \in alive[r] : \E d \in Thing : at[d] = <<r, j>>
      /\ \A d, x \in Thing : at[d] = at[x] => d = x \/ at[d] = None
  BY DEF Whole, AtInv
<1>3. /\ p # q /\ T \subseteq alive[p]
      /\ \A j \in T : m[j] \in Slots /\ m[j] \notin alive[q]
      /\ \A j, k \in T : m[j] = m[k] => j = k
      /\ alive' = [alive EXCEPT ![p] = @ \ T, ![q] = @ \cup { m[j] : j \in T }]
      /\ at' = [d \in Thing |-> IF \E j \in T : at[d] = <<p, j>> THEN <<q, m[at[d][2]]>> ELSE at[d]]
  BY DEF MovesAt
<1>4. /\ alive'[p] = alive[p] \ T /\ alive'[q] = alive[q] \cup { m[j] : j \in T }
      /\ \A r \in Pool : r # p /\ r # q => alive'[r] = alive[r]
  BY <1>1, <1>3
<1>5. \A r \in Pool : \A j \in alive[r] : ~(r = p /\ j \in T) => j \in alive'[r]
  BY <1>4
<1>6. \A j \in T : m[j] \in alive'[q]
  BY <1>4
<1>7. \A r \in Pool : \A j \in alive'[r] :
        j \in Slots /\ ((j \in alive[r] /\ ~(r = p /\ j \in T)) \/ (r = q /\ \E k \in T : j = m[k]))
  BY <1>1, <1>3, <1>4
<1>8. \A d \in Thing : \A j \in T : at[d] = <<p, j>> => at'[d] = <<q, m[j]>>
  BY <1>3
<1>9. \A d \in Thing : d \notin ThingsAt(p, T) => at'[d] = at[d]
  BY <1>3 DEF ThingsAt
<1>10. \A d \in Thing : \A r \in Pool : \A j : at[d] = <<r, j>> => (d \in ThingsAt(p, T) <=> r = p /\ j \in T)
  BY DEF ThingsAt
<1>11. \A d \in ThingsAt(p, T) : d \in Thing /\ \E j \in T : at[d] = <<p, j>>
  BY DEF ThingsAt
<1>12. at' = [d \in Thing |-> at'[d]]
  BY <1>3
<1>13. ASSUME NEW d \in Thing
       PROVE  at'[d] = None \/ \E r \in Pool : \E j \in alive'[r] : at'[d] = <<r, j>>
  <2>1. CASE d \in ThingsAt(p, T)
    BY <1>6, <1>8, <1>11, <2>1
  <2>2. ASSUME d \notin ThingsAt(p, T), NEW r \in Pool, NEW j \in alive[r], at[d] = <<r, j>>
        PROVE  \E s \in Pool : \E k \in alive'[s] : at'[d] = <<s, k>>
    <3>1. j \in alive'[r] /\ at'[d] = <<r, j>>
      BY <1>5, <1>9, <1>10, <2>2
    <3> QED
      BY <3>1
  <2> QED
    BY <1>2, <1>9, <2>1, <2>2
<1>14. ASSUME NEW r \in Pool, NEW j \in alive'[r] PROVE \E d \in Thing : at'[d] = <<r, j>>
  <2>1. CASE j \in alive[r] /\ ~(r = p /\ j \in T)
    <3>1. PICK d \in Thing : at[d] = <<r, j>>
      BY <1>2, <2>1
    <3>2. d \notin ThingsAt(p, T)
      BY <1>10, <2>1, <3>1
    <3> QED
      BY <1>9, <3>1, <3>2
  <2>2. ASSUME r = q, NEW k \in T, j = m[k] PROVE \E d \in Thing : at'[d] = <<r, j>>
    <3>1. PICK d \in Thing : at[d] = <<p, k>>
      BY <1>2, <1>3
    <3> QED
      BY <1>8, <2>2, <3>1
  <2> QED
    BY <1>7, <2>1, <2>2
<1>15. ASSUME NEW d \in Thing, NEW x \in Thing, at'[d] = at'[x] PROVE d = x \/ at'[d] = None
  <2>1. CASE d \in ThingsAt(p, T) /\ x \in ThingsAt(p, T)
    <3>1. PICK j \in T : at[d] = <<p, j>>
      BY <1>11, <2>1
    <3>2. PICK k \in T : at[x] = <<p, k>>
      BY <1>11, <2>1
    <3>3. j = k
      BY <1>3, <1>8, <1>15, <3>1, <3>2
    <3>4. at[d] # None
      BY <1>1, <1>3, <3>1
    <3> QED
      BY <1>2, <3>1, <3>2, <3>3, <3>4
  <2>2. ASSUME NEW y \in ThingsAt(p, T), NEW z \in Thing, z \notin ThingsAt(p, T), at'[y] = at'[z]
        PROVE  FALSE
    <3>1. PICK j \in T : at[y] = <<p, j>>
      BY <1>11
    <3>2. at[z] = <<q, m[j]>> /\ at[z] # None
      BY <1>1, <1>3, <1>8, <1>9, <1>11, <2>2, <3>1
    <3>3. m[j] \in alive[q]
      BY <1>2, <3>2
    <3> QED
      BY <1>3, <3>3
  <2>3. CASE d \notin ThingsAt(p, T) /\ x \notin ThingsAt(p, T)
    BY <1>2, <1>9, <1>15, <2>3
  <2> QED
    BY <1>15, <2>1, <2>2, <2>3
<1>16. AtInv'
  BY <1>12, <1>13, <1>14, <1>15 DEF AtInv
<1> QED
  BY <1>5, <1>6, <1>7, <1>8, <1>9, <1>16 DEF Moved

LEMMA MoveSeen ==
  ASSUME Whole, Whole', NEW p \in Pool, NEW i, NEW q \in Pool, NEW T, NEW m,
         T = Offspring(p, i), MovesAt(p, i, q, T, m), NEW e \in Thing, at[e] = <<p, i>>
  PROVE  Forest!Move(e, q)
<1> DEFINE B == ThingsAt(p, T)
<1>1. Reflects /\ Reflects'
  BY WholeReflects, PTL
<1>2. /\ p # q /\ i \in T /\ T \subseteq alive[p]
      /\ \A j \in alive[p] : Over(p, j) \in T => j \in T
      /\ \A j \in T : m[j] \in Slots /\ m[j] \notin alive[q]
      /\ \A j, k \in T : m[j] = m[k] => j = k
      /\ \A j \in T : Carried(q, m[j])' = Carried(p, j)
      /\ Over(q, m[i])' = -1
      /\ \A j \in T : j # i => Over(p, j) \in T /\ Over(q, m[j])' = m[Over(p, j)]
      /\ \A r \in Pool : \A j \in alive[r] :
           ~(r = p /\ j \in T) => Over(r, j)' = Over(r, j) /\ Carried(r, j)' = Carried(r, j)
  BY DEF MovesAt
<1>3. /\ \A d \in Thing : \A j \in T : at[d] = <<p, j>> => at'[d] = <<q, m[j]>> /\ m[j] \in alive'[q]
      /\ \A d \in Thing : d \notin B => at'[d] = at[d]
      /\ \A r \in Pool : \A j \in alive[r] : ~(r = p /\ j \in T) => j \in alive'[r]
      /\ \A r \in Pool : \A j \in alive'[r] :
           j \in Slots /\ (j \in alive[r] \/ (r = q /\ \E k \in T : j = m[k]))
  <2>1. Moved(p, q, T, m)
    BY MoveAt
  <2> QED
    BY <2>1 DEF Moved
<1>4. /\ \A d \in Thing : \A r, j : at[d] = <<r, j>> => (d \in B <=> r = p /\ j \in T)
      /\ \A d \in B : d \in Thing /\ \E j \in T : at[d] = <<p, j>>
  BY DEF ThingsAt
<1>5. /\ \A d \in Thing : at[d] = None \/ \E r \in Pool : \E j \in alive[r] : at[d] = <<r, j>>
      /\ \A r \in Pool : \A j \in Slots : <<r, j>> # None
      /\ \A r \in Pool : alive[r] \subseteq Slots
      /\ -1 \notin Slots
  BY SlotsLive, NoneAssumption, MigrationAssumption DEF Whole, AtInv, Slots
<1>6. \A d \in Thing : at[d] = <<p, i>> => d = e
  BY <1>2, SlotsLive, ThingPlaces DEF Whole
<1>7. \A r \in Pool : \A j \in alive[r] : Over(r, j) = -1 \/ Over(r, j) \in alive[r]
  BY OverLiving DEF Whole, ForestInv
<1> HIDE DEF B
\* A thing that is not moved is where it was.
<1>8. \A d \in Thing : d \notin B => \A r \in Pool : \A j :
        j \in alive'[r] /\ at'[d] = <<r, j>> <=> j \in alive[r] /\ at[d] = <<r, j>>
  <2> SUFFICES ASSUME NEW d \in Thing, d \notin B, NEW r \in Pool, NEW j
               PROVE  j \in alive'[r] /\ at[d] = <<r, j>> <=> j \in alive[r] /\ at[d] = <<r, j>>
    BY <1>3
  <2>1. ASSUME j \in alive'[r], at[d] = <<r, j>> PROVE j \in alive[r]
    <3>1. at[d] # None
      BY <1>3, <1>5, <2>1
    <3> QED
      BY <1>5, <2>1, <3>1
  <2>2. ASSUME j \in alive[r], at[d] = <<r, j>> PROVE j \in alive'[r]
    BY <1>3, <1>4, <2>2
  <2> QED
    BY <2>1, <2>2
\* A thing that is moved from slot j is at slot m[j] of q.
<1>9. \A d \in Thing : \A j \in T : at[d] = <<p, j>> => \A r \in Pool : \A k :
        k \in alive'[r] /\ at'[d] = <<r, k>> <=> r = q /\ k = m[j]
  BY <1>3
<1>10. ASSUME NEW d \in Thing
       PROVE  /\ \A r \in Pool : Placed(d, r)' <=> IF d \in B THEN r = q ELSE Placed(d, r)
              /\ \A c : Holds(d, c)' <=> Holds(d, c)
  <2>1. ASSUME NEW j \in T, at[d] = <<p, j>>
        PROVE  /\ \A r \in Pool : Placed(d, r)' <=> IF d \in B THEN r = q ELSE Placed(d, r)
               /\ \A c : Holds(d, c)' <=> Holds(d, c)
    <3>1. d \in B /\ j \in alive[p]
      BY <1>2, <1>4, <2>1
    <3>2. \A r \in Pool : Placed(d, r)' <=> r = q
      BY <1>3, <1>9, <2>1 DEF Placed
    <3>3. \A c : Holds(d, c)' <=> c \in Carried(q, m[j])'
      BY <1>3, <1>9, <2>1 DEF Holds
    <3>4. \A c : Holds(d, c) <=> c \in Carried(p, j)
      BY <2>1, <3>1 DEF Holds
    <3> QED
      BY <1>2, <3>1, <3>2, <3>3, <3>4
  <2>2. CASE d \notin B
    <3>1. \A r \in Pool : Placed(d, r)' <=> Placed(d, r)
      BY <1>8, <2>2 DEF Placed
    <3>2. \A r \in Pool : \A j \in alive[r] : at[d] = <<r, j>> => Carried(r, j)' = Carried(r, j)
      BY <1>2, <1>4, <2>2
    <3>3. \A c : Holds(d, c)' <=> Holds(d, c)
      BY <1>8, <2>2, <3>2 DEF Holds
    <3> QED
      BY <2>2, <3>1, <3>3
  <2> QED
    BY <1>4, <2>1, <2>2
<1>11. ASSUME NEW x \in Thing, NEW y \in Thing, Kin(x, y), x # e PROVE Kin(x, y)'
  <2>1. PICK r \in Pool : \E j, k \in alive[r] : at[x] = <<r, j>> /\ at[y] = <<r, k>> /\ Over(r, j) = k
    BY <1>11 DEF Kin
  <2>2. PICK j \in alive[r], k \in alive[r] : at[x] = <<r, j>> /\ at[y] = <<r, k>> /\ Over(r, j) = k
    BY <2>1
  <2>3. CASE r = p /\ j \in T
    <3>1. j # i
      BY <1>6, <1>11, <2>2, <2>3
    <3>2. k \in T /\ Over(q, m[j])' = m[k]
      BY <1>2, <2>2, <2>3, <3>1
    <3>3. /\ at'[x] = <<q, m[j]>> /\ m[j] \in alive'[q]
          /\ at'[y] = <<q, m[k]>> /\ m[k] \in alive'[q]
      BY <1>3, <2>2, <2>3, <3>2
    <3> QED
      BY <3>2, <3>3 DEF Kin
  <2>4. CASE ~(r = p /\ j \in T)
    <3>1. ~(r = p /\ k \in T)
      BY <1>2, <2>2, <2>4
    <3>2. x \notin B /\ y \notin B
      BY <1>4, <2>2, <2>4, <3>1
    <3>3. Over(r, j)' = k
      BY <1>2, <2>2, <2>4
    <3>4. j \in alive'[r] /\ k \in alive'[r] /\ at'[x] = <<r, j>> /\ at'[y] = <<r, k>>
      BY <1>8, <2>2, <3>2
    <3> QED
      BY <3>3, <3>4 DEF Kin
  <2> QED
    BY <2>3, <2>4
<1>12. ASSUME NEW x \in Thing, NEW y \in Thing, Kin(x, y)' PROVE Kin(x, y) /\ x # e
  <2>1. PICK r \in Pool : \E j, k \in alive'[r] : at'[x] = <<r, j>> /\ at'[y] = <<r, k>> /\ Over(r, j)' = k
    BY <1>12 DEF Kin
  <2>2. PICK j \in alive'[r], k \in alive'[r] : at'[x] = <<r, j>> /\ at'[y] = <<r, k>> /\ Over(r, j)' = k
    BY <2>1
  <2>3. k \in Slots /\ k # -1
    BY <1>3, <1>5, <2>2
  <2>4. ASSUME NEW jj \in T, at[x] = <<p, jj>> PROVE Kin(x, y) /\ x # e
    <3>1. r = q /\ j = m[jj]
      BY <1>9, <2>2, <2>4
    <3>2. jj # i
      BY <1>2, <2>2, <2>3, <3>1
    <3>3. Over(p, jj) \in T /\ k = m[Over(p, jj)]
      BY <1>2, <2>2, <3>1, <3>2
    <3>4. x # e
      BY <2>4, <3>2
    <3>5. y \in B
      BY <1>2, <1>8, <2>2, <3>1, <3>3
    <3>6. PICK kk \in T : at[y] = <<p, kk>>
      BY <1>4, <3>5
    <3>7. k = m[kk]
      BY <1>9, <2>2, <3>6
    <3>8. kk = Over(p, jj)
      BY <1>2, <3>3, <3>6, <3>7
    <3> QED
      BY <1>2, <2>4, <3>4, <3>6, <3>8 DEF Kin
  <2>5. CASE x \notin B
    <3>1. j \in alive[r] /\ at[x] = <<r, j>>
      BY <1>8, <2>2, <2>5
    <3>2. ~(r = p /\ j \in T)
      BY <1>4, <2>5, <3>1
    <3>3. Over(r, j) = k /\ k \in alive[r]
      BY <1>2, <1>7, <2>2, <2>3, <3>1, <3>2
    <3>4. y \notin B
      <4> SUFFICES ASSUME y \in B PROVE FALSE
        OBVIOUS
      <4>1. PICK kk \in T : at[y] = <<p, kk>>
        BY <1>4
      <4>2. r = q /\ k = m[kk]
        BY <1>9, <2>2, <4>1
      <4> QED
        BY <1>2, <3>3, <4>1, <4>2
    <3>5. at[y] = <<r, k>>
      BY <1>8, <2>2, <3>4
    <3>6. x # e
      BY <1>2, <1>4, <2>5
    <3> QED
      BY <3>1, <3>3, <3>5, <3>6 DEF Kin
  <2> QED
    BY <1>4, <2>4, <2>5
<1>13. i \in alive[p] /\ Forest!Below(e) = B
  <2>1. i \in alive[p]
    BY <1>2
  <2>2. Forest!Below(e) = { d \in Thing : \E k \in Offspring(p, i) : at[d] = <<p, k>> }
    BY <2>1, BelowIsOffspring
  <2> QED
    BY <2>1, <2>2 DEF B, ThingsAt
<1>14. SceneOf' = [d \in Thing |-> IF d \in B THEN q ELSE SceneOf[d]]
  <2> DEFINE s == [d \in Thing |-> IF d \in B THEN q ELSE SceneOf[d]]
  <2>1. /\ s \in [Thing -> Pool \cup {None}]
        /\ \A d \in Thing : \A r \in Pool : s[d] = r <=> Placed(d, r)'
    BY <1>1, <1>10 DEF Reflects
  <2> HIDE DEF s
  <2>2. SceneOf' = s
    BY <1>1, <2>1, ScenesAfter
  <2> QED
    BY <2>2 DEF s
<1>15. ParentOf' = [ParentOf EXCEPT ![e] = None]
  <2> DEFINE s == [ParentOf EXCEPT ![e] = None]
  <2>1. s \in [Thing -> Thing \cup {None}] /\ s[e] = None /\ \A x \in Thing : x # e => s[x] = ParentOf[x]
    BY <1>1 DEF Reflects
  <2>2. \A x, y \in Thing : ParentOf[x] = y <=> Kin(x, y)
    BY <1>1 DEF Reflects
  <2> HIDE DEF s
  <2>3. \A x, y \in Thing : s[x] = y <=> Kin(x, y)'
    BY <1>11, <1>12, <2>1, <2>2, NoneAssumption
  <2>4. ParentOf' = s
    BY <1>1, <2>1, <2>3, ParentsAfter
  <2> QED
    BY <2>4 DEF s
<1>16. HolderOf' = HolderOf
  <2>1. HolderOf \in [Component -> Thing \cup {None}]
        /\ \A c \in Component : \A d \in Thing : HolderOf[c] = d <=> Holds(d, c)'
    BY <1>1, <1>10 DEF Reflects
  <2> QED
    BY <1>1, <2>1, HoldersAfter
<1> QED
  BY <1>13, <1>14, <1>15, <1>16 DEF Forest!Move

LEMMA InitAt == Init => AtInv
BY DEF Init, AtInv

LEMMA NextAt ==
  ASSUME Whole, [Next]_vars
  PROVE  AtInv'
<1>1. ASSUME UNCHANGED <<alive, at>> PROVE AtInv'
  BY <1>1, StillAt DEF Whole
<1>2. CASE UNCHANGED vars
  BY <1>1, <1>2 DEF vars, slotVars
<1>3. ASSUME NEW p \in Pool, NEW e \in Thing, Create(p, e) PROVE AtInv'
  <2>1. PICK i \in Slots : CreatesAt(p, e, i)
    BY <1>3, CreateEffect
  <2> QED
    BY <2>1, CreateAt
<1>4. ASSUME NEW p \in Pool, NEW i \in Slots, Free(p, i) PROVE AtInv'
  <2>1. ToSet(<<i>>) \subseteq alive[p] /\ FreeAll(p, <<i>>)
    BY <1>4, OneSlot DEF Free
  <2>2. Frees(p, ToSet(<<i>>))
    BY <2>1, FreeEffect
  <2> QED
    BY <2>2, FreeAt
<1>5. ASSUME NEW p \in Pool, NEW i \in Slots, DestroyChildren(p, i) PROVE AtInv'
  <2>1. PoolGood(p) /\ i \in alive[p] /\ FreeAll(p, Front(Postorder(p, i)))
    BY <1>5 DEF Whole, ForestInv, DestroyChildren
  <2>2. ToSet(Front(Postorder(p, i))) \subseteq alive[p]
    BY <2>1, SubtreeItems, DownClosed DEF Offspring
  <2>3. Frees(p, ToSet(Front(Postorder(p, i))))
    BY <2>1, <2>2, FreeEffect
  <2> QED
    BY <2>3, FreeAt
<1>6. ASSUME NEW p \in Pool, NEW i \in Slots, NEW up, SetParent(p, i, up) PROVE AtInv'
  BY <1>1, <1>6 DEF SetParent, slotVars
<1>7. ASSUME NEW p \in Pool, NEW i \in Slots, NEW c \in Component,
             AddComponent(p, i, c) \/ RemoveComponent(p, i, c)
      PROVE  AtInv'
  BY <1>1, <1>7 DEF AddComponent, RemoveComponent, slotVars
<1>8. ASSUME NEW p \in Pool, NEW i \in Slots, NEW q \in Pool, Migrate(p, i, q) PROVE AtInv'
  <2>1. PICK T \in SUBSET Slots : \E m \in [T -> Slots] : MovesAt(p, i, q, T, m)
    BY <1>8, MoveEffect
  <2>2. PICK m \in [T -> Slots] : MovesAt(p, i, q, T, m)
    BY <2>1
  <2> QED
    BY <2>2, MoveAt
<1> QED
  BY <1>2, <1>3, <1>4, <1>5, <1>6, <1>7, <1>8 DEF Next

LEMMA WholeStays == Spec => []Whole
<1>1. Init => Whole
  BY InitForest, InitComponents, InitAt DEF Whole
<1>2. Whole /\ [Next]_vars => Whole'
  BY NextForest, NextComponents, NextAt DEF Whole
<1> QED
  BY <1>1, <1>2, PTL DEF Spec

LEMMA InitSeen == Init => Forest!Init
<1> SUFFICES ASSUME Init PROVE Forest!Init
  OBVIOUS
<1>1. \A e \in Thing : at[e] = None
  BY DEF Init
<1>2. SceneOf = [e \in Thing |-> None]
  BY <1>1 DEF SceneOf
<1>3. ParentOf = [e \in Thing |-> None]
  BY <1>1 DEF ParentOf
<1>4. HolderOf = [c \in Component |-> None]
  BY <1>1 DEF HolderOf
<1> QED
  BY <1>2, <1>3, <1>4 DEF Forest!Init

LEMMA NextSeen ==
  ASSUME Whole, Whole', [Next]_vars
  PROVE  [Forest!Next]_(Forest!forest)
<1>1. ASSUME NEW p \in Pool, NEW i \in alive[p]
      PROVE  \E e \in Thing : at[e] = <<p, i>> /\ e \in Forest!Existing /\ SceneOf[e] = p
  <2>1. PICK e \in Thing : at[e] = <<p, i>>
    BY DEF Whole, AtInv
  <2>2. SceneOf[e] = p
    BY <2>1, SceneOfPlaced
  <2> QED
    BY <2>1, <2>2, NoneAssumption DEF Forest!Existing
<1>2. CASE UNCHANGED vars
  <2>1. SceneOf' = SceneOf /\ ParentOf' = ParentOf /\ HolderOf' = HolderOf
    BY <1>2 DEF vars, slotVars, treeVars, componentVars, SceneOf, ParentOf, HolderOf, Alive, ThingAt
  <2> QED
    BY <2>1 DEF Forest!forest
<1>3. ASSUME NEW p \in Pool, NEW e \in Thing, Create(p, e) PROVE Forest!Next
  <2>1. PICK i \in Slots : CreatesAt(p, e, i)
    BY <1>3, CreateEffect
  <2>2. Forest!Create(e, p)
    BY <2>1, CreateSeen
  <2> QED
    BY <2>2 DEF Forest!Next
<1>4. ASSUME NEW p \in Pool, NEW i \in Slots, Free(p, i) PROVE Forest!Next
  <2>1. ToSet(<<i>>) = {i} /\ i \in alive[p] /\ FreeAll(p, <<i>>)
    BY <1>4, OneSlot DEF Free
  <2>2. Frees(p, ToSet(<<i>>))
    BY <2>1, FreeEffect
  <2>3. Forest!Destroy(ThingsAt(p, {i}))
    BY <2>1, <2>2, FreeSeen
  <2>4. PICK e \in Forest!Existing : e \in Thing /\ at[e] = <<p, i>>
    BY <1>1, <2>1
  <2>5. ThingsAt(p, {i}) = {e}
    BY <2>1, <2>4, SlotsLive, ThingPlaces DEF ThingsAt, Whole
  <2> QED
    BY <2>3, <2>4, <2>5 DEF Forest!Next
<1>5. ASSUME NEW p \in Pool, NEW i \in Slots, DestroyChildren(p, i) PROVE Forest!Next
  <2>1. PoolGood(p) /\ i \in alive[p] /\ FreeAll(p, Front(Postorder(p, i)))
    BY <1>5 DEF Whole, ForestInv, DestroyChildren
  <2>2. ToSet(Front(Postorder(p, i))) = Offspring(p, i) \ {i} /\ Offspring(p, i) \subseteq alive[p]
    BY <2>1, SubtreeItems, DownClosed DEF Offspring
  <2>3. Frees(p, ToSet(Front(Postorder(p, i))))
    BY <2>1, <2>2, FreeEffect
  <2>4. Forest!Destroy(ThingsAt(p, Offspring(p, i) \ {i}))
    BY <2>2, <2>3, FreeSeen
  <2>5. PICK e \in Forest!Existing : e \in Thing /\ at[e] = <<p, i>>
    BY <1>1, <2>1
  <2>6. Forest!Below(e) = { d \in Thing : \E k \in Offspring(p, i) : at[d] = <<p, k>> }
    BY <2>1, <2>5, BelowIsOffspring
  <2>7. \A d \in Thing : at[d] = <<p, i>> <=> d = e
    BY <2>1, <2>5, SlotsLive, ThingPlaces DEF Whole
  <2>8. ThingsAt(p, Offspring(p, i) \ {i}) = Forest!Below(e) \ {e}
    BY <2>5, <2>6, <2>7 DEF ThingsAt
  <2> QED
    BY <2>4, <2>5, <2>8 DEF Forest!Next
<1>6. ASSUME NEW p \in Pool, NEW i \in Slots,
             NEW up, up = None \/ \E j \in alive[p] : up = IdAt(p, j), SetParent(p, i, up)
      PROVE  Forest!Next
  <2>1. i \in alive[p]
    BY <1>6 DEF SetParent
  <2>2. PICK e \in Forest!Existing : e \in Thing /\ at[e] = <<p, i>>
    BY <1>1, <2>1
  <2>3. Forest!MakeRoot(e) \/ \E d \in Forest!Existing : Forest!SetParent(e, d)
    BY <1>6, <2>2, SetParentSeen
  <2> QED
    BY <2>2, <2>3 DEF Forest!Next
<1>7. ASSUME NEW p \in Pool, NEW i \in Slots, NEW c \in Component, AddComponent(p, i, c)
      PROVE  Forest!Next
  <2>1. i \in alive[p]
    BY <1>7 DEF AddComponent
  <2>2. PICK e \in Forest!Existing : e \in Thing /\ at[e] = <<p, i>>
    BY <1>1, <2>1
  <2>3. Forest!Attach(c, e)
    BY <1>7, <2>2, AddSeen
  <2> QED
    BY <2>2, <2>3 DEF Forest!Next
<1>8. ASSUME NEW p \in Pool, NEW i \in Slots, NEW c \in Component, RemoveComponent(p, i, c)
      PROVE  Forest!Next
  BY <1>8, RemoveSeen DEF Forest!Next
<1>9. ASSUME NEW p \in Pool, NEW i \in Slots, NEW q \in Pool, Migrate(p, i, q) PROVE Forest!Next
  <2>1. PICK T \in SUBSET Slots : \E m \in [T -> Slots] : T = Offspring(p, i) /\ MovesAt(p, i, q, T, m)
    BY <1>9, MoveEffect
  <2>2. PICK m \in [T -> Slots] : T = Offspring(p, i) /\ MovesAt(p, i, q, T, m)
    BY <2>1
  <2>3. i \in alive[p] /\ p # q
    BY <1>9 DEF Migrate
  <2>4. PICK e \in Forest!Existing : e \in Thing /\ at[e] = <<p, i>> /\ SceneOf[e] = p
    BY <1>1, <2>3
  <2>5. Forest!Move(e, q)
    BY <2>2, <2>4, MoveSeen
  <2> QED
    BY <2>3, <2>4, <2>5 DEF Forest!Next
<1> QED
  BY <1>2, <1>3, <1>4, <1>5, <1>6, <1>7, <1>8, <1>9 DEF Next

\* Whatever slots, generations, arrays and pools hold them, entities are to
\* their users the things of SceneForest: creation and removal, set_parent,
\* add_component and remove_component do what their names say to one thing,
\* and tc_entity_pool_migrate moves a whole subtree, keeps its shape and its
\* components and touches nothing else.
THEOREM EntitiesAreAForest == Spec => ImplementsForest
<1>1. Whole /\ Whole' /\ [Next]_vars => [Forest!Next]_(Forest!forest)
  BY NextSeen
<1> QED
  BY <1>1, InitSeen, WholeStays, PTL DEF Spec, ImplementsForest, Forest!Spec
=============================================================================
