-------------------------- MODULE Registries_proofs --------------------------
(***************************************************************************)
(* The two registries of types of the program: the extensions of scenes    *)
(* (SceneExtensions) and the types of components (TypeRegistry).  Part 1   *)
(* proves the properties of SceneExtensions, for any scenes, extension     *)
(* types and keys, and for calls nested as deep as one likes.  Part 2      *)
(* proves those of TypeRegistry, for any finite set of types and any       *)
(* components.                                                             *)
(***************************************************************************)
EXTENDS SceneExtensions, TypeRegistry, SwapArrays_proofs, FiniteSetTheorems

(***************************************************************************)
(* PART 1: THE EXTENSIONS OF SCENES                                        *)
(***************************************************************************)

LoopOps == {"update", "render"}

CallType ==
  [op : {"update", "render", "deserialize", "create"}, scene : Scene,
   type : ExtType \cup {"none"}, payload : SUBSET Key, at : Nat \ {0},
   in_hook : BOOLEAN, tried : BOOLEAN, since : SUBSET Extension,
   called : SUBSET Extension, again : BOOLEAN, excused : SUBSET Extension]

TypeInv ==
  /\ alive \subseteq Scene /\ freed \subseteq Scene
  /\ types \in Seq(ExtType)
  /\ instances \in Seq(Extension)
  /\ stack \in Seq(CallType)
  /\ users \in Nat

\* The place a walk looks at next, once the hook it is in has returned.
From(c) == IF c.in_hook THEN c.at + 1 ELSE c.at

\* An update or before_render walk of arr: what it owes a call and has not
\* called is excused or still ahead, and nothing it called is ahead.
LoopInv(c, arr) ==
  /\ c.since \subseteq ToSet(arr) /\ c.called \subseteq ToSet(arr)
  /\ \A x \in c.since : x.scene = c.scene /\ x.type \in Hooks[c.op]
  /\ c.called \cap Rest(arr, From(c)) = {}
  /\ c.since \subseteq c.called \cup c.excused \cup Rest(arr, From(c))

\* What DeserializeRestores promises of one type.
Restored(c, arr, t) ==
  KeyOf[t] \in c.payload =>
    \/ Ext(c.scene, t) \in c.excused
    \/ /\ Ext(c.scene, t) \in ToSet(arr)
       /\ t \in Hooks["deserialize"] => Ext(c.scene, t) \in c.called

\* The types of ts that a deserialize has left behind.
Behind(c, ts) == { ts[j] : j \in { i \in 1..Len(ts) : i < From(c) } }

\* A deserialize has restored what it has left behind, and called nothing else.
\* It tries the type it is at only if the key of that is in the dictionary.
LoadInv(c, arr, ts, live) ==
  /\ c.in_hook \/ c.tried => c.at \in 1..Len(ts)
  /\ c.tried /\ ~c.in_hook => KeyOf[ts[c.at]] \in c.payload
  /\ c.scene \in live => \A t \in Behind(c, ts) : Restored(c, arr, t)
  /\ c.called \subseteq { Ext(c.scene, t) : t \in Behind(c, ts) }

\* An attach that is in its create hook: the extension is not there yet.
CreateInv(c, arr, live) ==
  /\ c.in_hook = FALSE
  /\ c.type \in ExtType /\ c.scene \in live
  /\ Ext(c.scene, c.type) \notin ToSet(arr)

CallInv(c, arr, ts, live, gone) ==
  /\ c.again = FALSE
  /\ c.scene \in live \cup gone
  /\ c.op \in LoopOps => LoopInv(c, arr)
  /\ c.op = "deserialize" => LoadInv(c, arr, ts, live)
  /\ c.op = "create" => CreateInv(c, arr, live)

\* d is a call from within c: from a hook, or the attach of a deserialize.
NestInv(c, d, ts) ==
  /\ c.op = "create" => d.op = "create" /\ <<c.type, d.type>> \in Dependency
  /\ c.op \in LoopOps => c.in_hook
  /\ c.op = "deserialize" /\ c.in_hook = FALSE =>
       c.tried /\ d.op = "create" /\ d.scene = c.scene /\ d.type = ts[c.at]

\* A deserialize that has tried to attach a type finds it, or is excused.
TriedInv(c, arr, ts, live) ==
  c.op = "deserialize" /\ c.tried /\ c.in_hook = FALSE /\ c.scene \in live =>
    Ext(c.scene, ts[c.at]) \in ToSet(arr) \cup c.excused

StackInv(s, arr, ts, live, gone) ==
  /\ \A k \in 1..Len(s) : CallInv(s[k], arr, ts, live, gone)
  /\ \A k \in 1..Len(s)-1 : NestInv(s[k], s[k+1], ts)
  /\ s # <<>> => TriedInv(s[Len(s)], arr, ts, live)

ExtInv ==
  /\ TypeInv
  /\ IsInjective(types)
  /\ alive \cap freed = {}
  /\ InstancesAgree
  /\ StackInv(stack, instances, types, alive, freed)
----------------------------------------------------------------------------
(* The array of instances                                                  *)

\* What removals make of an array: some items go, the others keep their
\* places or move towards the front.
Shrinks(old, new) ==
  /\ new \in Seq(Extension)
  /\ IsInjective(new)
  /\ ToSet(new) \subseteq ToSet(old)
  /\ \A n \in Nat : Rest(new, n) \subseteq Rest(old, n)

LEMMA ShrinksAgain ==
  ASSUME NEW a, NEW b, NEW c, Shrinks(a, b), Shrinks(b, c) PROVE Shrinks(a, c)
BY DEF Shrinks

LEMMA SwapRemoveShrinks ==
  ASSUME NEW arr \in Seq(Extension), IsInjective(arr), NEW x
  PROVE  Shrinks(arr, SwapRemove(arr, x)) /\ ToSet(SwapRemove(arr, x)) = ToSet(arr) \ {x}
BY SwapRemoveType, SwapRemoveItems, SwapRemoveRest DEF Shrinks

\* In an array without duplicates a place is the first one of what is there.
LEMMA FirstIndexIs ==
  ASSUME NEW S, NEW arr \in Seq(S), IsInjective(arr), NEW k \in 1..Len(arr)
  PROVE  FirstIndex(arr, arr[k]) = k
<1>1. Contains(arr, arr[k])
  BY DEF Contains
<1>2. FirstIndex(arr, arr[k]) \in 1..Len(arr) /\ arr[FirstIndex(arr, arr[k])] = arr[k]
  BY <1>1, FirstIndexFound
<1> QED
  BY <1>2 DEF IsInjective

LEMMA SwapRemoveAtIs ==
  ASSUME NEW S, NEW arr \in Seq(S), IsInjective(arr), NEW k \in 1..Len(arr)
  PROVE  SwapRemoveAt(arr, k) = SwapRemove(arr, arr[k])
BY FirstIndexIs DEF SwapRemove, Contains

\* What is at place n or behind it.
LEMMA RestIsBehind ==
  ASSUME NEW S, NEW arr \in Seq(S), IsInjective(arr), NEW n \in Nat, NEW x
  PROVE  x \in Rest(arr, n) <=> x \in ToSet(arr) /\ FirstIndex(arr, x) >= n
<1>1. ASSUME x \in Rest(arr, n) PROVE x \in ToSet(arr) /\ FirstIndex(arr, x) >= n
  <2>1. PICK j \in 1..Len(arr) : j >= n /\ x = arr[j]
    BY <1>1 DEF Rest
  <2> QED
    BY <2>1, FirstIndexIs DEF ToSet
<1>2. ASSUME x \in ToSet(arr), FirstIndex(arr, x) >= n PROVE x \in Rest(arr, n)
  <2>1. Contains(arr, x)
    BY <1>2, ContainsIsMembership
  <2>2. FirstIndex(arr, x) \in 1..Len(arr) /\ arr[FirstIndex(arr, x)] = x
    BY <2>1, FirstIndexFound
  <2> QED
    BY <1>2, <2>2 DEF Rest
<1> QED
  BY <1>1, <1>2

\* The least of a set of places.
LEMMA LeastPlace ==
  ASSUME NEW S \in SUBSET Nat, S # {}
  PROVE  Min(S) \in S /\ \A k \in S : Min(S) <= k
<1> DEFINE Less == { p \in Nat \X Nat : p[1] < p[2] }
<1>1. IsWellFoundedOn(Less, Nat)
  BY NatLessThanWellFounded, Zenon DEF OpToRel
<1>2. \E m \in S : \A k \in S : ~(<<k, m>> \in Less)
  <2> HIDE DEF Less
  <2> QED
    BY <1>1, WFMin
<1>3. PICK m \in S : \A k \in S : ~(<<k, m>> \in Less)
  BY <1>2
<1>4. ASSUME NEW k \in S PROVE m <= k
  <2>1. k \in Nat /\ m \in Nat
    OBVIOUS
  <2>2. k < m => <<k, m>> \in Less
    BY <2>1
  <2>3. ~(k < m)
    BY <1>3, <2>2
  <2> QED
    BY <2>1, <2>3
<1> QED
  BY <1>4, Zenon DEF Min

LEMMA DetachNextItems ==
  ASSUME NEW arr \in Seq(Extension), IsInjective(arr), NEW s
  PROVE  /\ Shrinks(arr, DetachNext(arr, s))
         /\ Len(DetachNext(arr, s)) \in Nat
         /\ \A x \in ToSet(arr) : x.scene # s => x \in ToSet(DetachNext(arr, s))
         /\ \/ \A x \in ToSet(arr) : x.scene # s
            \/ Len(DetachNext(arr, s)) = Len(arr) - 1
<1> DEFINE mine == OfScene(arr, s)
<1>1. CASE mine = {}
  <2>1. DetachNext(arr, s) = arr
    BY <1>1 DEF DetachNext
  <2>2. \A x \in ToSet(arr) : x.scene # s
    BY <1>1 DEF OfScene, ToSet
  <2> QED
    BY <2>1, <2>2 DEF Shrinks
<1>2. CASE mine # {}
  <2>1. mine \in SUBSET Nat
    BY DEF OfScene
  <2>2. Min(mine) \in 1..Len(arr) /\ arr[Min(mine)].scene = s
    BY <1>2, <2>1, LeastPlace DEF OfScene
  <2>3. DetachNext(arr, s) = SwapRemoveAt(arr, Min(mine))
    BY <1>2 DEF DetachNext
  <2> DEFINE j == Min(mine)
  <2> HIDE DEF mine, j
  <2>4. j \in 1..Len(arr) /\ arr[j].scene = s /\ DetachNext(arr, s) = SwapRemoveAt(arr, j)
    BY <2>2, <2>3 DEF j
  <2>5. DetachNext(arr, s) = SwapRemove(arr, arr[j])
    BY <2>4, SwapRemoveAtIs
  <2>6. Len(DetachNext(arr, s)) = Len(arr) - 1
    BY <2>4, SwapRemoveAtType
  <2>7. \A x \in ToSet(arr) : x.scene # s => x \in ToSet(DetachNext(arr, s))
    BY <2>4, <2>5, SwapRemoveShrinks
  <2> QED
    BY <2>5, <2>6, <2>7, SwapRemoveShrinks
<1> QED
  BY <1>1, <1>2

\* The states of the array in the loop of tc_scene_ext_detach_all.
DetachSteps(n, s, f) ==
  \A k \in 0..n : f[k] = IF k = 0 THEN instances ELSE DetachNext(f[k-1], s)

\* What holds after k rounds: only entries of s are gone, and a round without
\* one to remove found none.
DetachedBy(s, k, arr) ==
  /\ Shrinks(instances, arr)
  /\ \A x \in ToSet(instances) : x.scene # s => x \in ToSet(arr)
  /\ (\A x \in ToSet(arr) : x.scene # s) \/ Len(arr) <= Len(instances) - k

LEMMA DetachAllDefined ==
  ASSUME instances \in Seq(Extension), IsInjective(instances), NEW s
  PROVE  \E f : f = [k \in 0..Len(instances) |->
                      IF k = 0 THEN instances ELSE DetachNext(f[k-1], s)]
<1> DEFINE N == Len(instances)
           Good == { arr \in Seq(Extension) : IsInjective(arr) }
           Reached == { n \in 0..N : \E f \in [0..n -> Good] : DetachSteps(n, s, f) }
<1>1. N \in Nat
  OBVIOUS
<1>2. 0 \in Reached
  <2>1. [k \in 0..0 |-> instances] \in [0..0 -> Good]
        /\ DetachSteps(0, s, [k \in 0..0 |-> instances])
    BY DEF DetachSteps
  <2>2. 0 \in 0..N
    BY <1>1
  <2> QED
    BY <2>1, <2>2
<1>3. ASSUME NEW n \in 0..N-1, n \in Reached PROVE n+1 \in Reached
  <2>1. PICK f \in [0..n -> Good] : DetachSteps(n, s, f)
    BY <1>3
  <2> DEFINE x == DetachNext(f[n], s)
             g == [k \in 0..n+1 |-> IF k = n+1 THEN x ELSE f[k]]
  <2>2. x \in Good
    <3>1. f[n] \in Seq(Extension) /\ IsInjective(f[n])
      BY <1>1
    <3> QED
      BY <3>1, DetachNextItems DEF Shrinks
  <2> HIDE DEF Good
  <2>3. g \in [0..n+1 -> Good]
    BY <1>1, <2>2
  <2>4. ASSUME NEW k \in 0..n+1
        PROVE  g[k] = IF k = 0 THEN instances ELSE DetachNext(g[k-1], s)
    BY <1>1, <2>1 DEF DetachSteps
  <2> HIDE DEF g
  <2>5. DetachSteps(n+1, s, g)
    BY <2>4 DEF DetachSteps
  <2>6. n+1 \in 0..N
    BY <1>1
  <2> QED
    BY <2>3, <2>5, <2>6
<1>4. N \in Reached
  <2> HIDE DEF Reached
  <2>1. 0..N \subseteq Reached
    BY <1>1, <1>2, <1>3, CountingUp
  <2> QED
    BY <1>1, <2>1
<1>5. PICK f \in [0..N -> Good] : DetachSteps(N, s, f)
  BY <1>4
<1>6. f = [k \in 0..N |-> IF k = 0 THEN instances ELSE DetachNext(f[k-1], s)]
  BY <1>5 DEF DetachSteps
<1> QED
  BY <1>6

\* tc_scene_ext_detach_all takes off the array what is of the scene, and
\* nothing else, although it looks at each entry while entries move.
LEMMA DetachAllItems ==
  ASSUME instances \in Seq(Extension), IsInjective(instances), NEW s
  PROVE  /\ Shrinks(instances, DetachAll(s))
         /\ ToSet(DetachAll(s)) = { x \in ToSet(instances) : x.scene # s }
<1> DEFINE N == Len(instances)
           Steps(f) == f = [k \in 0..N |->
                              IF k = 0 THEN instances ELSE DetachNext(f[k-1], s)]
           after == CHOOSE f : Steps(f)
           Right == { k \in 0..N : DetachedBy(s, k, after[k]) }
<1>1. DetachAll(s) = after[N]
  BY Zenon DEF DetachAll
<1>2. Steps(after)
  <2>1. \E f : Steps(f)
    BY DetachAllDefined
  <2> HIDE DEF Steps
  <2> QED
    BY <2>1
<1>3. N \in Nat
  OBVIOUS
<1>4. after[0] = instances /\ \A k \in 0..N-1 : after[k+1] = DetachNext(after[k], s)
  <2> HIDE DEF after
  <2>1. after[0] = instances
    BY <1>2, <1>3
  <2>2. ASSUME NEW k \in 0..N-1 PROVE after[k+1] = DetachNext(after[k], s)
    <3>1. k+1 \in 0..N /\ k+1 # 0 /\ (k+1)-1 = k
      BY <1>3
    <3> QED
      BY <1>2, <3>1
  <2> QED
    BY <2>1, <2>2
<1> HIDE DEF after, Steps
<1>5. 0 \in Right
  BY <1>3, <1>4 DEF DetachedBy, Shrinks
<1>6. ASSUME NEW k \in 0..N-1, k \in Right PROVE k+1 \in Right
  <2> DEFINE a == after[k]
             b == after[k+1]
  <2>1. DetachedBy(s, k, a) /\ b = DetachNext(a, s)
    BY <1>4, <1>6
  <2> HIDE DEF a, b
  <2>2. a \in Seq(Extension) /\ IsInjective(a) /\ Len(a) \in Nat
    BY <2>1 DEF DetachedBy, Shrinks
  <2>3. /\ Shrinks(a, b) /\ Len(b) \in Nat
        /\ \A x \in ToSet(a) : x.scene # s => x \in ToSet(b)
        /\ (\A x \in ToSet(a) : x.scene # s) \/ Len(b) = Len(a) - 1
    BY <2>1, <2>2, DetachNextItems
  <2>4. Shrinks(instances, b)
    BY <2>1, <2>3, ShrinksAgain DEF DetachedBy
  <2>5. \A x \in ToSet(instances) : x.scene # s => x \in ToSet(b)
    BY <2>1, <2>3 DEF DetachedBy
  <2>6. (\A x \in ToSet(b) : x.scene # s) \/ Len(b) <= N - (k+1)
    <3>1. CASE \A x \in ToSet(a) : x.scene # s
      BY <2>3, <3>1 DEF Shrinks
    <3>2. CASE Len(a) <= N - k /\ Len(b) = Len(a) - 1
      BY <1>3, <2>2, <2>3, <3>2
    <3> QED
      BY <2>1, <2>3, <3>1, <3>2 DEF DetachedBy
  <2>7. DetachedBy(s, k+1, b)
    BY <2>4, <2>5, <2>6 DEF DetachedBy
  <2>8. k+1 \in 0..N
    BY <1>3
  <2> QED
    BY <2>7, <2>8 DEF b
<1>7. DetachedBy(s, N, after[N])
  <2> HIDE DEF Right
  <2>1. 0..N \subseteq Right
    BY <1>3, <1>5, <1>6, CountingUp
  <2>2. N \in Right
    BY <1>3, <2>1
  <2> QED
    BY <2>2 DEF Right
<1> DEFINE arr == after[N]
<1> HIDE DEF arr
<1>8. DetachedBy(s, N, arr) /\ DetachAll(s) = arr
  BY <1>1, <1>7 DEF arr
<1>9. arr \in Seq(Extension)
  BY <1>8 DEF DetachedBy, Shrinks
<1>10. \A x \in ToSet(arr) : x.scene # s
  <2>1. CASE Len(arr) <= N - N
    <3>1. Len(arr) = 0
      BY <1>3, <1>9, <2>1
    <3> QED
      BY <1>9, <3>1 DEF ToSet
  <2> QED
    BY <1>8, <2>1 DEF DetachedBy
<1> QED
  BY <1>8, <1>10 DEF DetachedBy, Shrinks
----------------------------------------------------------------------------
(* The calls in progress                                                   *)

LEMMA TopIsLast ==
  ASSUME TypeInv, stack # <<>>
  PROVE  /\ Len(stack) \in 1..Len(stack) /\ Top = stack[Len(stack)] /\ Top \in CallType
         /\ Front(stack) \in Seq(CallType) /\ Len(Front(stack)) = Len(stack) - 1
         /\ \A k \in 1..Len(stack)-1 : Front(stack)[k] = stack[k]
<1>1. stack \in Seq(CallType) /\ Len(stack) \in Nat /\ Len(stack) # 0
  BY DEF TypeInv
<1>2. Top = stack[Len(stack)] /\ Len(stack) \in 1..Len(stack)
  BY <1>1 DEF Top, Last
<1>3. Front(stack) \in Seq(CallType) /\ Len(Front(stack)) = Len(stack) - 1
  <2> DEFINE n == Len(stack) - 1
  <2>1. n \in Nat /\ \A k \in 1..n : stack[k] \in CallType
    BY <1>1
  <2> HIDE DEF n
  <2>2. /\ SubSeq(stack, 1, n) \in Seq(CallType)
        /\ Len(SubSeq(stack, 1, n)) = IF 1 <= n THEN n - 1 + 1 ELSE 0
    BY <2>1, SubSeqProperties
  <2>3. Len(SubSeq(stack, 1, n)) = n
    BY <2>1, <2>2
  <2> QED
    BY <2>2, <2>3 DEF n, Front
<1>4. \A k \in 1..Len(stack)-1 : Front(stack)[k] = stack[k]
  BY <1>1 DEF Front
<1> QED
  BY <1>1, <1>2, <1>3, <1>4

\* Under a call whose code runs every loop is in a hook.
LEMMA LoopsInHook ==
  ASSUME TypeInv, StackInv(stack, instances, types, alive, freed), HostRuns,
         NEW k \in 1..Len(stack), stack[k].op \in LoopOps
  PROVE  stack[k].in_hook
<1>1. CASE k = Len(stack)
  BY <1>1, TopIsLast DEF HostRuns, LoopOps
<1>2. CASE k # Len(stack)
  <2>1. k \in 1..Len(stack)-1
    BY <1>2 DEF TypeInv
  <2> QED
    BY <2>1 DEF StackInv, NestInv
<1> QED
  BY <1>1, <1>2

\* Above an attach in its create hook there are only such.
LEMMA CreatesOnTop ==
  ASSUME TypeInv, StackInv(stack, instances, types, alive, freed),
         NEW k \in 1..Len(stack), stack[k].op = "create"
  PROVE  InCreateHook
<1> DEFINE n == Len(stack) - k
           S == { m \in 0..n : stack[k+m].op = "create" }
<1>1. n \in Nat /\ Len(stack) \in Nat /\ k + n = Len(stack)
  BY DEF TypeInv
<1>2. 0 \in S
  BY <1>1
<1>3. ASSUME NEW m \in 0..n-1, m \in S PROVE m+1 \in S
  <2>1. k + m \in 1..Len(stack)-1 /\ k + (m+1) = (k+m)+1 /\ m+1 \in 0..n
    BY <1>1
  <2>2. NestInv(stack[k+m], stack[(k+m)+1], types)
    BY <2>1 DEF StackInv
  <2> QED
    BY <1>3, <2>1, <2>2 DEF NestInv
<1>4. 0..n \subseteq S
  <2> HIDE DEF S, n
  <2> QED
    BY <1>1, <1>2, <1>3, CountingUp
<1>5. stack[Len(stack)].op = "create"
  <2>1. n \in 0..n
    BY <1>1
  <2>2. n \in S
    BY <1>4, <2>1
  <2> QED
    BY <1>1, <2>2
<1> QED
  BY <1>5, TopIsLast DEF InCreateHook

\* No two of them are for one type: the hooks would attach each other in a circle.
LEMMA CreatesDiffer ==
  ASSUME TypeInv, StackInv(stack, instances, types, alive, freed),
         NEW k \in 1..Len(stack)-1, stack[k].op = "create"
  PROVE  stack[k].type # stack[Len(stack)].type
<1> SUFFICES ASSUME stack[k].type = stack[Len(stack)].type PROVE FALSE
  OBVIOUS
<1> DEFINE M == { m \in k..Len(stack) : stack[m].op = "create" }
           S == { stack[m].type : m \in M }
<1>1. Len(stack) \in Nat /\ k \in M
  BY DEF TypeInv
<1>2. \A m \in M : stack[m].type \in ExtType
  BY <1>1 DEF StackInv, CallInv, CreateInv
<1>3. S \in SUBSET ExtType /\ S # {}
  BY <1>1, <1>2
<1>4. ASSUME NEW m \in M, m # Len(stack)
      PROVE  m+1 \in M /\ <<stack[m].type, stack[m+1].type>> \in Dependency
  <2>1. m \in 1..Len(stack)-1 /\ m+1 \in k..Len(stack)
    BY <1>1, <1>4
  <2>2. NestInv(stack[m], stack[m+1], types)
    BY <2>1 DEF StackInv
  <2> QED
    BY <2>1, <2>2 DEF NestInv
<1>5. ASSUME NEW t \in S PROVE \E u \in S : <<t, u>> \in Dependency
  <2>1. PICK m \in M : t = stack[m].type
    OBVIOUS
  <2>2. CASE m # Len(stack)
    BY <1>4, <2>1, <2>2
  <2>3. CASE m = Len(stack)
    <3>1. t = stack[k].type /\ k # Len(stack)
      BY <1>1, <2>1, <2>3
    <3> QED
      BY <1>1, <1>4, <3>1
  <2> QED
    BY <2>2, <2>3
<1> HIDE DEF S, M
<1> QED
  BY <1>3, <1>5, DependencyAssumption
----------------------------------------------------------------------------
(* Removals under the calls in progress                                    *)

\* One call of Noted.
NotedCall(c, arr) ==
  [c EXCEPT !.since = @ \cap ToSet(arr), !.called = @ \cap ToSet(arr),
            !.excused = Excused(c, arr)]

LEMMA ExcusedType ==
  ASSUME TypeInv, NEW arr \in Seq(Extension), NEW c \in CallType
  PROVE  Excused(c, arr) \in SUBSET Extension
<1>1. c.excused \in SUBSET Extension
  BY DEF CallType
<1>2. ToSet(arr) \subseteq Extension /\ ToSet(instances) \subseteq Extension
  BY DEF ToSet, TypeInv
<1> QED
  BY <1>1, <1>2 DEF Excused

LEMMA ExcusedOps ==
  ASSUME NEW c, NEW arr
  PROVE  /\ c.op = "deserialize" =>
              Excused(c, arr) = c.excused \cup (ToSet(instances) \ ToSet(arr))
         /\ c.op \in LoopOps =>
              Excused(c, arr) = { x \in ToSet(arr) :
                                    \/ x \in c.excused
                                    \/ /\ FirstIndex(instances, x) > c.at
                                       /\ FirstIndex(arr, x) <= c.at }
BY DEF Excused, LoopOps

LEMMA NotedFields ==
  ASSUME TypeInv, NEW arr \in Seq(Extension), NEW c \in CallType, NEW d, d = NotedCall(c, arr)
  PROVE  /\ d \in CallType
         /\ d.op = c.op /\ d.scene = c.scene /\ d.type = c.type /\ d.payload = c.payload
         /\ d.at = c.at /\ d.in_hook = c.in_hook /\ d.tried = c.tried /\ d.again = c.again
         /\ d.since = c.since \cap ToSet(arr)
         /\ d.called = c.called \cap ToSet(arr)
         /\ d.excused = Excused(c, arr)
<1>1. Excused(c, arr) \in SUBSET Extension
  BY ExcusedType
<1> DEFINE e == Excused(c, arr)
           a == ToSet(arr)
<1> HIDE DEF e, a
<1>2. d = [c EXCEPT !.since = @ \cap a, !.called = @ \cap a, !.excused = e]
  BY DEF NotedCall, e, a
<1>3. e \in SUBSET Extension
  BY <1>1 DEF e
<1>4. d = [op |-> c.op, scene |-> c.scene, type |-> c.type, payload |-> c.payload, at |-> c.at,
           in_hook |-> c.in_hook, tried |-> c.tried, since |-> c.since \cap a,
           called |-> c.called \cap a, again |-> c.again, excused |-> e]
  BY <1>2 DEF CallType
<1>5. d \in CallType
  BY <1>3, <1>4 DEF CallType
<1> QED
  BY <1>4, <1>5 DEF e, a

LEMMA ShrinkKeepsLoop ==
  ASSUME TypeInv, IsInjective(instances), NEW arr, Shrinks(instances, arr),
         NEW c \in CallType, c.op \in LoopOps, c.in_hook = TRUE, LoopInv(c, instances),
         NEW d, d = NotedCall(c, arr)
  PROVE  LoopInv(d, arr)
<1>0. arr \in Seq(Extension) /\ instances \in Seq(Extension) /\ IsInjective(arr)
  BY DEF TypeInv, Shrinks
<1>1. /\ d.op = c.op /\ d.scene = c.scene /\ d.at = c.at /\ d.in_hook = c.in_hook
      /\ d.since = c.since \cap ToSet(arr) /\ d.called = c.called \cap ToSet(arr)
      /\ d.excused = Excused(c, arr)
  BY <1>0, NotedFields
<1>2. c.at + 1 \in Nat /\ c.at \in Nat /\ From(c) = c.at + 1 /\ From(d) = c.at + 1
  BY <1>1 DEF CallType, From
<1>3. Rest(arr, c.at + 1) \subseteq Rest(instances, c.at + 1)
  BY <1>2 DEF Shrinks
<1>4. d.called \cap Rest(arr, From(d)) = {}
  BY <1>1, <1>2, <1>3 DEF LoopInv
<1>5. ASSUME NEW x \in d.since PROVE x \in d.called \cup d.excused \cup Rest(arr, From(d))
  <2>1. x \in ToSet(arr) /\ x \in c.called \cup c.excused \cup Rest(instances, c.at + 1)
    BY <1>1, <1>2 DEF LoopInv
  <2>2. CASE x \in c.called \/ x \in c.excused
    BY <1>1, <2>1, <2>2, ExcusedOps
  <2>3. CASE x \in Rest(instances, c.at + 1) /\ x \notin Rest(arr, c.at + 1)
    <3>1. FirstIndex(instances, x) >= c.at + 1 /\ x \in ToSet(instances)
      BY <1>0, <1>2, <2>3, RestIsBehind
    <3>2. ~(FirstIndex(arr, x) >= c.at + 1)
      BY <1>0, <1>2, <2>1, <2>3, RestIsBehind
    <3>3. FirstIndex(instances, x) \in Nat /\ FirstIndex(arr, x) \in Nat
      BY <1>0, <2>1, <3>1, FirstIndexFound, ContainsIsMembership
    <3>4. FirstIndex(instances, x) > c.at /\ FirstIndex(arr, x) <= c.at
      BY <1>2, <3>1, <3>2, <3>3
    <3> QED
      BY <1>1, <2>1, <3>4, ExcusedOps
  <2> QED
    BY <1>2, <2>1, <2>2, <2>3
<1>6. \A x \in d.since : x.scene = d.scene /\ x.type \in Hooks[d.op]
  BY <1>1 DEF LoopInv
<1> QED
  BY <1>1, <1>4, <1>5, <1>6 DEF LoopInv

LEMMA ShrinkKeepsLoad ==
  ASSUME TypeInv, NEW arr, Shrinks(instances, arr), NEW live, live \subseteq alive,
         NEW c \in CallType, c.op = "deserialize", LoadInv(c, instances, types, alive),
         NEW d, d = NotedCall(c, arr)
  PROVE  LoadInv(d, arr, types, live)
<1>0. arr \in Seq(Extension)
  BY DEF Shrinks
<1>1. /\ d.op = c.op /\ d.scene = c.scene /\ d.payload = c.payload /\ d.at = c.at
      /\ d.in_hook = c.in_hook /\ d.tried = c.tried /\ d.called = c.called \cap ToSet(arr)
      /\ d.excused = c.excused \cup (ToSet(instances) \ ToSet(arr))
  BY <1>0, NotedFields, ExcusedOps
<1>2. Behind(d, types) = Behind(c, types)
  BY <1>1 DEF Behind, From
<1>3. ASSUME NEW t, Restored(c, instances, t) PROVE Restored(d, arr, t)
  BY <1>1, <1>3 DEF Restored
<1> QED
  BY <1>1, <1>2, <1>3 DEF LoadInv

LEMMA ShrinkKeepsCall ==
  ASSUME TypeInv, IsInjective(instances), NEW arr, Shrinks(instances, arr),
         NEW live, NEW gone, live \subseteq alive, alive \cup freed \subseteq live \cup gone,
         NEW c \in CallType, CallInv(c, instances, types, alive, freed),
         c.op \in LoopOps => c.in_hook, c.op = "create" => c.scene \in live,
         NEW d, d = NotedCall(c, arr)
  PROVE  CallInv(d, arr, types, live, gone)
<1>0. arr \in Seq(Extension) /\ ToSet(arr) \subseteq ToSet(instances)
  BY DEF Shrinks
<1>1. /\ d.op = c.op /\ d.scene = c.scene /\ d.type = c.type /\ d.in_hook = c.in_hook
      /\ d.again = c.again
  BY <1>0, NotedFields
<1>2. d.op \in LoopOps => LoopInv(d, arr)
  <2>1. c.in_hook \in BOOLEAN
    BY DEF CallType
  <2> QED
    BY <1>1, <2>1, ShrinkKeepsLoop DEF CallInv
<1>3. d.op = "deserialize" => LoadInv(d, arr, types, live)
  BY <1>1, ShrinkKeepsLoad DEF CallInv
<1>4. d.op = "create" => CreateInv(d, arr, live)
  BY <1>0, <1>1 DEF CallInv, CreateInv
<1> QED
  BY <1>1, <1>2, <1>3, <1>4 DEF CallInv

\* Removal from the array while code of the host runs, as tc_scene_ext_detach,
\* _detach_all and tc_scene_free do it.
LEMMA RemovalStep ==
  ASSUME ExtInv, HostRuns, NEW arr, Shrinks(instances, arr),
         Dispose(ToSet(instances) \ ToSet(arr), arr), UNCHANGED <<types, users>>,
         alive' \subseteq alive, alive' \cup freed' = alive \cup freed, alive' \cap freed' = {},
         \A x \in ToSet(arr) : x.scene \in alive',
         \A k \in 1..Len(stack) : stack[k].op = "create" => stack[k].scene \in alive'
  PROVE  ExtInv'
<1>0. TypeInv /\ IsInjective(instances) /\ StackInv(stack, instances, types, alive, freed)
  BY DEF ExtInv, InstancesAgree
<1>1. /\ instances' = arr /\ arr \in Seq(Extension) /\ IsInjective(arr)
      /\ stack' = Noted(arr) /\ ToSet(arr) \subseteq ToSet(instances)
  BY DEF Dispose, Shrinks
<1>2. living' = ToSet(arr) /\ destroyed_twice' = FALSE
  BY <1>1 DEF Dispose, ExtInv, InstancesAgree
<1>3. InstancesAgree'
  BY <1>1, <1>2 DEF InstancesAgree
<1>4. stack \in Seq(CallType) /\ Len(stack) \in Nat /\ \A k \in 1..Len(stack) : stack[k] \in CallType
  BY <1>0 DEF TypeInv
<1>5. stack' = [k \in 1..Len(stack) |-> NotedCall(stack[k], arr)]
  BY <1>1 DEF Noted, NotedCall
<1>6. \A k \in 1..Len(stack) : stack'[k] = NotedCall(stack[k], arr) /\ stack'[k] \in CallType
  BY <1>0, <1>1, <1>4, <1>5, NotedFields
<1>7. stack' \in Seq(CallType) /\ Len(stack') = Len(stack)
  BY <1>4, <1>5, <1>6
<1>8. ASSUME NEW k \in 1..Len(stack)
      PROVE  /\ stack'[k].op = stack[k].op /\ stack'[k].type = stack[k].type
             /\ stack'[k].in_hook = stack[k].in_hook /\ stack'[k].tried = stack[k].tried
             /\ stack'[k].scene = stack[k].scene /\ stack'[k].at = stack[k].at
  BY <1>0, <1>1, <1>4, <1>6, NotedFields
<1>9. \A k \in 1..Len(stack) : CallInv(stack'[k], arr, types, alive', freed')
  <2> TAKE k \in 1..Len(stack)
  <2>1. stack[k].op \in LoopOps => stack[k].in_hook
    BY <1>0, LoopsInHook
  <2>2. CallInv(stack[k], instances, types, alive, freed)
    BY <1>0 DEF StackInv
  <2> QED
    BY <1>0, <1>4, <1>6, <2>1, <2>2, ShrinkKeepsCall
<1>10. \A k \in 1..Len(stack)-1 : NestInv(stack'[k], stack'[k+1], types)
  <2> TAKE k \in 1..Len(stack)-1
  <2>1. k \in 1..Len(stack) /\ k+1 \in 1..Len(stack)
    BY <1>4
  <2>2. NestInv(stack[k], stack[k+1], types)
    BY <1>0 DEF StackInv
  <2> QED
    BY <1>8, <2>1, <2>2 DEF NestInv
<1>11. stack' # <<>> => TriedInv(stack'[Len(stack)], arr, types, alive')
  <2> SUFFICES ASSUME stack' # <<>> PROVE TriedInv(stack'[Len(stack)], arr, types, alive')
    OBVIOUS
  <2>1. stack # <<>>
    BY <1>4, <1>7
  <2>2. Len(stack) \in 1..Len(stack) /\ (stack[Len(stack)].op = "create" \/ stack[Len(stack)].in_hook)
    BY <1>0, <2>1, TopIsLast DEF HostRuns
  <2> QED
    BY <1>8, <2>2 DEF TriedInv
<1>12. StackInv(stack', instances', types', alive', freed')
  BY <1>1, <1>7, <1>9, <1>10, <1>11 DEF StackInv
<1>13. TypeInv'
  BY <1>0, <1>1, <1>7 DEF TypeInv
<1> QED
  BY <1>3, <1>12, <1>13 DEF ExtInv
----------------------------------------------------------------------------
(* Fields of the calls that steps make                                     *)

\* The extensions that a walk which begins owes a call.
Owed(op, s) == { x \in ToSet(instances) : x.scene = s /\ x.type \in Hooks[op] }

\* A call that has just begun.
Fresh(d, op, s, t, payload) ==
  /\ d \in CallType
  /\ d.op = op /\ d.scene = s /\ d.type = t /\ d.payload = payload
  /\ d.at = 1 /\ d.in_hook = FALSE /\ d.tried = FALSE /\ d.again = FALSE
  /\ d.called = {} /\ d.excused = {}
  /\ op \in Ops => d.since = Owed(op, s)

LEMMA CallFields ==
  ASSUME TypeInv, NEW op, op \in Ops \/ op = "create", NEW s \in Scene,
         NEW t, t \in ExtType \/ t = "none", NEW payload, payload \subseteq Key
  PROVE  Fresh(Call(op, s, t, payload), op, s, t, payload)
<1> DEFINE d == Call(op, s, t, payload)
<1> DEFINE since == { x \in ToSet(instances) : x.scene = s /\ op \in Ops /\ x.type \in Hooks[op] }
<1>1. since \in SUBSET Extension
  BY DEF ToSet, TypeInv
<1>2. op \in Ops => since = Owed(op, s)
  BY DEF Owed
<1> HIDE DEF since
<1>3. d = [op |-> op, scene |-> s, type |-> t, payload |-> payload, at |-> 1,
           in_hook |-> FALSE, tried |-> FALSE, since |-> since, called |-> {},
           again |-> FALSE, excused |-> {}]
  BY DEF Call, since
<1>4. op \in {"update", "render", "deserialize", "create"}
  BY DEF Ops
<1> HIDE DEF d
<1>5. d \in CallType
  BY <1>1, <1>3, <1>4 DEF CallType
<1>6. Fresh(d, op, s, t, payload)
  BY <1>2, <1>3, <1>5 DEF Fresh
<1> QED
  BY <1>6 DEF d

\* d is the call c, at the same or another place.
SameCall(d, c) ==
  /\ d \in CallType
  /\ d.op = c.op /\ d.scene = c.scene /\ d.type = c.type /\ d.payload = c.payload
  /\ d.since = c.since

CallsNext(d, c, k, x) ==
  /\ SameCall(d, c)
  /\ d.at = k /\ d.in_hook = TRUE /\ d.tried = c.tried /\ d.again = FALSE
  /\ d.called = c.called \cup {x} /\ d.excused = c.excused

MovesOn(d, c, k) ==
  /\ SameCall(d, c)
  /\ d.at = k /\ d.in_hook = FALSE /\ d.tried = FALSE /\ d.again = c.again
  /\ d.called = c.called /\ d.excused = c.excused

Tries(d, c, k) ==
  /\ SameCall(d, c)
  /\ d.at = k /\ d.in_hook = c.in_hook /\ d.tried = TRUE /\ d.again = c.again
  /\ d.called = c.called /\ d.excused = c.excused

LEMMA CallingFields ==
  ASSUME NEW c \in CallType, NEW k \in Nat \ {0}, NEW x \in Extension, x \notin c.called
  PROVE  CallsNext(Calling(c, k, x), c, k, x)
<1> DEFINE again == x \in c.called
           called == c.called \cup {x}
           d == Calling(c, k, x)
<1>1. again = FALSE /\ called \in SUBSET Extension
  BY DEF CallType
<1> HIDE DEF again, called
<1>2. d = [c EXCEPT !.at = k, !.in_hook = TRUE, !.called = called, !.again = again]
  BY DEF Calling, again, called
<1> HIDE DEF d
<1>3. d = [op |-> c.op, scene |-> c.scene, type |-> c.type, payload |-> c.payload, at |-> k,
           in_hook |-> TRUE, tried |-> c.tried, since |-> c.since,
           called |-> called, again |-> FALSE, excused |-> c.excused]
  BY <1>1, <1>2 DEF CallType
<1>4. d \in CallType
  BY <1>1, <1>3 DEF CallType
<1>5. CallsNext(d, c, k, x)
  BY <1>3, <1>4 DEF called, CallsNext, SameCall
<1> QED
  BY <1>5 DEF d

LEMMA MovesOnFields ==
  ASSUME NEW c \in CallType, NEW k \in Nat \ {0}, c.in_hook = FALSE \/ c.in_hook = TRUE,
         NEW d, \/ d = [c EXCEPT !.at = k, !.in_hook = FALSE, !.tried = FALSE]
                \/ c.in_hook = FALSE /\ d = [c EXCEPT !.at = k, !.tried = FALSE]
  PROVE  MovesOn(d, c, k)
<1>1. d = [op |-> c.op, scene |-> c.scene, type |-> c.type, payload |-> c.payload, at |-> k,
           in_hook |-> FALSE, tried |-> FALSE, since |-> c.since,
           called |-> c.called, again |-> c.again, excused |-> c.excused]
  BY DEF CallType
<1>2. d \in CallType
  BY <1>1 DEF CallType
<1> QED
  BY <1>1, <1>2 DEF MovesOn, SameCall

LEMMA TriesFields ==
  ASSUME NEW c \in CallType, NEW k \in Nat \ {0},
         NEW d, d = [c EXCEPT !.at = k, !.tried = TRUE]
  PROVE  Tries(d, c, k)
<1>1. d = [op |-> c.op, scene |-> c.scene, type |-> c.type, payload |-> c.payload, at |-> k,
           in_hook |-> c.in_hook, tried |-> TRUE, since |-> c.since,
           called |-> c.called, again |-> c.again, excused |-> c.excused]
  BY DEF CallType
<1>2. d \in CallType
  BY <1>1 DEF CallType
<1> QED
  BY <1>1, <1>2 DEF Tries, SameCall

MoreExcused(d, c, x) ==
  /\ SameCall(d, c)
  /\ d.at = c.at /\ d.in_hook = c.in_hook /\ d.tried = c.tried /\ d.again = c.again
  /\ d.called = c.called /\ d.excused = c.excused \cup {x}

LEMMA MoreExcusedFields ==
  ASSUME NEW c \in CallType, NEW x \in Extension, NEW d, d = [c EXCEPT !.excused = @ \cup {x}]
  PROVE  MoreExcused(d, c, x)
<1>1. d = [op |-> c.op, scene |-> c.scene, type |-> c.type, payload |-> c.payload, at |-> c.at,
           in_hook |-> c.in_hook, tried |-> c.tried, since |-> c.since,
           called |-> c.called, again |-> c.again, excused |-> c.excused \cup {x}]
  BY DEF CallType
<1>2. d \in CallType
  BY <1>1 DEF CallType
<1> QED
  BY <1>1, <1>2 DEF MoreExcused, SameCall
----------------------------------------------------------------------------
(* Stacks                                                                  *)

NestedInv(s, arr, ts, live, gone) ==
  /\ \A k \in 1..Len(s) : CallInv(s[k], arr, ts, live, gone)
  /\ \A k \in 1..Len(s)-1 : NestInv(s[k], s[k+1], ts)

LEMMA StackInvIs ==
  ASSUME NEW s, NEW arr, NEW ts, NEW live, NEW gone
  PROVE  StackInv(s, arr, ts, live, gone) <=>
           /\ NestedInv(s, arr, ts, live, gone)
           /\ s # <<>> => TriedInv(s[Len(s)], arr, ts, live)
BY DEF StackInv, NestedInv

LEMMA PushKeepsNesting ==
  ASSUME NEW s \in Seq(CallType), NEW arr, NEW ts, NEW live, NEW gone, NEW d \in CallType,
         NestedInv(s, arr, ts, live, gone), CallInv(d, arr, ts, live, gone),
         s # <<>> => NestInv(s[Len(s)], d, ts)
  PROVE  /\ Append(s, d) \in Seq(CallType) /\ Append(s, d) # <<>>
         /\ Append(s, d)[Len(Append(s, d))] = d
         /\ NestedInv(Append(s, d), arr, ts, live, gone)
<1> DEFINE r == Append(s, d)
<1>1. /\ r \in Seq(CallType) /\ Len(r) = Len(s) + 1 /\ Len(s) \in Nat
      /\ r[Len(s)+1] = d /\ \A k \in 1..Len(s) : r[k] = s[k]
  OBVIOUS
<1> HIDE DEF r
<1>2. \A k \in 1..Len(r) : CallInv(r[k], arr, ts, live, gone)
  <2> TAKE k \in 1..Len(r)
  <2>1. k \in 1..Len(s) \/ k = Len(s)+1
    BY <1>1
  <2> QED
    BY <1>1, <2>1 DEF NestedInv
<1>3. \A k \in 1..Len(r)-1 : NestInv(r[k], r[k+1], ts)
  <2> TAKE k \in 1..Len(r)-1
  <2>1. CASE k \in 1..Len(s)-1
    <3>1. k \in 1..Len(s) /\ k+1 \in 1..Len(s)
      BY <1>1, <2>1
    <3> QED
      BY <1>1, <2>1, <3>1 DEF NestedInv
  <2>2. CASE k = Len(s)
    <3>1. k \in 1..Len(s) /\ s # <<>>
      BY <1>1, <2>2
    <3> QED
      BY <1>1, <2>2, <3>1
  <2> QED
    BY <1>1, <2>1, <2>2
<1>4. r # <<>> /\ r[Len(r)] = d
  BY <1>1
<1> QED
  BY <1>1, <1>2, <1>3, <1>4 DEF NestedInv, r

LEMMA FrontKeepsNesting ==
  ASSUME TypeInv, stack # <<>>, NEW arr, NEW ts, NEW live, NEW gone,
         NestedInv(stack, arr, ts, live, gone)
  PROVE  /\ Front(stack) \in Seq(CallType)
         /\ NestedInv(Front(stack), arr, ts, live, gone)
         /\ Front(stack) # <<>> =>
              /\ Len(stack)-1 \in 1..Len(stack)
              /\ Front(stack)[Len(Front(stack))] = stack[Len(stack)-1]
              /\ NestInv(stack[Len(stack)-1], Top, ts)
<1> DEFINE f == Front(stack)
           n == Len(stack)
<1>1. /\ f \in Seq(CallType) /\ Len(f) = n-1 /\ \A k \in 1..n-1 : f[k] = stack[k]
      /\ n \in Nat \ {0} /\ Top = stack[n]
  BY TopIsLast DEF TypeInv
<1> HIDE DEF f, n
<1>2. \A k \in 1..Len(f) : CallInv(f[k], arr, ts, live, gone)
  BY <1>1 DEF NestedInv, n
<1>3. \A k \in 1..Len(f)-1 : NestInv(f[k], f[k+1], ts)
  <2> TAKE k \in 1..Len(f)-1
  <2>1. k \in 1..n-1 /\ k+1 \in 1..n-1
    BY <1>1
  <2> QED
    BY <1>1, <2>1 DEF NestedInv, n
<1>4. ASSUME f # <<>>
      PROVE  n-1 \in 1..n /\ f[Len(f)] = stack[n-1] /\ NestInv(stack[n-1], Top, ts)
  <2>1. Len(f) # 0
    BY <1>1, <1>4
  <2>2. n-1 \in 1..n-1 /\ (n-1)+1 = n /\ n-1 \in 1..n
    BY <1>1, <2>1
  <2>3. NestInv(stack[n-1], stack[(n-1)+1], ts)
    BY <2>2 DEF NestedInv, n
  <2> QED
    BY <1>1, <2>2, <2>3
<1> QED
  BY <1>1, <1>2, <1>3, <1>4 DEF NestedInv, f, n

\* The call on top changes, but not what it is.
LEMMA ReplaceKeepsNesting ==
  ASSUME TypeInv, stack # <<>>, NEW arr, NEW ts, NEW live, NEW gone, NEW d \in CallType,
         NestedInv(stack, arr, ts, live, gone), CallInv(d, arr, ts, live, gone),
         d.op = Top.op, d.scene = Top.scene, d.type = Top.type
  PROVE  LET s == Append(Front(stack), d)
         IN  /\ s \in Seq(CallType) /\ s # <<>> /\ s[Len(s)] = d
             /\ NestedInv(s, arr, ts, live, gone)
<1>1. /\ Front(stack) \in Seq(CallType)
      /\ NestedInv(Front(stack), arr, ts, live, gone)
      /\ Front(stack) # <<>> =>
              /\ Front(stack)[Len(Front(stack))] = stack[Len(stack)-1]
              /\ NestInv(stack[Len(stack)-1], Top, ts)
  BY FrontKeepsNesting
<1>2. Front(stack) # <<>> => NestInv(Front(stack)[Len(Front(stack))], d, ts)
  BY <1>1 DEF NestInv
<1> QED
  BY <1>1, <1>2, PushKeepsNesting
----------------------------------------------------------------------------
(* The steps that remove                                                   *)

LEMMA DetachStep ==
  ASSUME ExtInv, NEW s \in Scene, NEW t \in ExtType, Detach(s, t)
  PROVE  ExtInv'
<1> DEFINE x == Ext(s, t)
           arr == SwapRemove(instances, x)
<1>1. /\ HostRuns /\ Dispose({x}, arr) /\ x \in ToSet(instances)
      /\ UNCHANGED <<alive, freed, types, users>>
  BY ContainsIsMembership DEF Detach, Attached, ExtInv, TypeInv, sceneVars
<1>2. Shrinks(instances, arr) /\ ToSet(arr) = ToSet(instances) \ {x}
  BY SwapRemoveShrinks DEF ExtInv, TypeInv, InstancesAgree
<1> HIDE DEF x, arr
<1>3. ToSet(instances) \ ToSet(arr) = {x}
  BY <1>1, <1>2
<1>4. \A y \in ToSet(arr) : y.scene \in alive'
  BY <1>1, <1>2 DEF ExtInv, InstancesAgree
<1>5. \A k \in 1..Len(stack) : stack[k].op = "create" => stack[k].scene \in alive'
  BY <1>1 DEF ExtInv, StackInv, CallInv, CreateInv
<1> QED
  BY <1>1, <1>2, <1>3, <1>4, <1>5, RemovalStep DEF ExtInv

LEMMA DetachAllOfStep ==
  ASSUME ExtInv, NEW s \in Scene, DetachAllOf(s)
  PROVE  ExtInv'
<1> DEFINE arr == DetachAll(s)
<1>1. /\ HostRuns /\ Dispose(ToSet(instances) \ ToSet(arr), arr)
      /\ UNCHANGED <<alive, freed, types, users>>
  BY DEF DetachAllOf, HostRunsFreely, sceneVars
<1>2. Shrinks(instances, arr) /\ ToSet(arr) = { x \in ToSet(instances) : x.scene # s }
  BY DetachAllItems DEF ExtInv, TypeInv, InstancesAgree
<1> HIDE DEF arr
<1>3. \A y \in ToSet(arr) : y.scene \in alive'
  BY <1>1, <1>2 DEF ExtInv, InstancesAgree
<1>4. \A k \in 1..Len(stack) : stack[k].op = "create" => stack[k].scene \in alive'
  BY <1>1 DEF ExtInv, StackInv, CallInv, CreateInv
<1> QED
  BY <1>1, <1>2, <1>3, <1>4, RemovalStep DEF ExtInv

LEMMA FreeSceneStep ==
  ASSUME ExtInv, NEW s \in Scene, FreeScene(s)
  PROVE  ExtInv'
<1> DEFINE arr == DetachAll(s)
<1>1. /\ HostRuns /\ ~InCreateHook /\ Dispose(ToSet(instances) \ ToSet(arr), arr)
      /\ s \in alive /\ alive' = alive \ {s} /\ freed' = freed \cup {s}
      /\ UNCHANGED <<types, users>>
  BY DEF FreeScene, HostRunsFreely
<1>2. Shrinks(instances, arr) /\ ToSet(arr) = { x \in ToSet(instances) : x.scene # s }
  BY DetachAllItems DEF ExtInv, TypeInv, InstancesAgree
<1> HIDE DEF arr
<1>3. \A y \in ToSet(arr) : y.scene \in alive'
  BY <1>1, <1>2 DEF ExtInv, InstancesAgree
<1>4. \A k \in 1..Len(stack) : stack[k].op = "create" => stack[k].scene \in alive'
  BY <1>1, CreatesOnTop DEF ExtInv
<1>5. /\ alive' \subseteq alive /\ alive' \cup freed' = alive \cup freed
      /\ alive' \cap freed' = {}
  BY <1>1 DEF ExtInv
<1> QED
  BY <1>1, <1>2, <1>3, <1>4, <1>5, RemovalStep

\* The last user's shutdown: no call is in progress, and everything goes.
LEMMA RuntimeShutdownStep ==
  ASSUME ExtInv, RuntimeShutdown
  PROVE  ExtInv'
<1>1. stack = <<>> /\ users' \in Nat /\ UNCHANGED <<alive, freed>>
  BY DEF RuntimeShutdown, ExtInv, TypeInv, sceneVars
<1>2. CASE users > 1
  <2>1. UNCHANGED <<types, instances, living, destroyed_twice, stack>>
    BY <1>2 DEF RuntimeShutdown, extVars
  <2> QED
    BY <1>1, <2>1 DEF ExtInv, TypeInv, InstancesAgree, StackInv
<1>3. CASE ~(users > 1)
  <2>1. types' = <<>> /\ Dispose(ToSet(instances), <<>>)
    BY <1>3 DEF RuntimeShutdown
  <2>2. instances' = <<>> /\ living' = {} /\ destroyed_twice' = FALSE
    BY <2>1 DEF Dispose, ExtInv, InstancesAgree
  <2>3. stack' \in Seq(CallType) /\ Len(stack') = 0 /\ stack' = <<>>
    BY <1>1, <2>1 DEF Dispose, Noted
  <2>4. InstancesAgree'
    BY <2>2 DEF InstancesAgree, IsInjective, ToSet
  <2>5. TypeInv'
    BY <1>1, <2>1, <2>2, <2>3 DEF TypeInv, ExtInv
  <2>6. StackInv(stack', instances', types', alive', freed')
    BY <2>3 DEF StackInv
  <2>7. IsInjective(types') /\ alive' \cap freed' = {}
    BY <1>1, <2>1 DEF IsInjective, ExtInv
  <2> QED
    BY <2>4, <2>5, <2>6, <2>7 DEF ExtInv
<1> QED
  BY <1>2, <1>3
----------------------------------------------------------------------------
(* The steps outside the calls                                             *)

LEMMA RuntimeInitStep ==
  ASSUME ExtInv, RuntimeInit
  PROVE  ExtInv'
<1>1. /\ users' \in Nat
      /\ UNCHANGED <<alive, freed, types, instances, living, destroyed_twice, stack>>
  BY DEF RuntimeInit, ExtInv, TypeInv, sceneVars, extVars
<1>2. InstancesAgree'
  BY <1>1 DEF ExtInv, InstancesAgree
<1>3. TypeInv'
  BY <1>1 DEF ExtInv, TypeInv
<1> QED
  BY <1>1, <1>2, <1>3 DEF ExtInv

LEMMA RegisterStep ==
  ASSUME ExtInv, NEW t \in ExtType, Register(t)
  PROVE  ExtInv'
<1>1. /\ stack = <<>> /\ types' = Append(types, t) /\ ~Contains(types, t)
      /\ UNCHANGED <<alive, freed, instances, living, destroyed_twice, stack, users>>
  BY DEF Register, Registered, sceneVars, extVars
<1>2. types' \in Seq(ExtType) /\ IsInjective(types')
  BY <1>1, AppendItems, ContainsIsMembership DEF ExtInv, TypeInv
<1>3. InstancesAgree'
  BY <1>1 DEF ExtInv, InstancesAgree
<1>4. TypeInv'
  BY <1>1, <1>2 DEF ExtInv, TypeInv
<1>5. StackInv(stack', instances', types', alive', freed')
  BY <1>1 DEF StackInv
<1> QED
  BY <1>1, <1>2, <1>3, <1>4, <1>5 DEF ExtInv

\* A new scene is none that a call in progress is about.
LEMMA NewSceneStep ==
  ASSUME ExtInv, NEW s \in Scene, NewScene(s)
  PROVE  ExtInv'
<1>1. /\ s \notin alive \cup freed /\ alive' = alive \cup {s}
      /\ UNCHANGED <<freed, types, instances, living, destroyed_twice, stack, users>>
  BY DEF NewScene, extVars
<1>2. InstancesAgree'
  BY <1>1 DEF ExtInv, InstancesAgree
<1>3. TypeInv'
  BY <1>1 DEF ExtInv, TypeInv
<1> DEFINE live == alive'
<1> HIDE DEF live
<1>4. live = alive \cup {s}
  BY <1>1 DEF live
<1>5. \A k \in 1..Len(stack) : CallInv(stack[k], instances, types, live, freed)
  <2> TAKE k \in 1..Len(stack)
  <2> DEFINE c == stack[k]
  <2>1. CallInv(c, instances, types, alive, freed)
    BY DEF ExtInv, StackInv
  <2> HIDE DEF c
  <2>2. c.scene \in alive \cup freed /\ (c.scene \in live <=> c.scene \in alive)
    BY <1>1, <1>4, <2>1 DEF CallInv
  <2>3. c.op = "deserialize" => LoadInv(c, instances, types, live)
    BY <2>1, <2>2 DEF CallInv, LoadInv
  <2>4. c.op = "create" => CreateInv(c, instances, live)
    BY <2>1, <2>2 DEF CallInv, CreateInv
  <2>5. CallInv(c, instances, types, live, freed)
    BY <1>4, <2>1, <2>2, <2>3, <2>4 DEF CallInv
  <2> QED
    BY <2>5 DEF c
<1>6. stack # <<>> => TriedInv(stack[Len(stack)], instances, types, live)
  <2> SUFFICES ASSUME stack # <<>> PROVE TriedInv(stack[Len(stack)], instances, types, live)
    OBVIOUS
  <2> DEFINE c == stack[Len(stack)]
  <2>1. Len(stack) \in 1..Len(stack)
    BY TopIsLast DEF ExtInv
  <2>2. TriedInv(c, instances, types, alive) /\ CallInv(c, instances, types, alive, freed)
    BY <2>1 DEF ExtInv, StackInv
  <2> HIDE DEF c
  <2>3. c.scene \in live <=> c.scene \in alive
    BY <1>1, <1>4, <2>2 DEF CallInv
  <2>4. TriedInv(c, instances, types, live)
    BY <2>2, <2>3 DEF TriedInv
  <2> QED
    BY <2>4 DEF c
<1>7. StackInv(stack, instances, types, live, freed)
  BY <1>5, <1>6 DEF StackInv, ExtInv
<1>8. StackInv(stack', instances', types', alive', freed')
  BY <1>1, <1>7 DEF live
<1> QED
  BY <1>1, <1>2, <1>3, <1>8 DEF ExtInv
----------------------------------------------------------------------------
(* The steps of the calls                                                  *)

LEMMA StackStep ==
  ASSUME ExtInv, UNCHANGED <<sceneVars, types, extVars, users>>,
         NEW s, stack' = s, s \in Seq(CallType), NestedInv(s, instances, types, alive, freed),
         s # <<>> => TriedInv(s[Len(s)], instances, types, alive)
  PROVE  ExtInv'
<1>1. UNCHANGED <<alive, freed, types, instances, living, destroyed_twice, users>>
  BY DEF sceneVars, extVars
<1>2. InstancesAgree'
  BY <1>1 DEF ExtInv, InstancesAgree
<1>3. TypeInv'
  BY <1>1 DEF ExtInv, TypeInv
<1>4. StackInv(stack', instances', types', alive', freed')
  BY <1>1, StackInvIs
<1> QED
  BY <1>1, <1>2, <1>3, <1>4 DEF ExtInv

LEMMA AttachStep ==
  ASSUME ExtInv, NEW s \in Scene, NEW t \in ExtType, Attach(s, t)
  PROVE  ExtInv'
<1> DEFINE d == Call("create", s, t, {})
<1>1. /\ HostRuns /\ (InCreateHook => <<Top.type, t>> \in Dependency)
      /\ s \in alive /\ Ext(s, t) \notin ToSet(instances)
      /\ stack' = Append(stack, d) /\ UNCHANGED <<sceneVars, types, extVars, users>>
  BY ContainsIsMembership DEF Attach, BeginAttach, Attached, ExtInv, TypeInv
<1>2. /\ d \in CallType /\ d.op = "create" /\ d.scene = s /\ d.type = t
      /\ d.in_hook = FALSE /\ d.tried = FALSE /\ d.again = FALSE
  <2>1. TypeInv /\ {} \subseteq Key
    BY DEF ExtInv
  <2>2. Fresh(d, "create", s, t, {})
    BY <2>1, CallFields
  <2> HIDE DEF d
  <2> QED
    BY <2>2 DEF Fresh
<1> HIDE DEF d
<1>3. CallInv(d, instances, types, alive, freed)
  BY <1>1, <1>2 DEF CallInv, CreateInv, LoopOps
<1>4. ASSUME stack # <<>> PROVE NestInv(stack[Len(stack)], d, types)
  <2>1. Top = stack[Len(stack)] /\ Top \in CallType
    BY <1>4, TopIsLast DEF ExtInv
  <2>2. Top.op = "create" \/ Top.in_hook
    BY <1>1, <1>4 DEF HostRuns
  <2>3. Top.op = "create" => <<Top.type, t>> \in Dependency
    BY <1>1, <1>4 DEF InCreateHook
  <2>4. Top.in_hook \in BOOLEAN
    BY <2>1 DEF CallType
  <2>5. NestInv(Top, d, types)
    BY <1>2, <2>2, <2>3, <2>4 DEF NestInv, LoopOps
  <2> QED
    BY <2>1, <2>5
<1>5. NestedInv(stack, instances, types, alive, freed) /\ stack \in Seq(CallType)
  BY StackInvIs DEF ExtInv, TypeInv
<1> DEFINE r == Append(stack, d)
<1>6. /\ r \in Seq(CallType) /\ r[Len(r)] = d
      /\ NestedInv(r, instances, types, alive, freed)
  BY <1>2, <1>3, <1>4, <1>5, PushKeepsNesting
<1> HIDE DEF r
<1>7. TriedInv(d, instances, types, alive)
  BY <1>2 DEF TriedInv
<1> QED
  BY <1>1, <1>6, <1>7, StackStep DEF r

LEMMA BeginWalkStep ==
  ASSUME ExtInv, NEW op \in Ops, NEW s \in Scene, NEW payload \in SUBSET Key,
         BeginWalk(op, s, payload)
  PROVE  ExtInv'
<1> DEFINE d == Call(op, s, "none", payload)
<1>1. /\ HostRuns /\ ~InCreateHook /\ s \in alive
      /\ stack' = Append(stack, d) /\ UNCHANGED <<sceneVars, types, extVars, users>>
  BY DEF BeginWalk, HostRunsFreely
<1>2. /\ d \in CallType /\ d.op = op /\ d.scene = s
      /\ d.at = 1 /\ d.in_hook = FALSE /\ d.tried = FALSE /\ d.again = FALSE
      /\ d.called = {} /\ d.excused = {}
      /\ d.since = Owed(op, s)
  <2>1. TypeInv /\ payload \subseteq Key
    BY DEF ExtInv
  <2>2. Fresh(d, op, s, "none", payload)
    BY <2>1, CallFields
  <2> HIDE DEF d
  <2> QED
    BY <2>2 DEF Fresh
<1> HIDE DEF d
<1>3. From(d) = 1 /\ Rest(instances, 1) = ToSet(instances) /\ Behind(d, types) = {}
  BY <1>2 DEF From, Rest, ToSet, Behind, ExtInv, TypeInv
<1>4. LoopInv(d, instances)
  BY <1>2, <1>3 DEF LoopInv, Owed
<1>5. LoadInv(d, instances, types, alive)
  BY <1>2, <1>3 DEF LoadInv
<1>6. CallInv(d, instances, types, alive, freed)
  BY <1>1, <1>2, <1>4, <1>5 DEF CallInv, Ops
<1>7. ASSUME stack # <<>> PROVE NestInv(stack[Len(stack)], d, types)
  <2>1. Top = stack[Len(stack)] /\ Top \in CallType
    BY <1>7, TopIsLast DEF ExtInv
  <2>2. Top.op # "create" /\ Top.in_hook
    BY <1>1, <1>7 DEF HostRuns, InCreateHook
  <2>3. Top.in_hook \in BOOLEAN
    BY <2>1 DEF CallType
  <2>4. NestInv(Top, d, types)
    BY <2>2, <2>3 DEF NestInv
  <2> QED
    BY <2>1, <2>4
<1>8. NestedInv(stack, instances, types, alive, freed) /\ stack \in Seq(CallType)
  BY StackInvIs DEF ExtInv, TypeInv
<1> DEFINE r == Append(stack, d)
<1>9. /\ r \in Seq(CallType) /\ r[Len(r)] = d
      /\ NestedInv(r, instances, types, alive, freed)
  BY <1>2, <1>6, <1>7, <1>8, PushKeepsNesting
<1> HIDE DEF r
<1>10. TriedInv(d, instances, types, alive)
  BY <1>2 DEF TriedInv
<1> QED
  BY <1>1, <1>9, <1>10, StackStep DEF r

\* Below the top there is no tried deserialize that is not waiting for its attach.
LEMMA UnderWalk ==
  ASSUME NEW c, NEW d, NEW ts, NEW arr, NEW live, NestInv(c, d, ts), d.op # "create"
  PROVE  TriedInv(c, arr, ts, live)
BY DEF NestInv, TriedInv

LEMMA EndWalkStep ==
  ASSUME ExtInv, EndWalk
  PROVE  ExtInv'
<1> DEFINE s == Front(stack)
<1>1. /\ stack # <<>> /\ Top.op \in Ops /\ stack' = s
      /\ UNCHANGED <<sceneVars, types, extVars, users>>
  BY DEF EndWalk, WalkAdvances
<1>2. NestedInv(stack, instances, types, alive, freed)
  BY StackInvIs DEF ExtInv
<1>3. /\ s \in Seq(CallType) /\ NestedInv(s, instances, types, alive, freed)
      /\ s # <<>> => /\ s[Len(s)] = stack[Len(stack)-1]
                     /\ NestInv(stack[Len(stack)-1], Top, types)
  BY <1>1, <1>2, FrontKeepsNesting DEF ExtInv
<1> HIDE DEF s
<1>4. s # <<>> => TriedInv(s[Len(s)], instances, types, alive)
  BY <1>1, <1>3, UnderWalk DEF Ops
<1> QED
  BY <1>1, <1>3, <1>4, StackStep

\* The walk on top moves on, and nothing else changes.
LEMMA TopMovesStep ==
  ASSUME ExtInv, stack # <<>>, UNCHANGED <<sceneVars, types, extVars, users>>,
         NEW d \in CallType, stack' = Append(Front(stack), d),
         CallInv(d, instances, types, alive, freed), TriedInv(d, instances, types, alive),
         d.op = Top.op, d.scene = Top.scene, d.type = Top.type
  PROVE  ExtInv'
<1> DEFINE s == Append(Front(stack), d)
<1>1. NestedInv(stack, instances, types, alive, freed)
  BY StackInvIs DEF ExtInv
<1>2. /\ s \in Seq(CallType) /\ s # <<>> /\ s[Len(s)] = d
      /\ NestedInv(s, instances, types, alive, freed)
  BY <1>1, ReplaceKeepsNesting DEF ExtInv
<1> HIDE DEF s
<1> QED
  BY <1>2, StackStep DEF s

LEMMA WalkCallsStep ==
  ASSUME ExtInv, WalkCalls
  PROVE  ExtInv'
<1> DEFINE c == Top
           k == Min(Ahead(c))
           x == instances[k]
           d == Calling(c, k, x)
<1>1. /\ stack # <<>> /\ c.op \in Ops /\ ~c.in_hook /\ c.op # "deserialize" /\ Ahead(c) # {}
      /\ stack' = Append(Front(stack), d) /\ UNCHANGED <<sceneVars, types, extVars, users>>
  BY DEF WalkCalls, WalkAdvances
<1>2. c \in CallType /\ c.op \in LoopOps /\ c.in_hook = FALSE
  <2>1. c \in CallType
    BY <1>1, TopIsLast DEF ExtInv
  <2>2. c.in_hook \in BOOLEAN
    BY <2>1 DEF CallType
  <2> QED
    BY <1>1, <2>1, <2>2 DEF Ops, LoopOps
<1>3. CallInv(c, instances, types, alive, freed)
  BY <1>1, TopIsLast DEF ExtInv, StackInv
<1>4. Ahead(c) = { j \in c.at..Len(instances) :
                     instances[j].scene = c.scene /\ instances[j].type \in Hooks[c.op] }
  BY <1>1 DEF Ahead
<1>5. c.at \in Nat \ {0} /\ instances \in Seq(Extension) /\ Len(instances) \in Nat
  BY <1>2 DEF CallType, ExtInv, TypeInv
<1>6. k \in Ahead(c) /\ \A j \in Ahead(c) : k <= j
  <2>1. Ahead(c) \in SUBSET Nat
    BY <1>4, <1>5
  <2> QED
    BY <1>1, <2>1, LeastPlace
<1> HIDE DEF k
<1>7. k \in 1..Len(instances) /\ k >= c.at /\ k \in Nat \ {0} /\ x \in Extension
  BY <1>4, <1>5, <1>6
<1> HIDE DEF c, x
<1>8. From(c) = c.at /\ LoopInv(c, instances)
  BY <1>2, <1>3 DEF From, CallInv
<1>9. x \in Rest(instances, c.at) /\ x \notin c.called
  <2>1. x \in Rest(instances, c.at)
    BY <1>7 DEF Rest, x
  <2> QED
    BY <1>8, <2>1 DEF LoopInv
<1>10. /\ d \in CallType
       /\ d.op = c.op /\ d.scene = c.scene /\ d.type = c.type
       /\ d.at = k /\ d.in_hook = TRUE /\ d.again = FALSE
       /\ d.since = c.since /\ d.called = c.called \cup {x} /\ d.excused = c.excused
  <2>1. CallsNext(d, c, k, x)
    BY <1>2, <1>7, <1>9, CallingFields
  <2> HIDE DEF d
  <2> QED
    BY <2>1 DEF CallsNext, SameCall
<1> HIDE DEF d
<1>11. From(d) = k + 1
  BY <1>10 DEF From
<1>12. Rest(instances, k+1) \subseteq Rest(instances, c.at) /\ x \notin Rest(instances, k+1)
  <2>1. ASSUME NEW y \in Rest(instances, k+1) PROVE y \in Rest(instances, c.at) /\ y # x
    <3>1. PICK j \in 1..Len(instances) : j >= k+1 /\ y = instances[j]
      BY <2>1 DEF Rest
    <3>2. j # k /\ j >= c.at
      BY <1>5, <1>7, <3>1
    <3>3. y # x
      BY <1>7, <3>1, <3>2 DEF ExtInv, InstancesAgree, IsInjective, x
    <3> QED
      BY <3>1, <3>2, <3>3 DEF Rest
  <2> QED
    BY <2>1
<1>13. ASSUME NEW y \in c.since PROVE y \in d.called \cup d.excused \cup Rest(instances, k+1)
  <2>1. y \in c.called \cup c.excused \cup Rest(instances, c.at)
    BY <1>8 DEF LoopInv
  <2>2. CASE y \in Rest(instances, c.at)
    <3>1. PICK j \in 1..Len(instances) : j >= c.at /\ y = instances[j]
      BY <2>2 DEF Rest
    <3>2. y.scene = c.scene /\ y.type \in Hooks[c.op]
      BY <1>8 DEF LoopInv
    <3>3. j \in Ahead(c)
      BY <1>4, <1>5, <3>1, <3>2
    <3>4. j = k \/ j >= k+1
      BY <1>6, <1>7, <3>3
    <3> QED
      BY <1>10, <3>1, <3>4 DEF Rest, x
  <2> QED
    BY <1>10, <2>1, <2>2
<1>14. LoopInv(d, instances)
  <2>1. x \in ToSet(instances)
    BY <1>7 DEF ToSet, x
  <2> QED
    BY <1>8, <1>10, <1>11, <1>12, <1>13, <2>1 DEF LoopInv
<1>15. CallInv(d, instances, types, alive, freed) /\ TriedInv(d, instances, types, alive)
  BY <1>2, <1>3, <1>10, <1>14 DEF CallInv, TriedInv, LoopOps
<1> QED
  BY <1>1, <1>10, <1>15, TopMovesStep DEF c

LEMMA HookReturnsStep ==
  ASSUME ExtInv, HookReturns
  PROVE  ExtInv'
<1> DEFINE c == Top
           d == [c EXCEPT !.at = NextPlace(@), !.in_hook = FALSE, !.tried = FALSE]
<1>1. /\ stack # <<>> /\ c.in_hook
      /\ stack' = Append(Front(stack), d) /\ UNCHANGED <<sceneVars, types, extVars, users>>
  BY DEF HookReturns
<1>2. c \in CallType /\ c.in_hook = TRUE
  <2>1. c \in CallType
    BY <1>1, TopIsLast DEF ExtInv
  <2>2. c.in_hook \in BOOLEAN
    BY <2>1 DEF CallType
  <2> QED
    BY <1>1, <2>1, <2>2
<1>3. CallInv(c, instances, types, alive, freed)
  BY <1>1, TopIsLast DEF ExtInv, StackInv
<1> HIDE DEF c
<1>4. c.at \in Nat \ {0} /\ c.at + 1 \in Nat \ {0} /\ FALSE \in BOOLEAN
  BY <1>2 DEF CallType
<1>5. d = [c EXCEPT !.at = c.at + 1, !.in_hook = FALSE, !.tried = FALSE]
  BY DEF NextPlace
<1> HIDE DEF d
<1>6. /\ d \in CallType
      /\ d.op = c.op /\ d.scene = c.scene /\ d.type = c.type /\ d.payload = c.payload
      /\ d.at = c.at + 1 /\ d.in_hook = FALSE /\ d.tried = FALSE /\ d.again = c.again
      /\ d.since = c.since /\ d.called = c.called /\ d.excused = c.excused
  <2>1. MovesOn(d, c, c.at + 1)
    BY <1>2, <1>4, <1>5, MovesOnFields
  <2> QED
    BY <2>1 DEF MovesOn, SameCall
<1>7. From(d) = From(c)
  BY <1>2, <1>6 DEF From
<1>8. LoopInv(c, instances) => LoopInv(d, instances)
  BY <1>6, <1>7 DEF LoopInv
<1>9. LoadInv(c, instances, types, alive) => LoadInv(d, instances, types, alive)
  <2>1. Behind(d, types) = Behind(c, types)
    BY <1>7 DEF Behind
  <2>2. \A t : Restored(c, instances, t) => Restored(d, instances, t)
    BY <1>6 DEF Restored
  <2> QED
    BY <1>6, <2>1, <2>2 DEF LoadInv
<1>10. CallInv(d, instances, types, alive, freed) /\ TriedInv(d, instances, types, alive)
  BY <1>2, <1>3, <1>6, <1>8, <1>9 DEF CallInv, CreateInv, TriedInv
<1> QED
  BY <1>1, <1>6, <1>10, TopMovesStep DEF c

\* The loop of a deserialize comes to place k: what it passes over to get
\* there has no key in the dictionary, and what it tried it comes back to.
LEMMA NextType ==
  ASSUME ExtInv, WalkAdvances, Top.op = "deserialize", Ahead(Top) # {},
         NEW c, c = Top, NEW k, k = Min(Ahead(c))
  PROVE  /\ stack # <<>> /\ c \in CallType /\ c.in_hook = FALSE /\ From(c) = c.at
         /\ CallInv(c, instances, types, alive, freed)
         /\ TriedInv(c, instances, types, alive)
         /\ k \in 1..Len(types) /\ k \in Nat \ {0} /\ c.at <= k
         /\ KeyOf[types[k]] \in c.payload
         /\ c.scene \in alive => \A j \in 1..k-1 : Restored(c, instances, types[j])
         /\ \A j \in 1..Len(types) : j >= k => Ext(c.scene, types[j]) \notin c.called
         /\ c.tried = TRUE => c.at = k
<1>1. stack # <<>> /\ c \in CallType /\ c = stack[Len(stack)] /\ Len(stack) \in 1..Len(stack)
  BY TopIsLast DEF ExtInv, WalkAdvances
<1>2. c.in_hook = FALSE /\ From(c) = c.at
  <2>1. c.in_hook \in BOOLEAN
    BY <1>1 DEF CallType
  <2> QED
    BY <2>1 DEF WalkAdvances, From
<1>3. CallInv(c, instances, types, alive, freed) /\ TriedInv(c, instances, types, alive)
  BY <1>1 DEF ExtInv, StackInv
<1>4. LoadInv(c, instances, types, alive)
  BY <1>3 DEF CallInv
<1>5. c.at \in Nat \ {0} /\ types \in Seq(ExtType) /\ Len(types) \in Nat
  BY <1>1 DEF CallType, ExtInv, TypeInv
<1>6. Ahead(c) = { j \in c.at..Len(types) : KeyOf[types[j]] \in c.payload }
  BY DEF Ahead
<1>7. k \in Ahead(c) /\ \A j \in Ahead(c) : k <= j
  <2>1. Ahead(c) \in SUBSET Nat
    BY <1>5, <1>6
  <2> QED
    BY <2>1, LeastPlace
<1>8. /\ k \in 1..Len(types) /\ k \in Nat \ {0} /\ c.at <= k
      /\ KeyOf[types[k]] \in c.payload
  BY <1>5, <1>6, <1>7
<1>9. Behind(c, types) = { types[j] : j \in { i \in 1..Len(types) : i < c.at } }
  BY <1>2 DEF Behind
<1>10. ASSUME c.scene \in alive, NEW j \in 1..k-1 PROVE Restored(c, instances, types[j])
  <2>1. CASE j < c.at
    <3>1. types[j] \in Behind(c, types)
      BY <1>5, <1>8, <1>9, <2>1
    <3> QED
      BY <1>4, <1>10, <3>1 DEF LoadInv
  <2>2. CASE j >= c.at
    <3>1. j \in c.at..Len(types) /\ ~(k <= j)
      BY <1>5, <1>8, <2>2
    <3>2. KeyOf[types[j]] \notin c.payload
      BY <1>6, <1>7, <3>1
    <3> QED
      BY <3>2 DEF Restored
  <2> QED
    BY <1>5, <1>8, <2>1, <2>2
<1>11. ASSUME NEW j \in 1..Len(types), j >= k PROVE Ext(c.scene, types[j]) \notin c.called
  <2> SUFFICES ASSUME Ext(c.scene, types[j]) \in c.called PROVE FALSE
    OBVIOUS
  <2>1. Ext(c.scene, types[j]) \in { Ext(c.scene, t) : t \in Behind(c, types) }
    BY <1>4 DEF LoadInv
  <2>2. PICK t \in Behind(c, types) : Ext(c.scene, types[j]) = Ext(c.scene, t)
    BY <2>1
  <2>3. PICK i \in 1..Len(types) : i < c.at /\ t = types[i]
    BY <1>9
  <2>4. types[j] = types[i] /\ i # j
    BY <1>5, <1>8, <1>11, <2>2, <2>3 DEF Ext
  <2> QED
    BY <2>4 DEF ExtInv, IsInjective
<1>12. c.tried = TRUE => c.at = k
  <2> SUFFICES ASSUME c.tried = TRUE PROVE c.at = k
    OBVIOUS
  <2>1. c.at \in 1..Len(types) /\ KeyOf[types[c.at]] \in c.payload
    BY <1>2, <1>4 DEF LoadInv
  <2>2. c.at \in Ahead(c)
    BY <1>5, <1>6, <2>1
  <2> QED
    BY <1>5, <1>7, <1>8, <2>2
<1> QED
  BY <1>1, <1>2, <1>3, <1>8, <1>10, <1>11, <1>12

\* A deserialize that is at place n, or has left what is before n behind.
LEMMA LoadInvAt ==
  ASSUME types \in Seq(ExtType), NEW c, NEW n \in Nat, From(c) = n, n <= Len(types) + 1,
         NEW live, c.scene \in live => \A j \in 1..n-1 : Restored(c, instances, types[j]),
         \A x \in c.called : \E j \in 1..n-1 : x = Ext(c.scene, types[j]),
         c.in_hook = TRUE \/ c.tried = TRUE => c.at \in 1..Len(types),
         c.tried = TRUE /\ c.in_hook = FALSE => KeyOf[types[c.at]] \in c.payload,
         c.in_hook \in BOOLEAN, c.tried \in BOOLEAN
  PROVE  LoadInv(c, instances, types, live)
<1>1. Behind(c, types) = { types[j] : j \in { i \in 1..Len(types) : i < n } }
  BY DEF Behind
<1>2. \A j \in 1..n-1 : types[j] \in Behind(c, types)
  <2> TAKE j \in 1..n-1
  <2>1. j \in 1..Len(types) /\ j < n
    OBVIOUS
  <2> QED
    BY <1>1, <2>1
<1>3. ASSUME NEW t \in Behind(c, types) PROVE \E j \in 1..n-1 : t = types[j]
  <2>1. PICK j \in 1..Len(types) : j < n /\ t = types[j]
    BY <1>1
  <2> QED
    BY <2>1
<1> QED
  BY <1>2, <1>3 DEF LoadInv

\* What it called lies before the place it is at.
LEMMA CalledBefore ==
  ASSUME types \in Seq(ExtType), NEW c, LoadInv(c, instances, types, alive),
         NEW n \in Nat, From(c) \in Nat, From(c) <= n
  PROVE  \A x \in c.called : \E j \in 1..n-1 : x = Ext(c.scene, types[j])
<1> TAKE x \in c.called
<1>1. PICK t \in Behind(c, types) : x = Ext(c.scene, t)
  BY DEF LoadInv
<1>2. PICK j \in 1..Len(types) : j < From(c) /\ t = types[j]
  BY DEF Behind
<1>3. j \in 1..n-1
  BY <1>2
<1> QED
  BY <1>1, <1>2, <1>3

LEMMA DeserializeNextStep ==
  ASSUME ExtInv, DeserializeStep
  PROVE  ExtInv'
<1> DEFINE c == Top
           k == Min(Ahead(c))
           t == types[k]
           tried == [c EXCEPT !.at = k, !.tried = TRUE]
           e == Call("create", c.scene, t, {})
           called == Calling(c, k, Ext(c.scene, t))
           passed == [c EXCEPT !.at = NextPlace(k), !.tried = FALSE]
<1>1. /\ WalkAdvances /\ c.op = "deserialize" /\ Ahead(c) # {}
      /\ stack' = Front(stack) \o
                    IF NeedsAttach(c, t) THEN <<tried, e>>
                    ELSE IF Attached(c.scene, t) /\ t \in Hooks["deserialize"] THEN <<called>>
                    ELSE <<passed>>
      /\ UNCHANGED <<sceneVars, types, extVars, users>>
  BY DEF DeserializeStep
<1>2. /\ stack # <<>> /\ c \in CallType /\ c.in_hook = FALSE /\ From(c) = c.at
      /\ CallInv(c, instances, types, alive, freed)
      /\ TriedInv(c, instances, types, alive)
      /\ k \in 1..Len(types) /\ k \in Nat \ {0} /\ c.at <= k
      /\ KeyOf[types[k]] \in c.payload
      /\ c.scene \in alive => \A j \in 1..k-1 : Restored(c, instances, types[j])
      /\ \A j \in 1..Len(types) : j >= k => Ext(c.scene, types[j]) \notin c.called
      /\ c.tried = TRUE => c.at = k
  <2> HIDE DEF c, k
  <2>1. c = Top /\ k = Min(Ahead(c))
    BY DEF c, k
  <2> QED
    BY <1>1, <2>1, NextType
<1> HIDE DEF k
<1>3. /\ c.at \in Nat \ {0} /\ types \in Seq(ExtType) /\ Len(types) \in Nat
      /\ t \in ExtType /\ c.scene \in Scene /\ k+1 \in Nat \ {0} /\ k <= Len(types) + 1
      /\ k + 1 <= Len(types) + 1 /\ Ext(c.scene, t) \in Extension
      /\ c.tried \in BOOLEAN
  BY <1>2 DEF CallType, ExtInv, TypeInv, Ext, Extension
<1> HIDE DEF t
<1>4. Attached(c.scene, t) <=> Ext(c.scene, t) \in ToSet(instances)
  BY ContainsIsMembership DEF Attached, ExtInv, TypeInv
<1>5. Front(stack) \in Seq(CallType)
  BY <1>2, TopIsLast DEF ExtInv
<1>6. LoadInv(c, instances, types, alive)
  BY <1>1, <1>2 DEF CallInv
<1>7. /\ \A x \in c.called : \E j \in 1..k-1 : x = Ext(c.scene, types[j])
      /\ \A x \in c.called : \E j \in 1..(k+1)-1 : x = Ext(c.scene, types[j])
  <2>1. From(c) \in Nat /\ From(c) <= k /\ From(c) <= k+1 /\ k \in Nat /\ k+1 \in Nat
    BY <1>2, <1>3
  <2> HIDE DEF c
  <2> QED
    BY <1>3, <1>6, <2>1, CalledBefore
<1>8. CASE NeedsAttach(c, t)
  <2> HIDE DEF c, tried, e
  <2>1. /\ stack' = Front(stack) \o <<tried, e>>
        /\ Ext(c.scene, t) \notin ToSet(instances) /\ c.scene \in alive
    BY <1>1, <1>4, <1>8 DEF NeedsAttach
  <2>2. Tries(tried, c, k)
    BY <1>2, TriesFields DEF tried
  <2>3. /\ tried \in CallType /\ tried.op = c.op /\ tried.scene = c.scene
        /\ tried.type = c.type /\ tried.payload = c.payload /\ tried.at = k
        /\ tried.in_hook = FALSE /\ tried.tried = TRUE /\ tried.again = c.again
        /\ tried.called = c.called /\ tried.excused = c.excused
    BY <1>2, <2>2 DEF Tries, SameCall
  <2>4. From(tried) = k
    BY <2>3 DEF From
  <2>5. LoadInv(tried, instances, types, alive)
    <3>1. tried.scene \in alive => \A j \in 1..k-1 : Restored(tried, instances, types[j])
      BY <1>2, <2>3 DEF Restored
    <3>2. tried.in_hook \in BOOLEAN /\ tried.tried \in BOOLEAN /\ k \in Nat
      BY <1>2, <2>3
    <3>3. \A x \in tried.called : \E j \in 1..k-1 : x = Ext(tried.scene, types[j])
      BY <1>7, <2>3
    <3>4. tried.at \in 1..Len(types) /\ KeyOf[types[tried.at]] \in tried.payload
      BY <1>2, <2>3
    <3> QED
      BY <1>3, <2>4, <3>1, <3>2, <3>3, <3>4, LoadInvAt
  <2>6. CallInv(tried, instances, types, alive, freed)
    BY <1>1, <1>2, <2>3, <2>5 DEF CallInv, LoopOps
  <2>7. Fresh(e, "create", c.scene, t, {})
    <3>1. TypeInv /\ {} \subseteq Key
      BY DEF ExtInv
    <3> QED
      BY <1>3, <3>1, CallFields DEF e
  <2>8. /\ e \in CallType /\ e.op = "create" /\ e.scene = c.scene /\ e.type = t
        /\ e.in_hook = FALSE /\ e.tried = FALSE /\ e.again = FALSE
    BY <2>7 DEF Fresh
  <2>9. CallInv(e, instances, types, alive, freed)
    BY <1>3, <2>1, <2>8 DEF CallInv, CreateInv, LoopOps
  <2>10. NestInv(tried, e, types)
    BY <1>1, <2>3, <2>8 DEF NestInv, LoopOps, t
  <2> DEFINE s == Append(Front(stack), tried)
             r == Append(s, e)
  <2>11. /\ s \in Seq(CallType) /\ s # <<>> /\ s[Len(s)] = tried
         /\ NestedInv(s, instances, types, alive, freed)
    <3>1. NestedInv(stack, instances, types, alive, freed) /\ TypeInv
      BY StackInvIs DEF ExtInv
    <3>2. tried.op = Top.op /\ tried.scene = Top.scene /\ tried.type = Top.type
      BY <2>3 DEF c
    <3> QED
      BY <1>2, <2>3, <2>6, <3>1, <3>2, ReplaceKeepsNesting
  <2>12. stack' = r
    BY <1>5, <2>1, <2>3, <2>8
  <2> HIDE DEF s
  <2>13. /\ r \in Seq(CallType) /\ r[Len(r)] = e
         /\ NestedInv(r, instances, types, alive, freed)
    BY <2>8, <2>9, <2>10, <2>11, PushKeepsNesting
  <2> HIDE DEF r
  <2>14. TriedInv(e, instances, types, alive)
    BY <2>8 DEF TriedInv
  <2> QED
    BY <1>1, <2>12, <2>13, <2>14, StackStep
<1>9. CASE ~NeedsAttach(c, t) /\ Attached(c.scene, t) /\ t \in Hooks["deserialize"]
  <2> DEFINE x == Ext(c.scene, t)
  <2> HIDE DEF c, called, x
  <2>1. stack' = Append(Front(stack), called) /\ x \in ToSet(instances)
    BY <1>1, <1>4, <1>5, <1>9 DEF x
  <2>2. CallsNext(called, c, k, x)
    <3>1. x \notin c.called /\ x \in Extension
      BY <1>2, <1>3 DEF t, x
    <3> QED
      BY <1>2, <3>1, CallingFields DEF called, x
  <2>3. /\ called \in CallType /\ called.op = c.op /\ called.scene = c.scene
        /\ called.type = c.type /\ called.payload = c.payload /\ called.at = k
        /\ called.in_hook = TRUE /\ called.tried = c.tried /\ called.again = FALSE
        /\ called.called = c.called \cup {x} /\ called.excused = c.excused
    BY <2>2 DEF CallsNext, SameCall
  <2>4. From(called) = k+1
    BY <2>3 DEF From
  <2>5. LoadInv(called, instances, types, alive)
    <3>1. ASSUME called.scene \in alive, NEW j \in 1..(k+1)-1
          PROVE  Restored(called, instances, types[j])
      <4>1. CASE j = k
        BY <2>1, <2>3, <4>1 DEF Restored, x, t
      <4>2. CASE j # k
        <5>1. j \in 1..k-1
          BY <1>2, <4>2
        <5>2. Restored(c, instances, types[j])
          BY <1>2, <2>3, <3>1, <5>1
        <5> QED
          BY <2>3, <5>2 DEF Restored
      <4> QED
        BY <4>1, <4>2
    <3>2. called.in_hook \in BOOLEAN /\ called.tried \in BOOLEAN /\ k+1 \in Nat
      BY <1>3, <2>3
    <3>3. \A y \in called.called : \E j \in 1..(k+1)-1 : y = Ext(called.scene, types[j])
      <4>1. x = Ext(called.scene, types[k]) /\ k \in 1..(k+1)-1
        BY <1>2, <2>3 DEF x, t
      <4> QED
        BY <1>7, <2>3, <4>1
    <3>4. called.at \in 1..Len(types)
      BY <1>2, <2>3
    <3> QED
      BY <1>3, <2>3, <2>4, <3>1, <3>2, <3>3, <3>4, LoadInvAt
  <2>6. CallInv(called, instances, types, alive, freed) /\ TriedInv(called, instances, types, alive)
    BY <1>1, <1>2, <2>3, <2>5 DEF CallInv, LoopOps, TriedInv
  <2> QED
    BY <1>1, <1>2, <2>1, <2>3, <2>6, TopMovesStep DEF c
<1>10. CASE ~NeedsAttach(c, t) /\ ~(Attached(c.scene, t) /\ t \in Hooks["deserialize"])
  <2> HIDE DEF c
  <2>1. stack' = Append(Front(stack), passed)
    BY <1>1, <1>5, <1>10
  <2>2. MovesOn(passed, c, k+1)
    <3>1. passed = [c EXCEPT !.at = k+1, !.tried = FALSE]
      BY DEF NextPlace
    <3> HIDE DEF passed
    <3> QED
      BY <1>2, <1>3, <3>1, MovesOnFields
  <2> HIDE DEF passed
  <2>3. /\ passed \in CallType /\ passed.op = c.op /\ passed.scene = c.scene
        /\ passed.type = c.type /\ passed.payload = c.payload /\ passed.at = k+1
        /\ passed.in_hook = FALSE /\ passed.tried = FALSE /\ passed.again = c.again
        /\ passed.called = c.called /\ passed.excused = c.excused
    BY <2>2 DEF MovesOn, SameCall
  <2>4. From(passed) = k+1
    BY <2>3 DEF From
  <2>5. ASSUME c.scene \in alive PROVE Restored(c, instances, t)
    <3>1. CASE Attached(c.scene, t)
      BY <1>4, <1>10, <3>1 DEF Restored
    <3>2. CASE ~Attached(c.scene, t)
      <4>1. c.tried = TRUE
        BY <1>3, <1>10, <2>5, <3>2 DEF NeedsAttach
      <4>2. Ext(c.scene, t) \in ToSet(instances) \cup c.excused
        BY <1>1, <1>2, <2>5, <4>1 DEF TriedInv, t
      <4> QED
        BY <1>4, <3>2, <4>2 DEF Restored
    <3> QED
      BY <3>1, <3>2
  <2>6. LoadInv(passed, instances, types, alive)
    <3>1. ASSUME passed.scene \in alive, NEW j \in 1..(k+1)-1
          PROVE  Restored(passed, instances, types[j])
      <4>1. Restored(c, instances, types[j])
        <5>1. j = k \/ j \in 1..k-1
          BY <1>2
        <5> QED
          BY <1>2, <2>3, <2>5, <3>1, <5>1 DEF t
      <4> QED
        BY <2>3, <4>1 DEF Restored
    <3>2. passed.in_hook \in BOOLEAN /\ passed.tried \in BOOLEAN /\ k+1 \in Nat
      BY <1>3, <2>3
    <3>3. \A y \in passed.called : \E j \in 1..(k+1)-1 : y = Ext(passed.scene, types[j])
      BY <1>7, <2>3
    <3> QED
      BY <1>3, <2>3, <2>4, <3>1, <3>2, <3>3, LoadInvAt
  <2>7. CallInv(passed, instances, types, alive, freed) /\ TriedInv(passed, instances, types, alive)
    BY <1>1, <1>2, <2>3, <2>6 DEF CallInv, LoopOps, TriedInv
  <2> QED
    BY <1>1, <1>2, <2>1, <2>3, <2>7, TopMovesStep DEF c
<1> QED
  BY <1>8, <1>9, <1>10

\* Appending leaves everything where it was.
LEMMA AppendKeepsRest ==
  ASSUME NEW S, NEW arr \in Seq(S), NEW x \in S, NEW n \in Nat
  PROVE  Rest(arr, n) \subseteq Rest(Append(arr, x), n)
<1>1. Len(Append(arr, x)) = Len(arr) + 1 /\ Len(arr) \in Nat
  OBVIOUS
<1>2. \A j \in 1..Len(arr) : Append(arr, x)[j] = arr[j] /\ j \in 1..Len(Append(arr, x))
  BY <1>1
<1> QED
  BY <1>2 DEF Rest

\* An extension is appended while c is in progress; c is not in its create hook.
LEMMA AppendKeepsCall ==
  ASSUME TypeInv, NEW x \in Extension, x \notin ToSet(instances),
         NEW c \in CallType, CallInv(c, instances, types, alive, freed),
         c.op = "create" => Ext(c.scene, c.type) # x
  PROVE  CallInv(c, Append(instances, x), types, alive, freed)
<1> DEFINE arr == Append(instances, x)
<1>1. ToSet(arr) = ToSet(instances) \cup {x}
  BY AppendItems DEF TypeInv
<1>2. From(c) \in Nat
  BY DEF From, CallType
<1>3. /\ Rest(arr, From(c)) \subseteq Rest(instances, From(c)) \cup {x}
      /\ Rest(instances, From(c)) \subseteq Rest(arr, From(c))
  BY <1>2, AppendRest, AppendKeepsRest DEF TypeInv
<1> HIDE DEF arr
<1>4. LoopInv(c, instances) => LoopInv(c, arr)
  BY <1>1, <1>3 DEF LoopInv
<1>5. LoadInv(c, instances, types, alive) => LoadInv(c, arr, types, alive)
  <2>1. \A t : Restored(c, instances, t) => Restored(c, arr, t)
    BY <1>1 DEF Restored
  <2> QED
    BY <2>1 DEF LoadInv
<1>6. c.op = "create" /\ CreateInv(c, instances, alive) => CreateInv(c, arr, alive)
  BY <1>1 DEF CreateInv
<1> QED
  BY <1>4, <1>5, <1>6 DEF CallInv, arr

\* The attach that is in its create hook.
LEMMA TopCreate ==
  ASSUME ExtInv, InCreateHook, NEW x, x = Ext(Top.scene, Top.type)
  PROVE  /\ stack # <<>> /\ Top \in CallType /\ Top.op = "create"
         /\ x \in Extension /\ x \notin ToSet(instances) /\ x.scene \in alive
         /\ \A k \in 1..Len(stack)-1 : stack[k].op = "create" => Ext(stack[k].scene, stack[k].type) # x
<1>1. stack # <<>> /\ Top.op = "create" /\ Top \in CallType /\ Top = stack[Len(stack)]
      /\ Len(stack) \in 1..Len(stack)
  BY TopIsLast DEF InCreateHook, ExtInv
<1>2. CreateInv(Top, instances, alive)
  BY <1>1 DEF ExtInv, StackInv, CallInv
<1>3. x \in Extension /\ x \notin ToSet(instances) /\ x.scene \in alive
  BY <1>1, <1>2 DEF CreateInv, CallType, Ext, Extension
<1>4. ASSUME NEW k \in 1..Len(stack)-1, stack[k].op = "create"
      PROVE  Ext(stack[k].scene, stack[k].type) # x
  <2>1. stack[k].type # stack[Len(stack)].type
    BY <1>4, CreatesDiffer DEF ExtInv
  <2> QED
    BY <1>1, <2>1 DEF Ext
<1> QED
  BY <1>1, <1>3, <1>4

LEMMA CreateSucceedsStep ==
  ASSUME ExtInv, InCreateHook, NEW x, x = Ext(Top.scene, Top.type),
         instances' = Append(instances, x), living' = living \cup {x},
         stack' = Front(stack), UNCHANGED <<alive, freed, types, destroyed_twice, users>>
  PROVE  ExtInv'
<1> DEFINE arr == Append(instances, x)
           f == Front(stack)
<1>1. /\ stack # <<>> /\ Top \in CallType /\ Top.op = "create"
      /\ x \in Extension /\ x \notin ToSet(instances) /\ x.scene \in alive
      /\ \A k \in 1..Len(stack)-1 : stack[k].op = "create" => Ext(stack[k].scene, stack[k].type) # x
  BY TopCreate
<1>2. arr \in Seq(Extension) /\ ToSet(arr) = ToSet(instances) \cup {x} /\ IsInjective(arr)
  BY <1>1, AppendItems DEF ExtInv, TypeInv, InstancesAgree
<1>3. NestedInv(stack, instances, types, alive, freed) /\ TypeInv
  BY StackInvIs DEF ExtInv
<1>4. /\ f \in Seq(CallType) /\ NestedInv(f, instances, types, alive, freed)
      /\ f # <<>> => /\ Len(stack)-1 \in 1..Len(stack)
                     /\ f[Len(f)] = stack[Len(stack)-1]
                     /\ NestInv(stack[Len(stack)-1], Top, types)
  BY <1>1, <1>3, FrontKeepsNesting
<1>5. Len(f) = Len(stack) - 1 /\ (\A k \in 1..Len(stack)-1 : f[k] = stack[k])
  BY <1>1, <1>3, TopIsLast
<1> HIDE DEF f
<1>6. \A k \in 1..Len(f) : CallInv(f[k], arr, types, alive, freed)
  <2> TAKE k \in 1..Len(f)
  <2>1. f[k] \in CallType /\ f[k] = stack[k] /\ CallInv(f[k], instances, types, alive, freed)
    BY <1>4, <1>5 DEF NestedInv
  <2>2. f[k].op = "create" => Ext(f[k].scene, f[k].type) # x
    BY <1>1, <1>5, <2>1
  <2> QED
    BY <1>1, <1>3, <2>1, <2>2, AppendKeepsCall
<1> HIDE DEF arr
<1>7. f # <<>> => TriedInv(f[Len(f)], arr, types, alive)
  <2> SUFFICES ASSUME f # <<>> PROVE TriedInv(f[Len(f)], arr, types, alive)
    OBVIOUS
  <2> DEFINE c == f[Len(f)]
  <2>1. NestInv(c, Top, types)
    BY <1>4
  <2> HIDE DEF c
  <2>2. c.op = "deserialize" /\ c.in_hook = FALSE => x = Ext(c.scene, types[c.at])
    BY <2>1 DEF NestInv
  <2>3. TriedInv(c, arr, types, alive)
    BY <1>2, <2>2 DEF TriedInv
  <2> QED
    BY <2>3 DEF c
<1>8. StackInv(f, arr, types, alive, freed)
  BY <1>4, <1>6, <1>7 DEF StackInv, NestedInv
<1>9. instances' = arr /\ stack' = f
  BY DEF arr, f
<1>10. InstancesAgree'
  BY <1>1, <1>2, <1>9 DEF ExtInv, InstancesAgree
<1>11. TypeInv'
  BY <1>2, <1>3, <1>4, <1>9 DEF TypeInv
<1> QED
  BY <1>8, <1>9, <1>10, <1>11 DEF ExtInv

\* What a failed create of x makes of a call that is in progress.
Spared(c, x) ==
  IF c.op # "deserialize" THEN c ELSE [c EXCEPT !.excused = @ \cup {x}]

LEMMA SparedFields ==
  ASSUME NEW c \in CallType, NEW x \in Extension, NEW d, d = Spared(c, x)
  PROVE  (c.op # "deserialize" /\ d = c) \/ (c.op = "deserialize" /\ MoreExcused(d, c, x))
BY MoreExcusedFields DEF Spared

LEMMA SparedKeepsCall ==
  ASSUME NEW c \in CallType, NEW x \in Extension, NEW d, d = Spared(c, x),
         NEW arr, NEW ts, NEW live, NEW gone, CallInv(c, arr, ts, live, gone)
  PROVE  /\ CallInv(d, arr, ts, live, gone) /\ d \in CallType
         /\ d.op = c.op /\ d.scene = c.scene /\ d.type = c.type /\ d.at = c.at
         /\ d.in_hook = c.in_hook /\ d.tried = c.tried
         /\ d.op = "deserialize" => x \in d.excused
<1>1. CASE c.op # "deserialize" /\ d = c
  BY <1>1
<1>2. CASE c.op = "deserialize" /\ MoreExcused(d, c, x)
  <2>1. /\ d \in CallType
        /\ d.op = c.op /\ d.scene = c.scene /\ d.type = c.type /\ d.payload = c.payload
        /\ d.at = c.at /\ d.in_hook = c.in_hook /\ d.tried = c.tried /\ d.again = c.again
        /\ d.called = c.called /\ d.excused = c.excused \cup {x}
    BY <1>2 DEF MoreExcused, SameCall
  <2>2. Behind(d, ts) = Behind(c, ts)
    BY <2>1 DEF Behind, From
  <2>3. \A t : Restored(c, arr, t) => Restored(d, arr, t)
    BY <2>1 DEF Restored
  <2>4. LoadInv(c, arr, ts, live) => LoadInv(d, arr, ts, live)
    BY <2>1, <2>2, <2>3 DEF LoadInv
  <2>5. CallInv(d, arr, ts, live, gone)
    BY <1>2, <2>1, <2>4 DEF CallInv, LoopOps
  <2> QED
    BY <2>1, <2>5
<1> QED
  BY <1>1, <1>2, SparedFields

LEMMA CreateFailsStep ==
  ASSUME ExtInv, InCreateHook, NEW x, x = Ext(Top.scene, Top.type),
         stack' = [k \in 1..Len(stack)-1 |-> Spared(stack[k], x)],
         UNCHANGED <<sceneVars, types, extVars, users>>
  PROVE  ExtInv'
<1> DEFINE n == Len(stack)
           s == [k \in 1..n-1 |-> Spared(stack[k], x)]
<1>1. /\ stack # <<>> /\ Top \in CallType /\ Top.op = "create" /\ x \in Extension
      /\ Top = stack[n] /\ stack \in Seq(CallType) /\ n \in Nat \ {0}
  BY TopCreate, TopIsLast DEF ExtInv, TypeInv
<1>2. /\ \A k \in 1..n : CallInv(stack[k], instances, types, alive, freed) /\ stack[k] \in CallType
      /\ \A k \in 1..n-1 : NestInv(stack[k], stack[k+1], types)
  BY <1>1 DEF ExtInv, StackInv
<1> HIDE DEF n
<1>3. \A k \in 1..n-1 : s[k] = Spared(stack[k], x)
  OBVIOUS
<1>4. ASSUME NEW k \in 1..n-1
      PROVE  /\ CallInv(s[k], instances, types, alive, freed) /\ s[k] \in CallType
             /\ s[k].op = stack[k].op /\ s[k].scene = stack[k].scene /\ s[k].type = stack[k].type
             /\ s[k].at = stack[k].at /\ s[k].in_hook = stack[k].in_hook
             /\ s[k].tried = stack[k].tried
             /\ s[k].op = "deserialize" => x \in s[k].excused
  <2>1. k \in 1..n
    BY <1>1
  <2> QED
    BY <1>1, <1>2, <1>3, <2>1, SparedKeepsCall
<1>5. s \in Seq(CallType) /\ Len(s) = n-1
  <2>1. n-1 \in Nat
    BY <1>1
  <2>2. \A k \in 1..n-1 : Spared(stack[k], x) \in CallType
    BY <1>3, <1>4
  <2> HIDE DEF n
  <2> QED
    BY <2>1, <2>2
<1> HIDE DEF s
<1>6. \A k \in 1..Len(s)-1 : NestInv(s[k], s[k+1], types)
  <2> TAKE k \in 1..Len(s)-1
  <2>1. k \in 1..n-1 /\ k+1 \in 1..n-1
    BY <1>1, <1>5
  <2> QED
    BY <1>2, <1>4, <2>1 DEF NestInv
<1>7. NestedInv(s, instances, types, alive, freed)
  BY <1>4, <1>5, <1>6 DEF NestedInv
<1>8. ASSUME s # <<>> PROVE TriedInv(s[Len(s)], instances, types, alive)
  <2>1. n-1 \in 1..n-1 /\ (n-1)+1 = n
    BY <1>1, <1>5, <1>8
  <2>2. NestInv(stack[n-1], Top, types)
    BY <1>1, <1>2, <2>1
  <2> DEFINE c == s[n-1]
  <2>3. c.op = "deserialize" /\ c.in_hook = FALSE =>
          x = Ext(c.scene, types[c.at]) /\ x \in c.excused
    BY <1>4, <2>1, <2>2 DEF NestInv
  <2> HIDE DEF c
  <2>4. TriedInv(c, instances, types, alive)
    BY <2>3 DEF TriedInv
  <2> QED
    BY <1>5, <2>4 DEF c
<1> QED
  BY <1>5, <1>7, <1>8, StackStep DEF s, n

LEMMA CreateReturnsStep ==
  ASSUME ExtInv, CreateReturns
  PROVE  ExtInv'
<1> DEFINE x == Ext(Top.scene, Top.type)
<1>1. InCreateHook /\ UNCHANGED <<alive, freed, types, users>>
  BY DEF CreateReturns, sceneVars
<1>2. CASE /\ instances' = Append(instances, x) /\ living' = living \cup {x}
           /\ stack' = Front(stack) /\ UNCHANGED destroyed_twice
  BY <1>1, <1>2, CreateSucceedsStep
<1>3. CASE /\ stack' = [k \in 1..Len(stack)-1 |->
                         IF stack[k].op # "deserialize" THEN stack[k]
                         ELSE [stack[k] EXCEPT !.excused = @ \cup {x}]]
           /\ UNCHANGED extVars
  <2> HIDE DEF x
  <2>1. stack' = [k \in 1..Len(stack)-1 |-> Spared(stack[k], x)]
    BY <1>3 DEF Spared
  <2>2. UNCHANGED <<sceneVars, types, extVars, users>>
    BY <1>1, <1>3 DEF sceneVars
  <2> QED
    BY <1>1, <2>1, <2>2, CreateFailsStep DEF x
<1> QED
  BY <1>2, <1>3 DEF CreateReturns
----------------------------------------------------------------------------
(* The invariant                                                           *)

LEMMA ExtInvInit == Init => ExtInv
<1> SUFFICES ASSUME Init PROVE ExtInv
  OBVIOUS
<1>1. /\ alive = {} /\ freed = {} /\ types = <<>> /\ instances = <<>> /\ living = {}
      /\ destroyed_twice = FALSE /\ stack = <<>> /\ users = 0
  BY DEF Init
<1>2. TypeInv
  BY <1>1 DEF TypeInv
<1>3. InstancesAgree /\ IsInjective(types)
  BY <1>1 DEF InstancesAgree, IsInjective, ToSet
<1>4. StackInv(stack, instances, types, alive, freed)
  BY <1>1 DEF StackInv
<1> QED
  BY <1>1, <1>2, <1>3, <1>4 DEF ExtInv

LEMMA ExtInvStutters == ExtInv /\ UNCHANGED vars => ExtInv'
<1> SUFFICES ASSUME ExtInv, UNCHANGED vars PROVE ExtInv'
  OBVIOUS
<1>1. UNCHANGED <<alive, freed, types, instances, living, destroyed_twice, stack, users>>
  BY DEF vars, sceneVars, extVars
<1>2. TypeInv' /\ InstancesAgree'
  BY <1>1 DEF ExtInv, TypeInv, InstancesAgree
<1> QED
  BY <1>1, <1>2 DEF ExtInv

LEMMA ExtInvNext == ExtInv /\ [Next]_vars => ExtInv'
<1> SUFFICES ASSUME ExtInv, [Next]_vars PROVE ExtInv'
  OBVIOUS
<1>1. ASSUME NEW s \in Scene, NewScene(s) \/ FreeScene(s) \/ DetachAllOf(s) PROVE ExtInv'
  BY <1>1, NewSceneStep, FreeSceneStep, DetachAllOfStep
<1>2. ASSUME NEW s \in Scene, NEW t \in ExtType, Attach(s, t) \/ Detach(s, t) PROVE ExtInv'
  BY <1>2, AttachStep, DetachStep
<1>3. ASSUME NEW s \in Scene, NEW op \in Ops, NEW payload \in SUBSET Key,
             BeginWalk(op, s, payload)
      PROVE  ExtInv'
  BY <1>3, BeginWalkStep
<1>4. ASSUME NEW s \in Scene, BeginWalk("update", s, {}) \/ BeginWalk("render", s, {})
      PROVE  ExtInv'
  <2>1. {} \in SUBSET Key /\ "update" \in Ops /\ "render" \in Ops
    BY DEF Ops
  <2> QED
    BY <1>3, <1>4, <2>1
<1>5. ASSUME NEW s \in Scene, NEW payload \in SUBSET Key, BeginWalk("deserialize", s, payload)
      PROVE  ExtInv'
  BY <1>3, <1>5 DEF Ops
<1>6. ASSUME NEW t \in ExtType, Register(t) PROVE ExtInv'
  BY <1>6, RegisterStep
<1>7. CASE CreateReturns
  BY <1>7, CreateReturnsStep
<1>8. CASE WalkCalls
  BY <1>8, WalkCallsStep
<1>9. CASE DeserializeStep
  BY <1>9, DeserializeNextStep
<1>10. CASE HookReturns
  BY <1>10, HookReturnsStep
<1>11. CASE EndWalk
  BY <1>11, EndWalkStep
<1>12. CASE RuntimeInit
  BY <1>12, RuntimeInitStep
<1>13. CASE RuntimeShutdown
  BY <1>13, RuntimeShutdownStep
<1>14. CASE UNCHANGED vars
  BY <1>14, ExtInvStutters
<1> QED
  BY <1>1, <1>2, <1>4, <1>5, <1>6, <1>7, <1>8, <1>9, <1>10, <1>11, <1>12, <1>13, <1>14 DEF Next

\* The calls in progress, however deep they nest, are always in a state from
\* which each walk ends as it should: what a walk of tc_scene_extension.c has
\* not called is ahead of it, and what it left behind it has dealt with.
THEOREM CallsStayInOrder == Spec => []ExtInv
BY ExtInvInit, ExtInvNext, PTL DEF Spec

\* The array of tc_scene_extension.c holds each extension that was created and
\* not destroyed, once, none is destroyed twice and none outlives its scene,
\* whatever the hooks attach, detach and free.
THEOREM InstancesStayTrue == Spec => []InstancesAgree
<1>1. ExtInv => InstancesAgree
  BY DEF ExtInv
<1> QED
  BY <1>1, CallsStayInOrder, PTL

LEMMA LoopsEnd ==
  ASSUME ExtInv
  PROVE  WalksCallEachOnce
<1> SUFFICES ASSUME NEW c \in ToSet(stack)
             PROVE  /\ ~c.again
                    /\ c.op # "deserialize" /\ Over(c) => c.since \subseteq c.called \cup c.excused
  BY DEF WalksCallEachOnce
<1>1. PICK k \in 1..Len(stack) : c = stack[k]
  BY DEF ToSet, ExtInv, TypeInv
<1>2. c \in CallType /\ CallInv(c, instances, types, alive, freed)
  BY <1>1 DEF ExtInv, TypeInv, StackInv
<1>3. ~c.again
  BY <1>2 DEF CallInv
<1>4. ASSUME c.op # "deserialize", Over(c), NEW x \in c.since, x \notin c.called \cup c.excused
      PROVE  FALSE
  <2>1. c = Top /\ Top.op \in Ops /\ ~Top.in_hook /\ Ahead(c) = {}
    BY <1>4 DEF Over, WalkAdvances
  <2>2. c.op \in LoopOps /\ From(c) = c.at /\ c.at \in Nat
    <3>1. c.in_hook \in BOOLEAN
      BY <1>2 DEF CallType
    <3>2. From(c) = c.at
      BY <2>1, <3>1 DEF From
    <3> QED
      BY <1>2, <1>4, <2>1, <3>2 DEF CallType, Ops, LoopOps
  <2>3. LoopInv(c, instances)
    BY <1>2, <2>2 DEF CallInv
  <2>4. x \in Rest(instances, c.at) /\ x.scene = c.scene /\ x.type \in Hooks[c.op]
    BY <1>4, <2>2, <2>3 DEF LoopInv
  <2>5. PICK j \in 1..Len(instances) : j >= c.at /\ x = instances[j]
    BY <2>4 DEF Rest
  <2>6. j \in c.at..Len(instances)
    BY <2>2, <2>5 DEF ExtInv, TypeInv
  <2>7. j \in Ahead(c)
    BY <1>4, <2>4, <2>5, <2>6 DEF Ahead
  <2> QED
    BY <2>1, <2>7
<1> QED
  BY <1>3, <1>4

\* An update or before_render walk calls no extension twice, and misses none
\* that was there all along, except those a removal moved to a place the walk
\* had passed.
THEOREM WalksStayComplete == Spec => []WalksCallEachOnce
<1>1. ExtInv => WalksCallEachOnce
  BY LoopsEnd
<1> QED
  BY <1>1, CallsStayInOrder, PTL

LEMMA LoadsEnd ==
  ASSUME ExtInv
  PROVE  DeserializeRestores
<1> SUFFICES ASSUME NEW c \in ToSet(stack), c.op = "deserialize", Over(c), c.scene \in alive,
                    NEW t \in ToSet(types)
             PROVE  Restored(c, instances, t)
  <2>1. \A s, u : Attached(s, u) <=> Ext(s, u) \in ToSet(instances)
    BY ContainsIsMembership DEF Attached, ExtInv, TypeInv
  <2> QED
    BY <2>1 DEF DeserializeRestores, Restored
<1>1. PICK k \in 1..Len(stack) : c = stack[k]
  BY DEF ToSet, ExtInv, TypeInv
<1>2. c \in CallType /\ CallInv(c, instances, types, alive, freed)
  BY <1>1 DEF ExtInv, TypeInv, StackInv
<1>3. c = Top /\ ~Top.in_hook /\ Ahead(c) = {}
  BY DEF Over, WalkAdvances
<1>4. From(c) = c.at /\ c.at \in Nat
  <2>1. c.in_hook \in BOOLEAN /\ c.at \in Nat
    BY <1>2 DEF CallType
  <2> QED
    BY <1>3, <2>1 DEF From
<1>5. PICK j \in 1..Len(types) : t = types[j]
  BY DEF ToSet, ExtInv, TypeInv
<1>6. CASE j < c.at
  <2>1. t \in Behind(c, types)
    BY <1>4, <1>5, <1>6 DEF Behind
  <2> QED
    BY <1>2, <2>1 DEF CallInv, LoadInv
<1>7. CASE ~(j < c.at)
  <2>1. j \in c.at..Len(types)
    BY <1>4, <1>5, <1>7 DEF ExtInv, TypeInv
  <2>2. KeyOf[t] \notin c.payload
    BY <1>3, <1>5, <2>1 DEF Ahead
  <2> QED
    BY <2>2 DEF Restored
<1> QED
  BY <1>6, <1>7

\* When tc_scene_ext_deserialize_scene ends in a living scene, every type whose
\* key was in the dictionary is attached and has its data, unless its create
\* hook failed or someone detached it meanwhile.
THEOREM DeserializeStaysFaithful == Spec => []DeserializeRestores
<1>1. ExtInv => DeserializeRestores
  BY LoadsEnd
<1> QED
  BY <1>1, CallsStayInOrder, PTL
----------------------------------------------------------------------------
(***************************************************************************)
(* PART 2: THE TYPES OF COMPONENTS                                         *)
(***************************************************************************)

RegistryTypeInv ==
  /\ version \in [Type -> Nat]
  /\ registered \subseteq Type
  /\ parent \in [Type -> Type \cup {NoType}]
  /\ children \in [Type -> Seq(Type)]
  /\ instance_list \in [Type -> Seq(Component)]
  /\ instance_count \in [Type -> Int]
  /\ type_entry \in [Component -> Type \cup {NoType}]
  /\ factory_made \subseteq Component

\* A type with a parent is an entry and so is the parent, in whose array it is;
\* and no walk up the tree comes back to where it was: no set of types holds
\* the parents of all its members.
ParentsInv ==
  /\ \A t \in Type : parent[t] # NoType =>
       t \in Entries /\ parent[t] \in Entries /\ t \in ToSet(children[parent[t]])
  /\ \A S \in SUBSET Type : S # {} => \E v \in S : parent[v] \notin S

RegistryInv ==
  /\ RegistryTypeInv
  /\ ParentsInv
  /\ ListsAndCountsExact
  /\ \A c \in factory_made : type_entry[c] # NoType
----------------------------------------------------------------------------
(* Walks up the tree                                                       *)

LEMMA ChainClosed ==
  ASSUME RegistryTypeInv, NEW t \in Type
  PROVE  /\ Chain(t) \subseteq Type /\ t \in Chain(t)
         /\ \A v \in Chain(t) : parent[v] # NoType => parent[v] \in Chain(t)
<1>1. Chain(t) \subseteq Type /\ t \in Chain(t)
  BY DEF Chain
<1>2. ASSUME NEW v \in Chain(t), parent[v] # NoType PROVE parent[v] \in Chain(t)
  <2>1. parent[v] \in Type
    BY <1>1, <1>2 DEF RegistryTypeInv
  <2>2. ASSUME NEW S \in SUBSET Type, t \in S, \A u \in S : parent[u] # NoType => parent[u] \in S
        PROVE  parent[v] \in S
    <3>1. v \in S
      BY <2>2 DEF Chain
    <3> QED
      BY <1>2, <2>2, <3>1
  <2> QED
    BY <2>1, <2>2 DEF Chain
<1> QED
  BY <1>1, <1>2

LEMMA ChainLeast ==
  ASSUME NEW t, NEW S, S \subseteq Type, t \in S,
         \A v \in S : parent[v] # NoType => parent[v] \in S
  PROVE  Chain(t) \subseteq S
BY DEF Chain

\* The types whose parent is u.
Under(u) == { v \in Type : parent[v] = u }

LEMMA UnderInArray ==
  ASSUME RegistryTypeInv, ParentsInv, NEW u \in Type
  PROVE  { w \in ToSet(children[u]) : parent[w] = u } = Under(u)
<1>1. ToSet(children[u]) \subseteq Type
  BY DEF RegistryTypeInv, ToSet
<1>2. \A v \in Type : parent[v] = u => v \in ToSet(children[u])
  BY TypeAssumption DEF ParentsInv
<1> QED
  BY <1>1, <1>2 DEF Under

\* There is no way down without an end either, as there are finitely many types:
\* the members of a set, each of which has another below it, would be these others.
LEMMA WaysDownEnd ==
  ASSUME RegistryTypeInv, ParentsInv, NEW S, S \subseteq Type, S # {}
  PROVE  \E u \in S : \A w \in Under(u) : w \notin S
<1> SUFFICES ASSUME \A u \in S : \E w \in S : parent[w] = u PROVE FALSE
  BY DEF Under
<1> DEFINE g == [u \in S |-> CHOOSE w \in S : parent[w] = u]
<1>1. \A u \in S : g[u] \in S /\ parent[g[u]] = u
  OBVIOUS
<1>2. g \in [S -> S]
  BY <1>1
<1> HIDE DEF g
<1>3. g \in Injection(S, S)
  BY <1>1, <1>2 DEF Injection, IsInjective
<1>4. IsFiniteSet(S)
  BY TypeAssumption, FS_Subset
<1>5. g \in Surjection(S, S)
  BY <1>3, <1>4, FS_Injection
<1>6. \A v \in S : parent[v] \in S
  <2> TAKE v \in S
  <2>1. PICK u \in S : g[u] = v
    BY <1>5 DEF Surjection
  <2> QED
    BY <1>1, <2>1
<1> QED
  BY <1>6 DEF ParentsInv
----------------------------------------------------------------------------
(* Descendants                                                             *)

\* What a query of u has to find.
Leading(u) == { v \in Type : u \in Chain(v) }

\* It is u, and what queries of the types under u have to find.
LEMMA LeadingSteps ==
  ASSUME RegistryTypeInv, NEW u \in Type
  PROVE  Leading(u) = {u} \cup UNION { Leading(v) : v \in Under(u) }
<1>1. u \in Leading(u)
  BY ChainClosed DEF Leading
<1>2. ASSUME NEW w \in Under(u), NEW v \in Leading(w) PROVE v \in Leading(u)
  <2>1. v \in Type /\ w \in Chain(v) /\ parent[w] = u /\ u # NoType
    BY TypeAssumption DEF Leading, Under
  <2>2. u \in Chain(v)
    BY <2>1, ChainClosed
  <2> QED
    BY <2>1, <2>2 DEF Leading
<1>3. ASSUME NEW v \in Leading(u), v # u PROVE \E w \in Under(u) : v \in Leading(w)
  <2>1. v \in Type /\ u \in Chain(v)
    BY DEF Leading
  <2>2. /\ Chain(v) \subseteq Type /\ v \in Chain(v)
        /\ \A x \in Chain(v) : parent[x] # NoType => parent[x] \in Chain(v)
    BY <2>1, ChainClosed
  <2>3. PICK x \in Chain(v) : parent[x] = u
    <3> SUFFICES ASSUME \A x \in Chain(v) : parent[x] # u PROVE FALSE
      OBVIOUS
    <3> DEFINE S == Chain(v) \ {u}
    <3>1. S \subseteq Type /\ v \in S /\ \A x \in S : parent[x] # NoType => parent[x] \in S
      BY <1>3, <2>2
    <3> HIDE DEF S
    <3>2. Chain(v) \subseteq S
      BY <3>1, ChainLeast
    <3> QED
      BY <2>1, <3>2 DEF S
  <2> QED
    BY <2>1, <2>2, <2>3 DEF Under, Leading
<1> QED
  BY <1>1, <1>2, <1>3

\* The recursion of collect_descendants_recursive.
Collected(f) == f = [u \in Type |-> {u} \cup UNION { f[v] : v \in Under(u) }]

LEMMA LeadingCollected ==
  ASSUME RegistryTypeInv
  PROVE  Collected([u \in Type |-> Leading(u)])
<1> DEFINE f == [u \in Type |-> Leading(u)]
<1>1. ASSUME NEW u \in Type PROVE Leading(u) = {u} \cup UNION { f[v] : v \in Under(u) }
  <2>1. \A v \in Under(u) : f[v] = Leading(v)
    BY DEF Under
  <2> HIDE DEF f
  <2>2. UNION { f[v] : v \in Under(u) } = UNION { Leading(v) : v \in Under(u) }
    BY <2>1
  <2> QED
    BY <2>2, LeadingSteps
<1> QED
  BY <1>1 DEF Collected

\* It has one result only.
LEMMA CollectedOnce ==
  ASSUME RegistryTypeInv, ParentsInv, NEW f, NEW g, Collected(f), Collected(g),
         NEW t \in Type
  PROVE  f[t] = g[t]
<1> SUFFICES ASSUME f[t] # g[t] PROVE FALSE
  OBVIOUS
<1> DEFINE D == { u \in Type : f[u] # g[u] }
<1>1. PICK u \in D : \A w \in Under(u) : w \notin D
  <2>1. D \subseteq Type /\ D # {}
    OBVIOUS
  <2> HIDE DEF D
  <2> QED
    BY <2>1, WaysDownEnd
<1>2. \A w \in Under(u) : f[w] = g[w]
  BY <1>1 DEF Under
<1>3. UNION { f[v] : v \in Under(u) } = UNION { g[v] : v \in Under(u) }
  BY <1>2
<1>4. f[u] = {u} \cup UNION { f[v] : v \in Under(u) }
  BY Zenon DEF Collected
<1>5. g[u] = {u} \cup UNION { g[v] : v \in Under(u) }
  BY Zenon DEF Collected
<1> QED
  BY <1>1, <1>3, <1>4, <1>5

LEMMA DescendantsLead ==
  ASSUME RegistryTypeInv, ParentsInv, NEW t \in Type
  PROVE  Descendants(t) = Leading(t)
<1> DEFINE Steps(f) ==
             f = [u \in Type |->
                   {u} \cup UNION { f[v] : v \in { w \in ToSet(children[u]) : parent[w] = u } }]
           below == CHOOSE f : Steps(f)
<1>1. Descendants(t) = below[t]
  BY Zenon DEF Descendants
<1>2. ASSUME NEW f PROVE Steps(f) <=> Collected(f)
  <2>1. \A u \in Type : { w \in ToSet(children[u]) : parent[w] = u } = Under(u)
    BY UnderInArray
  <2>2. [u \in Type |->
           {u} \cup UNION { f[v] : v \in { w \in ToSet(children[u]) : parent[w] = u } }]
        = [u \in Type |-> {u} \cup UNION { f[v] : v \in Under(u) }]
    BY <2>1
  <2> QED
    BY <2>2 DEF Collected
<1>3. Collected(below)
  <2>1. \E f : Steps(f)
    BY <1>2, LeadingCollected
  <2> HIDE DEF Steps
  <2>2. Steps(below)
    BY <2>1
  <2> QED
    BY <1>2, <2>2
<1> HIDE DEF below, Steps
<1>4. below[t] = [u \in Type |-> Leading(u)][t]
  BY <1>3, LeadingCollected, CollectedOnce
<1> QED
  BY <1>1, <1>4

LEMMA ParentsGiveDescendants ==
  ASSUME RegistryTypeInv, ParentsInv
  PROVE  DescendantsExact
<1> SUFFICES ASSUME NEW t \in Entries
             PROVE  Descendants(t) = { u \in Entries : t \in Chain(u) }
  BY DEF DescendantsExact
<1>1. t \in Type
  BY DEF Entries
<1>2. ASSUME NEW u \in Type, t \in Chain(u) PROVE u \in Entries
  <2> SUFFICES ASSUME u \notin Entries PROVE FALSE
    OBVIOUS
  <2>1. parent[u] = NoType
    BY DEF ParentsInv
  <2>2. {u} \subseteq Type /\ u \in {u} /\ \A v \in {u} : parent[v] # NoType => parent[v] \in {u}
    BY <2>1
  <2>3. Chain(u) \subseteq {u}
    BY <2>2, ChainLeast
  <2> QED
    BY <1>2, <2>3
<1> QED
  BY <1>1, <1>2, DescendantsLead DEF Leading, Entries
----------------------------------------------------------------------------
(* Instance lists                                                          *)

\* Unlinking takes one item out of a list; the others keep their order.
LEMMA RemoveFirstItems ==
  ASSUME NEW S, NEW list \in Seq(S), IsInjective(list), NEW x, Contains(list, x)
  PROVE  /\ RemoveFirst(list, x) \in Seq(S)
         /\ Len(RemoveFirst(list, x)) = Len(list) - 1
         /\ IsInjective(RemoveFirst(list, x))
         /\ ToSet(RemoveFirst(list, x)) = ToSet(list) \ {x}
<1> DEFINE I == { i \in 1..Len(list) : list[i] = x }
           k == Min(I)
           r == RemoveFirst(list, x)
<1>1. I \in SUBSET Nat /\ I # {}
  BY DEF Contains
<1>2. k \in I
  <2> HIDE DEF I
  <2> QED
    BY <1>1, LeastPlace
<1>3. r = RemoveAt(list, k)
  BY <1>1 DEF RemoveFirst, SelectInSeq
<1> HIDE DEF k, r
<1>4. k \in 1..Len(list) /\ list[k] = x /\ Len(list) \in Nat
  BY <1>2
<1>5. /\ r \in Seq(S) /\ Len(r) = Len(list) - 1
      /\ \A j \in 1..Len(list)-1 : r[j] = IF j < k THEN list[j] ELSE list[j+1]
  <2> DEFINE a == SubSeq(list, 1, k-1)
             b == SubSeq(list, k+1, Len(list))
  <2>1. a \in Seq(S) /\ Len(a) = k-1 /\ \A j \in 1..k-1 : a[j] = list[j]
    BY <1>4
  <2>2. b \in Seq(S) /\ Len(b) = Len(list)-k /\ \A j \in 1..Len(list)-k : b[j] = list[j+k]
    BY <1>4
  <2>3. r = a \o b
    BY <1>3 DEF RemoveAt
  <2> HIDE DEF a, b
  <2>4. r \in Seq(S) /\ Len(r) = Len(list) - 1
    <3>1. r \in Seq(S) /\ Len(r) = Len(a) + Len(b)
      BY <2>1, <2>2, <2>3, ConcatProperties
    <3>2. k-1 + (Len(list)-k) = Len(list) - 1
      BY <1>4
    <3> QED
      BY <2>1, <2>2, <3>1, <3>2
  <2>5. ASSUME NEW j \in 1..Len(list)-1
        PROVE  r[j] = IF j < k THEN list[j] ELSE list[j+1]
    <3>1. CASE j < k
      BY <1>4, <2>1, <2>2, <2>3, <3>1
    <3>2. CASE ~(j < k)
      <4>1. j - (k-1) \in 1..Len(list)-k /\ (j - (k-1)) + k = j+1
        BY <1>4, <3>2
      <4>2. r[j] = b[j - (k-1)]
        BY <1>4, <2>1, <2>2, <2>3, <3>2
      <4> QED
        BY <2>2, <3>2, <4>1, <4>2
    <3> QED
      BY <3>1, <3>2
  <2> QED
    BY <2>4, <2>5
<1>6. IsInjective(r)
  <2> SUFFICES ASSUME NEW i \in 1..Len(r), NEW j \in 1..Len(r), r[i] = r[j] PROVE i = j
    BY <1>5 DEF IsInjective
  <2> DEFINE m == IF i < k THEN i ELSE i+1
             n == IF j < k THEN j ELSE j+1
  <2>1. m \in 1..Len(list) /\ n \in 1..Len(list) /\ r[i] = list[m] /\ r[j] = list[n]
    BY <1>4, <1>5
  <2>2. m = n => i = j
    BY <1>4, <1>5
  <2> HIDE DEF m, n
  <2>3. list[m] = list[n]
    BY <2>1
  <2>4. DOMAIN list = 1..Len(list)
    OBVIOUS
  <2>5. m = n
    BY <2>1, <2>3, <2>4, Zenon DEF IsInjective
  <2> QED
    BY <2>2, <2>5
<1>7. ToSet(r) = ToSet(list) \ {x}
  <2>1. ASSUME NEW j \in 1..Len(r) PROVE r[j] \in ToSet(list) \ {x}
    <3> DEFINE n == IF j < k THEN j ELSE j+1
    <3>1. n \in 1..Len(list) /\ n # k /\ r[j] = list[n]
      BY <1>4, <1>5
    <3> HIDE DEF n
    <3> QED
      BY <1>4, <3>1 DEF IsInjective, ToSet
  <2>2. ASSUME NEW n \in 1..Len(list), list[n] # x PROVE \E j \in 1..Len(r) : r[j] = list[n]
    <3>1. n # k
      BY <1>4, <2>2
    <3>2. CASE n < k
      <4>1. n \in 1..Len(r) /\ r[n] = list[n]
        BY <1>4, <1>5, <3>2
      <4> QED
        BY <4>1
    <3>3. CASE n > k
      <4>1. n-1 \in 1..Len(r) /\ r[n-1] = list[n]
        BY <1>4, <1>5, <3>3
      <4> QED
        BY <4>1
    <3> QED
      BY <1>4, <3>1, <3>2, <3>3
  <2>3. ASSUME NEW y \in ToSet(r) PROVE y \in ToSet(list) \ {x}
    <3>1. PICK j \in 1..Len(r) : y = r[j]
      BY <1>5 DEF ToSet
    <3> QED
      BY <2>1, <3>1
  <2>4. ASSUME NEW y \in ToSet(list) \ {x} PROVE y \in ToSet(r)
    <3>1. PICK n \in 1..Len(list) : y = list[n]
      BY DEF ToSet
    <3>2. PICK j \in 1..Len(r) : r[j] = y
      BY <2>2, <3>1
    <3> QED
      BY <1>5, <3>2 DEF ToSet
  <2> QED
    BY <2>3, <2>4
<1> QED
  BY <1>5, <1>6, <1>7 DEF r
----------------------------------------------------------------------------
(* The steps                                                               *)

\* No type is taken out of a children array, and t is added to those of ps.
Fuller(arrays, ps, t) ==
  /\ arrays \in [Type -> Seq(Type)]
  /\ \A u \in Type : ToSet(children[u]) \subseteq ToSet(arrays[u])
  /\ \A u \in Type : u \in ps => t \in ToSet(arrays[u])

LEMMA AddChildItems ==
  ASSUME RegistryTypeInv, NEW ps, NEW t \in Type
  PROVE  Fuller(AddChild(ps, t), ps, t)
<1>1. ASSUME NEW u \in Type
      PROVE  /\ AddChild(ps, t)[u] \in Seq(Type)
             /\ ToSet(children[u]) \subseteq ToSet(AddChild(ps, t)[u])
             /\ u \in ps => t \in ToSet(AddChild(ps, t)[u])
  <2>1. children[u] \in Seq(Type)
    BY DEF RegistryTypeInv
  <2>2. /\ Append(children[u], t) \in Seq(Type)
        /\ ToSet(Append(children[u], t)) = ToSet(children[u]) \cup {t}
    BY <2>1, AppendItems
  <2>3. AddChild(ps, t)[u] = IF u \in ps THEN Append(children[u], t) ELSE children[u]
    BY DEF AddChild
  <2> QED
    BY <2>1, <2>2, <2>3
<1> QED
  BY <1>1 DEF AddChild, Fuller

\* A type whose entry is new or changes gets the parent p, above which it is not.
LEMMA RegisterKeepsParents ==
  ASSUME RegistryInv, NEW t \in Type, NEW p \in Type \cup {NoType},
         p # NoType => p \in Entries /\ t \notin Chain(p),
         version' = [version EXCEPT ![t] = @ + 1], parent' = [parent EXCEPT ![t] = p],
         children' = IF t \in Entries THEN ChildrenOfMoved(t, p)
                     ELSE IF p = NoType THEN children ELSE ChildrenOfNew(t, p)
  PROVE  /\ children' \in [Type -> Seq(Type)] /\ Entries' = Entries \cup {t}
         /\ ParentsInv'
<1>0. RegistryTypeInv /\ ParentsInv
  BY DEF RegistryInv
<1>1. Entries' = Entries \cup {t}
  BY <1>0 DEF Entries, RegistryTypeInv
<1>2. /\ children' \in [Type -> Seq(Type)]
      /\ \A u \in Type : ToSet(children[u]) \subseteq ToSet(children'[u])
      /\ p # NoType => t \in ToSet(children'[p])
  <2>1. CASE t \in Entries /\ (parent[t] = p \/ p = NoType)
    <3>1. children' = children
      BY <2>1 DEF ChildrenOfMoved
    <3>2. p # NoType => t \in ToSet(children[p])
      BY <1>0, <2>1 DEF ParentsInv
    <3> QED
      BY <1>0, <3>1, <3>2 DEF RegistryTypeInv
  <2>2. CASE t \in Entries /\ ~(parent[t] = p \/ p = NoType)
    <3>1. children' = AddChild({p}, t)
      BY <2>2 DEF ChildrenOfMoved
    <3>2. Fuller(children', {p}, t) /\ p \in Type
      BY <1>0, <2>2, <3>1, AddChildItems
    <3> QED
      BY <3>2 DEF Fuller
  <2>3. CASE t \notin Entries /\ p = NoType
    <3>1. children' = children
      BY <2>3
    <3> QED
      BY <1>0, <2>3, <3>1 DEF RegistryTypeInv
  <2>4. CASE t \notin Entries /\ p # NoType
    <3>1. children' = AddChild(Chain(p), t) /\ p \in Type
      BY <2>4 DEF ChildrenOfNew
    <3>2. p \in Chain(p)
      BY <1>0, <3>1, ChainClosed
    <3>3. Fuller(children', Chain(p), t)
      BY <1>0, <3>1, AddChildItems
    <3> QED
      BY <3>1, <3>2, <3>3 DEF Fuller
  <2> QED
    BY <2>1, <2>2, <2>3, <2>4
<1>3. \A x \in Type : parent'[x] = IF x = t THEN p ELSE parent[x]
  BY <1>0 DEF RegistryTypeInv
<1>4. \A x \in Type : parent'[x] # NoType =>
        x \in Entries' /\ parent'[x] \in Entries' /\ x \in ToSet(children'[parent'[x]])
  <2> SUFFICES ASSUME NEW x \in Type, parent'[x] # NoType
               PROVE  /\ x \in Entries' /\ parent'[x] \in Entries'
                      /\ x \in ToSet(children'[parent'[x]])
    OBVIOUS
  <2>1. CASE x = t
    <3>1. parent'[x] = p /\ p # NoType
      BY <1>3, <2>1
    <3> QED
      BY <1>1, <1>2, <2>1, <3>1
  <2>2. CASE x # t
    <3>1. parent'[x] = parent[x] /\ x \in Entries /\ parent[x] \in Entries
          /\ x \in ToSet(children[parent[x]])
      BY <1>0, <1>3, <2>2 DEF ParentsInv
    <3>2. parent[x] \in Type
      BY <3>1 DEF Entries
    <3>3. x \in ToSet(children'[parent[x]])
      BY <1>2, <3>1, <3>2
    <3> QED
      BY <1>1, <3>1, <3>3
  <2> QED
    BY <2>1, <2>2
<1>5. ASSUME NEW S \in SUBSET Type, S # {} PROVE \E v \in S : parent'[v] \notin S
  <2> SUFFICES ASSUME \A v \in S : parent'[v] \in S PROVE FALSE
    OBVIOUS
  <2>1. t \in S
    <3> SUFFICES ASSUME t \notin S PROVE FALSE
      OBVIOUS
    <3>1. \A v \in S : parent[v] \in S
      BY <1>3
    <3> QED
      BY <1>0, <1>5, <3>1 DEF ParentsInv
  <2>2. p \in S /\ p \in Type /\ p # NoType
    BY <1>3, <2>1, TypeAssumption
  <2> DEFINE R == S \cap Chain(p)
  <2>3. R \in SUBSET Type /\ p \in R
    BY <1>0, <2>2, ChainClosed
  <2>4. \A v \in R : parent[v] \in R
    <3> TAKE v \in R
    <3>1. v # t /\ v \in Type
      BY <2>2
    <3>2. parent[v] \in S
      BY <1>3, <3>1
    <3>3. parent[v] \in Chain(p)
      BY <1>0, <2>2, <3>2, ChainClosed, TypeAssumption
    <3> QED
      BY <3>2, <3>3
  <2> HIDE DEF R
  <2> QED
    BY <1>0, <2>3, <2>4 DEF ParentsInv
<1>6. ParentsInv'
  BY <1>4, <1>5 DEF ParentsInv
<1> QED
  BY <1>1, <1>2, <1>6

LEMMA RegisterEntryStep ==
  ASSUME RegistryInv, NEW t \in Type, NEW k, NEW factory, NEW wanted \in Type \cup {NoType},
         RegisterEntry(t, k, factory, wanted)
  PROVE  RegistryInv'
<1> DEFINE p == Get(wanted)
<1>1. /\ p \in Type \cup {NoType}
      /\ p # NoType => p \in Entries /\ t \notin Chain(p)
      /\ version' = [version EXCEPT ![t] = @ + 1] /\ parent' = [parent EXCEPT ![t] = p]
      /\ registered' = registered \cup {t} /\ registered_count' = CountAfterRegister(t)
      /\ children' = IF t \in Entries THEN ChildrenOfMoved(t, p)
                     ELSE IF p = NoType THEN children ELSE ChildrenOfNew(t, p)
      /\ UNCHANGED <<instance_list, instance_count, type_entry, factory_made>>
  BY DEF RegisterEntry, instanceVars, Get
<1> HIDE DEF p
<1>2. /\ children' \in [Type -> Seq(Type)] /\ Entries' = Entries \cup {t}
      /\ ParentsInv'
  BY <1>1, RegisterKeepsParents
<1>3. RegistryTypeInv'
  <2>1. RegistryTypeInv
    BY DEF RegistryInv
  <2>2. version' \in [Type -> Nat]
    BY <1>1, <2>1 DEF RegistryTypeInv
  <2>3. parent' \in [Type -> Type \cup {NoType}]
    BY <1>1, <2>1 DEF RegistryTypeInv
  <2> QED
    BY <1>1, <1>2, <2>1, <2>2, <2>3 DEF RegistryTypeInv
<1>4. registered_count' = Cardinality(registered')
  <2>1. IsFiniteSet(registered) /\ registered_count = Cardinality(registered)
    BY TypeAssumption, FS_Subset DEF RegistryInv, RegistryTypeInv, ListsAndCountsExact
  <2>2. Cardinality(registered \cup {t}) =
          IF t \in registered THEN Cardinality(registered) ELSE Cardinality(registered) + 1
    BY <2>1, FS_AddElement
  <2> QED
    BY <1>1, <2>1, <2>2 DEF CountAfterRegister
<1>5. ListsAndCountsExact'
  BY <1>1, <1>2, <1>4 DEF RegistryInv, ListsAndCountsExact
<1>6. (\A c \in factory_made : type_entry[c] # NoType)'
  BY <1>1 DEF RegistryInv
<1> QED
  BY <1>2, <1>3, <1>5, <1>6 DEF RegistryInv

LEMMA UnregisterStep ==
  ASSUME RegistryInv, NEW t \in Type, Unregister(t)
  PROVE  RegistryInv'
<1>1. /\ t \in registered /\ registered' = registered \ {t}
      /\ registered_count' = registered_count - 1
      /\ UNCHANGED <<version, parent, children, instance_list, instance_count, type_entry, factory_made>>
  BY DEF Unregister, instanceVars
<1>2. Entries' = Entries
  BY <1>1 DEF Entries
<1>3. registered_count' = Cardinality(registered')
  <2>1. IsFiniteSet(registered) /\ registered_count = Cardinality(registered)
    BY TypeAssumption, FS_Subset DEF RegistryInv, RegistryTypeInv, ListsAndCountsExact
  <2> QED
    BY <1>1, <2>1, FS_RemoveElement
<1>4. RegistryTypeInv' /\ ParentsInv'
  BY <1>1, <1>2 DEF RegistryInv, RegistryTypeInv, ParentsInv
<1>5. ListsAndCountsExact'
  BY <1>1, <1>2, <1>3 DEF RegistryInv, ListsAndCountsExact
<1> QED
  BY <1>1, <1>4, <1>5 DEF RegistryInv

\* What the three operations on instances change is told list by list.
ListExact(t) ==
  /\ IsInjective(instance_list[t])
  /\ ToSet(instance_list[t]) = { c \in factory_made : type_entry[c] = t }
  /\ instance_count[t] = Len(instance_list[t])

LEMMA InstancesStep ==
  ASSUME RegistryInv, UNCHANGED entryVars,
         instance_list' \in [Type -> Seq(Component)], instance_count' \in [Type -> Int],
         type_entry' \in [Component -> Type \cup {NoType}], factory_made' \subseteq Component,
         \A t \in Type : ListExact(t)',
         \A c \in Component : type_entry'[c] # NoType => type_entry'[c] \in Entries,
         \A c \in factory_made' : type_entry'[c] # NoType
  PROVE  RegistryInv'
<1>1. UNCHANGED <<version, registered, parent, children, registered_count>>
  BY DEF entryVars
<1>2. Entries' = Entries
  BY <1>1 DEF Entries
<1>3. RegistryTypeInv' /\ ParentsInv'
  BY <1>1, <1>2 DEF RegistryInv, RegistryTypeInv, ParentsInv
<1>4. ListsAndCountsExact'
  BY <1>1, <1>2 DEF RegistryInv, ListsAndCountsExact, ListExact
<1> QED
  BY <1>3, <1>4 DEF RegistryInv

LEMMA CreateStep ==
  ASSUME RegistryInv, NEW c \in Component, NEW t \in Type, Create(c, t)
  PROVE  RegistryInv'
<1>1. /\ type_entry[c] = NoType /\ t \in registered
      /\ type_entry' = [type_entry EXCEPT ![c] = t]
      /\ instance_list' = [instance_list EXCEPT ![t] = Append(@, c)]
      /\ instance_count' = [instance_count EXCEPT ![t] = @ + 1]
      /\ factory_made' = factory_made \cup {c}
      /\ UNCHANGED entryVars
  BY DEF Create
<1>2. /\ instance_list \in [Type -> Seq(Component)] /\ instance_count \in [Type -> Int]
      /\ type_entry \in [Component -> Type \cup {NoType}] /\ factory_made \subseteq Component
  BY DEF RegistryInv, RegistryTypeInv
<1>3. \A u \in Type : ListExact(u)
  BY DEF RegistryInv, ListsAndCountsExact, ListExact
<1>4. c \notin factory_made /\ t \in Entries
  BY <1>1 DEF RegistryInv, ListsAndCountsExact
<1>5. /\ instance_list[t] \in Seq(Component) /\ c \notin ToSet(instance_list[t])
      /\ IsInjective(instance_list[t]) /\ instance_count[t] = Len(instance_list[t])
      /\ ToSet(instance_list[t]) = { d \in factory_made : type_entry[d] = t }
  BY <1>2, <1>3, <1>4 DEF ListExact
<1>6. /\ Append(instance_list[t], c) \in Seq(Component)
      /\ ToSet(Append(instance_list[t], c)) = ToSet(instance_list[t]) \cup {c}
      /\ IsInjective(Append(instance_list[t], c))
      /\ Len(Append(instance_list[t], c)) = Len(instance_list[t]) + 1
  BY <1>5, AppendItems
<1>7. /\ instance_list' \in [Type -> Seq(Component)] /\ instance_count' \in [Type -> Int]
      /\ type_entry' \in [Component -> Type \cup {NoType}] /\ factory_made' \subseteq Component
  BY <1>1, <1>2, <1>6
<1>8. \A d \in Component : type_entry'[d] = IF d = c THEN t ELSE type_entry[d]
  BY <1>1, <1>2
<1>9. ASSUME NEW u \in Type PROVE ListExact(u)'
  <2>1. CASE u = t
    <3>1. instance_list'[u] = Append(instance_list[t], c) /\ instance_count'[u] = instance_count[t] + 1
      BY <1>1, <1>2, <2>1
    <3>2. { d \in factory_made' : type_entry'[d] = u }
          = { d \in factory_made : type_entry[d] = t } \cup {c}
      BY <1>1, <1>2, <1>8, <2>1
    <3> QED
      BY <1>5, <1>6, <3>1, <3>2 DEF ListExact
  <2>2. CASE u # t
    <3>1. instance_list'[u] = instance_list[u] /\ instance_count'[u] = instance_count[u]
      BY <1>1, <1>2, <2>2
    <3>2. { d \in factory_made' : type_entry'[d] = u }
          = { d \in factory_made : type_entry[d] = u }
      BY <1>1, <1>2, <1>4, <1>8, <2>2
    <3> QED
      BY <1>3, <3>1, <3>2 DEF ListExact
  <2> QED
    BY <2>1, <2>2
<1>10. \A d \in Component : type_entry'[d] # NoType => type_entry'[d] \in Entries
  BY <1>4, <1>8 DEF RegistryInv, ListsAndCountsExact
<1>11. \A d \in factory_made' : type_entry'[d] # NoType
  BY <1>1, <1>2, <1>8, TypeAssumption DEF RegistryInv
<1> QED
  BY <1>1, <1>7, <1>9, <1>10, <1>11, InstancesStep

LEMMA CreateDirectlyStep ==
  ASSUME RegistryInv, NEW c \in Component, NEW t \in Type, CreateDirectly(c, t)
  PROVE  RegistryInv'
<1>1. /\ type_entry[c] = NoType /\ t \in Entries
      /\ type_entry' = [type_entry EXCEPT ![c] = t]
      /\ UNCHANGED <<instance_list, instance_count, factory_made>> /\ UNCHANGED entryVars
  BY DEF CreateDirectly
<1>2. /\ instance_list \in [Type -> Seq(Component)] /\ instance_count \in [Type -> Int]
      /\ type_entry \in [Component -> Type \cup {NoType}] /\ factory_made \subseteq Component
  BY DEF RegistryInv, RegistryTypeInv
<1>3. \A d \in Component : type_entry'[d] = IF d = c THEN t ELSE type_entry[d]
  BY <1>1, <1>2
<1>4. c \notin factory_made
  BY <1>1 DEF RegistryInv
<1>5. type_entry' \in [Component -> Type \cup {NoType}]
  BY <1>1, <1>2
<1>6. ASSUME NEW u \in Type PROVE ListExact(u)'
  <2>1. { d \in factory_made' : type_entry'[d] = u } = { d \in factory_made : type_entry[d] = u }
    BY <1>1, <1>2, <1>3, <1>4
  <2>2. ListExact(u)
    BY DEF RegistryInv, ListsAndCountsExact, ListExact
  <2> QED
    BY <1>1, <2>1, <2>2 DEF ListExact
<1>7. \A d \in Component : type_entry'[d] # NoType => type_entry'[d] \in Entries
  BY <1>1, <1>3 DEF RegistryInv, ListsAndCountsExact
<1>8. \A d \in factory_made' : type_entry'[d] # NoType
  BY <1>1, <1>2, <1>3, <1>4 DEF RegistryInv
<1> QED
  BY <1>1, <1>2, <1>5, <1>6, <1>7, <1>8, InstancesStep

LEMMA DestroyStep ==
  ASSUME RegistryInv, NEW c \in Component, Destroy(c)
  PROVE  RegistryInv'
<1> DEFINE t == type_entry[c]
           shorter == RemoveFirst(instance_list[t], c)
<1>1. /\ t # NoType
      /\ type_entry' = [type_entry EXCEPT ![c] = NoType]
      /\ instance_list' = [instance_list EXCEPT ![t] = shorter]
      /\ instance_count' = [instance_count EXCEPT ![t] = CountAfterUnlink(c, t)]
      /\ factory_made' = factory_made \ {c}
      /\ UNCHANGED entryVars
  BY DEF Destroy
<1>2. /\ instance_list \in [Type -> Seq(Component)] /\ instance_count \in [Type -> Int]
      /\ type_entry \in [Component -> Type \cup {NoType}] /\ factory_made \subseteq Component
  BY DEF RegistryInv, RegistryTypeInv
<1>3. t \in Type
  BY <1>1, <1>2
<1>4. \A u \in Type : ListExact(u)
  BY DEF RegistryInv, ListsAndCountsExact, ListExact
<1>5. /\ instance_list[t] \in Seq(Component)
      /\ IsInjective(instance_list[t]) /\ instance_count[t] = Len(instance_list[t])
      /\ ToSet(instance_list[t]) = { d \in factory_made : type_entry[d] = t }
  BY <1>2, <1>3, <1>4 DEF ListExact
<1>6. /\ shorter \in Seq(Component) /\ IsInjective(shorter)
      /\ ToSet(shorter) = ToSet(instance_list[t]) \ {c}
      /\ CountAfterUnlink(c, t) = Len(shorter)
  <2>1. CASE Contains(instance_list[t], c)
    <3>1. CountAfterUnlink(c, t) = Len(instance_list[t]) - 1
      BY <1>5, <2>1 DEF CountAfterUnlink
    <3> QED
      BY <1>5, <2>1, <3>1, RemoveFirstItems
  <2>2. CASE ~Contains(instance_list[t], c)
    <3>1. ~\E i \in 1..Len(instance_list[t]) : instance_list[t][i] = c
      BY <2>2 DEF Contains
    <3>2. shorter = instance_list[t]
      BY <3>1 DEF RemoveFirst
    <3>3. c \notin ToSet(instance_list[t])
      BY <1>5, <3>1 DEF ToSet
    <3>4. CountAfterUnlink(c, t) = Len(instance_list[t])
      BY <1>5, <2>2 DEF CountAfterUnlink
    <3> QED
      BY <1>5, <3>2, <3>3, <3>4
  <2> QED
    BY <2>1, <2>2
<1> HIDE DEF shorter
<1>7. /\ instance_list' \in [Type -> Seq(Component)] /\ instance_count' \in [Type -> Int]
      /\ type_entry' \in [Component -> Type \cup {NoType}] /\ factory_made' \subseteq Component
  BY <1>1, <1>2, <1>6
<1>8. \A d \in Component : type_entry'[d] = IF d = c THEN NoType ELSE type_entry[d]
  BY <1>1, <1>2
<1>9. \A u \in Type : /\ instance_list'[u] = IF u = t THEN shorter ELSE instance_list[u]
                      /\ instance_count'[u] = IF u = t THEN Len(shorter) ELSE instance_count[u]
  BY <1>1, <1>2, <1>6
<1>10. type_entry[c] = t
  OBVIOUS
<1> HIDE DEF t
<1>11. ASSUME NEW u \in Type PROVE ListExact(u)'
  <2>1. { d \in factory_made' : type_entry'[d] = u }
        = { d \in factory_made : type_entry[d] = u } \ {c}
    BY <1>1, <1>2, <1>8
  <2>2. CASE u = t
    <3>1. instance_list'[u] = shorter /\ instance_count'[u] = Len(shorter)
      BY <1>9, <2>2
    <3> QED
      BY <1>5, <1>6, <2>1, <2>2, <3>1 DEF ListExact
  <2>3. CASE u # t
    <3>1. instance_list'[u] = instance_list[u] /\ instance_count'[u] = instance_count[u]
      BY <1>9, <2>3
    <3>2. { d \in factory_made : type_entry[d] = u } \ {c}
          = { d \in factory_made : type_entry[d] = u }
      BY <1>10, <2>3
    <3> QED
      BY <1>4, <2>1, <3>1, <3>2 DEF ListExact
  <2> QED
    BY <2>2, <2>3
<1>12. \A d \in Component : type_entry'[d] # NoType => type_entry'[d] \in Entries
  BY <1>8 DEF RegistryInv, ListsAndCountsExact
<1>13. \A d \in factory_made' : type_entry'[d] # NoType
  BY <1>1, <1>2, <1>8 DEF RegistryInv
<1> QED
  BY <1>1, <1>7, <1>11, <1>12, <1>13, InstancesStep

LEMMA CleanupStep ==
  ASSUME RegistryInv, Cleanup
  PROVE  RegistryInv'
<1>1. /\ version' = [t \in Type |-> 0] /\ parent' = [t \in Type |-> NoType]
      /\ children' = [t \in Type |-> <<>>] /\ registered' = {} /\ registered_count' = 0
      /\ \A c \in Component : type_entry[c] = NoType
      /\ UNCHANGED <<instance_list, instance_count, type_entry, factory_made>>
  BY DEF Cleanup, instanceVars
<1>2. ParentsInv'
  <2>1. \A S \in SUBSET Type : S # {} => \E v \in S : parent'[v] \notin S
    BY <1>1, TypeAssumption
  <2> QED
    BY <1>1, <2>1 DEF ParentsInv
<1>3. RegistryTypeInv'
  BY <1>1 DEF RegistryInv, RegistryTypeInv
<1>4. ListsAndCountsExact'
  BY <1>1, FS_EmptySet DEF RegistryInv, ListsAndCountsExact
<1>5. (\A c \in factory_made : type_entry[c] # NoType)'
  BY <1>1 DEF RegistryInv
<1> QED
  BY <1>2, <1>3, <1>4, <1>5 DEF RegistryInv

LEMMA RegistryInvInit == RegistryInit => RegistryInv
<1> SUFFICES ASSUME RegistryInit PROVE RegistryInv
  OBVIOUS
<1>1. ParentsInv
  <2>1. \A S \in SUBSET Type : S # {} => \E v \in S : parent[v] \notin S
    BY TypeAssumption DEF RegistryInit
  <2> QED
    BY <2>1 DEF RegistryInit, ParentsInv
<1>2. RegistryTypeInv
  BY DEF RegistryInit, RegistryTypeInv
<1>3. ListsAndCountsExact
  <2>1. ASSUME NEW t \in Type
        PROVE  /\ IsInjective(instance_list[t])
               /\ ToSet(instance_list[t]) = { c \in factory_made : type_entry[c] = t }
               /\ instance_count[t] = Len(instance_list[t])
    BY DEF RegistryInit, IsInjective, ToSet
  <2>2. registered_count = Cardinality(registered)
    BY FS_EmptySet DEF RegistryInit
  <2> QED
    BY <2>1, <2>2 DEF RegistryInit, ListsAndCountsExact
<1> QED
  BY <1>1, <1>2, <1>3 DEF RegistryInv, RegistryInit

LEMMA RegistryInvNext == RegistryInv /\ [RegistryNext]_registryVars => RegistryInv'
<1> SUFFICES ASSUME RegistryInv, [RegistryNext]_registryVars PROVE RegistryInv'
  OBVIOUS
<1>1. ASSUME NEW t \in Type, NEW factory \in BOOLEAN, NEW wanted \in Type \cup {NoType},
             RegisterNative(t, factory, wanted)
      PROVE  RegistryInv'
  BY <1>1, RegisterEntryStep DEF RegisterNative
<1>2. ASSUME NEW t \in Type, NEW wanted \in Type \cup {NoType}, RegisterPython(t, wanted)
      PROVE  RegistryInv'
  BY <1>2, RegisterEntryStep DEF RegisterPython
<1>3. CASE UNCHANGED registryVars
  <2>1. UNCHANGED <<version, registered, parent, children, registered_count, instance_list,
                    instance_count, type_entry, factory_made>>
    BY <1>3 DEF registryVars, entryVars, instanceVars
  <2>2. Entries' = Entries
    BY <2>1 DEF Entries
  <2>3. RegistryTypeInv' /\ ParentsInv'
    BY <2>1, <2>2 DEF RegistryInv, RegistryTypeInv, ParentsInv
  <2>4. ListsAndCountsExact'
    BY <2>1, <2>2 DEF RegistryInv, ListsAndCountsExact
  <2> QED
    BY <2>1, <2>3, <2>4 DEF RegistryInv
<1> QED
  BY <1>1, <1>2, <1>3, UnregisterStep, CreateStep, CreateDirectlyStep, DestroyStep, CleanupStep
     DEF RegistryNext

LEMMA RegistryInvariant == RegistrySpec => []RegistryInv
BY RegistryInvInit, RegistryInvNext, PTL DEF RegistrySpec

\* A polymorphic query of a type walks exactly the types whose chain of parents
\* leads to it (collect_descendants_recursive), for any finite set of types and
\* however often these are registered again under other parents, unregistered
\* or wiped, and however many stale children their arrays hold.
THEOREM DescendantsStayExact == RegistrySpec => []DescendantsExact
<1>1. RegistryInv => DescendantsExact
  BY ParentsGiveDescendants DEF RegistryInv
<1> QED
  BY <1>1, RegistryInvariant, PTL

\* The list and the count of a type are exactly the living components that its
\* factory made (tc_type_entry_link_instance, tc_type_entry_unlink_instance),
\* the types that components point at exist, and the count that the enumeration
\* of types runs to is the number of registered types.
THEOREM ListsAndCountsStayExact == RegistrySpec => []ListsAndCountsExact
<1>1. RegistryInv => ListsAndCountsExact
  BY DEF RegistryInv
<1> QED
  BY <1>1, RegistryInvariant, PTL
=============================================================================
