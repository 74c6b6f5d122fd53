------------------------- MODULE DocumentationProofs -------------------------
(***************************************************************************)
(* Theorems about Documentation for every value of its constants: any      *)
(* controllers, whatever they are annotated with, any order of builder     *)
(* calls and any requests.                                                 *)
(***************************************************************************)
EXTENDS Documentation, FiniteSetTheorems, SequenceTheorems, WellFoundedInduction, TLAPS

-----------------------------------------------------------------------------
(***************************************************************************)
(* Least and greatest numbers, and loops.                                  *)
(***************************************************************************)

\* A non-empty set of numbers has a least one.
LEMMA LeastIsThere ==
    ASSUME NEW S \in SUBSET Nat, S # {}
    PROVE  \E x \in S : \A y \in S : x <= y
  <1> DEFINE R == {ss \in Nat \X Nat : ss[1] < ss[2]}
  <1>1. R = OpToRel(<, Nat)
    BY DEF OpToRel
  <1>2. IsWellFoundedOn(R, Nat)
    BY <1>1, NatLessThanWellFounded
  <1> HIDE DEF R
  <1>3. PICK x \in S : \A y \in S : ~(<<y, x>> \in R)
    BY <1>2, WFMin
  <1>4. \A y \in S : ~(y < x)
    BY <1>3 DEF R
  <1>5. QED
    BY <1>4

\* Min is the least element of a set of numbers.
LEMMA MinIs ==
    ASSUME NEW S \in SUBSET Nat, S # {}
    PROVE  Min(S) \in S /\ \A y \in S : Min(S) <= y
  BY LeastIsThere DEF Min

\* Max is the greatest one, if there is a bound.
LEMMA MaxIs ==
    ASSUME NEW b \in Nat, NEW S \in SUBSET (0..b), S # {}
    PROVE  Max(S) \in S /\ \A y \in S : y <= Max(S)
  <1> DEFINE T == {b - x : x \in S}
  <1>1. T \in SUBSET Nat /\ T # {}
    <2>1. \A x \in S : b - x \in Nat
      OBVIOUS
    <2>2. QED
      BY <2>1
  <1>2. PICK m \in T : \A t \in T : m <= t
    BY <1>1, LeastIsThere
  <1>3. PICK x \in S : m = b - x
    BY <1>2
  <1>4. \A y \in S : b - x <= b - y
    BY <1>2, <1>3
  <1>5. x \in 0..b /\ \A y \in S : y \in 0..b
    OBVIOUS
  <1>6. \A y \in S : x >= y
    BY <1>4, <1>5
  <1>7. Max(S) \in S /\ \A y \in S : Max(S) >= y
    BY <1>3, <1>6 DEF Max
  <1>8. QED
    BY <1>5, <1>7

\* What holds at first and at each number after one where it holds, holds of all.
LEMMA StepByStep ==
    ASSUME NEW n \in Nat, NEW P \in SUBSET Nat, 0 \in P,
           \A i \in 1..n : i - 1 \in P => i \in P
    PROVE  0..n \subseteq P
  <1> DEFINE S == {i \in 0..n : i \notin P}
  <1>1. SUFFICES ASSUME S # {} PROVE FALSE
    BY <1>1
  <1>2. S \in SUBSET Nat
    OBVIOUS
  <1>3. PICK i \in S : \A j \in S : i <= j
    BY <1>1, <1>2, LeastIsThere
  <1>4. i \in 1..n /\ i - 1 \in 0..n /\ i - 1 < i
    BY <1>3
  <1>5. i - 1 \notin S
    BY <1>3, <1>4
  <1>6. QED
    BY <1>3, <1>4, <1>5

\* The values of a variable of a loop, each computed from the one before.
HasValues(n, X, first, step) ==
    \E f \in [0..n -> X] : f[0] = first /\ \A i \in 1..n : f[i] = step[i][f[i - 1]]

\* Every loop over a list has them.
LEMMA LoopExists ==
    ASSUME NEW n \in Nat, NEW X, NEW first \in X, NEW step \in [1..n -> [X -> X]]
    PROVE  HasValues(n, X, first, step)
  <1> DEFINE Until(m) == \E f \in [0..m -> X] :
                 f[0] = first /\ \A i \in 1..m : f[i] = step[i][f[i - 1]]
             P == {m \in 0..n : Until(m)}
  <1>1. Until(0)
    <2> DEFINE f == [k \in 0..0 |-> first]
    <2>1. f \in [0..0 -> X] /\ f[0] = first /\ 1..0 = {}
      OBVIOUS
    <2> HIDE DEF f
    <2>2. QED
      BY <2>1
  <1>2. ASSUME NEW m \in 1..n, Until(m - 1) PROVE Until(m)
    <2>1. PICK f \in [0..(m - 1) -> X] :
              f[0] = first /\ \A i \in 1..(m - 1) : f[i] = step[i][f[i - 1]]
      BY <1>2
    <2> DEFINE g == [k \in 0..m |-> IF k = m THEN step[m][f[m - 1]] ELSE f[k]]
    <2>2. step[m][f[m - 1]] \in X
      BY <2>1
    <2>3. g \in [0..m -> X]
      BY <2>2
    <2>4. g[0] = first
      BY <2>1
    <2>5. ASSUME NEW i \in 1..m PROVE g[i] = step[i][g[i - 1]]
      BY <2>1
    <2> HIDE DEF g
    <2>6. QED
      BY <2>3, <2>4, <2>5
  <1> HIDE DEF Until
  <1>3. P \in SUBSET Nat /\ 0 \in P /\ \A i \in 1..n : i - 1 \in P => i \in P
    <2>1. 0 \in 0..n /\ \A i \in 1..n : i \in 0..n
      OBVIOUS
    <2>2. QED
      BY <1>1, <1>2, <2>1
  <1> HIDE DEF P
  <1>4. 0..n \subseteq P
    BY <1>3, StepByStep
  <1>5. n \in P
    BY <1>4
  <1>6. QED
    BY <1>5 DEF P, Until, HasValues

-----------------------------------------------------------------------------
(***************************************************************************)
(* Lists: what MergeLists and FlattenSeq return.                           *)
(***************************************************************************)

\* The elements of two lists put together, or of one list and another element.
LEMMA ElementsOfBoth ==
    ASSUME NEW T, NEW s \in Seq(T), NEW t \in Seq(T)
    PROVE  /\ s \o t \in Seq(T) /\ Len(s \o t) = Len(s) + Len(t)
           /\ \A i \in 1..Len(s) : (s \o t)[i] = s[i]
           /\ \A i \in 1..Len(t) : (s \o t)[Len(s) + i] = t[i]
           /\ \A i \in 1..Len(s \o t) : i \in 1..Len(s) \/ i - Len(s) \in 1..Len(t)
           /\ Range(s \o t) = Range(s) \cup Range(t)
  <1>1. /\ s \o t \in Seq(T) /\ Len(s \o t) = Len(s) + Len(t)
        /\ Len(s) \in Nat /\ Len(t) \in Nat
        /\ DOMAIN s = 1..Len(s) /\ DOMAIN t = 1..Len(t) /\ DOMAIN (s \o t) = 1..Len(s \o t)
    OBVIOUS
  <1>2. \A i \in 1..Len(s) : (s \o t)[i] = s[i] /\ i \in 1..Len(s \o t)
    BY <1>1
  <1>3. \A i \in 1..Len(t) : (s \o t)[Len(s) + i] = t[i] /\ Len(s) + i \in 1..Len(s \o t)
    BY <1>1
  <1>4. \A i \in 1..Len(s \o t) : i \in 1..Len(s) \/ i - Len(s) \in 1..Len(t)
    BY <1>1
  <1>5. \A i \in 1..Len(s \o t) : i - Len(s) \in 1..Len(t) => (s \o t)[i] = t[i - Len(s)]
    BY <1>1
  <1>6. Range(s \o t) = Range(s) \cup Range(t)
    <2>1. ASSUME NEW x \in Range(s \o t) PROVE x \in Range(s) \cup Range(t)
      <3>1. PICK i \in 1..Len(s \o t) : x = (s \o t)[i]
        BY <1>1 DEF Range
      <3>2. CASE i \in 1..Len(s)
        BY <1>1, <1>2, <3>1, <3>2 DEF Range
      <3>3. CASE i - Len(s) \in 1..Len(t)
        BY <1>1, <1>5, <3>1, <3>3 DEF Range
      <3>4. QED
        BY <1>4, <3>2, <3>3
    <2>2. Range(s) \subseteq Range(s \o t)
      BY <1>1, <1>2 DEF Range
    <2>3. Range(t) \subseteq Range(s \o t)
      <3>1. ASSUME NEW i \in 1..Len(t) PROVE t[i] \in Range(s \o t)
        BY <1>1, <1>3 DEF Range
      <3>2. QED
        BY <1>1, <3>1 DEF Range
    <2>4. QED
      BY <2>1, <2>2, <2>3
  <1>7. QED
    BY <1>1, <1>2, <1>3, <1>4, <1>6

\* merge_type_lists returns a list of what the two lists are made of.
LEMMA MergedIsList ==
    ASSUME NEW T, NEW s \in Seq(T), NEW t \in Seq(T)
    PROVE  MergeLists(s, t) \in Seq(T)
  <1> DEFINE n == Len(t)
             Next1(r, x) == IF Contains(r, x) THEN r ELSE Append(r, x)
             Def(f) == [k \in 0..n |-> IF k = 0 THEN s ELSE IF Contains(f[k - 1], t[k]) THEN f[k - 1]
                                       ELSE Append(f[k - 1], t[k])]
             step == [k \in 1..n |-> [r \in Seq(T) |-> Next1(r, t[k])]]
             merged == CHOOSE f : f = Def(f)
  <1>1. n \in Nat /\ \A k \in 1..n : t[k] \in T
    OBVIOUS
  <1>2. step \in [1..n -> [Seq(T) -> Seq(T)]]
    <2>1. \A r \in Seq(T) : \A x \in T : Append(r, x) \in Seq(T)
      OBVIOUS
    <2>2. QED
      BY <1>1, <2>1
  <1> HIDE DEF step, n
  <1>3. PICK f \in [0..n -> Seq(T)] : f[0] = s /\ \A k \in 1..n : f[k] = step[k][f[k - 1]]
    <2>1. HasValues(n, Seq(T), s, step)
      BY <1>1, <1>2, LoopExists
    <2>2. QED
      BY <2>1 DEF HasValues
  <1>4. \A k \in 1..n : k - 1 \in 0..n /\ k \in 0..n /\ k # 0
    BY <1>1
  <1>5. f = Def(f)
    <2>1. \A k \in 1..n : f[k] = Next1(f[k - 1], t[k])
      BY <1>1, <1>3, <1>4 DEF step
    <2>2. \A k \in 0..n : k = 0 \/ k \in 1..n
      BY <1>1
    <2>3. \A k \in 0..n : f[k] = Def(f)[k]
      BY <1>3, <2>1, <2>2
    <2>4. QED
      BY <1>3, <2>3
  <1>6. merged = Def(merged)
    BY <1>5
  <1> DEFINE P == {k \in 0..n : merged[k] \in Seq(T)}
  <1> HIDE DEF merged
  <1>7. 0 \in P /\ P \in SUBSET Nat
    BY <1>1, <1>6
  <1>8. ASSUME NEW k \in 1..n, k - 1 \in P PROVE k \in P
    <2>1. merged[k] = Next1(merged[k - 1], t[k])
      BY <1>4, <1>6
    <2>2. Append(merged[k - 1], t[k]) \in Seq(T)
      BY <1>1, <1>8
    <2>3. QED
      BY <1>4, <1>8, <2>1, <2>2
  <1>9. n \in P
    <2>1. 0..n \subseteq P
      BY <1>1, <1>7, <1>8, StepByStep
    <2>2. QED
      BY <1>1, <2>1
  <1>10. MergeLists(s, t) = merged[n]
    BY DEF MergeLists, merged, n
  <1>11. QED
    BY <1>9, <1>10

\* FlattenSeq returns a list of what the lists in a list are made of.
LEMMA Flattened ==
    ASSUME NEW T, NEW seqs \in Seq(Seq(T))
    PROVE  /\ FlattenSeq(seqs) \in Seq(T)
           /\ \A x : x \in Range(FlattenSeq(seqs)) <=> \E i \in 1..Len(seqs) : x \in Range(seqs[i])
  <1> DEFINE n == Len(seqs)
             Def(f) == [k \in 1..n |-> IF k = 1 THEN seqs[k] ELSE f[k - 1] \o seqs[k]]
             step == [k \in 1..n |-> [r \in Seq(T) |-> r \o seqs[k]]]
             flat == CHOOSE f : f = Def(f)
  <1>1. n \in Nat /\ \A k \in 1..n : seqs[k] \in Seq(T)
    OBVIOUS
  <1>2. CASE n = 0
    <2>1. seqs = <<>> /\ FlattenSeq(seqs) = seqs
      BY <1>2 DEF FlattenSeq
    <2>2. Range(<<>>) = {} /\ <<>> \in Seq(T)
      BY DEF Range
    <2>3. FlattenSeq(seqs) = <<>> /\ 1..n = {}
      BY <1>2, <2>1
    <2>4. QED
      BY <2>2, <2>3
  <1>3. CASE n # 0
    <2>1. step \in [1..n -> [Seq(T) -> Seq(T)]]
      <3>1. \A r, t \in Seq(T) : r \o t \in Seq(T)
        OBVIOUS
      <3>2. QED
        BY <1>1, <3>1
    <2> HIDE DEF step, n
    <2>2. PICK f \in [0..n -> Seq(T)] : f[0] = <<>> /\ \A k \in 1..n : f[k] = step[k][f[k - 1]]
      <3>1. <<>> \in Seq(T)
        OBVIOUS
      <3>2. HasValues(n, Seq(T), <<>>, step)
        BY <1>1, <2>1, <3>1, LoopExists
      <3>3. QED
        BY <3>2 DEF HasValues
    <2>3. \A k \in 1..n : k - 1 \in 0..n /\ k \in 0..n /\ (k # 1 => k - 1 \in 1..n)
      BY <1>1
    <2> DEFINE g == [k \in 1..n |-> f[k]]
    <2>4. g = Def(g)
      <3>1. \A k \in 1..n : f[k] = f[k - 1] \o seqs[k]
        BY <1>1, <2>2, <2>3 DEF step
      <3>2. \A t \in Seq(T) : <<>> \o t = t
        OBVIOUS
      <3>3. ASSUME NEW k \in 1..n, k = 1 PROVE f[k] = seqs[k]
        <4>1. k - 1 = 0
          BY <3>3
        <4>2. f[k] = <<>> \o seqs[k] /\ seqs[k] \in Seq(T)
          BY <1>1, <2>2, <3>1, <4>1
        <4>3. QED
          BY <3>2, <4>2
      <3>4. \A k \in 1..n : g[k] = Def(g)[k]
        BY <2>3, <3>1, <3>3
      <3>5. QED
        BY <3>4
    <2>5. flat = Def(flat)
      BY <2>4
    <2> HIDE DEF flat
    <2>6. /\ \A k \in 1..n : k = 1 => flat[k] = seqs[k]
          /\ \A k \in 1..n : k # 1 => flat[k] = flat[k - 1] \o seqs[k]
      BY <2>5
    <2> DEFINE Is(k) == /\ flat[k] \in Seq(T)
                        /\ \A x : x \in Range(flat[k]) <=> \E i \in 1..k : x \in Range(seqs[i])
               P == {k \in 0..n : k = 0 \/ Is(k)}
    <2>7. ASSUME NEW k \in 1..n, k = 1 PROVE Is(k)
      <3>1. flat[k] = seqs[1] /\ 1..k = {1}
        BY <2>6, <2>7
      <3>2. QED
        BY <1>1, <2>7, <3>1
    <2>8. ASSUME NEW k \in 1..n, k # 1, Is(k - 1) PROVE Is(k)
      <3>1. flat[k] = flat[k - 1] \o seqs[k] /\ 1..k = 1..(k - 1) \cup {k}
        <4>1. 1..k = 1..(k - 1) \cup {k}
          BY <1>1
        <4>2. QED
          BY <2>6, <2>8, <4>1
      <3>2. flat[k] \in Seq(T) /\ Range(flat[k]) = Range(flat[k - 1]) \cup Range(seqs[k])
        BY <1>1, <2>8, <3>1, ElementsOfBoth
      <3>3. QED
        BY <2>8, <3>1, <3>2
    <2> HIDE DEF Is
    <2>9. 0 \in P /\ P \in SUBSET Nat /\ \A k \in 1..n : k - 1 \in P => k \in P
      <3>1. 0 \in 0..n /\ \A k \in 1..n : k \in 0..n /\ (k - 1 = 0 => k = 1)
        BY <1>1
      <3>2. QED
        BY <1>1, <2>7, <2>8, <3>1
    <2> HIDE DEF P
    <2>10. Is(n)
      <3>1. 0..n \subseteq P
        BY <1>1, <2>9, StepByStep
      <3>2. QED
        BY <1>1, <1>3, <3>1 DEF P
    <2>11. FlattenSeq(seqs) = flat[n]
      BY <1>3 DEF FlattenSeq, flat, n
    <2>12. QED
      BY <2>10, <2>11 DEF Is, n
  <1>4. QED
    BY <1>2, <1>3

-----------------------------------------------------------------------------
(***************************************************************************)
(* The routes of an application, and their entries in the document.        *)
(***************************************************************************)

Methods == {m \in Method : Compiles(m)}

\* A controller and one of its methods.
Handlers == [controller: Controller, method: {m \in Methods : IsRoute(m)}]

\* An index of a list and an element of it.
LEMMA Elements ==
    ASSUME NEW T, NEW s \in Seq(T)
    PROVE  /\ Len(s) \in Nat /\ DOMAIN s = 1..Len(s)
           /\ \A i \in 1..Len(s) : s[i] \in T /\ s[i] \in Range(s)
           /\ \A x \in Range(s) : x \in T /\ \E i \in 1..Len(s) : s[i] = x
  BY DEF Range

\* Every method of a controller that has a verb becomes a handler.
LEMMA ControllerHandlers ==
    ASSUME NEW c \in Controller
    PROVE  /\ OfController(c) \in Seq(Handlers)
           /\ \A i \in 1..Len(c.methods) : IsRoute(c.methods[i]) =>
                 [controller |-> c, method |-> c.methods[i]] \in Range(OfController(c))
  <1> DEFINE Found(i) == IF IsRoute(c.methods[i])
                         THEN <<[controller |-> c, method |-> c.methods[i]]>> ELSE <<>>
             found == [i \in 1..Len(c.methods) |-> Found(i)]
  <1>1. c.methods \in Seq(Methods)
    BY DEF Controller, Methods
  <1>2. Len(c.methods) \in Nat /\ \A i \in 1..Len(c.methods) : c.methods[i] \in Methods
    BY <1>1
  <1>3. ASSUME NEW i \in 1..Len(c.methods)
        PROVE  /\ Found(i) \in Seq(Handlers)
               /\ IsRoute(c.methods[i]) =>
                     [controller |-> c, method |-> c.methods[i]] \in Range(Found(i))
    <2>1. CASE IsRoute(c.methods[i])
      <3>1. [controller |-> c, method |-> c.methods[i]] \in Handlers
        BY <1>2, <2>1 DEF Handlers
      <3>2. \A x : Range(<<x>>) = {x}
        BY DEF Range
      <3>3. \A x \in Handlers : <<x>> \in Seq(Handlers)
        OBVIOUS
      <3>4. QED
        BY <2>1, <3>1, <3>2, <3>3
    <2>2. CASE ~IsRoute(c.methods[i])
      BY <2>2
    <2>3. QED
      BY <2>1, <2>2
  <1> HIDE DEF Found
  <1>4. found \in Seq(Seq(Handlers)) /\ Len(found) = Len(c.methods)
    <2>1. \A i \in 1..Len(c.methods) : Found(i) \in Seq(Handlers)
      BY <1>3
    <2>2. Len(c.methods) \in Nat
      BY <1>2
    <2>3. QED
      BY <2>1, <2>2
  <1>5. OfController(c) = FlattenSeq(found)
    BY DEF OfController, Found
  <1>6. /\ FlattenSeq(found) \in Seq(Handlers)
        /\ \A x : x \in Range(FlattenSeq(found)) <=> \E i \in 1..Len(found) : x \in Range(found[i])
    BY <1>4, Flattened
  <1>7. \A i \in 1..Len(c.methods) : found[i] = Found(i)
    OBVIOUS
  <1> HIDE DEF found
  <1>8. QED
    BY <1>3, <1>4, <1>5, <1>6, <1>7

\* ... and every controller's handlers are the application's.
LEMMA AppHandlers ==
    ASSUME NEW a \in Apps
    PROVE  /\ OfApp(a) \in Seq(Handlers)
           /\ \A k \in 1..Len(a) : \A i \in 1..Len(a[k].methods) : IsRoute(a[k].methods[i]) =>
                 [controller |-> a[k], method |-> a[k].methods[i]] \in Range(OfApp(a))
  <1> DEFINE parts == [k \in 1..Len(a) |-> OfController(a[k])]
  <1>1. Len(a) \in Nat /\ \A k \in 1..Len(a) : a[k] \in Controller
    <2>1. a \in Seq(Controller)
      BY DocumentationAssumption
    <2>2. QED
      BY <2>1
  <1>2. \A k \in 1..Len(a) :
            /\ OfController(a[k]) \in Seq(Handlers)
            /\ \A i \in 1..Len(a[k].methods) : IsRoute(a[k].methods[i]) =>
                  [controller |-> a[k], method |-> a[k].methods[i]] \in Range(OfController(a[k]))
    BY <1>1, ControllerHandlers
  <1>3. parts \in Seq(Seq(Handlers)) /\ Len(parts) = Len(a)
    BY <1>1, <1>2
  <1>4. OfApp(a) = FlattenSeq(parts)
    BY DEF OfApp
  <1>5. /\ FlattenSeq(parts) \in Seq(Handlers)
        /\ \A x : x \in Range(FlattenSeq(parts)) <=> \E k \in 1..Len(parts) : x \in Range(parts[k])
    BY <1>3, Flattened
  <1>6. \A k \in 1..Len(a) : parts[k] = OfController(a[k])
    OBVIOUS
  <1> HIDE DEF parts
  <1>7. QED
    BY <1>2, <1>3, <1>4, <1>5, <1>6

\* Routes and RouteDocs are made of the same handlers, in the same order.
LEMMA RoutesAndDocs ==
    ASSUME NEW a \in Apps
    PROVE  /\ Len(Routes(a)) \in Nat /\ Len(RouteDocs(a)) = Len(Routes(a))
           /\ DOMAIN Routes(a) = 1..Len(Routes(a)) /\ DOMAIN RouteDocs(a) = 1..Len(Routes(a))
           /\ \A i \in 1..Len(Routes(a)) : \E h \in Handlers :
                 /\ h \in Range(OfApp(a))
                 /\ Routes(a)[i] = RouteOf(h.controller, h.method)
                 /\ RouteDocs(a)[i] = DocOf(h.controller, h.method)
           /\ \A h \in Range(OfApp(a)) : \E i \in 1..Len(Routes(a)) :
                 RouteDocs(a)[i] = DocOf(h.controller, h.method)
  <1>1. /\ OfApp(a) \in Seq(Handlers) /\ Len(OfApp(a)) \in Nat
        /\ \A i \in 1..Len(OfApp(a)) : OfApp(a)[i] \in Handlers /\ OfApp(a)[i] \in Range(OfApp(a))
        /\ \A h \in Range(OfApp(a)) : \E i \in 1..Len(OfApp(a)) : OfApp(a)[i] = h
    BY AppHandlers, Elements
  <1>2. /\ Routes(a) = [i \in 1..Len(OfApp(a)) |-> RouteOf(OfApp(a)[i].controller, OfApp(a)[i].method)]
        /\ RouteDocs(a) = [i \in 1..Len(OfApp(a)) |-> DocOf(OfApp(a)[i].controller, OfApp(a)[i].method)]
    BY DEF Routes, RouteDocs
  <1>3. Len(Routes(a)) = Len(OfApp(a)) /\ Len(RouteDocs(a)) = Len(OfApp(a))
    BY <1>1, <1>2
  <1>4. \A i \in 1..Len(OfApp(a)) :
            /\ Routes(a)[i] = RouteOf(OfApp(a)[i].controller, OfApp(a)[i].method)
            /\ RouteDocs(a)[i] = DocOf(OfApp(a)[i].controller, OfApp(a)[i].method)
    BY <1>2
  <1>5. DOMAIN Routes(a) = 1..Len(OfApp(a)) /\ DOMAIN RouteDocs(a) = 1..Len(OfApp(a))
    BY <1>2
  <1>6. QED
    BY <1>1, <1>3, <1>4, <1>5


-----------------------------------------------------------------------------
(***************************************************************************)
(* The inductive invariant.                                                *)
(***************************************************************************)

CustomChecks == [check: {"custom"}, guard: Guards]
RoleChecks == [check: {"roles"}, roles: SUBSET STRING]
Checks == CustomChecks \cup {SignedIn} \cup RoleChecks
Href == [up: Nat, down: Path]
Link == [to: PagePath, href: Href]
Entries == [method: Verbs, path: Path, guards: Seq(Checks), takes: Seq(Argument),
            links: SUBSET Link]

\* What is merged besides the controllers: pages, and routers of other libraries.
Extras == [method: Verbs, path: PagePath, guards: {<<>>}, takes: {<<>>}, links: SUBSET Link]

Settings == [prefix: Path, version: Path, resolver: BOOLEAN, guards: Seq(CustomChecks),
             extra: Seq(Extras), documented: BOOLEAN]

\* What into_router() puts together.
Built == Routes(app) \o factory.extra

\* What a page at p shows for a page at t.
LinkFor(p, t) == [to |-> t, href |-> RelativePath(p, t)]

\* Every link of a page was made for another page.
PagesLinked(extra) ==
    \A i \in 1..Len(extra) : \A l \in extra[i].links :
        \E j \in 1..Len(extra) :
            extra[j].method = "GET" /\ l = LinkFor(extra[i].path, extra[j].path)

RouterOK ==
    Serving => ~Overlap(Built) /\ router = {Mount(Built[i]) : i \in 1..Len(Built)}

\* What the last answer tells of the way that its request took.
ReplyOK ==
    reply # None =>
        /\ Serving
        /\ reply.entry \in router
        /\ reply.who \in Callers \cup {Anonymous}
        /\ reply.body \in Sent(reply.entry) \cup {<<>>}
        /\ LET refusing == Refusing(reply.entry, reply.who)
               takes == reply.entry.takes
           IN  /\ reply.by = "guard" => /\ refusing # {}
                                        /\ reply.status = Refusal(AllGuards(reply.entry)[Min(refusing)], reply.who)
               /\ reply.by # "guard" => refusing = {}
               /\ reply.by = "handler" =>
                     \A i \in 1..Len(takes) : None \in Extracts(takes[i], reply.who, reply.body)
               /\ reply.by \notin {"guard", "handler"} =>
                     \E i \in 1..Len(takes) :
                         /\ takes[i].from = reply.by
                         /\ Extracts(takes[i], reply.who, reply.body) # {None}

DocInv ==
    /\ TypeOK
    /\ factory \in Settings
    /\ PagesLinked(factory.extra)
    /\ RouterOK
    /\ ReplyOK

-----------------------------------------------------------------------------
(***************************************************************************)
(* What a handler is made into.                                            *)
(***************************************************************************)

\* Lists of no element and of one.
LEMMA OneElement ==
    ASSUME NEW T
    PROVE  <<>> \in Seq(T) /\ \A x \in T : <<x>> \in Seq(T)
  OBVIOUS

\* The guards that the attributes alone call for are among those of the route,
\* and the others are custom ones.
LEMMA RouteGuardsAre ==
    ASSUME NEW c \in Controller, NEW m \in Methods
    PROVE  /\ BuiltinGuards(c, m) \in Seq(Checks)
           /\ RouteGuards(c, m) \in Seq(Checks)
           /\ Range(BuiltinGuards(c, m)) \subseteq Range(RouteGuards(c, m))
           /\ Range(RouteGuards(c, m)) \subseteq CustomChecks \cup Range(BuiltinGuards(c, m))
  <1> DEFINE own == MergeLists(c.guards, m.guards)
             custom == [i \in 1..Len(own) |-> Custom(own[i])]
  <1>1. own \in Seq(Guards)
    <2>1. c.guards \in Seq(Guards) /\ m.guards \in Seq(Guards)
      BY DEF Controller, Methods, Method
    <2>2. QED
      BY <2>1, MergedIsList
  <1> HIDE DEF own
  <1>2. custom \in Seq(CustomChecks)
    <2>1. Len(own) \in Nat /\ \A i \in 1..Len(own) : Custom(own[i]) \in CustomChecks
      BY <1>1 DEF Custom, CustomChecks
    <2>2. QED
      BY <2>1
  <1>3. custom \in Seq(Checks) /\ Range(custom) \subseteq CustomChecks
    <2>1. CustomChecks \subseteq Checks
      BY DEF Checks
    <2> HIDE DEF custom
    <2>2. custom \in Seq(Checks)
      BY <1>2, <2>1
    <2>3. QED
      BY <1>2, <2>2, Elements
  <1> HIDE DEF custom
  <1>4. BuiltinGuards(c, m) \in Seq(Checks)
    <2>1. RequiredRoles(c, m) \in SUBSET STRING
      BY DEF RequiredRoles, Controller, Methods, Method
    <2>2. HasRole(RequiredRoles(c, m)) \in Checks /\ SignedIn \in Checks
      BY <2>1 DEF HasRole, Checks, RoleChecks
    <2>3. \A x \in Checks : <<x>> \in Seq(Checks)
      OBVIOUS
    <2>4. <<>> \in Seq(Checks)
      OBVIOUS
    <2>5. QED
      BY <2>2, <2>3, <2>4 DEF BuiltinGuards
  <1>5. RouteGuards(c, m) = custom \o BuiltinGuards(c, m)
    BY DEF RouteGuards, own, custom
  <1>6. QED
    BY <1>3, <1>4, <1>5, ElementsOfBoth

\* The entries of the document.
Docs == [method: Verbs, path: Path, security: BOOLEAN, roles: SUBSET STRING,
         body: Dtos \cup {None}, responses: Seq([status: 100..599, schema: Dtos \cup {None}])]

\* A route's path is the path in the document.
LEMMA PathOfHandler ==
    ASSUME NEW h \in Handlers
    PROVE  Verb(h.method).verb \in Verbs /\ FullPath(h.controller, h.method) \in Path
  <1> DEFINE c == h.controller
             m == h.method
             version == IF m.version = None THEN <<>> ELSE <<m.version>>
  <1>1. c \in Controller /\ m \in Method /\ IsRoute(m)
    BY DEF Handlers, Methods
  <1>2. m.verbs \in Seq([verb: Verbs, sub: Rest]) /\ m.version \in STRING \cup {None} /\ c.base \in Path
    BY <1>1 DEF Method, Controller, Base
  <1>3. Verb(m) \in [verb: Verbs, sub: Rest]
    <2>1. m.verbs # <<>> /\ Verb(m) = m.verbs[1]
      BY <1>1 DEF Verb, IsRoute
    <2>2. Len(m.verbs) \in Nat /\ Len(m.verbs) # 0
      BY <1>2, <2>1, EmptySeq
    <2>3. 1 \in 1..Len(m.verbs)
      BY <2>2
    <2>4. \A T : \A s \in Seq(T) : \A i \in 1..Len(s) : s[i] \in T
      BY Elements
    <2>5. m.verbs[1] \in [verb: Verbs, sub: Rest]
      BY <1>2, <2>3, <2>4
    <2>6. QED
      BY <2>1, <2>5
  <1>4. version \in Path
    <2>1. \A x \in STRING : <<x>> \in Seq(STRING)
      BY OneElement
    <2>2. <<>> \in Seq(STRING)
      BY OneElement
    <2>3. QED
      BY <1>2, <2>1, <2>2 DEF Path
  <1>5. Verb(m).sub \in Path /\ Verb(m).verb \in Verbs
    BY <1>3 DEF Rest
  <1>6. FullPath(c, m) = version \o c.base \o Verb(m).sub
    BY DEF FullPath
  <1> HIDE DEF version
  <1>7. FullPath(c, m) \in Path
    BY <1>2, <1>4, <1>5, <1>6 DEF Path
  <1>8. QED
    BY <1>5, <1>7

\* The route of a handler.
LEMMA RouteIsEntry ==
    ASSUME NEW h \in Handlers
    PROVE  LET e == RouteOf(h.controller, h.method)
           IN  /\ e \in Entries
               /\ e.method = Verb(h.method).verb /\ e.path = FullPath(h.controller, h.method)
               /\ e.guards = RouteGuards(h.controller, h.method)
               /\ e.takes = h.method.takes /\ e.links = {}
  <1> DEFINE c == h.controller
             m == h.method
  <1>1. c \in Controller /\ m \in Methods /\ m \in Method
    BY DEF Handlers, Methods
  <1>2. RouteGuards(c, m) \in Seq(Checks)
    BY <1>1, RouteGuardsAre
  <1>3. m.takes \in Seq(Argument)
    BY <1>1 DEF Method
  <1>4. Verb(m).verb \in Verbs /\ FullPath(c, m) \in Path
    BY PathOfHandler
  <1>5. {} \in SUBSET Link
    OBVIOUS
  <1> HIDE DEF c, m
  <1>6. RouteOf(c, m) = [method |-> Verb(m).verb, path |-> FullPath(c, m),
                         guards |-> RouteGuards(c, m), takes |-> m.takes, links |-> {}]
    BY DEF RouteOf, Entry
  <1>7. RouteOf(c, m) \in Entries
    BY <1>2, <1>3, <1>4, <1>5, <1>6 DEF Entries
  <1>8. QED
    BY <1>6, <1>7 DEF c, m

\* The place of its entry in the document, and what the entry says of access.
LEMMA DocIsOf ==
    ASSUME NEW h \in Handlers
    PROVE  LET d == DocOf(h.controller, h.method)
           IN  /\ d.method = Verb(h.method).verb /\ d.path = FullPath(h.controller, h.method)
               /\ d.security = RequiresAuth(h.controller, h.method)
               /\ d.roles = RequiredRoles(h.controller, h.method)
               /\ d.body = Payload(h.method) /\ d.responses = Responses(h.method)
  BY DEF DocOf

-----------------------------------------------------------------------------
(***************************************************************************)
(* Under the prefix and the version.                                       *)
(***************************************************************************)

Under(p) == factory.prefix \o factory.version \o p

\* Two paths are the same when they are under the same prefix and version.
LEMMA UnderKeepsApart ==
    ASSUME factory \in Settings, NEW p \in Path, NEW q \in Path
    PROVE  Under(p) \in Path /\ (Under(p) = Under(q) => p = q)
  <1> DEFINE pre == factory.prefix \o factory.version
  <1>1. pre \in Seq(STRING)
    BY DEF Settings, Path
  <1>2. Under(p) = pre \o p /\ Under(q) = pre \o q
    BY DEF Under
  <1> HIDE DEF pre
  <1>3. pre \o p = pre \o q => p = q
    BY <1>1, ConcatSimplifications DEF Path
  <1>4. pre \o p \in Seq(STRING)
    BY <1>1 DEF Path
  <1>5. QED
    BY <1>2, <1>3, <1>4 DEF Path

\* Mounting changes the path, and nothing else.
LEMMA MountedEntry ==
    ASSUME factory \in Settings, NEW e \in Entries
    PROVE  /\ Mount(e) \in Entries
           /\ Mount(e).method = e.method /\ Mount(e).path = Under(e.path)
           /\ Mount(e).guards = e.guards /\ Mount(e).takes = e.takes /\ Mount(e).links = e.links
  <1>1. Mount(e) = [e EXCEPT !.path = Under(e.path)]
    BY DEF Mount, Under
  <1>2. Under(e.path) \in Path
    BY UnderKeepsApart DEF Entries
  <1>3. QED
    BY <1>1, <1>2 DEF Entries

\* The entry of a route in the document has its method and, mounted, its path.
LEMMA MountedDoc ==
    ASSUME NEW h \in Handlers
    PROVE  LET d == DocOf(h.controller, h.method)
           IN  Mount(d).method = d.method /\ Mount(d).path = Under(d.path)
  BY DEF DocOf, Mount, Under

\* Paths are lists of pieces, whatever is asked of their ends.
LEMMA PathsOfAnyKind ==
    /\ Base \subseteq Path /\ Rest \subseteq Path /\ Trimmed \subseteq Path /\ PagePath \subseteq Path
    /\ \A p \in PagePath : p # <<>>
  BY DEF Base, Rest, Trimmed, PagePath

\* A page or a router of a library is an entry.
LEMMA ExtraIsEntry ==
    /\ Extras \subseteq Entries
    /\ \A e \in Extras : e.path # <<>> /\ e.guards = <<>> /\ e.takes = <<>>
  <1>1. <<>> \in Seq(Checks) /\ <<>> \in Seq(Argument) /\ PagePath \subseteq Path
    BY OneElement, PathsOfAnyKind
  <1>2. Extras \subseteq Entries
    BY <1>1 DEF Extras, Entries
  <1>3. QED
    BY <1>2, PathsOfAnyKind DEF Extras

-----------------------------------------------------------------------------
(***************************************************************************)
(* Pages and their links.                                                  *)
(***************************************************************************)

\* The longest way that a directory and a page have in common.
LEMMA CommonIs ==
    ASSUME NEW dir \in Path, NEW to \in Path
    PROVE  /\ Common(dir, to) \in 0..Len(dir) /\ Common(dir, to) \in 0..Len(to)
           /\ SubSeq(dir, 1, Common(dir, to)) = SubSeq(to, 1, Common(dir, to))
  <1> DEFINE S == {n \in 0..Len(dir) : n <= Len(to) /\ SubSeq(dir, 1, n) = SubSeq(to, 1, n)}
  <1>1. Len(dir) \in Nat /\ Len(to) \in Nat
    BY DEF Path
  <1>2. 0 \in S
    <2>1. SubSeq(dir, 1, 0) = <<>> /\ SubSeq(to, 1, 0) = <<>>
      BY SubSeqEmpty
    <2>2. QED
      BY <1>1, <2>1
  <1>3. Max(S) \in S
    <2>1. S \in SUBSET (0..Len(dir)) /\ S # {}
      BY <1>2
    <2> HIDE DEF S
    <2>2. QED
      BY <1>1, <2>1, MaxIs
  <1>4. Common(dir, to) = Max(S)
    BY DEF Common
  <1>5. Common(dir, to) \in S
    BY <1>3, <1>4
  <1>6. \A n \in S : n \in 0..Len(dir) /\ n \in 0..Len(to) /\ SubSeq(dir, 1, n) = SubSeq(to, 1, n)
    BY <1>1
  <1> HIDE DEF S
  <1>7. QED
    BY <1>5, <1>6

\* The directory of a page.
LEMMA FrontIs ==
    ASSUME NEW p \in Path, p # <<>>
    PROVE  /\ Front(p) \in Path /\ Len(p) \in Nat \ {0} /\ Len(Front(p)) = Len(p) - 1
           /\ \A i \in 1..(Len(p) - 1) : Front(p)[i] = p[i]
  <1>1. p \in Seq(STRING) /\ Len(p) \in Nat \ {0}
    BY EmptySeq DEF Path
  <1>2. Front(p) = SubSeq(p, 1, Len(p) - 1)
    BY DEF Front
  <1>3. Len(p) - 1 \in Nat /\ \A i \in 1..(Len(p) - 1) : p[i] \in STRING
    <2>1. Len(p) - 1 \in Nat /\ \A i \in 1..(Len(p) - 1) : i \in 1..Len(p)
      BY <1>1
    <2>2. \A i \in 1..Len(p) : p[i] \in STRING
      BY <1>1, Elements
    <2>3. QED
      BY <2>1, <2>2
  <1>4. /\ SubSeq(p, 1, Len(p) - 1) \in Seq(STRING)
        /\ Len(SubSeq(p, 1, Len(p) - 1)) = Len(p) - 1
        /\ \A i \in 1..(Len(p) - 1) : SubSeq(p, 1, Len(p) - 1)[i] = p[i]
    <2> DEFINE n == Len(p) - 1
    <2>1. /\ SubSeq(p, 1, n) \in Seq(STRING)
          /\ Len(SubSeq(p, 1, n)) = IF 1 <= n THEN n - 1 + 1 ELSE 0
          /\ \A i \in 1..(n - 1 + 1) : SubSeq(p, 1, n)[i] = p[1 + i - 1]
      BY <1>3, SubSeqProperties
    <2>2. n \in Nat
      BY <1>3
    <2> HIDE DEF n
    <2>3. \A i \in 1..n : 1 + i - 1 = i /\ i \in 1..(n - 1 + 1)
      BY <2>2
    <2>4. Len(SubSeq(p, 1, n)) = n
      BY <2>1, <2>2
    <2>5. QED
      BY <2>1, <2>3, <2>4 DEF n
  <1>5. QED
    BY <1>1, <1>2, <1>4 DEF Path

\* A path that is empty has no directory but itself.
LEMMA FrontIsPath ==
    ASSUME NEW p \in Path
    PROVE  Front(p) \in Path
  <1>1. CASE p = <<>>
    <2>1. Len(p) = 0 /\ Len(p) - 1 = -1
      BY <1>1
    <2>2. Front(p) = SubSeq(<<>>, 1, -1)
      BY <1>1, <2>1 DEF Front
    <2>3. SubSeq(<<>>, 1, -1) = <<>> /\ <<>> \in Path
      BY SubSeqEmpty, OneElement DEF Path
    <2>4. QED
      BY <2>2, <2>3
  <1>2. QED
    BY <1>1, FrontIs

\* path_segments() makes a path of a path, and the same path of a plain one.
LEMMA SegmentsAre ==
    ASSUME NEW p \in Path
    PROVE  Segments(p) \in Path /\ (Plain(p) => Segments(p) = p)
  <1> DEFINE n == Len(p)
             Next1(r, x) == IF x = "" THEN r ELSE Append(r, x)
             Def(f) == [k \in 0..n |-> IF k = 0 THEN <<>> ELSE IF p[k] = "" THEN f[k - 1]
                                       ELSE Append(f[k - 1], p[k])]
             step == [k \in 1..n |-> [r \in Path |-> Next1(r, p[k])]]
             kept == CHOOSE f : f = Def(f)
  <1>1. n \in Nat /\ (\A k \in 1..n : p[k] \in STRING) /\ <<>> \in Path
    BY Elements, OneElement DEF Path
  <1>2. step \in [1..n -> [Path -> Path]]
    <2>1. \A r \in Path : \A x \in STRING : Append(r, x) \in Path
      BY AppendProperties DEF Path
    <2>2. QED
      BY <1>1, <2>1
  <1> HIDE DEF step, n
  <1>3. PICK f \in [0..n -> Path] : f[0] = <<>> /\ \A k \in 1..n : f[k] = step[k][f[k - 1]]
    <2>1. HasValues(n, Path, <<>>, step)
      BY <1>1, <1>2, LoopExists
    <2>2. QED
      BY <2>1 DEF HasValues
  <1>4. \A k \in 1..n : k - 1 \in 0..n /\ k \in 0..n /\ k # 0
    BY <1>1
  <1>5. f = Def(f)
    <2>1. \A k \in 1..n : f[k] = Next1(f[k - 1], p[k])
      BY <1>1, <1>3, <1>4 DEF step
    <2>2. \A k \in 0..n : k = 0 \/ k \in 1..n
      BY <1>1
    <2>3. \A k \in 0..n : f[k] = Def(f)[k]
      BY <1>3, <2>1, <2>2
    <2>4. QED
      BY <1>3, <2>3
  <1>6. kept = Def(kept)
    BY <1>5
  <1> DEFINE Is(k) == kept[k] \in Path /\ (Plain(p) => kept[k] = SubSeq(p, 1, k))
             P == {k \in 0..n : Is(k)}
  <1> HIDE DEF kept
  <1>7. 0 \in P /\ P \in SUBSET Nat
    <2>1. 0 \in 0..n /\ kept[0] = <<>>
      <3>1. 0 \in 0..n
        BY <1>1
      <3>2. Def(kept)[0] = <<>>
        BY <3>1
      <3> HIDE DEF Def
      <3>3. QED
        BY <1>6, <3>1, <3>2
    <2>2. SubSeq(p, 1, 0) = <<>>
      BY SubSeqEmpty
    <2>3. Is(0)
      BY <1>1, <2>1, <2>2
    <2>4. QED
      BY <1>1, <2>1, <2>3
  <1>8. ASSUME NEW k \in 1..n, k - 1 \in P PROVE k \in P
    <2>1. kept[k] = Next1(kept[k - 1], p[k])
      BY <1>4, <1>6
    <2>2. kept[k - 1] \in Path /\ Append(kept[k - 1], p[k]) \in Path
      BY <1>1, <1>8 DEF Path
    <2>3. ASSUME Plain(p) PROVE kept[k] = SubSeq(p, 1, k)
      <3>1. p[k] # ""
        <4>1. p[k] \in Range(p)
          BY Elements DEF Path, n
        <4>2. QED
          BY <2>3, <4>1 DEF Plain
      <3>2. kept[k] = Append(SubSeq(p, 1, k - 1), p[k])
        BY <1>8, <2>1, <2>3, <3>1
      <3>3. SubSeq(p, 1, k) = Append(SubSeq(p, 1, k - 1), p[k])
        <4>1. p \in Seq(STRING) /\ 1 \in 1..Len(p) /\ k \in 1..Len(p)
          BY <1>1 DEF Path, n
        <4>2. SubSeq(p, 1, k) = SubSeq(p, 1, k - 1) \o <<p[k]>>
          BY <4>1, SubSeqRecursiveSecond
        <4>3. SubSeq(p, 1, k - 1) \in Seq(STRING) /\ p[k] \in STRING
          BY <1>1, <1>8, <2>2, <2>3 DEF Path
        <4>4. QED
          BY <4>2, <4>3, AppendIsConcat
      <3>4. QED
        BY <3>2, <3>3
    <2>4. QED
      BY <1>4, <2>1, <2>2, <2>3
  <1> HIDE DEF Is
  <1>9. Is(n)
    <2>1. 0..n \subseteq P
      BY <1>1, <1>7, <1>8, StepByStep
    <2>2. QED
      BY <1>1, <2>1
  <1>10. Segments(p) = kept[n]
    BY DEF Segments, kept, n
  <1>11. SubSeq(p, 1, n) = p
    BY SubSeqFull DEF Path, n
  <1>12. QED
    BY <1>9, <1>10, <1>11 DEF Is

\* relative_browser_path() makes a reference.
LEMMA RelativePathIsLink ==
    ASSUME NEW from \in PagePath, NEW to \in PagePath
    PROVE  RelativePath(from, to) \in Href
  <1> DEFINE dir == Front(Segments(from))
             way == Segments(to)
             n == Common(dir, way)
  <1>1. dir \in Path /\ way \in Path
    BY PathsOfAnyKind, SegmentsAre, FrontIsPath
  <1>2. RelativePath(from, to) = [up |-> Len(dir) - n, down |-> SubSeq(way, n + 1, Len(way))]
    BY DEF RelativePath
  <1> HIDE DEF dir, way
  <1>3. Len(dir) \in Nat /\ n \in 0..Len(dir) /\ n \in 0..Len(way)
    BY <1>1, CommonIs DEF Path
  <1> HIDE DEF n
  <1>4. Len(dir) - n \in Nat
    BY <1>3
  <1>5. SubSeq(way, n + 1, Len(way)) \in Path
    BY <1>1, <1>3 DEF Path
  <1>6. QED
    BY <1>2, <1>4, <1>5 DEF Href

\* The paths that a configuration names.
Targets(config) == {config.json, config.yaml, config.docs, config.swagger, config.redoc} \ {None}

\* A page whose links lead to such paths.
LEMMA PageIsExtra ==
    ASSUME NEW config \in OpenApiConfig, NEW p \in PagePath, NEW targets \in SUBSET (PagePath \cup {None}),
           targets \ {None} \subseteq Targets(config)
    PROVE  LET e == Page(p, targets)
           IN  /\ e \in Extras /\ e.method = "GET" /\ e.path = p
               /\ \A l \in e.links : \E t \in Targets(config) : l = LinkFor(p, t)
  <1> DEFINE links == {LinkFor(p, t) : t \in targets \ {None}}
  <1>1. links \in SUBSET Link
    BY RelativePathIsLink DEF LinkFor, Link
  <1>2. \A l \in links : \E t \in Targets(config) : l = LinkFor(p, t)
    OBVIOUS
  <1> HIDE DEF links
  <1>3. Page(p, targets) = [method |-> "GET", path |-> p, guards |-> <<>>, takes |-> <<>>, links |-> links]
    BY DEF Page, Entry, LinkFor, links
  <1>4. QED
    BY <1>1, <1>2, <1>3 DEF Extras, Verbs

\* Pages of which every link was made for a page of the documentation.
LinkedPages(pages, config) ==
    /\ pages \in Seq(Extras)
    /\ \A e \in Range(pages) : /\ e.method = "GET"
                               /\ \A l \in e.links : \E t \in Targets(config) : l = LinkFor(e.path, t)

\* One page whose links lead to pages of the documentation is a list of linked pages.
LEMMA OnePage ==
    ASSUME NEW config \in OpenApiConfig, NEW p \in PagePath, NEW targets \in SUBSET (PagePath \cup {None}),
           targets \ {None} \subseteq Targets(config)
    PROVE  /\ LinkedPages(<<Page(p, targets)>>, config)
           /\ \E e \in Range(<<Page(p, targets)>>) : e.path = p
  <1> DEFINE e == Page(p, targets)
  <1>1. e \in Extras /\ e.method = "GET" /\ e.path = p
        /\ \A l \in e.links : \E t \in Targets(config) : l = LinkFor(p, t)
    BY PageIsExtra
  <1> HIDE DEF e
  <1>2. Range(<<e>>) = {e}
    BY DEF Range
  <1>3. <<e>> \in Seq(Extras)
    BY <1>1, OneElement
  <1>4. QED
    BY <1>1, <1>2, <1>3 DEF LinkedPages, e

\* Two lists of linked pages, one after the other, are one.
LEMMA MorePages ==
    ASSUME NEW config, NEW s, NEW t, LinkedPages(s, config), LinkedPages(t, config)
    PROVE  LinkedPages(s \o t, config) /\ Range(s \o t) = Range(s) \cup Range(t)
  <1>1. s \in Seq(Extras) /\ t \in Seq(Extras)
    BY DEF LinkedPages
  <1>2. s \o t \in Seq(Extras) /\ Range(s \o t) = Range(s) \cup Range(t)
    BY <1>1, ElementsOfBoth
  <1>3. QED
    BY <1>2 DEF LinkedPages

\* The pages that the documentation always has.
LEMMA ThreePages ==
    ASSUME NEW config, NEW x, NEW y, NEW z,
           LinkedPages(<<x>>, config), LinkedPages(<<y>>, config), LinkedPages(<<z>>, config)
    PROVE  /\ LinkedPages(<<x, y, z>>, config)
           /\ \A p : p \in Range(<<x>>) \cup Range(<<y>>) \cup Range(<<z>>) => p \in Range(<<x, y, z>>)
  <1>1. \A p : Range(<<p>>) = {p}
    BY DEF Range
  <1>2. Range(<<x, y, z>>) = {x, y, z}
    BY DEF Range
  <1>3. \A p : <<p>> \in Seq(Extras) => p \in Extras
    <2>1. ASSUME NEW p, <<p>> \in Seq(Extras) PROVE p \in Extras
      <3>1. p \in Range(<<p>>)
        BY <1>1
      <3>2. QED
        BY <2>1, <3>1, Elements
    <2>2. QED
      BY <2>1
  <1>4. x \in Extras /\ y \in Extras /\ z \in Extras
    BY <1>3 DEF LinkedPages
  <1>5. <<x, y, z>> \in Seq(Extras)
    BY <1>4
  <1>6. \A p : LinkedPages(<<p>>, config) =>
            /\ p.method = "GET"
            /\ \A l \in p.links : \E t \in Targets(config) : l = LinkFor(p.path, t)
    BY <1>1 DEF LinkedPages
  <1>7. \A e \in Range(<<x, y, z>>) :
            /\ e.method = "GET"
            /\ \A l \in e.links : \E t \in Targets(config) : l = LinkFor(e.path, t)
    BY <1>2, <1>6
  <1>8. LinkedPages(<<x, y, z>>, config)
    BY <1>5, <1>7 DEF LinkedPages
  <1>9. QED
    BY <1>1, <1>2, <1>8

\* Every path that a page of the documentation links to is a page's.
LEMMA DocsPagesAre ==
    ASSUME NEW config \in OpenApiConfig
    PROVE  /\ LinkedPages(DocsPages(config), config)
           /\ \A t \in Targets(config) : \E e \in Range(DocsPages(config)) : e.path = t
  <1> DEFINE main == IF config.ui = "Simple" THEN SimpleLinks(config) ELSE {config.json}
             x == Page(config.json, {})
             y == Page(config.yaml, {})
             z == Page(config.docs, main)
             swagger == IF config.swagger = None THEN <<>> ELSE <<Page(config.swagger, {config.json})>>
             redoc == IF config.redoc = None THEN <<>> ELSE <<Page(config.redoc, {config.json})>>
  <1>1. /\ config.json \in PagePath /\ config.yaml \in PagePath /\ config.docs \in PagePath
        /\ config.swagger \in PagePath \cup {None} /\ config.redoc \in PagePath \cup {None}
    BY DEF OpenApiConfig
  <1>2. /\ {} \in SUBSET (PagePath \cup {None}) /\ {} \ {None} \subseteq Targets(config)
        /\ {config.json} \in SUBSET (PagePath \cup {None}) /\ {config.json} \ {None} \subseteq Targets(config)
        /\ main \in SUBSET (PagePath \cup {None}) /\ main \ {None} \subseteq Targets(config)
    BY <1>1 DEF SimpleLinks, Targets
  <1> HIDE DEF main
  <1>3. LinkedPages(<<x>>, config) /\ \E e \in Range(<<x>>) : e.path = config.json
    BY <1>1, <1>2, OnePage
  <1>4. LinkedPages(<<y>>, config) /\ \E e \in Range(<<y>>) : e.path = config.yaml
    BY <1>1, <1>2, OnePage
  <1>5. LinkedPages(<<z>>, config) /\ \E e \in Range(<<z>>) : e.path = config.docs
    BY <1>1, <1>2, OnePage
  <1>6. LinkedPages(<<>>, config)
    <2>1. Range(<<>>) = {} /\ <<>> \in Seq(Extras)
      BY DEF Range
    <2>2. QED
      BY <2>1 DEF LinkedPages
  <1>7. /\ LinkedPages(swagger, config)
        /\ config.swagger # None => \E e \in Range(swagger) : e.path = config.swagger
    BY <1>1, <1>2, <1>6, OnePage
  <1>8. /\ LinkedPages(redoc, config)
        /\ config.redoc # None => \E e \in Range(redoc) : e.path = config.redoc
    BY <1>1, <1>2, <1>6, OnePage
  <1>9. DocsPages(config) = (<<x, y, z>> \o swagger) \o redoc
    BY DEF DocsPages, main
  <1> HIDE DEF x, y, z, swagger, redoc
  <1> DEFINE three == <<x, y, z>>
  <1>10. /\ LinkedPages(three, config)
         /\ \A p : p \in Range(<<x>>) \cup Range(<<y>>) \cup Range(<<z>>) => p \in Range(three)
    BY <1>3, <1>4, <1>5, ThreePages
  <1> HIDE DEF three
  <1> HIDE DEF LinkedPages
  <1>11. LinkedPages(three \o swagger, config) /\ Range(three \o swagger) = Range(three) \cup Range(swagger)
    <2>1. LinkedPages(three, config) /\ LinkedPages(swagger, config)
      BY <1>7, <1>10
    <2>2. three \in Seq(Extras) /\ swagger \in Seq(Extras)
      BY <2>1 DEF LinkedPages
    <2>3. three \o swagger \in Seq(Extras) /\ Range(three \o swagger) = Range(three) \cup Range(swagger)
      BY <2>2, ElementsOfBoth
    <2> DEFINE both == three \o swagger
    <2> HIDE DEF both
    <2>4. LinkedPages(both, config)
      BY <2>1, <2>3 DEF LinkedPages, both
    <2>5. QED
      BY <2>3, <2>4 DEF both
  <1>12. /\ LinkedPages((three \o swagger) \o redoc, config)
         /\ Range((three \o swagger) \o redoc) = Range(three \o swagger) \cup Range(redoc)
    BY <1>8, <1>11, MorePages
  <1>13. DocsPages(config) = (three \o swagger) \o redoc
    BY <1>9 DEF three
  <1>14. Range(DocsPages(config)) = Range(three) \cup Range(swagger) \cup Range(redoc)
    BY <1>11, <1>12, <1>13
  <1>15. ASSUME NEW t \in Targets(config)
         PROVE  \E e \in Range(DocsPages(config)) : e.path = t
    <2>1. \/ t = config.json \/ t = config.yaml \/ t = config.docs
          \/ t = config.swagger /\ config.swagger # None
          \/ t = config.redoc /\ config.redoc # None
      BY DEF Targets
    <2>2. QED
      BY <1>3, <1>4, <1>5, <1>7, <1>8, <1>10, <1>14, <2>1
  <1>16. QED
    BY <1>12, <1>13, <1>15

\* The documentation's links stay among its pages.
LEMMA DocsPagesLinked ==
    ASSUME NEW config \in OpenApiConfig
    PROVE  DocsPages(config) \in Seq(Extras) /\ PagesLinked(DocsPages(config))
  <1> DEFINE pages == DocsPages(config)
  <1>1. LinkedPages(pages, config) /\ \A t \in Targets(config) : \E e \in Range(pages) : e.path = t
    BY DocsPagesAre
  <1> HIDE DEF pages
  <1>2. pages \in Seq(Extras)
    BY <1>1 DEF LinkedPages
  <1>3. \A i \in 1..Len(pages) : pages[i] \in Range(pages)
    BY <1>2, Elements
  <1>4. \A x \in Range(pages) : \E i \in 1..Len(pages) : pages[i] = x
    BY <1>2, Elements
  <1>5. ASSUME NEW i \in 1..Len(pages), NEW l \in pages[i].links
        PROVE  \E j \in 1..Len(pages) :
                   pages[j].method = "GET" /\ l = LinkFor(pages[i].path, pages[j].path)
    <2>1. PICK t \in Targets(config) : l = LinkFor(pages[i].path, t)
      BY <1>1, <1>3 DEF LinkedPages
    <2>2. PICK e \in Range(pages) : e.path = t /\ e.method = "GET"
      BY <1>1 DEF LinkedPages
    <2>3. PICK j \in 1..Len(pages) : pages[j] = e
      BY <1>4
    <2>4. QED
      BY <2>1, <2>2, <2>3
  <1>6. QED
    BY <1>2, <1>5 DEF PagesLinked, pages

\* What is merged later takes no page away.
LEMMA LinkedTogether ==
    ASSUME NEW s \in Seq(Extras), NEW t \in Seq(Extras), PagesLinked(s), PagesLinked(t)
    PROVE  s \o t \in Seq(Extras) /\ PagesLinked(s \o t)
  <1>1. /\ s \o t \in Seq(Extras) /\ Len(s \o t) = Len(s) + Len(t)
        /\ \A i \in 1..Len(s) : (s \o t)[i] = s[i]
        /\ \A i \in 1..Len(t) : (s \o t)[Len(s) + i] = t[i]
        /\ \A i \in 1..Len(s \o t) : i \in 1..Len(s) \/ i - Len(s) \in 1..Len(t)
    BY ElementsOfBoth
  <1>2. Len(s) \in Nat /\ Len(t) \in Nat
    OBVIOUS
  <1>3. /\ \A j \in 1..Len(s) : j \in 1..Len(s \o t)
        /\ \A j \in 1..Len(t) : Len(s) + j \in 1..Len(s \o t)
    BY <1>1, <1>2
  <1> DEFINE st == s \o t
             Leads(l, p, pages) == \E j \in 1..Len(pages) :
                 pages[j].method = "GET" /\ l = LinkFor(p, pages[j].path)
  <1>4. /\ \A l, p : Leads(l, p, s) => Leads(l, p, st)
        /\ \A l, p : Leads(l, p, t) => Leads(l, p, st)
    <2>1. ASSUME NEW l, NEW p, Leads(l, p, s) PROVE Leads(l, p, st)
      BY <1>1, <1>3, <2>1
    <2>2. ASSUME NEW l, NEW p, Leads(l, p, t) PROVE Leads(l, p, st)
      <3>1. PICK j \in 1..Len(t) : t[j].method = "GET" /\ l = LinkFor(p, t[j].path)
        BY <2>2
      <3>2. Len(s) + j \in 1..Len(st) /\ st[Len(s) + j] = t[j]
        BY <1>1, <1>3
      <3> HIDE DEF st
      <3>3. QED
        BY <3>1, <3>2
    <2>3. QED
      BY <2>1, <2>2
  <1>5. ASSUME NEW i \in 1..Len(st), NEW l \in st[i].links PROVE Leads(l, st[i].path, st)
    <2>1. CASE i \in 1..Len(s)
      <3>1. st[i] = s[i]
        BY <1>1, <2>1
      <3>2. Leads(l, s[i].path, s)
        BY <2>1, <3>1 DEF PagesLinked
      <3> HIDE DEF Leads, st
      <3>3. QED
        BY <1>4, <3>1, <3>2
    <2>2. CASE i - Len(s) \in 1..Len(t)
      <3> DEFINE k == i - Len(s)
      <3>1. k \in 1..Len(t) /\ st[i] = t[k]
        <4>1. Len(s) + k = i
          BY <1>1, <1>2
        <4>2. QED
          BY <1>1, <2>2, <4>1
      <3> HIDE DEF k
      <3>2. Leads(l, t[k].path, t)
        BY <3>1 DEF PagesLinked
      <3> HIDE DEF Leads, st
      <3>3. QED
        BY <1>4, <3>1, <3>2
    <2>3. QED
      BY <1>1, <2>1, <2>2
  <1>6. QED
    BY <1>1, <1>5 DEF PagesLinked

-----------------------------------------------------------------------------
(***************************************************************************)
(* The invariant holds at first, and every step keeps it.                  *)
(***************************************************************************)

\* The invariant holds in an application that was compiled.
LEMMA InitInv == Init => DocInv
  <1> SUFFICES ASSUME Init PROVE DocInv
    OBVIOUS
  <1>1. /\ factory = [prefix |-> <<>>, version |-> <<>>, resolver |-> FALSE,
                      guards |-> <<>>, extra |-> <<>>, documented |-> FALSE]
        /\ stage = "compiled" /\ calls = 0 /\ router = {} /\ reply = None /\ app \in Apps
    BY DEF Init, NewFactory
  <1>2. <<>> \in Path /\ <<>> \in Seq(CustomChecks) /\ <<>> \in Seq(Extras)
    BY OneElement DEF Path
  <1>3. factory \in Settings
    BY <1>1, <1>2 DEF Settings
  <1>4. PagesLinked(factory.extra)
    <2>1. factory.extra = <<>> /\ 1..Len(<<>>) = {}
      BY <1>1
    <2>2. QED
      BY <2>1 DEF PagesLinked
  <1>5. TypeOK
    <2>1. factory.guards \in Seq(CustomChecks)
      BY <1>3 DEF Settings
    <2>2. 0 \in 0..MaxBuilderCalls
      BY DocumentationAssumption
    <2>3. QED
      BY <1>1, <2>1, <2>2 DEF TypeOK, CustomChecks
  <1>6. RouterOK /\ ReplyOK
    BY <1>1 DEF RouterOK, ReplyOK, Serving
  <1>7. QED
    BY <1>3, <1>4, <1>5, <1>6 DEF DocInv

\* While the application is being built nothing is served or answered.
LEMMA NotServing ==
    ASSUME DocInv, app' = app, calls' \in 0..MaxBuilderCalls, factory' \in Settings,
           PagesLinked(factory'.extra), router' = router, reply' = reply,
           ~Serving, stage' \in {"building", "panicked"}
    PROVE  DocInv'
  <1>1. router = {} /\ reply = None /\ app \in Apps
    BY DEF DocInv, TypeOK
  <1>2. ~Serving'
    BY DEF Serving
  <1>3. TypeOK'
    <2>1. factory'.guards \in Seq(CustomChecks)
      BY DEF Settings
    <2>2. QED
      BY <1>1, <2>1 DEF TypeOK, CustomChecks
  <1>4. RouterOK' /\ ReplyOK'
    BY <1>1, <1>2 DEF RouterOK, ReplyOK
  <1>5. QED
    BY <1>3, <1>4 DEF DocInv

\* Each builder call keeps it: create(), which may panic ...
LEMMA CreateStep == DocInv /\ Create => DocInv'
  <1> SUFFICES ASSUME DocInv, Create PROVE DocInv'
    OBVIOUS
  <1>1. /\ app' = app /\ calls' = calls /\ factory' = factory /\ router' = router /\ reply' = reply
        /\ ~Serving /\ stage' \in {"building", "panicked"}
    BY DEF Create, Serving
  <1>2. calls' \in 0..MaxBuilderCalls /\ factory' \in Settings /\ PagesLinked(factory'.extra)
    BY <1>1 DEF DocInv, TypeOK
  <1>3. QED
    BY <1>1, <1>2, NotServing

\* A builder call that leaves good settings.
LEMMA BuilderStep ==
    ASSUME DocInv, BuilderCall, factory' \in Settings, PagesLinked(factory'.extra),
           stage' \in {stage, "panicked"}
    PROVE  DocInv'
  <1>1. /\ app' = app /\ router' = router /\ reply' = reply /\ ~Serving
        /\ stage' \in {"building", "panicked"} /\ calls' = calls + 1 /\ calls < MaxBuilderCalls
    BY DEF BuilderCall, Serving
  <1>2. calls' \in 0..MaxBuilderCalls
    BY <1>1, DocumentationAssumption DEF DocInv, TypeOK
  <1>3. QED
    BY <1>1, <1>2, NotServing

\* ... with_global_prefix, which leaves an empty prefix out ...
LEMMA PrefixStep ==
    ASSUME DocInv, NEW path \in GlobalPrefixes, WithGlobalPrefix(path)
    PROVE  DocInv'
  <1>1. path \in Path /\ factory \in Settings /\ PagesLinked(factory.extra)
    BY DocumentationAssumption, PathsOfAnyKind DEF DocInv
  <1>2. factory' = [factory EXCEPT !.prefix = IF path = <<>> THEN @ ELSE path] /\ BuilderCall /\ stage' = stage
    BY DEF WithGlobalPrefix
  <1>3. factory' \in Settings /\ factory'.extra = factory.extra
    BY <1>1, <1>2 DEF Settings
  <1>4. QED
    BY <1>1, <1>2, <1>3, BuilderStep

\* ... with_version, which does the same ...
LEMMA VersionStep ==
    ASSUME DocInv, NEW path \in Versions, WithVersion(path)
    PROVE  DocInv'
  <1>1. path \in Path /\ factory \in Settings /\ PagesLinked(factory.extra)
    BY DocumentationAssumption, PathsOfAnyKind DEF DocInv
  <1>2. factory' = [factory EXCEPT !.version = IF path = <<>> THEN @ ELSE path] /\ BuilderCall /\ stage' = stage
    BY DEF WithVersion
  <1>3. factory' \in Settings /\ factory'.extra = factory.extra
    BY <1>1, <1>2 DEF Settings
  <1>4. QED
    BY <1>1, <1>2, <1>3, BuilderStep

\* ... with_auth_resolver ...
LEMMA ResolverStep == DocInv /\ WithAuthResolver => DocInv'
  <1> SUFFICES ASSUME DocInv, WithAuthResolver PROVE DocInv'
    OBVIOUS
  <1>1. factory \in Settings /\ PagesLinked(factory.extra)
    BY DEF DocInv
  <1>2. factory' = [factory EXCEPT !.resolver = TRUE] /\ BuilderCall /\ stage' = stage
    BY DEF WithAuthResolver
  <1>3. factory' \in Settings /\ factory'.extra = factory.extra
    BY <1>1, <1>2 DEF Settings
  <1>4. QED
    BY <1>1, <1>2, <1>3, BuilderStep

\* ... use_guard ...
LEMMA GuardStep ==
    ASSUME DocInv, NEW g \in Guards, UseGuard(g)
    PROVE  DocInv'
  <1>1. factory \in Settings /\ PagesLinked(factory.extra)
    BY DEF DocInv
  <1>2. factory' = [factory EXCEPT !.guards = Append(@, Custom(g))] /\ BuilderCall /\ stage' = stage
    BY DEF UseGuard
  <1>3. Append(factory.guards, Custom(g)) \in Seq(CustomChecks)
    <2>1. Custom(g) \in CustomChecks /\ factory.guards \in Seq(CustomChecks)
      BY <1>1 DEF Custom, CustomChecks, Settings
    <2>2. QED
      BY <2>1
  <1>4. factory' \in Settings /\ factory'.extra = factory.extra
    BY <1>1, <1>2, <1>3 DEF Settings
  <1>5. QED
    BY <1>1, <1>2, <1>4, BuilderStep

\* ... merge_router, with the router of a library ...
LEMMA MergeStep ==
    ASSUME DocInv, NEW path \in Libraries, MergeRouter(path)
    PROVE  DocInv'
  <1>1. factory \in Settings /\ PagesLinked(factory.extra) /\ factory.extra \in Seq(Extras)
    BY DEF DocInv, Settings
  <1>2. factory' = [factory EXCEPT !.extra = Append(@, Library(path))] /\ BuilderCall /\ stage' = stage
    BY DEF MergeRouter
  <1>3. Library(path) = [method |-> "POST", path |-> path, guards |-> <<>>, takes |-> <<>>, links |-> {}]
    BY DEF Library, Entry
  <1>4. Library(path) \in Extras /\ Library(path).links = {}
    <2>1. path \in PagePath
      BY DocumentationAssumption
    <2>2. QED
      BY <1>3, <2>1 DEF Extras, Verbs
  <1> DEFINE library == <<Library(path)>>
  <1>5. library \in Seq(Extras) /\ PagesLinked(library)
    <2>1. Len(library) = 1 /\ library[1] = Library(path)
      OBVIOUS
    <2>2. library \in Seq(Extras)
      BY <1>4, OneElement
    <2> HIDE DEF library
    <2>3. \A i \in 1..Len(library) : library[i].links = {}
      BY <1>4, <2>1
    <2>4. QED
      BY <2>2, <2>3 DEF PagesLinked
  <1>6. Append(factory.extra, Library(path)) = factory.extra \o library
    BY <1>1, <1>4, AppendIsConcat
  <1> HIDE DEF library
  <1>7. factory.extra \o library \in Seq(Extras) /\ PagesLinked(factory.extra \o library)
    BY <1>1, <1>5, LinkedTogether
  <1>8. factory' \in Settings /\ factory'.extra = factory.extra \o library
    BY <1>1, <1>2, <1>6, <1>7 DEF Settings
  <1>9. QED
    BY <1>2, <1>7, <1>8, BuilderStep

\* ... and with_openapi_docs, which merges pages linked with one another.
LEMMA DocsStep ==
    ASSUME DocInv, NEW config \in Configs, WithOpenapiDocs(config)
    PROVE  DocInv'
  <1>1. factory \in Settings /\ PagesLinked(factory.extra) /\ factory.extra \in Seq(Extras)
    BY DEF DocInv, Settings
  <1>2. BuilderCall
    BY DEF WithOpenapiDocs
  <1>3. CASE Overlap(DocsPages(config))
    <2>1. stage' = "panicked" /\ factory' = factory
      BY <1>3 DEF WithOpenapiDocs
    <2>2. QED
      BY <1>1, <1>2, <2>1, BuilderStep
  <1>4. CASE ~Overlap(DocsPages(config))
    <2>1. /\ factory' = [factory EXCEPT !.extra = @ \o DocsPages(config), !.documented = TRUE]
          /\ stage' = stage
      BY <1>4 DEF WithOpenapiDocs
    <2> DEFINE both == factory.extra \o DocsPages(config)
    <2>2. both \in Seq(Extras) /\ PagesLinked(both)
      <3>1. config \in OpenApiConfig
        BY DocumentationAssumption
      <3>2. DocsPages(config) \in Seq(Extras) /\ PagesLinked(DocsPages(config))
        BY <3>1, DocsPagesLinked
      <3>3. QED
        BY <1>1, <3>2, LinkedTogether
    <2>3. factory' = [factory EXCEPT !.extra = both, !.documented = TRUE]
      BY <2>1
    <2> HIDE DEF both
    <2>4. factory' \in Settings /\ factory'.extra = both
      BY <1>1, <2>2, <2>3 DEF Settings
    <2>5. QED
      BY <1>2, <2>1, <2>2, <2>4, BuilderStep
  <1>5. QED
    BY <1>3, <1>4

-----------------------------------------------------------------------------
(***************************************************************************)
(* What is served.                                                         *)
(***************************************************************************)

\* The routes of the controllers come first, then what was merged.
LEMMA BuiltIs ==
    ASSUME app \in Apps, factory \in Settings
    PROVE  /\ Routes(app) \in Seq(Entries) /\ factory.extra \in Seq(Extras)
           /\ Built \in Seq(Entries) /\ Len(Built) = Len(Routes(app)) + Len(factory.extra)
           /\ Len(Routes(app)) \in Nat /\ Len(factory.extra) \in Nat
           /\ \A i \in 1..Len(Routes(app)) : i \in 1..Len(Built) /\ Built[i] = Routes(app)[i]
           /\ \A i \in 1..Len(factory.extra) :
                 /\ Len(Routes(app)) + i \in 1..Len(Built)
                 /\ Built[Len(Routes(app)) + i] = factory.extra[i]
           /\ \A i \in 1..Len(Built) : i \in 1..Len(Routes(app))
                                       \/ \E j \in 1..Len(factory.extra) : i = Len(Routes(app)) + j
  <1> DEFINE routes == Routes(app)
             extra == factory.extra
  <1>1. /\ Len(routes) \in Nat /\ DOMAIN routes = 1..Len(routes)
        /\ \A i \in 1..Len(routes) : \E h \in Handlers : routes[i] = RouteOf(h.controller, h.method)
    BY RoutesAndDocs
  <1>2. routes \in Seq(Entries)
    <2>1. \A h \in Handlers : RouteOf(h.controller, h.method) \in Entries
      BY RouteIsEntry
    <2>2. \A i \in 1..Len(routes) : routes[i] \in Entries
      BY <1>1, <2>1
    <2>3. routes = [i \in 1..Len(OfApp(app)) |->
                       RouteOf(OfApp(app)[i].controller, OfApp(app)[i].method)]
      BY DEF Routes
    <2>4. routes = [i \in 1..Len(routes) |-> routes[i]]
      BY <1>1, <2>3
    <2> HIDE DEF routes
    <2>5. QED
      BY <1>1, <2>2, <2>4, IsASeq
  <1>3. extra \in Seq(Extras) /\ extra \in Seq(Entries) /\ Len(extra) \in Nat
    <2>1. extra \in Seq(Extras)
      BY DEF Settings
    <2>2. Extras \subseteq Entries
      BY ExtraIsEntry
    <2> HIDE DEF extra
    <2>3. QED
      BY <2>1, <2>2, SeqMonotonic
  <1>4. Built = routes \o extra
    BY DEF Built
  <1> HIDE DEF routes, extra
  <1>5. /\ Built \in Seq(Entries) /\ Len(Built) = Len(routes) + Len(extra)
        /\ \A i \in 1..Len(routes) : Built[i] = routes[i]
        /\ \A i \in 1..Len(extra) : Built[Len(routes) + i] = extra[i]
        /\ \A i \in 1..Len(Built) : i \in 1..Len(routes) \/ i - Len(routes) \in 1..Len(extra)
    BY <1>2, <1>3, <1>4, ElementsOfBoth
  <1>6. /\ \A i \in 1..Len(routes) : i \in 1..Len(Built)
        /\ \A i \in 1..Len(extra) : Len(routes) + i \in 1..Len(Built)
        /\ \A i \in 1..Len(Built) : i = Len(routes) + (i - Len(routes))
    BY <1>1, <1>3, <1>5
  <1>7. QED
    BY <1>1, <1>2, <1>3, <1>5, <1>6 DEF routes, extra

\* An entry that is served is a route of a controller or was merged.
Served(e) ==
    \/ \E i \in 1..Len(Routes(app)) : e = Mount(Routes(app)[i]) /\ Routes(app)[i] \in Entries
    \/ \E i \in 1..Len(factory.extra) : e = Mount(factory.extra[i]) /\ factory.extra[i] \in Extras

\* Every entry of the router was mounted from a route or from a merged router.
LEMMA EntryIsServed ==
    ASSUME DocInv, Serving, NEW e \in router
    PROVE  e \in Entries /\ Served(e)
  <1>1. app \in Apps /\ factory \in Settings /\ router = {Mount(Built[i]) : i \in 1..Len(Built)}
    BY DEF DocInv, TypeOK, RouterOK
  <1>2. PICK i \in 1..Len(Built) : e = Mount(Built[i])
    BY <1>1
  <1>3. Built[i] \in Entries
    <2>1. Built \in Seq(Entries)
      BY <1>1, BuiltIs
    <2>2. QED
      BY <2>1, Elements
  <1>4. e \in Entries
    BY <1>1, <1>2, <1>3, MountedEntry
  <1>5. CASE i \in 1..Len(Routes(app))
    <2>1. Built[i] = Routes(app)[i]
      BY <1>1, <1>5, BuiltIs
    <2>2. QED
      BY <1>2, <1>3, <1>4, <1>5, <2>1 DEF Served
  <1>6. ASSUME NEW j \in 1..Len(factory.extra), i = Len(Routes(app)) + j PROVE e \in Entries /\ Served(e)
    <2>1. Built[i] = factory.extra[j] /\ factory.extra \in Seq(Extras)
      BY <1>1, <1>6, BuiltIs
    <2>2. factory.extra[j] \in Extras
      BY <2>1, Elements
    <2>3. QED
      BY <1>2, <1>4, <2>1, <2>2 DEF Served
  <1>7. QED
    BY <1>1, <1>5, <1>6, BuiltIs

\* into_router panics where two entries overlap, or serves what was built.
LEMMA RouterStep == DocInv /\ IntoRouter => DocInv'
  <1> SUFFICES ASSUME DocInv, IntoRouter PROVE DocInv'
    OBVIOUS
  <1>1. app' = app /\ calls' = calls /\ factory' = factory /\ reply' = reply /\ stage = "building"
    BY DEF IntoRouter
  <1>2. /\ router = {} /\ reply = None /\ app \in Apps /\ calls \in 0..MaxBuilderCalls
        /\ factory \in Settings /\ PagesLinked(factory.extra)
    BY <1>1 DEF DocInv, TypeOK, Serving
  <1>3. CASE Overlap(Built)
    <2>1. stage' = "panicked" /\ router' = router
      BY <1>3 DEF IntoRouter, Built
    <2>2. ~Serving
      BY <1>1 DEF Serving
    <2>3. QED
      BY <1>1, <1>2, <2>1, <2>2, NotServing
  <1>4. CASE ~Overlap(Built)
    <2>1. stage' = "serving" /\ router' = {Mount(Built[i]) : i \in 1..Len(Built)}
      BY <1>4 DEF IntoRouter, Built
    <2>2. Built' = Built
      BY <1>1 DEF Built
    <2>3. \A e : Mount(e)' = Mount(e)
      BY <1>1 DEF Mount
    <2>4. TypeOK'
      <3>1. factory'.guards \in Seq(CustomChecks)
        BY <1>1, <1>2 DEF Settings
      <3>2. QED
        BY <1>1, <1>2, <2>1, <3>1 DEF TypeOK, Serving, CustomChecks
    <2>5. RouterOK'
      BY <1>4, <2>1, <2>2, <2>3 DEF RouterOK
    <2>6. ReplyOK'
      BY <1>1, <1>2 DEF ReplyOK
    <2>7. QED
      BY <1>1, <1>2, <2>4, <2>5, <2>6 DEF DocInv
  <1>5. QED
    BY <1>3, <1>4

\* A request leaves everything but the answer as it is.
LEMMA NothingElse ==
    ASSUME DocInv, Serving, UNCHANGED <<app, stage, calls, factory, router>>, ReplyOK'
    PROVE  DocInv'
  <1>1. factory' \in Settings /\ PagesLinked(factory'.extra)
    BY DEF DocInv
  <1>2. TypeOK'
    BY DEF DocInv, TypeOK, Serving
  <1>3. RouterOK'
    <2>1. Built' = Built
      BY DEF Built
    <2>2. \A e : Mount(e)' = Mount(e)
      BY DEF Mount
    <2>3. QED
      BY <2>1, <2>2 DEF DocInv, RouterOK, Serving
  <1>4. QED
    BY <1>1, <1>2, <1>3 DEF DocInv

\* A request changes nothing but the reply, which was made by the guards, by an
\* extractor or by the handler of the entry it found.
LEMMA CallStep == DocInv /\ Call => DocInv'
  <1> SUFFICES ASSUME DocInv, Call PROVE DocInv'
    OBVIOUS
  <1>1. Serving /\ app' = app /\ stage' = stage /\ calls' = calls /\ factory' = factory /\ router' = router
    BY DEF Call, Serving
  <1>2. PICK entry \in router, caller \in Callers \cup {Anonymous} :
            \E body \in Sent(entry) \cup {<<>>} :
               \/ Refuse(entry, Known(caller), body)
               \/ Extract(entry, Known(caller), body)
               \/ Handle(entry, Known(caller), body)
    BY DEF Call
  <1>3. PICK body \in Sent(entry) \cup {<<>>} :
               \/ Refuse(entry, Known(caller), body)
               \/ Extract(entry, Known(caller), body)
               \/ Handle(entry, Known(caller), body)
    BY <1>2
  <1>4. PICK who \in Callers \cup {Anonymous} : who = Known(caller)
    BY DEF Known
  <1> DEFINE takes == entry.takes
  <1>5. \A e, w : Refusing(e, w)' = Refusing(e, w) /\ AllGuards(e)' = AllGuards(e)
    BY <1>1 DEF Refusing, AllGuards
  <1> DEFINE Is(by, status) == reply' = [entry |-> entry, who |-> who, body |-> body, by |-> by, status |-> status]
  <1>6. /\ \A by, status : Is(by, status) =>
              /\ reply'.entry = entry /\ reply'.who = who /\ reply'.body = body
              /\ reply'.by = by /\ reply'.status = status
        /\ Serving'
    BY <1>1 DEF Serving
  <1>7. CASE Refuse(entry, who, body)
    <2> DEFINE status == Refusal(AllGuards(entry)[Min(Refusing(entry, who))], who)
    <2>1. Refusing(entry, who) # {} /\ Is("guard", status)
      BY <1>7 DEF Refuse, Reply
    <2> HIDE DEF status, Is
    <2>2. /\ reply'.entry = entry /\ reply'.who = who /\ reply'.body = body
          /\ reply'.by = "guard" /\ reply'.status = status
      BY <1>6, <2>1
    <2>3. /\ Refusing(reply.entry, reply.who)' = Refusing(entry, who)
          /\ AllGuards(reply.entry)' = AllGuards(entry)
      BY <1>1, <2>2 DEF Refusing, AllGuards
    <2>4. ReplyOK'
      BY <1>1, <1>4, <1>6, <2>1, <2>2, <2>3 DEF ReplyOK, status
    <2>5. QED
      BY <1>1, <2>4, NothingElse
  <1>8. CASE Extract(entry, who, body)
    <2>0. PICK i \in 1..Len(takes) : \E status \in Extracts(takes[i], who, body) \ {None} :
              reply' = Reply(entry, who, body, takes[i].from, status)
      BY <1>8 DEF Extract
    <2>1. PICK status \in Extracts(takes[i], who, body) \ {None} : Is(takes[i].from, status)
      BY <2>0 DEF Reply
    <2> HIDE DEF Is
    <2>2. /\ reply'.entry = entry /\ reply'.who = who /\ reply'.body = body
          /\ reply'.by = takes[i].from
      BY <1>6, <2>1
    <2>3. Refusing(entry, who) = {}
      BY <1>8 DEF Extract
    <2>4. takes[i].from \notin {"guard", "handler"}
      <3>1. takes[i] \in Argument
        <4>1. entry \in Entries
          BY <1>1, EntryIsServed
        <4>2. takes \in Seq(Argument)
          BY <4>1 DEF Entries
        <4>3. QED
          BY <4>2, Elements
      <3>2. QED
        BY <3>1 DEF Argument, PartsExtractors, BodyExtractors
    <2>5. QED
      BY <1>1, <1>4, <1>6, <2>1, <2>2, <2>3, <2>4, NothingElse DEF ReplyOK, Refusing, AllGuards
  <1>9. CASE Handle(entry, who, body)
    <2>1. /\ Is("handler", 200) /\ Refusing(entry, who) = {}
          /\ \A i \in 1..Len(takes) : None \in Extracts(takes[i], who, body)
      BY <1>9 DEF Handle, Reply
    <2> HIDE DEF Is
    <2>2. /\ reply'.entry = entry /\ reply'.who = who /\ reply'.body = body
          /\ reply'.by = "handler"
      BY <1>6, <2>1
    <2>3. QED
      BY <1>1, <1>4, <1>6, <2>1, <2>2, NothingElse DEF ReplyOK, Refusing, AllGuards
  <1>10. QED
    BY <1>3, <1>4, <1>7, <1>8, <1>9

\* Every step keeps the invariant.
LEMMA NextInv == DocInv /\ [Next]_vars => DocInv'
  <1> SUFFICES ASSUME DocInv, [Next]_vars PROVE DocInv'
    OBVIOUS
  <1>1. CASE Create
    BY <1>1, CreateStep
  <1>2. ASSUME NEW path \in GlobalPrefixes, WithGlobalPrefix(path) PROVE DocInv'
    BY <1>2, PrefixStep
  <1>3. ASSUME NEW path \in Versions, WithVersion(path) PROVE DocInv'
    BY <1>3, VersionStep
  <1>4. CASE WithAuthResolver
    BY <1>4, ResolverStep
  <1>5. ASSUME NEW g \in Guards, UseGuard(g) PROVE DocInv'
    BY <1>5, GuardStep
  <1>6. ASSUME NEW path \in Libraries, MergeRouter(path) PROVE DocInv'
    BY <1>6, MergeStep
  <1>7. ASSUME NEW config \in Configs, WithOpenapiDocs(config) PROVE DocInv'
    BY <1>7, DocsStep
  <1>8. CASE IntoRouter
    BY <1>8, RouterStep
  <1>9. CASE Call
    BY <1>9, CallStep
  <1>10. CASE UNCHANGED vars
    <2>1. /\ app' = app /\ stage' = stage /\ calls' = calls /\ factory' = factory
          /\ router' = router /\ reply' = reply
      BY <1>10 DEF vars
    <2>2. ReplyOK'
      <3>1. \A e, w : Refusing(e, w)' = Refusing(e, w) /\ AllGuards(e)' = AllGuards(e)
        BY <2>1 DEF Refusing, AllGuards
      <3>2. QED
        BY <2>1, <3>1 DEF DocInv, ReplyOK, Serving
    <2>3. CASE Serving
      BY <2>1, <2>2, <2>3, NothingElse
    <2>4. CASE ~Serving
      <3>1. TypeOK'
        BY <2>1 DEF DocInv, TypeOK, Serving
      <3>2. RouterOK'
        BY <2>1, <2>4 DEF RouterOK, Serving
      <3>3. QED
        BY <2>1, <2>2, <3>1, <3>2 DEF DocInv
    <2>5. QED
      BY <2>3, <2>4
  <1>11. QED
    BY <1>1, <1>2, <1>3, <1>4, <1>5, <1>6, <1>7, <1>8, <1>9, <1>10 DEF Next

\* The invariant, for every application.
THEOREM DocumentationKeepsItsShape == Spec => []DocInv
  <1>1. Init => DocInv
    BY InitInv
  <1>2. DocInv /\ [Next]_vars => DocInv'
    BY NextInv
  <1>3. QED
    BY <1>1, <1>2, PTL DEF Spec

-----------------------------------------------------------------------------
(***************************************************************************)
(* The document and what is served.                                        *)
(***************************************************************************)

\* Nothing that is served is under the place of something else.
LEMMA NoneTwice ==
    ASSUME DocInv, Serving, NEW i \in 1..Len(Built), NEW j \in 1..Len(Built),
           SameOperation(Mount(Built[i]), Mount(Built[j]))
    PROVE  i = j
  <1>1. app \in Apps /\ factory \in Settings /\ ~Overlap(Built)
    BY DEF DocInv, TypeOK, RouterOK
  <1>2. Built[i] \in Entries /\ Built[j] \in Entries
    <2>1. Built \in Seq(Entries)
      BY <1>1, BuiltIs
    <2>2. QED
      BY <2>1, Elements
  <1>3. Built[i].path \in Path /\ Built[j].path \in Path
    BY <1>2 DEF Entries
  <1>4. /\ Mount(Built[i]).method = Built[i].method /\ Mount(Built[i]).path = Under(Built[i].path)
        /\ Mount(Built[j]).method = Built[j].method /\ Mount(Built[j]).path = Under(Built[j].path)
    BY <1>1, <1>2, MountedEntry
  <1>5. Under(Built[i].path) = Under(Built[j].path) => Built[i].path = Built[j].path
    BY <1>1, <1>3, UnderKeepsApart
  <1>6. SameOperation(Built[i], Built[j])
    BY <1>4, <1>5 DEF SameOperation
  <1>7. QED
    BY <1>1, <1>6 DEF Overlap

\* A route and its entry in the document, mounted, are at the same place.
LEMMA RouteAndDoc ==
    ASSUME DocInv, NEW i \in 1..Len(Routes(app))
    PROVE  \E h \in Handlers :
               LET r == Routes(app)[i]
                   d == RouteDocs(app)[i]
               IN  /\ r = RouteOf(h.controller, h.method) /\ d = DocOf(h.controller, h.method)
                   /\ d.method = r.method /\ d.path = r.path
                   /\ Mount(d).method = Mount(r).method /\ Mount(d).path = Mount(r).path
  <1>1. app \in Apps /\ factory \in Settings
    BY DEF DocInv, TypeOK
  <1>2. PICK h \in Handlers : /\ Routes(app)[i] = RouteOf(h.controller, h.method)
                              /\ RouteDocs(app)[i] = DocOf(h.controller, h.method)
    BY <1>1, RoutesAndDocs
  <1> DEFINE r == RouteOf(h.controller, h.method)
             d == DocOf(h.controller, h.method)
  <1>3. r \in Entries /\ r.method = Verb(h.method).verb /\ r.path = FullPath(h.controller, h.method)
    BY RouteIsEntry
  <1>4. d.method = Verb(h.method).verb /\ d.path = FullPath(h.controller, h.method)
    BY DocIsOf
  <1>5. Mount(d).method = d.method /\ Mount(d).path = Under(d.path)
    BY MountedDoc
  <1> HIDE DEF r, d
  <1>6. Mount(r).method = r.method /\ Mount(r).path = Under(r.path)
    BY <1>1, <1>3, MountedEntry
  <1>7. QED
    BY <1>2, <1>3, <1>4, <1>5, <1>6 DEF r, d

\* Nothing is replaced in the document of an application that came up.
LEMMA DocumentIs ==
    ASSUME DocInv, Serving
    PROVE  Document = {RouteDocs(app)[i] : i \in 1..Len(Routes(app))}
  <1> DEFINE docs == RouteDocs(app)
             n == Len(Routes(app))
  <1>1. app \in Apps /\ factory \in Settings
    BY DEF DocInv, TypeOK
  <1>2. Len(docs) = n /\ n \in Nat
    BY <1>1, RoutesAndDocs
  <1>3. \A i \in 1..n : i \in 1..Len(Built) /\ Built[i] = Routes(app)[i]
    BY <1>1, BuiltIs
  <1>4. ASSUME NEW j \in 1..n, NEW k \in j+1..n PROVE ~SameOperation(docs[j], docs[k])
    <2>1. k \in 1..n /\ j # k
      BY <1>2
    <2>2. docs[j].method = Built[j].method /\ docs[j].path = Built[j].path
      BY <1>3, RouteAndDoc
    <2>3. docs[k].method = Built[k].method /\ docs[k].path = Built[k].path
      BY <1>3, <2>1, RouteAndDoc
    <2>4. ~Overlap(Built)
      BY DEF DocInv, RouterOK
    <2>5. ~SameOperation(Built[j], Built[k])
      BY <1>3, <2>1, <2>4 DEF Overlap
    <2>6. QED
      BY <2>2, <2>3, <2>5 DEF SameOperation
  <1> HIDE DEF docs, n
  <1>5. {j \in 1..n : \A k \in j+1..n : ~SameOperation(docs[j], docs[k])} = 1..n
    BY <1>4
  <1>6. Document = Operations(docs)
    BY DEF Document, docs
  <1>7. Operations(docs) = {docs[i] : i \in 1..n}
    BY <1>2, <1>5 DEF Operations
  <1>8. QED
    BY <1>6, <1>7 DEF docs, n

\* While it serves, what is served and was not merged is what the document lists.
LEMMA InvGivesApi == DocInv => DocumentIsTheApi
  <1> SUFFICES ASSUME DocInv PROVE DocumentIsTheApi
    OBVIOUS
  <1> DEFINE Place(e) == <<e.method, e.path>>
             merged == {Mount(factory.extra[i]) : i \in 1..Len(factory.extra)}
             own == router \ merged
             routes == Routes(app)
  <1>1. TypeOK
    BY DEF DocInv
  <1>2. ASSUME Serving PROVE {Place(e) : e \in own} = {Place(Mount(d)) : d \in Document}
    <2>1. app \in Apps /\ factory \in Settings /\ router = {Mount(Built[i]) : i \in 1..Len(Built)}
      BY <1>2 DEF DocInv, TypeOK, RouterOK
    <2>2. /\ \A i \in 1..Len(routes) : i \in 1..Len(Built) /\ Built[i] = routes[i]
          /\ \A i \in 1..Len(factory.extra) :
                 Len(routes) + i \in 1..Len(Built) /\ Built[Len(routes) + i] = factory.extra[i]
          /\ Len(routes) \in Nat /\ Len(factory.extra) \in Nat
      BY <2>1, BuiltIs
    <2>3. ASSUME NEW e \in own PROVE \E i \in 1..Len(routes) : e = Mount(routes[i])
      <3>1. Served(e)
        BY <1>2, EntryIsServed
      <3>2. QED
        BY <3>1 DEF Served
    <2>4. ASSUME NEW i \in 1..Len(routes) PROVE Mount(routes[i]) \in own
      <3>1. Mount(routes[i]) \in router
        BY <2>1, <2>2
      <3>2. ASSUME NEW j \in 1..Len(factory.extra), Mount(routes[i]) = Mount(factory.extra[j])
            PROVE  FALSE
        <4>1. SameOperation(Mount(Built[i]), Mount(Built[Len(routes) + j]))
          BY <2>2, <3>2 DEF SameOperation
        <4>2. i = Len(routes) + j
          BY <1>2, <2>2, <4>1, NoneTwice
        <4>3. QED
          BY <2>2, <4>2
      <3>3. QED
        BY <3>1, <3>2
    <2>5. \A i \in 1..Len(routes) : Place(Mount(routes[i])) = Place(Mount(RouteDocs(app)[i]))
      BY RouteAndDoc
    <2>6. Document = {RouteDocs(app)[i] : i \in 1..Len(routes)}
      BY <1>2, DocumentIs
    <2> HIDE DEF own, routes, Place
    <2>7. ASSUME NEW e \in own PROVE \E d \in Document : Place(e) = Place(Mount(d))
      BY <2>3, <2>5, <2>6
    <2>8. ASSUME NEW d \in Document PROVE \E e \in own : Place(e) = Place(Mount(d))
      BY <2>4, <2>5, <2>6
    <2>9. QED
      BY <2>7, <2>8
  <1>3. QED
    BY <1>1, <1>2 DEF DocumentIsTheApi

\* An application that came up serves what its document describes, and what was
\* merged besides: nothing of either is under another's place.
THEOREM ServedAndDocumented == Spec => []DocumentIsTheApi
  <1>1. DocInv => DocumentIsTheApi
    BY InvGivesApi
  <1>2. QED
    BY <1>1, DocumentationKeepsItsShape, PTL

-----------------------------------------------------------------------------
(***************************************************************************)
(* Who gets in.                                                            *)
(***************************************************************************)

\* None is no status.
LEMMA NoStatus == None \notin {200, 400, 401, 403}
  BY FieldsAssumption

\* A guard made from `auth` or `roles` refuses who is not known, and one made
\* from `roles` who has none of them.
LEMMA BuiltinRefusal ==
    ASSUME NEW who
    PROVE  /\ Refusal(SignedIn, who) = IF who = Anonymous THEN 401 ELSE None
           /\ \A roles : Refusal(HasRole(roles), who) =
                  IF who = Anonymous THEN 401
                  ELSE IF RolesOf[who] \cap roles # {} THEN None ELSE 403
  <1>1. Refusal(SignedIn, who) = IF who = Anonymous THEN 401 ELSE None
    <2>1. SignedIn.check = "authenticated"
      BY DEF SignedIn
    <2>2. QED
      BY <2>1 DEF Refusal
  <1>2. ASSUME NEW roles
        PROVE  Refusal(HasRole(roles), who) =
                  IF who = Anonymous THEN 401
                  ELSE IF RolesOf[who] \cap roles # {} THEN None ELSE 403
    <2>1. HasRole(roles).check = "roles" /\ HasRole(roles).roles = roles
      BY DEF HasRole
    <2>2. QED
      BY <2>1 DEF Refusal
  <1>3. QED
    BY <1>1, <1>2

\* A custom guard that admits a caller does not refuse.
LEMMA CustomRefusal ==
    ASSUME NEW g \in CustomChecks, NEW who, who \in Admits[g.guard]
    PROVE  Refusal(g, who) = None
  <1>1. g.check = "custom"
    BY DEF CustomChecks
  <1>2. QED
    BY <1>1 DEF Refusal

\* The guards that are run for a route: the application's and its own.
LEMMA GuardsOfRoute ==
    ASSUME factory \in Settings, NEW h \in Handlers, NEW e,
           e.guards = RouteGuards(h.controller, h.method)
    PROVE  LET all == AllGuards(e)
               builtin == BuiltinGuards(h.controller, h.method)
           IN  /\ all \in Seq(Checks)
               /\ \A g \in Range(builtin) : \E i \in 1..Len(all) : all[i] = g
               /\ \A i \in 1..Len(all) : all[i] \in CustomChecks \/ all[i] \in Range(builtin)
  <1> DEFINE all == AllGuards(e)
             builtin == BuiltinGuards(h.controller, h.method)
             own == RouteGuards(h.controller, h.method)
  <1>1. /\ own \in Seq(Checks) /\ Range(builtin) \subseteq Range(own)
        /\ Range(own) \subseteq CustomChecks \cup Range(builtin)
    BY RouteGuardsAre DEF Handlers, Methods
  <1>2. factory.guards \in Seq(CustomChecks) /\ CustomChecks \subseteq Checks
    BY DEF Settings, Checks
  <1>3. factory.guards \in Seq(Checks) /\ Range(factory.guards) \subseteq CustomChecks
    BY <1>2, SeqMonotonic, Elements
  <1>4. all = factory.guards \o own
    BY DEF AllGuards
  <1> HIDE DEF all, own, builtin
  <1>5. all \in Seq(Checks) /\ Range(all) = Range(factory.guards) \cup Range(own)
    BY <1>1, <1>3, <1>4, ElementsOfBoth
  <1>6. /\ \A i \in 1..Len(all) : all[i] \in Range(all)
        /\ \A g \in Range(all) : \E i \in 1..Len(all) : all[i] = g
    BY <1>5, Elements
  <1>7. QED
    BY <1>1, <1>3, <1>5, <1>6 DEF all, builtin

\* What the attributes call for, in terms of the entry in the document.
LEMMA BuiltinIs ==
    ASSUME NEW c, NEW m
    PROVE  /\ ~RequiresAuth(c, m) => Range(BuiltinGuards(c, m)) = {} /\ RequiredRoles(c, m) = {}
           /\ RequiresAuth(c, m) /\ RequiredRoles(c, m) = {} => Range(BuiltinGuards(c, m)) = {SignedIn}
           /\ RequiredRoles(c, m) # {} =>
                 /\ RequiresAuth(c, m)
                 /\ Range(BuiltinGuards(c, m)) = {HasRole(RequiredRoles(c, m))}
  <1>1. Range(<<>>) = {} /\ \A x : Range(<<x>>) = {x}
    BY DEF Range
  <1>2. RequiredRoles(c, m) # {} => RequiresAuth(c, m)
    BY DEF RequiresAuth
  <1>3. BuiltinGuards(c, m) =
            IF RequiredRoles(c, m) # {} THEN <<HasRole(RequiredRoles(c, m))>>
            ELSE IF RequiresAuth(c, m) THEN <<SignedIn>> ELSE <<>>
    BY DEF BuiltinGuards
  <1>4. QED
    BY <1>1, <1>2, <1>3

\* An answer comes from a route when an operation of the document is at its place.
LEMMA AnsweredByRoute ==
    ASSUME DocInv, Serving, NEW e \in router, NEW d \in Document, SameOperation(Mount(d), e)
    PROVE  \E h \in Handlers : /\ d = DocOf(h.controller, h.method)
                               /\ e.guards = RouteGuards(h.controller, h.method)
                               /\ e.takes = h.method.takes
  <1>1. app \in Apps /\ factory \in Settings /\ router = {Mount(Built[i]) : i \in 1..Len(Built)}
    BY DEF DocInv, TypeOK, RouterOK
  <1>2. PICK i \in 1..Len(Routes(app)) : d = RouteDocs(app)[i]
    BY DocumentIs
  <1>3. PICK k \in 1..Len(Built) : e = Mount(Built[k])
    BY <1>1
  <1>4. PICK h \in Handlers :
            /\ Routes(app)[i] = RouteOf(h.controller, h.method)
            /\ RouteDocs(app)[i] = DocOf(h.controller, h.method)
            /\ Mount(RouteDocs(app)[i]).method = Mount(Routes(app)[i]).method
            /\ Mount(RouteDocs(app)[i]).path = Mount(Routes(app)[i]).path
    BY RouteAndDoc
  <1>5. i \in 1..Len(Built) /\ Built[i] = Routes(app)[i]
    BY <1>1, BuiltIs
  <1>6. SameOperation(Mount(Built[i]), Mount(Built[k]))
    BY <1>2, <1>3, <1>4, <1>5 DEF SameOperation
  <1>7. i = k
    BY <1>5, <1>6, NoneTwice
  <1> DEFINE r == RouteOf(h.controller, h.method)
  <1>8. /\ r \in Entries /\ r.guards = RouteGuards(h.controller, h.method)
        /\ r.takes = h.method.takes
    BY RouteIsEntry
  <1>9. e = Mount(r)
    BY <1>3, <1>4, <1>5, <1>7
  <1> HIDE DEF r
  <1>10. e.guards = r.guards /\ e.takes = r.takes
    BY <1>1, <1>8, <1>9, MountedEntry
  <1>11. QED
    BY <1>2, <1>4, <1>8, <1>10

\* The built-in guards of an entry refuse whom its operation refuses, and nobody else.
LEMMA InvGivesAccess == DocInv => AccessIsDocumented
  <1> SUFFICES ASSUME DocInv, reply # None, NEW d \in Document, SameOperation(Mount(d), reply.entry)
               PROVE
                 LET who == reply.who
                     unknown == d.security /\ who = Anonymous
                     unfit == who # Anonymous /\ d.roles # {} /\ RolesOf[who] \cap d.roles = {}
                     admitted == \A i \in 1..Len(AllGuards(reply.entry)) :
                                     LET g == AllGuards(reply.entry)[i] IN
                                     g.check = "custom" => who \in Admits[g.guard]
                 IN  /\ unknown \/ unfit => reply.by = "guard"
                     /\ reply.by = "guard" /\ admitted =>
                            (unknown /\ reply.status = 401) \/ (unfit /\ reply.status = 403)
    BY DEF AccessIsDocumented
  <1> DEFINE who == reply.who
             entry == reply.entry
             all == AllGuards(entry)
             refusing == Refusing(entry, who)
             unknown == d.security /\ who = Anonymous
             unfit == who # Anonymous /\ d.roles # {} /\ RolesOf[who] \cap d.roles = {}
             admitted == \A i \in 1..Len(all) : all[i].check = "custom" => who \in Admits[all[i].guard]
  <1>1. /\ Serving /\ entry \in router
        /\ reply.by = "guard" => /\ refusing # {}
                                 /\ reply.status = Refusal(all[Min(refusing)], who)
        /\ reply.by # "guard" => refusing = {}
    BY DEF DocInv, ReplyOK
  <1>2. factory \in Settings
    BY DEF DocInv
  <1>3. PICK h \in Handlers : /\ d = DocOf(h.controller, h.method)
                              /\ entry.guards = RouteGuards(h.controller, h.method)
    BY <1>1, AnsweredByRoute
  <1> DEFINE c == h.controller
             m == h.method
             builtin == BuiltinGuards(c, m)
  <1>4. d.security = RequiresAuth(c, m) /\ d.roles = RequiredRoles(c, m)
    BY <1>3, DocIsOf
  <1>5. /\ all \in Seq(Checks)
        /\ \A g \in Range(builtin) : \E i \in 1..Len(all) : all[i] = g
        /\ \A i \in 1..Len(all) : all[i] \in CustomChecks \/ all[i] \in Range(builtin)
    BY <1>2, <1>3, GuardsOfRoute
  <1>6. refusing = {i \in 1..Len(all) : Refusal(all[i], who) # None}
    BY DEF Refusing
  <1> HIDE DEF refusing, all, builtin, c, m, who, entry
  <1>7. /\ ~d.security => Range(builtin) = {} /\ d.roles = {}
        /\ d.security /\ d.roles = {} => Range(builtin) = {SignedIn}
        /\ d.roles # {} => d.security /\ Range(builtin) = {HasRole(d.roles)}
    BY <1>4, BuiltinIs DEF builtin
  <1>8. \A g \in Range(builtin) :
            /\ Refusal(g, who) = IF unknown THEN 401 ELSE IF unfit THEN 403 ELSE None
            /\ d.security
    BY <1>7, BuiltinRefusal
  <1>9. ASSUME unknown \/ unfit PROVE reply.by = "guard"
    <2>1. \E g : g \in Range(builtin)
      BY <1>7, <1>9
    <2>2. PICK g \in Range(builtin) : TRUE
      BY <2>1
    <2>3. Refusal(g, who) # None
      BY <1>8, <1>9, NoStatus
    <2>4. refusing # {}
      BY <1>5, <1>6, <2>3
    <2>5. QED
      BY <1>1, <2>4
  <1>10. ASSUME reply.by = "guard", admitted
         PROVE  (unknown /\ reply.status = 401) \/ (unfit /\ reply.status = 403)
    <2> DEFINE i == Min(refusing)
    <2>1. i \in 1..Len(all) /\ Refusal(all[i], who) # None
      <3>1. refusing \in SUBSET Nat /\ refusing # {}
        BY <1>1, <1>6, <1>10
      <3>2. i \in refusing
        BY <3>1, MinIs
      <3>3. QED
        BY <1>6, <3>2
    <2>2. reply.status = Refusal(all[i], who)
      BY <1>1, <1>10
    <2> HIDE DEF i
    <2>3. all[i] \notin CustomChecks
      <3>1. SUFFICES ASSUME all[i] \in CustomChecks PROVE FALSE
        OBVIOUS
      <3>2. all[i].check = "custom"
        BY <3>1 DEF CustomChecks
      <3>3. who \in Admits[all[i].guard]
        BY <1>10, <2>1, <3>2
      <3>4. QED
        BY <2>1, <3>1, <3>3, CustomRefusal
    <2>4. all[i] \in Range(builtin)
      BY <1>5, <2>1, <2>3
    <2>5. QED
      BY <1>8, <2>1, <2>2, <2>4
  <1>11. QED
    BY <1>9, <1>10 DEF who, all, entry

\* Whoever passes the guards of an operation is whom its entry in the document
\* lets in, and whom only the attributes keep out is told so with the status
\* that the entry lets one expect.
THEOREM AccessAsDocumented == Spec => []AccessIsDocumented
  <1>1. DocInv => AccessIsDocumented
    BY InvGivesAccess
  <1>2. QED
    BY <1>1, DocumentationKeepsItsShape, PTL

-----------------------------------------------------------------------------
(***************************************************************************)
(* Bodies: what ValidatedBody takes and what the schema shows.             *)
(***************************************************************************)

\* serde and validate() on one field.
IsTaken(f, v) ==
    Reads(f, v) /\ ~(BreaksRequired(f, v) \/ BreaksEmail(f, v) \/ BreaksBounds(f, v))

\* What the property of a field is made of.
LEMMA PropertyIs ==
    ASSUME NEW f \in Field
    PROVE  /\ f.kind \in {"text", "number", "other"}
           /\ f.optional \in BOOLEAN /\ f.required \in BOOLEAN /\ f.email \in BOOLEAN
           /\ f.whole \in BOOLEAN
           /\ LET p == PropertyOf(f)
              IN  /\ p.type.kind = f.kind /\ p.type.whole = f.whole
                  /\ p.nullable = f.optional /\ p.email = f.email
                  /\ p.required = (~f.optional \/ f.required)
                  /\ \A n : Outside(n, p) <=> Outside(n, f)
  BY DEF PropertyOf, TypeSchema, Field, Kinds, Outside

\* A null, or no value at all, for a field.
LEMMA NothingGiven ==
    ASSUME NEW f \in Field, NEW v \in {Absent, Null}
    PROVE  /\ IsTaken(f, v) <=> f.optional /\ ~f.required
           /\ IsTaken(f, v) => Conforms(PropertyOf(f), v)
           /\ Conforms(PropertyOf(f), v) /\ ~Stricter(f, v) => IsTaken(f, v)
  <1> DEFINE p == PropertyOf(f)
  <1>1. /\ f.kind \in {"text", "number", "other"} /\ f.optional \in BOOLEAN /\ f.required \in BOOLEAN
        /\ p.nullable = f.optional /\ p.required = (~f.optional \/ f.required)
    BY PropertyIs
  <1> HIDE DEF p
  <1>2. v.kind = "absent" \/ v.kind = "null"
    BY DEF Absent, Null
  <1>3. IsTaken(f, v) <=> f.optional /\ ~f.required
    BY <1>1, <1>2 DEF IsTaken, Reads, BreaksRequired, BreaksEmail, BreaksBounds
  <1>4. /\ v.kind = "absent" => (Conforms(p, v) <=> ~p.required)
        /\ v.kind = "null" => (Conforms(p, v) <=> p.nullable)
    BY <1>2 DEF Conforms
  <1>5. v.kind = "null" /\ ~Stricter(f, v) => ~(f.optional /\ f.required)
    BY DEF Stricter
  <1>6. QED
    BY <1>1, <1>2, <1>3, <1>4, <1>5 DEF p

\* A text for a field.
LEMMA TextGiven ==
    ASSUME NEW f \in Field, NEW v \in Value, v.kind = "text"
    PROVE  /\ IsTaken(f, v) => Conforms(PropertyOf(f), v) \/ Looser(f, v)
           /\ Conforms(PropertyOf(f), v) /\ ~Stricter(f, v) => IsTaken(f, v)
  <1> DEFINE p == PropertyOf(f)
  <1>1. /\ f.kind \in {"text", "number", "other"} /\ f.required \in BOOLEAN /\ f.email \in BOOLEAN
        /\ p.type.kind = f.kind /\ p.email = f.email /\ \A n : Outside(n, p) <=> Outside(n, f)
    BY PropertyIs
  <1> HIDE DEF p
  <1>2. /\ v.blank \in BOOLEAN /\ v.mail \in {"none", "at", "address"}
        /\ v.bytes \in Nat /\ v.chars \in Nat /\ v.chars <= v.bytes
    BY DEF Value, Absent, Null
  <1>3. IsTaken(f, v) <=> /\ f.kind = "text" /\ ~(f.required /\ v.blank)
                          /\ ~(f.email /\ ~v.blank /\ v.mail = "none") /\ ~Outside(v.bytes, f)
    BY <1>1, <1>2 DEF IsTaken, Reads, BreaksRequired, BreaksEmail, BreaksBounds
  <1>4. Conforms(p, v) <=> f.kind = "text" /\ ~Outside(v.chars, f) /\ (f.email => v.mail = "address")
    BY <1>1 DEF Conforms
  <1>5. f.min \in Int \cup {None} /\ f.max \in Int \cup {None}
    BY DEF Field
  <1>6. ASSUME IsTaken(f, v), ~Looser(f, v) PROVE Conforms(p, v)
    <2>1. ~(f.email /\ (v.blank \/ v.mail = "at")) /\ (f.min = None \/ v.bytes = v.chars)
      BY <1>6 DEF Looser
    <2>2. ~Outside(v.chars, f)
      BY <1>2, <1>3, <1>5, <1>6, <2>1 DEF Outside
    <2>3. f.email => v.mail = "address"
      BY <1>2, <1>3, <1>6, <2>1
    <2>4. QED
      BY <1>3, <1>4, <1>6, <2>2, <2>3
  <1>7. ASSUME Conforms(p, v), ~Stricter(f, v) PROVE IsTaken(f, v)
    <2>1. ~(f.required /\ v.blank) /\ (f.max = None \/ v.bytes = v.chars)
      BY <1>7 DEF Stricter
    <2>2. ~Outside(v.bytes, f)
      BY <1>2, <1>4, <1>5, <1>7, <2>1 DEF Outside
    <2>3. QED
      BY <1>3, <1>4, <1>7, <2>1, <2>2
  <1>8. QED
    BY <1>6, <1>7 DEF p

\* A number, or a value of another type, for a field.
LEMMA OtherGiven ==
    ASSUME NEW f \in Field, NEW v \in Value, v.kind \in {"number", "other"}
    PROVE  /\ IsTaken(f, v) => Conforms(PropertyOf(f), v) \/ Looser(f, v)
           /\ Conforms(PropertyOf(f), v) /\ ~Stricter(f, v) => IsTaken(f, v)
  <1> DEFINE p == PropertyOf(f)
  <1>1. /\ f.kind \in {"text", "number", "other"} /\ f.required \in BOOLEAN /\ f.optional \in BOOLEAN
        /\ f.whole \in BOOLEAN
        /\ p.type.kind = f.kind /\ p.type.whole = f.whole /\ \A n : Outside(n, p) <=> Outside(n, f)
    BY PropertyIs
  <1> HIDE DEF p
  <1>2. CASE v.kind = "number"
    <2>1. v.form \in {"whole", "point", "fraction"}
      BY <1>2 DEF Value, Absent, Null
    <2>2. IsTaken(f, v) <=> /\ f.kind = "number" /\ v.value \in f.low..f.high
                            /\ f.whole => v.form = "whole"
                            /\ ~Outside(v.value, f)
      BY <1>1, <1>2 DEF IsTaken, Reads, BreaksRequired, BreaksEmail, BreaksBounds
    <2>3. Conforms(p, v) <=> /\ f.kind = "number" /\ ~Outside(v.value, f)
                             /\ f.whole => v.form # "fraction"
      BY <1>1, <1>2 DEF Conforms
    <2>4. ~Stricter(f, v) => v.value \in f.low..f.high /\ ~(f.whole /\ v.form = "point")
      BY <1>2 DEF Stricter
    <2>5. QED
      BY <1>1, <2>1, <2>2, <2>3, <2>4 DEF p
  <1>3. CASE v.kind = "other"
    <2>1. IsTaken(f, v) <=> f.kind = "other" /\ v.reads
      BY <1>1, <1>3 DEF IsTaken, Reads, BreaksRequired, BreaksEmail, BreaksBounds
    <2>2. Conforms(p, v) <=> f.kind = "other" /\ v.conforms
      BY <1>1, <1>3 DEF Conforms
    <2>3. (~v.conforms => Looser(f, v)) /\ (~v.reads => Stricter(f, v))
      BY <1>3 DEF Looser, Stricter
    <2>4. QED
      BY <2>1, <2>2, <2>3 DEF p
  <1>4. QED
    BY <1>2, <1>3

\* What a field takes conforms to its property, and the other way round, but for
\* the values that one of the two is known to mind.
LEMMA FieldByField ==
    ASSUME NEW f \in Field, NEW v \in Value
    PROVE  /\ IsTaken(f, v) => Conforms(PropertyOf(f), v) \/ Looser(f, v)
           /\ Conforms(PropertyOf(f), v) /\ ~Stricter(f, v) => IsTaken(f, v)
  <1>1. v \in {Absent, Null} \/ v.kind \in {"text", "number", "other"}
    BY DEF Value
  <1>2. QED
    BY <1>1, NothingGiven, TextGiven, OtherGiven

\* So it is with the fields of a body.
LEMMA BodyByBody ==
    ASSUME NEW t \in Dtos, NEW body \in Seq(Value)
    PROVE  LET fields == FieldsOf[t]
               schema == SchemaOf(t)
               passes == Deserializes(t, body) /\ Validates(t, body)
           IN  /\ passes => /\ Len(body) = Len(schema)
                            /\ \A j \in 1..Len(body) :
                                  Conforms(schema[j], body[j]) \/ Looser(fields[j], body[j])
               /\ ~passes => \/ Len(body) # Len(schema)
                             \/ \E j \in 1..Len(body) :
                                   ~Conforms(schema[j], body[j]) \/ Stricter(fields[j], body[j])
  <1> DEFINE fields == FieldsOf[t]
             schema == SchemaOf(t)
             passes == Deserializes(t, body) /\ Validates(t, body)
  <1>1. fields \in Seq(Field) /\ Len(fields) \in Nat /\ Len(body) \in Nat
    BY FieldsAssumption
  <1>2. schema = [i \in 1..Len(fields) |-> PropertyOf(fields[i])]
    BY DEF SchemaOf
  <1>3. Len(schema) = Len(fields) /\ \A i \in 1..Len(fields) : schema[i] = PropertyOf(fields[i])
    BY <1>1, <1>2
  <1>4. /\ \A i \in 1..Len(fields) : fields[i] \in Field
        /\ \A i \in 1..Len(body) : body[i] \in Value
    BY <1>1, Elements
  <1>5. passes <=> Len(body) = Len(fields) /\ \A i \in 1..Len(body) : IsTaken(fields[i], body[i])
    BY DEF Deserializes, Validates, IsTaken
  <1>6. ASSUME Len(body) = Len(fields), NEW i \in 1..Len(body)
        PROVE  /\ IsTaken(fields[i], body[i]) => Conforms(schema[i], body[i]) \/ Looser(fields[i], body[i])
               /\ Conforms(schema[i], body[i]) /\ ~Stricter(fields[i], body[i]) => IsTaken(fields[i], body[i])
    <2>1. fields[i] \in Field /\ body[i] \in Value /\ schema[i] = PropertyOf(fields[i])
      BY <1>3, <1>4, <1>6
    <2>2. QED
      BY <2>1, FieldByField
  <1> HIDE DEF fields, schema, passes
  <1>7. QED
    BY <1>3, <1>5, <1>6 DEF fields, schema, passes

\* At most one argument of a handler that is served reads the body.
LEMMA OneBody ==
    ASSUME DocInv, Serving, NEW e \in router
    PROVE  /\ \A i \in 1..Len(e.takes) : e.takes[i] \in Argument
           /\ \A i, j \in 1..Len(e.takes) :
                 e.takes[i].from \in BodyExtractors /\ e.takes[j].from \in BodyExtractors => i = j
  <1>1. app \in Apps /\ factory \in Settings /\ e \in Entries /\ Served(e)
    BY EntryIsServed DEF DocInv, TypeOK
  <1>2. \A i \in 1..Len(e.takes) : e.takes[i] \in Argument
    <2>1. e.takes \in Seq(Argument)
      BY <1>1 DEF Entries
    <2>2. QED
      BY <2>1, Elements
  <1>3. ASSUME NEW k \in 1..Len(Routes(app)), e = Mount(Routes(app)[k]), Routes(app)[k] \in Entries,
               NEW i \in 1..Len(e.takes), NEW j \in 1..Len(e.takes),
               e.takes[i].from \in BodyExtractors, e.takes[j].from \in BodyExtractors
        PROVE  i = j
    <2>1. PICK h \in Handlers : Routes(app)[k] = RouteOf(h.controller, h.method)
      BY <1>1, RoutesAndDocs
    <2>2. RouteOf(h.controller, h.method).takes = h.method.takes
      BY RouteIsEntry
    <2>3. e.takes = h.method.takes
      BY <1>1, <1>3, <2>1, <2>2, MountedEntry
    <2>4. Compiles(h.method)
      BY DEF Handlers, Methods
    <2>5. QED
      BY <1>3, <2>3, <2>4 DEF Compiles, ReadsBody
  <1>4. ASSUME NEW k \in 1..Len(factory.extra), e = Mount(factory.extra[k]), factory.extra[k] \in Extras,
               NEW i \in 1..Len(e.takes)
        PROVE  FALSE
    <2>1. e.takes = <<>>
      BY <1>1, <1>4, ExtraIsEntry, MountedEntry
    <2>2. QED
      BY <1>4, <2>1
  <1>5. QED
    BY <1>1, <1>2, <1>3, <1>4 DEF Served

\* A body that is sent is a list of values.
LEMMA BodyIsSent ==
    ASSUME DocInv, Serving, NEW e \in router, NEW body \in Sent(e) \cup {<<>>}
    PROVE  body \in Seq(Value)
  <1>1. CASE body \in Sent(e)
    <2>1. PICK i \in 1..Len(e.takes) : e.takes[i].type # None /\ body \in BodiesOf[e.takes[i].type]
      BY <1>1 DEF Sent
    <2>2. e.takes[i].type \in Dtos
      <3>1. e.takes[i] \in Argument
        BY OneBody
      <3>2. QED
        BY <2>1, <3>1 DEF Argument
    <2>3. QED
      BY <2>1, <2>2, DocumentationAssumption
  <1>2. CASE body = <<>>
    BY <1>2, OneElement
  <1>3. QED
    BY <1>1, <1>2

\* A body that reached the handler passed, and one that was refused did not.
LEMMA InvGivesBodies == DocInv => BodiesAreDocumented
  <1> DEFINE takes == reply.entry.takes
             body == reply.body
  <1> SUFFICES ASSUME DocInv, reply # None, NEW i \in 1..Len(takes), takes[i].from = "ValidatedBody"
               PROVE  LET fields == FieldsOf[takes[i].type]
                          schema == SchemaOf(takes[i].type)
                      IN  /\ reply.by = "handler" =>
                                /\ Len(body) = Len(schema)
                                /\ \A j \in 1..Len(body) :
                                      Conforms(schema[j], body[j]) \/ Looser(fields[j], body[j])
                          /\ reply.by = "ValidatedBody" =>
                                \/ Len(body) # Len(schema)
                                \/ \E j \in 1..Len(body) :
                                      ~Conforms(schema[j], body[j]) \/ Stricter(fields[j], body[j])
    BY DEF BodiesAreDocumented
  <1>1. /\ Serving /\ reply.entry \in router /\ body \in Sent(reply.entry) \cup {<<>>}
        /\ reply.by = "handler" =>
              \A k \in 1..Len(takes) : None \in Extracts(takes[k], reply.who, body)
        /\ reply.by \notin {"guard", "handler"} =>
              \E k \in 1..Len(takes) :
                  takes[k].from = reply.by /\ Extracts(takes[k], reply.who, body) # {None}
    BY DEF DocInv, ReplyOK
  <1>2. /\ \A k \in 1..Len(takes) : takes[k] \in Argument
        /\ \A k, l \in 1..Len(takes) :
              takes[k].from \in BodyExtractors /\ takes[l].from \in BodyExtractors => k = l
        /\ body \in Seq(Value)
    BY <1>1, OneBody, BodyIsSent
  <1> DEFINE x == takes[i]
             passes == Deserializes(x.type, body) /\ Validates(x.type, body)
  <1>3. x.type \in Dtos /\ x.from \in BodyExtractors
    BY <1>2 DEF Argument, PartsExtractors, BodyExtractors
  <1>5. Extracts(x, reply.who, body) = {IF passes THEN None ELSE 400}
    BY <1>3 DEF Extracts, FromBody
  <1> HIDE DEF passes
  <1>6. ASSUME reply.by = "handler" PROVE passes
    BY <1>1, <1>5, <1>6, NoStatus
  <1>7. ASSUME reply.by = "ValidatedBody" PROVE ~passes
    <2>1. PICK k \in 1..Len(takes) :
              takes[k].from = "ValidatedBody" /\ Extracts(takes[k], reply.who, body) # {None}
      BY <1>1, <1>7
    <2>2. k = i
      BY <1>2, <2>1 DEF BodyExtractors
    <2>3. QED
      BY <1>5, <2>1, <2>2
  <1>8. x.type \in Dtos /\ body \in Seq(Value)
    BY <1>2, <1>3
  <1>9. QED
    BY <1>6, <1>7, <1>8, BodyByBody DEF passes

\* Field by field, what ValidatedBody hands to the handler conforms to the schema
\* in the document, and what it refuses does not, but for the values that the
\* rules of the code are looser or stricter about than those of the schema.
THEOREM BodiesAsDocumented == Spec => []BodiesAreDocumented
  <1>1. DocInv => BodiesAreDocumented
    BY InvGivesBodies
  <1>2. QED
    BY <1>1, DocumentationKeepsItsShape, PTL

-----------------------------------------------------------------------------
(***************************************************************************)
(* Links.                                                                  *)
(***************************************************************************)

\* The directory of a page under a prefix is that of the page, under the prefix.
LEMMA FrontUnder ==
    ASSUME NEW pre \in Path, NEW p \in Path, p # <<>>
    PROVE  Front(pre \o p) = pre \o Front(p)
  <1>1. /\ Front(p) \in Path /\ Len(p) \in Nat \ {0} /\ Len(Front(p)) = Len(p) - 1
        /\ \A i \in 1..(Len(p) - 1) : Front(p)[i] = p[i]
    BY FrontIs
  <1>2. /\ pre \o p \in Path /\ Len(pre \o p) = Len(pre) + Len(p) /\ Len(pre) \in Nat
        /\ \A i \in 1..Len(pre) : (pre \o p)[i] = pre[i]
        /\ \A i \in 1..Len(p) : (pre \o p)[Len(pre) + i] = p[i]
    BY ElementsOfBoth DEF Path
  <1>3. pre \o p # <<>>
    <2>1. Len(pre \o p) # 0
      BY <1>1, <1>2
    <2>2. QED
      BY <2>1
  <1>4. /\ Front(pre \o p) \in Path /\ Len(Front(pre \o p)) = Len(pre \o p) - 1
        /\ \A i \in 1..(Len(pre \o p) - 1) : Front(pre \o p)[i] = (pre \o p)[i]
    BY <1>2, <1>3, FrontIs
  <1> DEFINE a == Front(pre \o p)
             b == pre \o Front(p)
             ab == pre \o p
             q == Front(p)
  <1>11. q \in Seq(STRING) /\ pre \in Seq(STRING)
    BY <1>1 DEF Path
  <1> HIDE DEF q
  <1>12. /\ pre \o q \in Seq(STRING) /\ Len(pre \o q) = Len(pre) + Len(q)
         /\ \A i \in 1..Len(pre) : (pre \o q)[i] = pre[i]
         /\ \A i \in 1..Len(q) : (pre \o q)[Len(pre) + i] = q[i]
    BY <1>11, ElementsOfBoth
  <1>5. /\ pre \o Front(p) \in Path /\ Len(pre \o Front(p)) = Len(pre) + Len(Front(p))
        /\ \A i \in 1..Len(pre) : (pre \o Front(p))[i] = pre[i]
        /\ \A i \in 1..Len(Front(p)) : (pre \o Front(p))[Len(pre) + i] = Front(p)[i]
    BY <1>12 DEF q, Path
  <1>6. Len(a) = Len(b) /\ Len(b) = Len(pre) + (Len(p) - 1)
    BY <1>1, <1>2, <1>4, <1>5
  <1>7. ASSUME NEW i \in 1..Len(a) PROVE a[i] = b[i]
    <2>1. i \in 1..(Len(ab) - 1) /\ a[i] = ab[i]
      BY <1>4, <1>7
    <2> HIDE DEF a, b, ab, q
    <2>2. CASE i \in 1..Len(pre)
      BY <1>2, <1>5, <2>1, <2>2 DEF a, b, ab, q
    <2>3. CASE i \notin 1..Len(pre)
      <3> DEFINE k == i - Len(pre)
      <3>1. k \in 1..(Len(p) - 1) /\ k \in 1..Len(p) /\ k \in 1..Len(q) /\ Len(pre) + k = i
        BY <1>1, <1>2, <2>1, <2>3 DEF a, b, ab, q
      <3> HIDE DEF k
      <3>2. ab[Len(pre) + k] = p[k] /\ b[Len(pre) + k] = q[k] /\ q[k] = p[k]
        BY <1>1, <1>2, <1>5, <3>1 DEF a, b, ab, q
      <3>3. QED
        BY <2>1, <3>1, <3>2
    <2>4. QED
      BY <2>2, <2>3
  <1>8. a \in Seq(STRING) /\ b \in Seq(STRING)
    BY <1>4, <1>5 DEF Path
  <1> HIDE DEF a, b
  <1>9. a = b
    BY <1>6, <1>7, <1>8, SeqEqual
  <1>10. QED
    BY <1>9 DEF a, b

\* The beginning of a list that follows another.
LEMMA CutAfter ==
    ASSUME NEW pre \in Path, NEW p \in Path, NEW n \in 0..Len(p)
    PROVE  SubSeq(pre \o p, 1, Len(pre) + n) = pre \o SubSeq(p, 1, n)
  <1>1. /\ pre \o p \in Path /\ Len(pre \o p) = Len(pre) + Len(p) /\ Len(pre) \in Nat /\ Len(p) \in Nat
        /\ \A i \in 1..Len(pre) : (pre \o p)[i] = pre[i]
        /\ \A i \in 1..Len(p) : (pre \o p)[Len(pre) + i] = p[i]
    BY ElementsOfBoth DEF Path
  <1> DEFINE cut == SubSeq(p, 1, n)
             whole == pre \o p
             a == SubSeq(whole, 1, Len(pre) + n)
             b == pre \o cut
  <1>2. /\ n \in Int /\ \A i \in 1..n : i \in 1..Len(p)
        /\ Len(pre) + n \in Nat /\ \A i \in 1..(Len(pre) + n) : i \in 1..Len(whole)
    BY <1>1
  <1>3. /\ \A i \in 1..Len(p) : p[i] \in STRING
        /\ \A i \in 1..Len(whole) : whole[i] \in STRING
    BY <1>1, Elements DEF Path
  <1>4. cut \in Seq(STRING) /\ Len(cut) = n /\ \A i \in 1..n : cut[i] = p[i]
    <2>1. /\ cut \in Seq(STRING) /\ Len(cut) = IF 1 <= n THEN n - 1 + 1 ELSE 0
          /\ \A i \in 1..(n - 1 + 1) : cut[i] = p[1 + i - 1]
      BY <1>2, <1>3, SubSeqProperties
    <2> HIDE DEF cut
    <2>2. \A i \in 1..n : 1 + i - 1 = i /\ i \in 1..(n - 1 + 1)
      BY <1>2
    <2>3. Len(cut) = n
      BY <1>2, <2>1
    <2>4. QED
      BY <2>1, <2>2, <2>3
  <1>5. a \in Seq(STRING) /\ Len(a) = Len(pre) + n /\ \A i \in 1..(Len(pre) + n) : a[i] = whole[i]
    <2> DEFINE m == Len(pre) + n
    <2>1. /\ a \in Seq(STRING) /\ Len(a) = IF 1 <= m THEN m - 1 + 1 ELSE 0
          /\ \A i \in 1..(m - 1 + 1) : a[i] = whole[1 + i - 1]
      BY <1>2, <1>3, SubSeqProperties
    <2> HIDE DEF a, m, whole
    <2>2. m \in Nat
      BY <1>2 DEF m
    <2>3. \A i \in 1..m : 1 + i - 1 = i /\ i \in 1..(m - 1 + 1)
      BY <2>2
    <2>4. Len(a) = m
      BY <2>1, <2>2
    <2>5. \A i \in 1..m : a[i] = whole[i]
      BY <2>1, <2>3
    <2>6. QED
      BY <2>1, <2>4, <2>5 DEF m
  <1> HIDE DEF cut, a, whole
  <1>6. /\ b \in Seq(STRING) /\ Len(b) = Len(pre) + n
        /\ \A i \in 1..Len(pre) : b[i] = pre[i]
        /\ \A i \in 1..n : b[Len(pre) + i] = cut[i]
    <2>1. pre \in Seq(STRING) /\ cut \in Seq(STRING)
      BY <1>4 DEF Path
    <2>2. /\ pre \o cut \in Seq(STRING) /\ Len(pre \o cut) = Len(pre) + Len(cut)
          /\ \A i \in 1..Len(pre) : (pre \o cut)[i] = pre[i]
          /\ \A i \in 1..Len(cut) : (pre \o cut)[Len(pre) + i] = cut[i]
      BY <2>1, ElementsOfBoth
    <2>3. QED
      BY <1>4, <2>2
  <1> HIDE DEF b
  <1>7. ASSUME NEW i \in 1..Len(a) PROVE a[i] = b[i]
    <2>1. CASE i \in 1..Len(pre)
      BY <1>1, <1>5, <1>6, <2>1 DEF whole
    <2>2. CASE i \notin 1..Len(pre)
      <3> DEFINE k == i - Len(pre)
      <3>1. k \in 1..n /\ k \in 1..Len(p) /\ Len(pre) + k = i /\ i \in 1..(Len(pre) + n)
        BY <1>1, <1>2, <1>5, <2>2
      <3> HIDE DEF k
      <3>2. whole[Len(pre) + k] = p[k]
        BY <1>1, <3>1 DEF whole
      <3>3. b[Len(pre) + k] = cut[k] /\ cut[k] = p[k]
        BY <1>4, <1>6, <3>1
      <3>4. a[i] = whole[i]
        BY <1>5, <3>1
      <3>5. QED
        BY <3>1, <3>2, <3>3, <3>4
    <2>3. QED
      BY <2>1, <2>2
  <1>8. a = b
    BY <1>5, <1>6, <1>7, SeqEqual
  <1>9. QED
    BY <1>8 DEF a, b, cut, whole

\* Between plain paths a relative link leads where it was made for, under any
\* prefix.
LEMMA LinkLeads ==
    ASSUME NEW pre \in Path, NEW from \in PagePath, NEW to \in PagePath, Plain(from), Plain(to)
    PROVE  Follow(pre \o from, RelativePath(from, to)) = pre \o to
  <1> DEFINE dir == Front(from)
             n == Common(dir, to)
             down == SubSeq(to, n + 1, Len(to))
             href == RelativePath(from, to)
  <1>1. /\ from \in Path /\ from # <<>> /\ to \in Path /\ to \in Seq(STRING)
        /\ pre \in Seq(STRING) /\ Len(pre) \in Nat /\ Len(to) \in Nat
    BY PathsOfAnyKind DEF Path
  <1>2. dir \in Path /\ dir \in Seq(STRING) /\ Len(dir) \in Nat
    <2>1. dir \in Path
      BY <1>1, FrontIs
    <2> HIDE DEF dir
    <2>2. QED
      BY <2>1 DEF Path
  <1>3. n \in 0..Len(dir) /\ n \in 0..Len(to) /\ SubSeq(dir, 1, n) = SubSeq(to, 1, n)
    BY <1>1, <1>2, CommonIs
  <1>4. href.up = Len(dir) - n /\ href.down = down
    <2>1. Segments(from) = from /\ Segments(to) = to
      BY <1>1, SegmentsAre
    <2>2. QED
      BY <2>1 DEF RelativePath
  <1>5. Front(pre \o from) = pre \o dir
    BY <1>1, FrontUnder
  <1>6. Follow(pre \o from, href) = SubSeq(pre \o dir, 1, Len(pre \o dir) - href.up) \o href.down
    BY <1>5 DEF Follow
  <1> HIDE DEF href, n, dir
  <1>7. Len(pre \o dir) = Len(pre) + Len(dir)
    BY <1>1, <1>2
  <1>8. Len(pre \o dir) - href.up = Len(pre) + n
    BY <1>1, <1>2, <1>3, <1>4, <1>7
  <1>9. SubSeq(pre \o dir, 1, Len(pre) + n) = pre \o SubSeq(to, 1, n)
    <2>1. SubSeq(pre \o dir, 1, Len(pre) + n) = pre \o SubSeq(dir, 1, n)
      BY <1>2, <1>3, CutAfter
    <2>2. QED
      BY <1>3, <2>1
  <1>10. SubSeq(to, 1, n) \o down = to
    <2>1. 1 \in 1..Len(to) + 1 /\ n \in 1 - 1..Len(to) /\ Len(to) \in n..Len(to)
      BY <1>1, <1>3
    <2>2. SubSeq(to, 1, n) \o SubSeq(to, n + 1, Len(to)) = SubSeq(to, 1, Len(to))
      BY <1>1, <2>1, ConcatAdjacentSubSeq
    <2>3. SubSeq(to, 1, Len(to)) = to
      BY <1>1, SubSeqFull
    <2>4. QED
      BY <2>2, <2>3
  <1>11. SubSeq(to, 1, n) \in Seq(STRING) /\ down \in Seq(STRING)
    <2>1. \A i \in 1..Len(to) : to[i] \in STRING
      BY <1>1, Elements
    <2>2. /\ n \in Int /\ n + 1 \in Int /\ Len(to) \in Int
          /\ \A i \in 1..n : i \in 1..Len(to) /\ \A j \in n + 1..Len(to) : j \in 1..Len(to)
      BY <1>1, <1>3
    <2>3. \A i \in 1..n : i \in 1..Len(to)
      BY <1>1, <1>3
    <2>4. \A j \in n + 1..Len(to) : j \in 1..Len(to)
      BY <1>1, <1>3
    <2>5. SubSeq(to, 1, n) \in Seq(STRING)
      BY <2>1, <2>2, <2>3, SubSeqProperties
    <2>6. SubSeq(to, n + 1, Len(to)) \in Seq(STRING)
      BY <2>1, <2>2, <2>4, SubSeqProperties
    <2>7. QED
      BY <2>5, <2>6
  <1> HIDE DEF down
  <1> DEFINE common == SubSeq(to, 1, n)
  <1> HIDE DEF common
  <1>12. (pre \o common) \o down = pre \o (common \o down)
    <2>1. common \in Seq(STRING) /\ pre \in Seq(STRING) /\ down \in Seq(STRING)
      BY <1>1, <1>11 DEF common
    <2>2. QED
      BY <2>1, ConcatAssociative
  <1>13. QED
    BY <1>4, <1>6, <1>8, <1>9, <1>10, <1>12 DEF href, common

\* A path is plain if it is under a prefix that is one.
LEMMA PlainBelow ==
    ASSUME NEW pre \in Path, NEW p \in Path, Plain(pre \o p)
    PROVE  Plain(p)
  <1>1. pre \in Seq(STRING) /\ p \in Seq(STRING)
    BY DEF Path
  <1>2. Range(p) \subseteq Range(pre \o p)
    BY <1>1, ElementsOfBoth
  <1>3. QED
    BY <1>2 DEF Plain

\* A link of a page, followed from under the prefix, leads to what it was made for.
LEMMA InvGivesLinks == DocInv => LinksResolve
  <1> DEFINE Arrives(target, page, link) ==
                 /\ target.method = "GET"
                 /\ target.path = Follow(page.path, link.href)
                 /\ target.path = factory.prefix \o factory.version \o link.to
  <1> SUFFICES ASSUME DocInv, NEW page \in router, NEW link \in page.links,
                      Plain(page.path), Plain(link.to)
               PROVE  \E target \in router : Arrives(target, page, link)
    BY DEF LinksResolve
  <1> DEFINE extra == factory.extra
             pre == factory.prefix \o factory.version
  <1>1. /\ Serving /\ app \in Apps /\ factory \in Settings /\ PagesLinked(extra)
        /\ router = {Mount(Built[i]) : i \in 1..Len(Built)}
    BY DEF DocInv, TypeOK, RouterOK
  <1>2. pre \in Path
    BY <1>1 DEF Settings, Path
  <1>3. \A p : Under(p) = pre \o p
    BY DEF Under
  <1>4. /\ extra \in Seq(Extras)
        /\ \A i \in 1..Len(extra) : Mount(extra[i]) \in router
    <2>1. /\ extra \in Seq(Extras)
          /\ \A i \in 1..Len(extra) :
                 Len(Routes(app)) + i \in 1..Len(Built) /\ Built[Len(Routes(app)) + i] = extra[i]
      BY <1>1, BuiltIs
    <2>2. \A i \in 1..Len(extra) : Mount(Built[Len(Routes(app)) + i]) \in router
      BY <1>1, <2>1
    <2>3. QED
      BY <2>1, <2>2
  <1> HIDE DEF extra, pre
  <1>5. \A i \in 1..Len(extra) : /\ extra[i] \in Extras /\ extra[i] \in Entries
                                 /\ extra[i].path \in PagePath
    <2>1. \A i \in 1..Len(extra) : extra[i] \in Extras
      BY <1>4, Elements
    <2>2. QED
      BY <2>1, ExtraIsEntry DEF Extras
  <1>6. ASSUME NEW k \in 1..Len(extra), page = Mount(extra[k])
        PROVE  \E target \in router : Arrives(target, page, link)
    <2>1. page.path = pre \o extra[k].path /\ page.links = extra[k].links
      BY <1>1, <1>3, <1>5, <1>6, MountedEntry
    <2>2. PICK j \in 1..Len(extra) :
              extra[j].method = "GET" /\ link = LinkFor(extra[k].path, extra[j].path)
      BY <1>1, <2>1 DEF PagesLinked
    <2>3. /\ Mount(extra[j]).method = "GET" /\ Mount(extra[j]).path = pre \o extra[j].path
          /\ Mount(extra[j]) \in router
      BY <1>1, <1>3, <1>4, <1>5, <2>2, MountedEntry
    <2>4. link.to = extra[j].path /\ link.href = RelativePath(extra[k].path, extra[j].path)
      BY <2>2 DEF LinkFor
    <2>5. Plain(extra[k].path) /\ Plain(extra[j].path)
      BY <1>2, <1>5, <2>1, <2>4, PathsOfAnyKind, PlainBelow
    <2>6. Follow(page.path, link.href) = pre \o extra[j].path
      BY <1>2, <1>5, <2>1, <2>2, <2>4, <2>5, LinkLeads
    <2>7. QED
      BY <2>3, <2>4, <2>6 DEF pre
  <1>7. ASSUME NEW k \in 1..Len(Routes(app)), page = Mount(Routes(app)[k]), Routes(app)[k] \in Entries
        PROVE  FALSE
    <2>1. PICK h \in Handlers : Routes(app)[k] = RouteOf(h.controller, h.method)
      BY <1>1, RoutesAndDocs
    <2>2. RouteOf(h.controller, h.method).links = {}
      BY RouteIsEntry
    <2>3. page.links = {}
      BY <1>1, <1>7, <2>1, <2>2, MountedEntry
    <2>4. QED
      BY <2>3
  <1>8. QED
    BY <1>1, <1>6, <1>7, EntryIsServed DEF Served, extra

\* Wherever the application is mounted, a link of the documentation's pages leads
\* to the page that it was made for, unless that is a directory above its own page
\* or one of the two has a path that is not plain.
THEOREM LinksLead == Spec => []LinksResolve
  <1>1. DocInv => LinksResolve
    BY InvGivesLinks
  <1>2. QED
    BY <1>1, DocumentationKeepsItsShape, PTL

-----------------------------------------------------------------------------
(***************************************************************************)
(* Schemas.                                                                *)
(***************************************************************************)

Types == Dtos \cup {None}

\* The struct that a handler's request body is read into, if it is shown.
LEMMA PayloadIs ==
    ASSUME NEW m \in Methods
    PROVE  Payload(m) \in Types
  <1> DEFINE bodies == {i \in 1..Len(m.takes) : m.takes[i].from \in {"Body", "ValidatedBody"}}
  <1>1. m.takes \in Seq(Argument)
    BY DEF Methods, Method
  <1>2. \A i \in 1..Len(m.takes) : m.takes[i] \in Argument
    BY <1>1, Elements
  <1>3. ASSUME bodies # {} PROVE m.takes[Min(bodies)].type \in Types
    <2>1. bodies \in SUBSET Nat
      OBVIOUS
    <2>2. Min(bodies) \in bodies
      BY <1>3, <2>1, MinIs
    <2>3. m.takes[Min(bodies)] \in Argument
      BY <1>2, <2>2
    <2>4. QED
      BY <2>3 DEF Argument, Types
  <1>4. Payload(m) = IF bodies = {} THEN None ELSE m.takes[Min(bodies)].type
    BY DEF Payload
  <1> HIDE DEF bodies
  <1>5. QED
    BY <1>3, <1>4 DEF Types

\* One response shows what the handler returns: a success, where one is declared.
LEMMA ResponsesAre ==
    ASSUME NEW m \in Methods
    PROVE  LET r == Responses(m)
               n == Len(r)
           IN  /\ n \in Nat
               /\ \A i \in 1..n : r[i].schema \in Types
               /\ \E k \in 1..n :
                     /\ \A i \in 1..n : r[i].schema = IF i = k THEN m.returns ELSE None
                     /\ (\E i \in 1..n : r[i].status \in 200..299) => r[k].status \in 200..299
  <1> DEFINE declared == IF m.responses = <<>> THEN <<200>> ELSE m.responses
             n == Len(declared)
             success == {i \in 1..n : declared[i] \in 200..299}
             k == SuccessAmong(declared)
             r == Responses(m)
  <1>1. m.responses \in Seq(100..599) /\ m.returns \in Types
    BY DEF Methods, Method, Types
  <1>2. declared \in Seq(100..599) /\ n \in Nat \ {0}
    <2>1. <<200>> \in Seq(100..599) /\ Len(<<200>>) = 1
      OBVIOUS
    <2>2. m.responses # <<>> => Len(m.responses) \in Nat \ {0}
      BY <1>1, EmptySeq
    <2>3. CASE m.responses = <<>>
      <3>1. declared = <<200>>
        BY <2>3
      <3> HIDE DEF declared
      <3>2. QED
        BY <2>1, <3>1
    <2>4. CASE m.responses # <<>>
      <3>1. declared = m.responses
        BY <2>4
      <3> HIDE DEF declared
      <3>2. QED
        BY <1>1, <2>2, <2>4, <3>1
    <2>5. QED
      BY <2>3, <2>4
  <1>3. r = [i \in 1..n |-> [status |-> declared[i], schema |-> IF i = k THEN m.returns ELSE None]]
    BY DEF Responses
  <1> HIDE DEF declared
  <1>4. k \in 1..n /\ (success # {} => k \in success)
    <2>1. k = IF success = {} THEN 1 ELSE Min(success)
      BY DEF SuccessAmong
    <2>2. success \in SUBSET Nat
      OBVIOUS
    <2>3. success # {} => Min(success) \in success
      BY <2>2, MinIs
    <2>4. success \subseteq 1..n
      OBVIOUS
    <2>5. 1 \in 1..n
      BY <1>2
    <2> HIDE DEF success, k, n
    <2>6. CASE success = {}
      BY <2>1, <2>5, <2>6
    <2>7. CASE success # {}
      BY <2>1, <2>3, <2>4, <2>7
    <2>8. QED
      BY <2>6, <2>7
  <1> HIDE DEF k, n, r
  <1>5. /\ Len(r) = n
        /\ \A i \in 1..n : r[i].status = declared[i] /\ r[i].schema = IF i = k THEN m.returns ELSE None
    BY <1>2, <1>3
  <1>6. (\E i \in 1..n : r[i].status \in 200..299) => r[k].status \in 200..299
    BY <1>4, <1>5
  <1>7. \A i \in 1..n : r[i].schema \in Types
    BY <1>1, <1>5 DEF Types
  <1>8. QED
    BY <1>2, <1>4, <1>5, <1>6, <1>7 DEF r

\* The structs that an entry of the document brings along.
LEMMA TypesOfHandler ==
    ASSUME NEW h \in Handlers
    PROVE  LET d == DocOf(h.controller, h.method)
           IN  /\ TypesOf(d) \in Seq(Types)
               /\ d.body \in Range(TypesOf(d))
               /\ \A j \in 1..Len(d.responses) : d.responses[j].schema \in Range(TypesOf(d))
  <1> DEFINE d == DocOf(h.controller, h.method)
             body == <<d.body>>
             schemas == [i \in 1..Len(d.responses) |-> d.responses[i].schema]
  <1>1. h.method \in Methods
    BY DEF Handlers
  <1>2. d.body = Payload(h.method) /\ d.responses = Responses(h.method)
    BY DocIsOf
  <1>3. TypesOf(d) = body \o schemas
    BY DEF TypesOf
  <1> HIDE DEF d
  <1>4. body \in Seq(Types) /\ Range(body) = {d.body}
    <2>1. d.body \in Types
      BY <1>1, <1>2, PayloadIs
    <2>2. \A x : Range(<<x>>) = {x}
      BY DEF Range
    <2>3. QED
      BY <2>1, <2>2, OneElement
  <1>5. schemas \in Seq(Types) /\ Len(schemas) = Len(d.responses)
    <2>1. Len(d.responses) \in Nat /\ \A i \in 1..Len(d.responses) : d.responses[i].schema \in Types
      BY <1>1, <1>2, ResponsesAre
    <2>2. QED
      BY <2>1
  <1>6. \A j \in 1..Len(d.responses) : d.responses[j].schema = schemas[j]
    OBVIOUS
  <1> HIDE DEF body, schemas
  <1>7. \A j \in 1..Len(schemas) : schemas[j] \in Range(schemas)
    BY <1>5, Elements
  <1>8. body \o schemas \in Seq(Types) /\ Range(body \o schemas) = Range(body) \cup Range(schemas)
    BY <1>4, <1>5, ElementsOfBoth
  <1>9. QED
    BY <1>3, <1>4, <1>5, <1>6, <1>7, <1>8 DEF d

\* They are among the documented types.
LEMMA TypesAreDocumented ==
    ASSUME app \in Apps
    PROVE  /\ DocumentedTypes(RouteDocs(app)) \in Seq(Types)
           /\ \A i \in 1..Len(RouteDocs(app)) :
                 Range(TypesOf(RouteDocs(app)[i])) \subseteq Range(DocumentedTypes(RouteDocs(app)))
  <1> DEFINE docs == RouteDocs(app)
             parts == [i \in 1..Len(docs) |-> TypesOf(docs[i])]
  <1>1. Len(docs) \in Nat /\ \A i \in 1..Len(docs) : \E h \in Handlers : docs[i] = DocOf(h.controller, h.method)
    BY RoutesAndDocs
  <1>2. \A i \in 1..Len(docs) : TypesOf(docs[i]) \in Seq(Types)
    BY <1>1, TypesOfHandler
  <1>3. DocumentedTypes(docs) = FlattenSeq(parts)
    BY DEF DocumentedTypes
  <1> HIDE DEF docs
  <1>4. parts \in Seq(Seq(Types)) /\ Len(parts) = Len(docs)
    BY <1>1, <1>2
  <1>5. \A i \in 1..Len(docs) : parts[i] = TypesOf(docs[i])
    OBVIOUS
  <1> HIDE DEF parts
  <1>6. /\ FlattenSeq(parts) \in Seq(Types)
        /\ \A x : x \in Range(FlattenSeq(parts)) <=> \E i \in 1..Len(parts) : x \in Range(parts[i])
    BY <1>4, Flattened
  <1>7. QED
    BY <1>3, <1>4, <1>5, <1>6 DEF docs

\* What it means that a struct is described by the components of the document.
Described(t, docs) ==
    /\ NameOf[t] \in DOMAIN Components(docs)
    /\ \/ Components(docs)[NameOf[t]] = SchemaOf(t)
       \/ \E u \in Range(DocumentedTypes(docs)) \ {None} : u # t /\ NameOf[u] = NameOf[t]

\* A struct among the documented ones is described under its name, unless another
\* struct of that name is.
LEMMA StructIsDescribed ==
    ASSUME NEW docs, DocumentedTypes(docs) \in Seq(Types),
           NEW t \in Range(DocumentedTypes(docs)), t # None
    PROVE  Described(t, docs)
  <1> DEFINE types == DocumentedTypes(docs)
             structs == {i \in 1..Len(types) : types[i] # None}
             named == {i \in structs : NameOf[types[i]] = NameOf[t]}
             first == Min(named)
             First(name) == types[Min({i \in structs : NameOf[types[i]] = name})]
             names == {NameOf[types[i]] : i \in structs}
  <1>1. Components(docs) = [name \in names |-> SchemaOf(First(name))]
    BY DEF Components
  <1>2. /\ \A i \in 1..Len(types) : types[i] \in Range(types)
        /\ \A x \in Range(types) : \E i \in 1..Len(types) : types[i] = x
    BY Elements
  <1> HIDE DEF types
  <1>3. PICK i \in 1..Len(types) : types[i] = t
    BY <1>2 DEF types
  <1>4. i \in named /\ NameOf[t] \in names
    BY <1>3
  <1>5. first \in named
    <2>1. named \in SUBSET Nat
      OBVIOUS
    <2> HIDE DEF named
    <2>2. QED
      BY <1>4, <2>1, MinIs
  <1>6. DOMAIN Components(docs) = names
    BY <1>1
  <1>7. Components(docs)[NameOf[t]] = SchemaOf(types[first])
    <2>1. Components(docs)[NameOf[t]] = SchemaOf(First(NameOf[t]))
      <3> HIDE DEF names, First
      <3>1. QED
        BY <1>1, <1>4
    <2>2. QED
      BY <2>1
  <1>8. types[first] \in Range(types) \ {None} /\ NameOf[types[first]] = NameOf[t]
    BY <1>2, <1>5
  <1> HIDE DEF first, names, named
  <1>9. NameOf[t] \in DOMAIN Components(docs)
    BY <1>4, <1>6
  <1>10. CASE types[first] = t
    BY <1>7, <1>9, <1>10 DEF Described
  <1>11. CASE types[first] # t
    BY <1>8, <1>9, <1>11 DEF Described, types
  <1>12. QED
    BY <1>10, <1>11

\* Where no status is declared twice, each response is found under its status.
LEMMA FoundUnderStatus ==
    ASSUME NEW d, NEW n \in Nat, n = Len(d.responses),
           Cardinality({d.responses[j].status : j \in 1..n}) = n
    PROVE  \A j \in 1..n : ResponseAt(d, d.responses[j].status) = d.responses[j]
  <1> DEFINE S == {d.responses[j].status : j \in 1..n}
             f == [j \in 1..n |-> d.responses[j].status]
  <1>1. f \in Surjection(1..n, S)
    <2>1. f \in [1..n -> S] /\ \A s \in S : \E j \in 1..n : f[j] = s
      OBVIOUS
    <2> HIDE DEF f, S
    <2>2. QED
      BY <2>1 DEF Surjection
  <1>2. IsFiniteSet(1..n) /\ Cardinality(1..n) = n
    <2>1. 1 \in Int /\ n \in Int
      OBVIOUS
    <2>2. IsFiniteSet(1..n) /\ Cardinality(1..n) = IF 1 > n THEN 0 ELSE n - 1 + 1
      BY <2>1, FS_Interval
    <2>3. QED
      BY <2>2
  <1>3. Cardinality(S) = Cardinality(1..n)
    BY <1>2
  <1> HIDE DEF S, f
  <1>4. f \in Injection(1..n, S)
    BY <1>1, <1>2, <1>3, FS_SurjSameCardinalityImpliesInj
  <1>5. \A i, j \in 1..n : f[i] = f[j] => i = j
    <2>1. f \in [1..n -> S] /\ \A i, j \in DOMAIN f : f[i] = f[j] => i = j
      BY <1>4 DEF Injection, IsInjective
    <2>2. QED
      BY <2>1
  <1>6. ASSUME NEW j \in 1..n
        PROVE  ResponseAt(d, d.responses[j].status) = d.responses[j]
    <2> DEFINE under == {i \in 1..Len(d.responses) : d.responses[i].status = d.responses[j].status}
    <2>1. under \subseteq {j}
      BY <1>5 DEF f
    <2>2. j \in under
      OBVIOUS
    <2>3. under \in SUBSET (0..n)
      OBVIOUS
    <2>4. ResponseAt(d, d.responses[j].status) = d.responses[Max(under)]
      BY DEF ResponseAt
    <2> HIDE DEF under
    <2>5. Max(under) = j
      BY <2>1, <2>2, <2>3, MaxIs
    <2>6. QED
      BY <2>4, <2>5
  <1>7. QED
    BY <1>6

\* What a handler returns is shown once then, under a success if there is one.
ReturnShown(c, m) ==
    LET d == DocOf(c, m)
        statuses == {d.responses[j].status : j \in 1..Len(d.responses)}
    IN  Cardinality(statuses) = Len(d.responses) =>
            /\ Cardinality({s \in statuses : ResponseAt(d, s).schema # None}) = 1
            /\ statuses \cap 200..299 # {} =>
                  \E s \in statuses \cap 200..299 : ResponseAt(d, s).schema # None

\* What SchemasAreShown says of one handler.
HandlerShown(c, m) ==
    /\ Payload(m) # None => Described(Payload(m), RouteDocs(app))
    /\ m.returns # None => Described(m.returns, RouteDocs(app)) /\ ReturnShown(c, m)

\* What a handler returns is shown under one status, a successful one if there is any.
LEMMA ShownOnce ==
    ASSUME NEW c, NEW m \in Methods, m.returns # None
    PROVE  ReturnShown(c, m)
  <1> SUFFICES ASSUME Cardinality({DocOf(c, m).responses[j].status : j \in 1..Len(DocOf(c, m).responses)})
                          = Len(DocOf(c, m).responses)
               PROVE  LET d == DocOf(c, m)
                          statuses == {d.responses[j].status : j \in 1..Len(d.responses)}
                      IN  /\ Cardinality({s \in statuses : ResponseAt(d, s).schema # None}) = 1
                          /\ statuses \cap 200..299 # {} =>
                                \E s \in statuses \cap 200..299 : ResponseAt(d, s).schema # None
    BY DEF ReturnShown
  <1> DEFINE d == DocOf(c, m)
             r == d.responses
             n == Len(r)
             statuses == {d.responses[j].status : j \in 1..Len(d.responses)}
             shown == {s \in statuses : ResponseAt(d, s).schema # None}
  <1>1. r = Responses(m)
    BY DEF DocOf
  <1> HIDE DEF d
  <1>2. PICK k \in 1..n :
            /\ n \in Nat
            /\ \A i \in 1..n : r[i].schema = IF i = k THEN m.returns ELSE None
            /\ (\E i \in 1..n : r[i].status \in 200..299) => r[k].status \in 200..299
    <2>1. m \in Methods
      OBVIOUS
    <2>2. LET q == Responses(m)
          IN  \E k \in 1..Len(q) :
                  /\ Len(q) \in Nat
                  /\ \A i \in 1..Len(q) : q[i].schema = IF i = k THEN m.returns ELSE None
                  /\ (\E i \in 1..Len(q) : q[i].status \in 200..299) => q[k].status \in 200..299
      BY <2>1, ResponsesAre
    <2> HIDE DEF r
    <2>3. QED
      BY <1>1, <2>2
  <1>3. \A j \in 1..n : ResponseAt(d, r[j].status) = r[j]
    <2>1. Cardinality({d.responses[j].status : j \in 1..n}) = n
      BY DEF d
    <2>2. n \in Nat
      BY <1>2
    <2> HIDE DEF n
    <2>3. n = Len(d.responses)
      BY DEF n
    <2>4. QED
      BY <2>1, <2>2, <2>3, FoundUnderStatus
  <1>4. r[k].status \in statuses /\ ResponseAt(d, r[k].status).schema # None
    BY <1>2, <1>3
  <1>5. ASSUME NEW s \in shown PROVE s = r[k].status
    <2>1. PICK j \in 1..n : s = r[j].status
      OBVIOUS
    <2>2. r[j].schema # None
      BY <1>3, <2>1
    <2>3. j = k
      BY <1>2, <2>2
    <2>4. QED
      BY <2>1, <2>3
  <1>6. shown = {r[k].status}
    BY <1>4, <1>5
  <1>7. Cardinality(shown) = 1
    BY <1>6, FS_Singleton
  <1>8. ASSUME statuses \cap 200..299 # {}
        PROVE  \E s \in statuses \cap 200..299 : ResponseAt(d, s).schema # None
    <2>1. \E i \in 1..n : r[i].status \in 200..299
      <3>1. PICK s \in statuses : s \in 200..299
        BY <1>8
      <3>2. PICK i \in 1..n : s = r[i].status
        OBVIOUS
      <3>3. QED
        BY <3>1, <3>2
    <2>2. r[k].status \in 200..299
      BY <1>2, <2>1
    <2>3. QED
      BY <1>4, <2>2
  <1>9. QED
    BY <1>7, <1>8 DEF d

\* All of it, for a handler of the application.
LEMMA HandlerIsShown ==
    ASSUME DocInv, NEW c, NEW m, [controller |-> c, method |-> m] \in Range(OfApp(app))
    PROVE  HandlerShown(c, m)
  <1> DEFINE h == [controller |-> c, method |-> m]
             docs == RouteDocs(app)
             types == DocumentedTypes(docs)
             d == DocOf(c, m)
  <1>1. app \in Apps
    BY DEF DocInv, TypeOK
  <1>2. /\ types \in Seq(Types)
        /\ \A i \in 1..Len(docs) : Range(TypesOf(docs[i])) \subseteq Range(types)
    BY <1>1, TypesAreDocumented
  <1>3. h \in Handlers
    <2>1. OfApp(app) \in Seq(Handlers)
      BY <1>1, AppHandlers
    <2>2. QED
      BY <2>1, Elements
  <1>4. h.controller = c /\ h.method = m /\ m \in Methods
    BY <1>3 DEF Handlers
  <1>5. PICK j \in 1..Len(docs) : docs[j] = d
    <2>1. \E j \in 1..Len(Routes(app)) : docs[j] = DocOf(h.controller, h.method)
      BY <1>1, RoutesAndDocs
    <2>2. Len(Routes(app)) = Len(docs)
      BY <1>1, RoutesAndDocs
    <2>3. QED
      BY <1>4, <2>1, <2>2
  <1> HIDE DEF docs, types, h
  <1>6. /\ d.body \in Range(TypesOf(d)) /\ d.body = Payload(m) /\ d.responses = Responses(m)
        /\ \A l \in 1..Len(d.responses) : d.responses[l].schema \in Range(TypesOf(d))
    BY <1>3, <1>4, TypesOfHandler, DocIsOf
  <1>7. Range(TypesOf(d)) \subseteq Range(types)
    BY <1>2, <1>5
  <1>8. Payload(m) # None => Described(Payload(m), docs)
    <2> HIDE DEF d
    <2>1. QED
      BY <1>2, <1>6, <1>7, StructIsDescribed DEF types
  <1>9. m.returns # None => Described(m.returns, docs)
    <2> HIDE DEF d
    <2>1. \E l \in 1..Len(d.responses) : d.responses[l].schema = m.returns
      BY <1>4, <1>6, ResponsesAre
    <2>2. m.returns \in Range(types)
      BY <1>6, <1>7, <2>1
    <2>3. QED
      BY <1>2, <2>2, StructIsDescribed DEF types
  <1>10. QED
    BY <1>4, <1>8, <1>9, ShownOnce DEF docs, HandlerShown

\* What the handlers take and return is described and shown.
LEMMA InvGivesSchemas == DocInv => SchemasAreShown
  <1> SUFFICES ASSUME DocInv PROVE SchemasAreShown
    OBVIOUS
  <1>1. \A k \in 1..Len(app) : \A i \in 1..Len(app[k].methods) :
            IsRoute(app[k].methods[i]) => HandlerShown(app[k], app[k].methods[i])
    <2>1. ASSUME NEW k \in 1..Len(app), NEW i \in 1..Len(app[k].methods), IsRoute(app[k].methods[i])
          PROVE  [controller |-> app[k], method |-> app[k].methods[i]] \in Range(OfApp(app))
      <3>1. app \in Apps
        BY DEF DocInv, TypeOK
      <3>2. QED
        BY <2>1, <3>1, AppHandlers
    <2>2. QED
      BY <2>1, HandlerIsShown
  <1>2. QED
    BY <1>1 DEF SchemasAreShown, HandlerShown, ReturnShown, Described

\* Every struct that an operation of a served document refers to is described,
\* and what a handler returns is shown under one status, a success if it can be.
THEOREM SchemasShown == Spec => []SchemasAreShown
  <1>1. DocInv => SchemasAreShown
    BY InvGivesSchemas
  <1>2. QED
    BY <1>1, DocumentationKeepsItsShape, PTL
=========================================================================
