--------------------------- MODULE GeneratorsProofs ---------------------------
(***************************************************************************)
(* Theorems about Generators for every value of its constants: any         *)
(* commands with any names, in any order, interrupted at any step.         *)
(***************************************************************************)
EXTENDS Generators, SequenceTheorems, TLAPS

-----------------------------------------------------------------------------
(***************************************************************************)
(* Modules of the tree, by their paths.                                    *)
(***************************************************************************)

FolderNames == {"dto", "services", "controllers", "guards", "decorators", "filters", "middleware",
                "interceptors", "serializers", "ws", "graphql", "grpc", "microservices", "build"}
\* The names of the files of a template.
OwnNames == {"app", "health", "app_module", "app_config", "events", "schema", "service", "greeter"}
Names == {c.name : c \in Commands} \cup {c.module : c \in Commands} \cup FolderNames \cup OwnNames

\* The parts that have a folder of their own, and the other kinds of nodes.
PartNames == DOMAIN FolderName
NodeKinds == PartNames \cup {"folder", "module", "root"}

Nodes == [kind : NodeKinds, name : Names]
Paths == Seq(Nodes)
LongPaths == Paths \ {<<>>}

\* A node is of its kind and has its name.
LEMMA NodeIs ==
    ASSUME NEW k \in NodeKinds, NEW x \in Names
    PROVE  N(k, x) \in Nodes /\ N(k, x).kind = k /\ N(k, x).name = x
  BY DEF N, Nodes

\* A path is followed one node further.
LEMMA Extended ==
    ASSUME NEW p \in Paths, NEW n \in Nodes
    PROVE  LET q == p \o <<n>>
           IN  /\ q \in LongPaths /\ Len(q) = Len(p) + 1
               /\ Front(q) = p /\ Last(q) = n
               /\ q[1] = IF p = <<>> THEN n ELSE p[1]
               /\ \A k \in 0..Len(p) : SubSeq(q, 1, k) = SubSeq(p, 1, k)
               /\ SubSeq(q, 1, Len(q)) = q /\ SubSeq(q, 1, 0) = <<>>
  <1> DEFINE q == p \o <<n>>
  <1>1. <<n>> \in Seq(Nodes) /\ Len(<<n>>) = 1 /\ <<n>>[1] = n /\ p \in Seq(Nodes)
    BY DEF Paths
  <1>2. /\ q \in Seq(Nodes) /\ Len(q) = Len(p) + 1 /\ Len(p) \in Nat
        /\ \A i \in 1..Len(p) : q[i] = p[i]
        /\ q[Len(p) + 1] = n
    BY <1>1
  <1> HIDE DEF q
  <1>3. q # <<>>
    BY <1>2
  <1>4. \A k \in 0..Len(p) : SubSeq(q, 1, k) = SubSeq(p, 1, k)
    <2> TAKE k \in 0..Len(p)
    <2>1. /\ SubSeq(q, 1, k) = [i \in 1..k |-> q[i]]
          /\ SubSeq(p, 1, k) = [i \in 1..k |-> p[i]]
      BY <1>1, <1>2
    <2>2. \A i \in 1..k : q[i] = p[i]
      BY <1>2
    <2>3. QED
      BY <2>1, <2>2
  <1>5. SubSeq(q, 1, Len(q)) = q /\ SubSeq(q, 1, 0) = <<>>
    BY <1>2
  <1>6. SubSeq(p, 1, Len(p)) = p
    BY <1>1
  <1>7. Front(q) = p /\ Last(q) = n
    <2>1. Len(q) - 1 = Len(p) /\ Len(p) \in 0..Len(p)
      BY <1>2
    <2>2. QED
      BY <1>2, <1>4, <1>6, <2>1 DEF Front, Last
  <1>8. q[1] = IF p = <<>> THEN n ELSE p[1]
    <2>1. CASE p = <<>>
      BY <1>2, <2>1
    <2>2. CASE p # <<>>
      <3>1. Len(p) >= 1
        BY <1>1, <2>2
      <3>2. QED
        BY <1>2, <2>2, <3>1
    <2>3. QED
      BY <2>1, <2>2
  <1>9. QED
    BY <1>2, <1>3, <1>4, <1>5, <1>7, <1>8 DEF q, Paths, LongPaths

\* A path of one node.
LEMMA OneNode ==
    ASSUME NEW n \in Nodes
    PROVE  <<n>> \in LongPaths /\ Len(<<n>>) = 1 /\ Front(<<n>>) = <<>> /\ Last(<<n>>) = n /\ <<n>>[1] = n
  <1>1. <<>> \in Paths /\ <<>> \o <<n>> = <<n>> /\ Len(<<n>>) = 1
    BY DEF Paths
  <1>2. QED
    BY <1>1, Extended

\* Every part has a folder.
LEMMA PartFolders ==
    /\ PartNames = {"dto", "create_dto", "update_dto", "service", "controller", "guard", "decorator",
                    "filter", "middleware", "interceptor", "serializer", "gateway", "graphql",
                    "grpc", "microservice", "proto"}
    /\ \A part \in PartNames : part \in NodeKinds /\ FolderName[part] \in FolderNames
  <1>1. PartNames = {"dto", "create_dto", "update_dto", "service", "controller", "guard", "decorator",
                     "filter", "middleware", "interceptor", "serializer", "gateway", "graphql",
                     "grpc", "microservice", "proto"}
    BY DEF PartNames, FolderName
  <1>2. \A part \in PartNames : part \in NodeKinds
    BY DEF NodeKinds
  <1>3. \A part \in PartNames : FolderName[part] \in FolderNames
    BY <1>1 DEF FolderName, FolderNames
  <1>4. QED
    BY <1>1, <1>2, <1>3

\* A command is told by its fields.
LEMMA CommandIs ==
    ASSUME NEW c \in Commands
    PROVE  /\ c.kind \in PartKinds \cup StopKinds \cup OtherKinds \cup {"module"}
           /\ c.flat \in BOOLEAN /\ c.name \in Names /\ c.module \in Names
           /\ c.module # None => c.kind \in PartKinds
           /\ c.flat => c.kind \in PartKinds \cup {"module"}
           /\ EndsWith(c.name, c.name)
           /\ c # None /\ c # NewApp /\ c.kind # "new"
  <1>1. c.kind # "new"
    BY GeneratorsAssumption DEF PartKinds, StopKinds, OtherKinds
  <1>2. NewApp.kind = "new"
    BY DEF NewApp, N
  <1>3. QED
    BY <1>1, <1>2, GeneratorsAssumption DEF Names

\* A folder is a path of one node, a feature module another one.
LEMMA FolderIs ==
    ASSUME NEW x \in FolderNames
    PROVE  /\ N("folder", x) \in Nodes /\ Folder(x) = <<N("folder", x)>>
           /\ Folder(x) \in LongPaths /\ Len(Folder(x)) = 1 /\ Front(Folder(x)) = <<>>
           /\ Last(Folder(x)) = N("folder", x) /\ Folder(x)[1] = N("folder", x)
           /\ N("folder", x).kind = "folder" /\ N("folder", x).name = x
  <1>1. x \in Names /\ "folder" \in NodeKinds
    BY DEF Names, NodeKinds
  <1>2. N("folder", x) \in Nodes /\ N("folder", x).kind = "folder" /\ N("folder", x).name = x
    BY <1>1, NodeIs
  <1>3. QED
    BY <1>2, OneNode DEF Folder

\* The same for a feature module.
LEMMA FeatureIs ==
    ASSUME NEW x \in Names
    PROVE  /\ N("module", x) \in Nodes /\ Feature(x) = <<N("module", x)>>
           /\ Feature(x) \in LongPaths /\ Len(Feature(x)) = 1 /\ Front(Feature(x)) = <<>>
           /\ Last(Feature(x)) = N("module", x) /\ Feature(x)[1] = N("module", x)
           /\ N("module", x).kind = "module"
  <1>1. N("module", x) \in Nodes /\ N("module", x).kind = "module"
    <2>1. "module" \in NodeKinds
      BY DEF NodeKinds
    <2>2. QED
      BY <2>1, NodeIs
  <1>2. QED
    BY <1>1, OneNode DEF Feature

\* The home of a command is src/ or a feature.
LEMMA HomeIs ==
    ASSUME NEW c \in Commands
    PROVE  /\ Home(c) \in Paths
           /\ c.module = None => Home(c) = <<>>
           /\ c.module # None => Home(c) = Feature(c.module) /\ Home(c) # <<>>
           /\ Home(c) \in {<<>>} \cup {Feature(x) : x \in Names}
  <1>1. c.module \in Names /\ <<>> \in Paths
    BY CommandIs DEF Paths
  <1>2. Feature(c.module) \in LongPaths
    BY <1>1, FeatureIs
  <1>3. Feature(c.module) \in Paths /\ Feature(c.module) # <<>>
    BY <1>2 DEF LongPaths
  <1>4. QED
    BY <1>1, <1>3 DEF Home

\* Where the file of a part goes.
Dir(c, part) == IF c.flat THEN Home(c) ELSE Home(c) \o Folder(FolderName[part])

\* The folder of a part is its home, or one node below it.
LEMMA DirIs ==
    ASSUME NEW c \in Commands, NEW part \in PartNames
    PROVE  LET f == N("folder", FolderName[part])
           IN  /\ Dir(c, part) \in Paths
               /\ c.flat => Dir(c, part) = Home(c)
               /\ ~c.flat => /\ Dir(c, part) = Home(c) \o <<f>> /\ Dir(c, part) # <<>>
                             /\ Front(Dir(c, part)) = Home(c) /\ Last(Dir(c, part)) = f
                             /\ f.kind = "folder" /\ f \in Nodes
                             /\ Dir(c, part)[1] = IF Home(c) = <<>> THEN f ELSE Home(c)[1]
                             /\ Dir(c, part) # Home(c) /\ Len(Dir(c, part)) = Len(Home(c)) + 1
               /\ c.module = None /\ ~c.flat => Dir(c, part) = Folder(FolderName[part])
  <1> DEFINE f == N("folder", FolderName[part])
  <1>1. Home(c) \in Paths /\ c.flat \in BOOLEAN
    BY HomeIs, CommandIs
  <1>2. FolderName[part] \in FolderNames
    BY PartFolders
  <1>3. f \in Nodes /\ Folder(FolderName[part]) = <<f>> /\ f.kind = "folder"
    BY <1>2, FolderIs
  <1> HIDE DEF f
  <1>4. LET q == Home(c) \o <<f>>
        IN  /\ q \in LongPaths /\ Front(q) = Home(c) /\ Last(q) = f /\ Len(q) = Len(Home(c)) + 1
            /\ q[1] = IF Home(c) = <<>> THEN f ELSE Home(c)[1]
    BY <1>1, <1>3, Extended
  <1>5. Len(Home(c)) \in Nat
    BY <1>1 DEF Paths
  <1>6. ~c.flat => Dir(c, part) = Home(c) \o <<f>>
    BY <1>3 DEF Dir
  <1>7. c.flat => Dir(c, part) = Home(c)
    BY DEF Dir
  <1>8. c.module = None /\ ~c.flat => Dir(c, part) = Folder(FolderName[part])
    BY <1>3, <1>6, HomeIs
  <1>9. ~c.flat => Dir(c, part) # Home(c)
    BY <1>4, <1>5, <1>6
  <1>10. QED
    BY <1>1, <1>3, <1>4, <1>6, <1>7, <1>8, <1>9 DEF f, LongPaths

\* ... and which path it has.
LEMMA PathIs ==
    ASSUME NEW c \in Commands, NEW part \in PartNames
    PROVE  LET p == PathOf(c, part)
               d == Dir(c, part)
               n == N(part, c.name)
           IN  /\ p = d \o <<n>> /\ n \in Nodes /\ n.kind = part /\ n.name = c.name
               /\ p \in LongPaths /\ Front(p) = d /\ Last(p) = n /\ Len(p) = Len(d) + 1
               /\ p[1] = IF d = <<>> THEN n ELSE d[1]
  <1>1. part \in NodeKinds /\ c.name \in Names /\ c.flat \in BOOLEAN
    BY PartFolders, CommandIs
  <1>2. N(part, c.name) \in Nodes /\ N(part, c.name).kind = part /\ N(part, c.name).name = c.name
    BY <1>1, NodeIs
  <1>3. Dir(c, part) \in Paths
    BY DirIs
  <1>4. PathOf(c, part) = Dir(c, part) \o <<N(part, c.name)>>
    <2>1. CASE c.flat
      <3>1. Home(c) \in Seq(Nodes)
        BY HomeIs DEF Paths
      <3>2. Home(c) \o <<>> = Home(c)
        BY <3>1
      <3>3. QED
        BY <2>1, <3>2 DEF PathOf, Dir
    <2>2. CASE ~c.flat
      BY <2>2 DEF PathOf, Dir
    <2>3. QED
      BY <1>1, <2>1, <2>2
  <1>5. QED
    BY <1>2, <1>3, <1>4, Extended

-----------------------------------------------------------------------------
(***************************************************************************)
(* The steps of a command come in an order: checks, files, declarations,   *)
(* those of lib.rs, lists.                                                 *)
(***************************************************************************)

Rank(s) == IF s.op \in {"failIf", "failUnless", "stopIf"} THEN 0
           ELSE IF s.op = "put" /\ Len(s.path) = 1 THEN 1
           ELSE IF s.op \in {"make", "put"} THEN 2
           ELSE IF s.op = "declare" THEN 3
           ELSE IF s.op = "lib" THEN 4
           ELSE 5

InOrder(steps) == \A i, j \in 1..Len(steps) : i < j => Rank(steps[i]) <= Rank(steps[j])

\* A list of the steps of a set, in their order.
Block(steps, S, lo, hi) ==
    /\ steps \in Seq(S) /\ Range(steps) = S
    /\ InOrder(steps) /\ \A s \in S : Rank(s) \in lo..hi

\* A rank is a number.
LEMMA RankIs == \A s : Rank(s) \in 0..5
  BY DEF Rank

\* The elements of a list are those of its range.
LEMMA InRange ==
    ASSUME NEW S, NEW s \in Seq(S)
    PROVE  /\ Range(s) = {s[i] : i \in 1..Len(s)} /\ Range(s) \subseteq S
           /\ Len(s) \in Nat /\ \A i \in 1..Len(s) : s[i] \in S
  <1>1. DOMAIN s = 1..Len(s) /\ Len(s) \in Nat /\ \A i \in 1..Len(s) : s[i] \in S
    OBVIOUS
  <1>2. QED
    BY <1>1 DEF Range

\* One list after another.
LEMMA Joined ==
    ASSUME NEW S, NEW T, NEW s \in Seq(S), NEW t \in Seq(T)
    PROVE  /\ s \o t \in Seq(S \cup T) /\ Len(s \o t) = Len(s) + Len(t)
           /\ \A i \in 1..Len(s) : (s \o t)[i] = s[i]
           /\ \A i \in 1..Len(t) : (s \o t)[Len(s) + i] = t[i]
           /\ \A i \in 1..Len(s \o t) : i \in 1..Len(s) \/ i - Len(s) \in 1..Len(t)
  <1>1. s \in Seq(S \cup T) /\ t \in Seq(S \cup T)
    <2>1. \A i \in 1..Len(s) : s[i] \in S \cup T
      OBVIOUS
    <2>2. \A i \in 1..Len(t) : t[i] \in S \cup T
      OBVIOUS
    <2>3. QED
      BY <2>1, <2>2
  <1>2. /\ s \o t \in Seq(S \cup T) /\ Len(s \o t) = Len(s) + Len(t)
        /\ Len(s) \in Nat /\ Len(t) \in Nat
    BY <1>1
  <1>3. QED
    BY <1>1, <1>2

\* ... has the elements of both.
LEMMA JoinedRange ==
    ASSUME NEW S, NEW T, NEW s \in Seq(S), NEW t \in Seq(T)
    PROVE  Range(s \o t) = Range(s) \cup Range(t)
  <1>2. /\ s \o t \in Seq(S \cup T) /\ Len(s \o t) = Len(s) + Len(t)
        /\ Len(s) \in Nat /\ Len(t) \in Nat
    BY Joined
  <1>3. \A i \in 1..Len(s) : (s \o t)[i] = s[i] /\ i \in 1..Len(s \o t)
    BY <1>2, Joined
  <1>4. \A i \in 1..Len(t) : (s \o t)[Len(s) + i] = t[i] /\ Len(s) + i \in 1..Len(s \o t)
    BY <1>2, Joined
  <1>5. \A i \in 1..Len(s \o t) : i \in 1..Len(s) \/ i - Len(s) \in 1..Len(t)
    BY <1>2
  <1>6. Range(s \o t) = Range(s) \cup Range(t)
    <2>1. /\ Range(s \o t) = {(s \o t)[i] : i \in 1..Len(s \o t)}
          /\ Range(s) = {s[i] : i \in 1..Len(s)} /\ Range(t) = {t[i] : i \in 1..Len(t)}
      BY <1>2, InRange
    <2>2. ASSUME NEW i \in 1..Len(s \o t) PROVE (s \o t)[i] \in Range(s) \cup Range(t)
      <3>1. CASE i \in 1..Len(s)
        BY <1>3, <2>1, <3>1
      <3>2. CASE i - Len(s) \in 1..Len(t)
        <4>1. (s \o t)[Len(s) + (i - Len(s))] = t[i - Len(s)] /\ Len(s) + (i - Len(s)) = i
          BY <1>2, <1>4, <3>2
        <4>2. QED
          BY <2>1, <3>2, <4>1
      <3>3. QED
        BY <1>5, <3>1, <3>2
    <2>3. QED
      BY <1>3, <1>4, <2>1, <2>2
  <1>7. QED
    BY <1>6

\* Two lists in order, the second of higher ranks, are one in order.
LEMMA JoinedBlocks ==
    ASSUME NEW a \in Nat, NEW b \in Nat, NEW c \in Nat, a <= b, b <= c,
           NEW S, NEW T, NEW s, NEW t, Block(s, S, a, b), Block(t, T, b, c)
    PROVE  Block(s \o t, S \cup T, a, c)
  <1>1. s \in Seq(S) /\ t \in Seq(T) /\ Range(s) = S /\ Range(t) = T
    BY DEF Block
  <1> DEFINE u == s \o t
  <1>2. /\ u \in Seq(S \cup T) /\ Len(u) = Len(s) + Len(t)
        /\ \A i \in 1..Len(s) : u[i] = s[i]
        /\ \A i \in 1..Len(t) : u[Len(s) + i] = t[i]
        /\ \A i \in 1..Len(u) : i \in 1..Len(s) \/ i - Len(s) \in 1..Len(t)
        /\ Range(u) = S \cup T
    <2>1. /\ u \in Seq(S \cup T) /\ Len(u) = Len(s) + Len(t)
          /\ \A i \in 1..Len(s) : u[i] = s[i]
          /\ \A i \in 1..Len(t) : u[Len(s) + i] = t[i]
          /\ \A i \in 1..Len(u) : i \in 1..Len(s) \/ i - Len(s) \in 1..Len(t)
      BY <1>1, Joined
    <2>2. Range(u) = Range(s) \cup Range(t)
      <3> HIDE DEF u
      <3>1. Range(s \o t) = Range(s) \cup Range(t)
        BY <1>1, JoinedRange
      <3>2. QED
        BY <3>1 DEF u
    <2>3. QED
      BY <1>1, <2>1, <2>2
  <1>3. /\ Len(s) \in Nat /\ Len(t) \in Nat
        /\ \A i \in 1..Len(s) : s[i] \in S
        /\ \A i \in 1..Len(t) : t[i] \in T
    BY <1>1
  <1>4. /\ \A x \in S : Rank(x) \in a..b
        /\ \A x \in T : Rank(x) \in b..c
    BY DEF Block
  <1> HIDE DEF u
  <1>5. InOrder(u)
    <2> SUFFICES ASSUME NEW i \in 1..Len(u), NEW j \in 1..Len(u), i < j
                 PROVE  Rank(u[i]) <= Rank(u[j])
      BY DEF InOrder
    <2>1. CASE j \in 1..Len(s)
      <3>1. i \in 1..Len(s)
        BY <1>3, <2>1
      <3>2. u[i] = s[i] /\ u[j] = s[j]
        BY <1>2, <2>1, <3>1
      <3>3. QED
        BY <2>1, <3>1, <3>2 DEF Block, InOrder
    <2>2. CASE i \in 1..Len(s) /\ j - Len(s) \in 1..Len(t)
      <3> DEFINE m == j - Len(s)
      <3>1. m \in 1..Len(t) /\ Len(s) + m = j
        BY <1>3, <2>2
      <3>2. u[i] = s[i]
        BY <1>2, <2>2
      <3>3. u[Len(s) + m] = t[m]
        <4> HIDE DEF m
        <4>1. QED
          BY <1>2, <3>1
      <3> HIDE DEF m
      <3>4. Rank(u[i]) \in a..b /\ Rank(u[j]) \in b..c
        BY <1>3, <1>4, <2>2, <3>1, <3>2, <3>3
      <3>5. QED
        BY <3>4
    <2>3. CASE i - Len(s) \in 1..Len(t) /\ j - Len(s) \in 1..Len(t)
      <3> DEFINE k == i - Len(s)
                 m == j - Len(s)
      <3>1. /\ u[Len(s) + k] = t[k] /\ Len(s) + k = i
            /\ u[Len(s) + m] = t[m] /\ Len(s) + m = j /\ k < m
        <4>1. /\ k \in 1..Len(t) /\ Len(s) + k = i
              /\ m \in 1..Len(t) /\ Len(s) + m = j /\ k < m
          BY <1>3, <2>3
        <4> HIDE DEF k, m
        <4>2. QED
          BY <1>2, <4>1
      <3>2. Rank(t[k]) <= Rank(t[m])
        <4>1. k \in 1..Len(t) /\ m \in 1..Len(t) /\ InOrder(t)
          BY <2>3 DEF Block
        <4> HIDE DEF k, m
        <4>2. QED
          BY <3>1, <4>1 DEF InOrder
      <3>3. QED
        BY <3>1, <3>2
    <2>4. QED
      BY <1>2, <1>3, <2>1, <2>2, <2>3
  <1>6. \A x \in S \cup T : Rank(x) \in a..c
    BY <1>4
  <1>7. QED
    BY <1>2, <1>5, <1>6 DEF Block, u

\* A list of one rank is in order.
LEMMA OneRank ==
    ASSUME NEW S, NEW s \in Seq(S), Range(s) = S, NEW r \in 0..5, \A x \in S : Rank(x) = r
    PROVE  Block(s, S, r, r)
  <1>1. \A i \in 1..Len(s) : Rank(s[i]) = r
    OBVIOUS
  <1>2. QED
    BY <1>1 DEF Block, InOrder

\* A block that has wider bounds is one.
LEMMA WiderBlock ==
    ASSUME NEW S, NEW s, NEW a \in Nat, NEW b \in Nat, NEW c \in Nat, NEW d \in Nat, c <= a, b <= d,
           Block(s, S, a, b)
    PROVE  Block(s, S, c, d)
  BY DEF Block

\* Short lists.
LEMMA EmptyBlock == \A r \in 0..5 : Block(<<>>, {}, r, r)
  <1> TAKE r \in 0..5
  <1>1. <<>> \in Seq({}) /\ Range(<<>>) = {} /\ Len(<<>>) = 0
    BY DEF Range
  <1>2. QED
    BY <1>1 DEF Block, InOrder

\* A list of one step.
LEMMA SingleBlock ==
    ASSUME NEW s, NEW r \in 0..5, Rank(s) = r
    PROVE  Block(<<s>>, {s}, r, r)
  <1>1. <<s>> \in Seq({s}) /\ Range(<<s>>) = {s}
    BY DEF Range
  <1>2. QED
    BY <1>1, OneRank

\* What is left of a plan after its first step.
LEMMA FirstAndRest ==
    ASSUME NEW S, NEW steps \in Seq(S), steps # <<>>
    PROVE  /\ Head(steps) \in S /\ Tail(steps) \in Seq(S) /\ Head(steps) = steps[1]
           /\ Len(Tail(steps)) = Len(steps) - 1 /\ Len(steps) \in Nat \ {0}
           /\ \A i \in 1..Len(Tail(steps)) : Tail(steps)[i] = steps[i + 1]
           /\ Range(steps) = {Head(steps)} \cup Range(Tail(steps))
           /\ InOrder(steps) => /\ InOrder(Tail(steps))
                                /\ \A s \in Range(steps) : Rank(Head(steps)) <= Rank(s)
  <1>1. /\ Head(steps) \in S /\ Tail(steps) \in Seq(S) /\ Head(steps) = steps[1]
        /\ Len(Tail(steps)) = Len(steps) - 1 /\ Len(steps) \in Nat \ {0}
        /\ \A i \in 1..Len(Tail(steps)) : Tail(steps)[i] = steps[i + 1]
    BY EmptySeq
  <1> DEFINE rest == Tail(steps)
  <1> HIDE DEF rest
  <1>2. Range(steps) = {steps[i] : i \in 1..Len(steps)} /\ Range(rest) = {rest[i] : i \in 1..Len(rest)}
    <2>1. rest \in Seq(S)
      BY <1>1 DEF rest
    <2>2. QED
      BY <2>1, InRange
  <1>3. Range(steps) = {steps[1]} \cup Range(rest)
    <2>1. ASSUME NEW i \in 1..Len(steps) PROVE steps[i] \in {steps[1]} \cup Range(rest)
      <3>1. CASE i = 1
        BY <3>1
      <3>2. CASE i # 1
        <4>1. i - 1 \in 1..Len(rest) /\ rest[i - 1] = steps[(i - 1) + 1] /\ (i - 1) + 1 = i
          BY <1>1, <3>2 DEF rest
        <4>2. QED
          BY <1>2, <4>1
      <3>3. QED
        BY <3>1, <3>2
    <2>2. ASSUME NEW i \in 1..Len(rest) PROVE rest[i] \in Range(steps)
      <3>1. i + 1 \in 1..Len(steps) /\ rest[i] = steps[i + 1]
        BY <1>1 DEF rest
      <3>2. QED
        BY <1>2, <3>1
    <2>3. 1 \in 1..Len(steps)
      BY <1>1
    <2>4. QED
      BY <1>2, <2>1, <2>2, <2>3
  <1>4. ASSUME InOrder(steps) PROVE InOrder(rest) /\ \A s \in Range(steps) : Rank(steps[1]) <= Rank(s)
    <2>1. InOrder(rest)
      <3> SUFFICES ASSUME NEW i \in 1..Len(rest), NEW j \in 1..Len(rest), i < j
                   PROVE  Rank(rest[i]) <= Rank(rest[j])
        BY DEF InOrder
      <3>1. /\ i + 1 \in 1..Len(steps) /\ rest[i] = steps[i + 1]
            /\ j + 1 \in 1..Len(steps) /\ rest[j] = steps[j + 1] /\ i + 1 < j + 1
        BY <1>1 DEF rest
      <3>2. QED
        BY <1>4, <3>1 DEF InOrder
    <2>2. ASSUME NEW i \in 1..Len(steps) PROVE Rank(steps[1]) <= Rank(steps[i])
      <3>1. CASE i = 1
        BY <3>1, RankIs
      <3>2. CASE i # 1
        BY <1>1, <1>4, <3>2 DEF InOrder
      <3>3. QED
        BY <3>1, <3>2
    <2>3. QED
      BY <1>2, <2>1, <2>2
  <1>5. QED
    BY <1>1, <1>3, <1>4 DEF rest

-----------------------------------------------------------------------------
(***************************************************************************)
(* The steps of a command as a set.                                        *)
(***************************************************************************)

PartSet(c) == IF c.kind = "grpc" THEN {"proto", "grpc"} ELSE Range(Parts(c))

\* The parts that are declared in one write.
Groups(c) ==
    IF c.kind \in PartKinds
    THEN {{"dto", "create_dto", "update_dto"} \cap PartSet(c), {"service"} \cap PartSet(c),
          {"controller"} \cap PartSet(c)} \ {{}}
    ELSE {{part} : part \in PartSet(c)}

Checks(c) == (IF c.module # None THEN {FailUnless(Home(c))} ELSE {})
             \cup (IF c.kind \in StopKinds THEN {StopIf(PathOf(c, c.kind))} ELSE {})

ModFiles(c) ==
    CASE c.kind = "gateway" -> {WsMod("make")}
      [] c.kind = "graphql" -> {GraphqlMod("make")}
      [] c.kind = "grpc" -> {GrpcBuild("make"), GrpcMod("make")}
      [] c.kind = "microservice" -> {Make(Folder("microservices"), {})}
      [] OTHER -> {}

Makes(c) == {Make(PathOf(c, part), {}) : part \in PartSet(c)}
PathsOf(c, parts) == {PathOf(c, part) : part \in parts}
Declares(c) == {Declare(Home(c), PathsOf(c, parts)) : parts \in Groups(c)}

Libs(c) == IF c.module # None \/ c.kind \in {"graphql", "grpc"} THEN {}
           ELSE {Lib(IF c.flat THEN PathOf(c, part) ELSE Front(PathOf(c, part))) : part \in PartSet(c)}

Wires(c) ==
    IF c.kind \notin PartKinds THEN {}
    ELSE IF c.module # None THEN {WireFeature(c, ListsOf(c))}
    ELSE (IF "controller" \in PartSet(c) THEN {WireApp("controllers", PathOf(c, "controller"))} ELSE {})
         \cup (IF "service" \in PartSet(c) THEN {WireApp("providers", PathOf(c, "service"))} ELSE {})

Within(feature) == {feature \o Folder(f) : f \in {"controllers", "services", "dto"}}
ModulePuts(c) ==
    IF c.flat THEN {PutFlat(Feature(c.name))}
    ELSE {Put(Feature(c.name), Within(Feature(c.name)))} \cup {Put(p, {}) : p \in Within(Feature(c.name))}
ModuleEntries(c) == {Use(Feature(c.name)), Import(Feature(c.name))}

StepsOf(c) ==
    IF c.kind = "module"
    THEN {FailIf(Feature(c.name))} \cup ModulePuts(c) \cup {Lib(Feature(c.name))} \cup ModuleEntries(c)
    ELSE Checks(c) \cup ModFiles(c) \cup Makes(c) \cup Declares(c) \cup Libs(c) \cup Wires(c)

\* The kinds of steps, by what they are made with.
LEMMA StepFields ==
    /\ \A o, p, d : /\ File(o, p, d).op = o /\ File(o, p, d).path = p
                    /\ File(o, p, d).declares = d /\ File(o, p, d).flat = {}
    /\ \A p, d : /\ Make(p, d).op = "make" /\ Make(p, d).path = p /\ Make(p, d).declares = d
                 /\ Make(p, d).flat = {}
                 /\ Put(p, d).op = "put" /\ Put(p, d).path = p /\ Put(p, d).declares = d
                 /\ Put(p, d).flat = {}
    /\ \A p : /\ PutFlat(p).op = "put" /\ PutFlat(p).path = p /\ PutFlat(p).declares = {}
              /\ PutFlat(p).flat = {p}
    /\ \A h, ps : Declare(h, ps).op = "declare" /\ Declare(h, ps).home = h /\ Declare(h, ps).paths = ps
    /\ \A p : Lib(p).op = "lib" /\ Lib(p).path = p
    /\ \A l, p : WireApp(l, p).op = "wireApp" /\ WireApp(l, p).list = l /\ WireApp(l, p).path = p
    /\ \A c, l : WireFeature(c, l).op = "wireFeature" /\ WireFeature(c, l).command = c
                 /\ WireFeature(c, l).lists = l
    /\ \A p : Use(p).op = "use" /\ Use(p).path = p /\ Import(p).op = "import" /\ Import(p).path = p
    /\ \A p : StopIf(p).op = "stopIf" /\ StopIf(p).path = p
    /\ \A p : FailIf(p).op = "failIf" /\ FailIf(p).path = p
    /\ \A p : FailUnless(p).op = "failUnless" /\ FailUnless(p).path = p
  BY DEF File, Make, Put, PutFlat, Declare, Lib, WireApp, WireFeature, Use, Import, StopIf, FailIf,
         FailUnless

\* Their ranks.
LEMMA StepRanks ==
    /\ \A p, d : Rank(Make(p, d)) = 2
    /\ \A p, d : Rank(File("make", p, d)) = 2
    /\ \A p, d : Rank(Put(p, d)) = (IF Len(p) = 1 THEN 1 ELSE 2)
    /\ \A p : Rank(PutFlat(p)) = (IF Len(p) = 1 THEN 1 ELSE 2)
    /\ \A h, ps : Rank(Declare(h, ps)) = 3
    /\ \A p : Rank(Lib(p)) = 4
    /\ \A l, p : Rank(WireApp(l, p)) = 5
    /\ \A c, l : Rank(WireFeature(c, l)) = 5
    /\ \A p : Rank(Use(p)) = 5 /\ Rank(Import(p)) = 5
    /\ \A p : Rank(StopIf(p)) = 0 /\ Rank(FailIf(p)) = 0 /\ Rank(FailUnless(p)) = 0
  BY StepFields DEF Rank

\* The parts of a command.
LEMMA PartsAre ==
    ASSUME NEW c \in Commands, c.kind # "module"
    PROVE  /\ PartSet(c) \subseteq PartNames /\ PartSet(c) # {}
           /\ Parts(c) \in Seq(Range(Parts(c)))
           /\ c.kind = "resource" =>
                 PartSet(c) = {"dto", "create_dto", "update_dto", "service", "controller"}
           /\ c.kind \notin {"resource", "grpc"} => PartSet(c) = {c.kind}
           /\ c.kind # "resource" => Parts(c) = <<c.kind>> /\ Range(Parts(c)) = {c.kind}
           /\ UNION Groups(c) = PartSet(c) /\ {} \notin Groups(c)
  <1>1. CASE c.kind = "resource"
    <2>1. Parts(c) = <<"dto", "create_dto", "update_dto", "service", "controller">>
      BY <1>1 DEF Parts
    <2>2. /\ Range(Parts(c)) = {"dto", "create_dto", "update_dto", "service", "controller"}
          /\ Parts(c) \in Seq(Range(Parts(c)))
      <3> DEFINE s == <<"dto", "create_dto", "update_dto", "service", "controller">>
      <3>1. DOMAIN s = {1, 2, 3, 4, 5}
        OBVIOUS
      <3>2. s[1] = "dto" /\ s[2] = "create_dto" /\ s[3] = "update_dto" /\ s[4] = "service" /\ s[5] = "controller"
        OBVIOUS
      <3>3. Range(s) = {s[1], s[2], s[3], s[4], s[5]}
        <4> HIDE DEF s
        <4>1. QED
          BY <3>1 DEF Range
      <3>4. s \in Seq({s[1], s[2], s[3], s[4], s[5]})
        OBVIOUS
      <3>5. QED
        BY <2>1, <3>2, <3>3, <3>4
    <2>3. PartSet(c) = {"dto", "create_dto", "update_dto", "service", "controller"}
      BY <1>1, <2>2 DEF PartSet
    <2>4. Groups(c) = {{"dto", "create_dto", "update_dto"}, {"service"}, {"controller"}}
      BY <1>1, <2>3 DEF Groups, PartKinds
    <2>5. QED
      BY <1>1, <2>2, <2>3, <2>4, PartFolders
  <1>2. CASE c.kind # "resource"
    <2>1. Parts(c) = <<c.kind>>
      BY <1>2 DEF Parts
    <2>2. Range(Parts(c)) = {c.kind} /\ Parts(c) \in Seq({c.kind})
      BY <2>1 DEF Range
    <2>3. c.kind \in PartNames
      BY <1>2, CommandIs, PartFolders DEF PartKinds, StopKinds, OtherKinds
    <2>4. CASE c.kind = "grpc"
      <3>1. PartSet(c) = {"proto", "grpc"}
        BY <2>4 DEF PartSet
      <3>2. Groups(c) = {{part} : part \in PartSet(c)}
        BY <2>4 DEF Groups, PartKinds
      <3>3. QED
        BY <1>2, <2>1, <2>2, <2>4, <3>1, <3>2, PartFolders
    <2>5. CASE c.kind # "grpc"
      <3>1. PartSet(c) = {c.kind}
        BY <2>2, <2>5 DEF PartSet
      <3>2. Groups(c) = {{c.kind}}
        <4>1. CASE c.kind \in PartKinds
          BY <1>2, <3>1, <4>1 DEF Groups, PartKinds
        <4>2. CASE c.kind \notin PartKinds
          BY <3>1, <4>2 DEF Groups
        <4>3. QED
          BY <4>1, <4>2
      <3>3. QED
        BY <1>2, <2>1, <2>2, <2>3, <2>5, <3>1, <3>2
    <2>6. QED
      BY <2>4, <2>5
  <1>3. QED
    BY <1>1, <1>2

\* A block for each kind of step.
LEMMA MakeBlock ==
    ASSUME NEW c \in Commands, c.kind \notin {"module", "grpc"}
    PROVE  Block(MakeAll(c), Makes(c), 2, 2)
  <1> DEFINE parts == Parts(c)
             makes == [i \in DOMAIN parts |-> Make(PathOf(c, parts[i]), {})]
  <1>1. parts \in Seq(Range(parts)) /\ PartSet(c) = Range(parts)
    BY PartsAre DEF PartSet
  <1>2. DOMAIN parts = 1..Len(parts) /\ Len(parts) \in Nat /\ Range(parts) = {parts[i] : i \in 1..Len(parts)}
    BY <1>1, InRange
  <1> HIDE DEF parts
  <1>3. \A i \in 1..Len(parts) : Make(PathOf(c, parts[i]), {}) \in Makes(c)
    BY <1>1, <1>2 DEF Makes
  <1>4. makes \in Seq(Makes(c)) /\ Len(makes) = Len(parts)
    BY <1>2, <1>3
  <1>5. Range(makes) = Makes(c)
    <2>1. Range(makes) = {makes[i] : i \in 1..Len(parts)}
      BY <1>2 DEF Range
    <2>2. \A i \in 1..Len(parts) : makes[i] = Make(PathOf(c, parts[i]), {})
      BY <1>2
    <2> HIDE DEF makes
    <2>3. QED
      BY <1>1, <1>2, <2>1, <2>2 DEF Makes
  <1>6. \A s \in Makes(c) : Rank(s) = 2
    BY StepRanks DEF Makes
  <1>7. MakeAll(c) = makes
    BY DEF MakeAll, parts
  <1> HIDE DEF makes
  <1>8. QED
    BY <1>4, <1>5, <1>6, <1>7, OneRank

\* LibAll lists Libs.
LEMMA LibBlock ==
    ASSUME NEW c \in Commands, c.kind \in PartKinds, c.module = None
    PROVE  Block(LibAll(c), Libs(c), 4, 4)
  <1> DEFINE parts == Parts(c)
             libs == [i \in DOMAIN parts |-> Lib(IF c.flat THEN PathOf(c, parts[i])
                                                          ELSE Front(PathOf(c, parts[i])))]
  <1>0. c.kind \notin {"module", "grpc", "graphql"}
    BY DEF PartKinds
  <1>1. parts \in Seq(Range(parts)) /\ PartSet(c) = Range(parts)
    BY <1>0, PartsAre DEF PartSet
  <1>2. DOMAIN parts = 1..Len(parts) /\ Len(parts) \in Nat /\ Range(parts) = {parts[i] : i \in 1..Len(parts)}
    BY <1>1, InRange
  <1> HIDE DEF parts
  <1>21. Libs(c) = {Lib(IF c.flat THEN PathOf(c, part) ELSE Front(PathOf(c, part))) : part \in PartSet(c)}
    BY <1>0 DEF Libs
  <1>3. \A i \in 1..Len(parts) :
            Lib(IF c.flat THEN PathOf(c, parts[i]) ELSE Front(PathOf(c, parts[i]))) \in Libs(c)
    BY <1>1, <1>2, <1>21
  <1>4. libs \in Seq(Libs(c)) /\ Len(libs) = Len(parts)
    BY <1>2, <1>3
  <1>5. Range(libs) = Libs(c)
    <2>1. Range(libs) = {libs[i] : i \in 1..Len(parts)}
      BY <1>2 DEF Range
    <2>2. \A i \in 1..Len(parts) :
              libs[i] = Lib(IF c.flat THEN PathOf(c, parts[i]) ELSE Front(PathOf(c, parts[i])))
      BY <1>2
    <2> HIDE DEF libs
    <2>3. QED
      BY <1>1, <1>2, <1>21, <2>1, <2>2
  <1>6. \A s \in Libs(c) : Rank(s) = 4
    BY <1>21, StepRanks
  <1>7. LibAll(c) = libs
    BY DEF LibAll, parts
  <1> HIDE DEF libs
  <1>8. QED
    BY <1>4, <1>5, <1>6, <1>7, OneRank

\* One write or none.
Some(paths, c) == IF paths = {} THEN <<>> ELSE <<Declare(Home(c), paths)>>
SomeSet(paths, c) == IF paths = {} THEN {} ELSE {Declare(Home(c), paths)}

\* DeclareAll lists Declares.
LEMMA DeclareBlock ==
    ASSUME NEW c \in Commands, c.kind \in PartKinds
    PROVE  Block(DeclareAll(c), Declares(c), 3, 3)
  <1> DEFINE dtos == {"dto", "create_dto", "update_dto"} \cap PartSet(c)
             service == {"service"} \cap PartSet(c)
             controller == {"controller"} \cap PartSet(c)
  <1>1. c.kind # "grpc" /\ PartSet(c) = Range(Parts(c))
    BY DEF PartKinds, PartSet
  <1>2. \A paths : Block(Some(paths, c), SomeSet(paths, c), 3, 3)
    <2> TAKE paths
    <2>1. CASE paths = {}
      BY <2>1, EmptyBlock DEF Some, SomeSet
    <2>2. CASE paths # {}
      BY <2>2, SingleBlock, StepRanks DEF Some, SomeSet
    <2>3. QED
      BY <2>1, <2>2
  <1>3. DeclareAll(c) = Some(PathsOf(c, dtos), c) \o Some(PathsOf(c, service), c) \o Some(PathsOf(c, controller), c)
    BY <1>1 DEF DeclareAll, Some, PathsOf
  <1> DEFINE S1 == SomeSet(PathsOf(c, dtos), c)
             S2 == SomeSet(PathsOf(c, service), c)
             S3 == SomeSet(PathsOf(c, controller), c)
  <1>4. Block(Some(PathsOf(c, dtos), c) \o Some(PathsOf(c, service), c), S1 \cup S2, 3, 3)
    BY <1>2, JoinedBlocks
  <1>5. Block(DeclareAll(c), (S1 \cup S2) \cup S3, 3, 3)
    <2>1. Block(Some(PathsOf(c, controller), c), S3, 3, 3)
      BY <1>2
    <2> DEFINE s12 == Some(PathsOf(c, dtos), c) \o Some(PathsOf(c, service), c)
               s3 == Some(PathsOf(c, controller), c)
    <2>2. DeclareAll(c) = s12 \o s3
      BY <1>3
    <2> HIDE DEF s12, s3, S1, S2, S3
    <2>3. Block(s12, S1 \cup S2, 3, 3) /\ Block(s3, S3, 3, 3)
      BY <1>4, <2>1 DEF s12, s3
    <2>4. QED
      BY <2>2, <2>3, JoinedBlocks
  <1>6. Declares(c) = (S1 \cup S2) \cup S3
    <2>1. Groups(c) = {dtos, service, controller} \ {{}}
      BY DEF Groups
    <2>2. \A parts : PathsOf(c, parts) = {} <=> parts = {}
      BY DEF PathsOf
    <2> HIDE DEF dtos, service, controller
    <2>3. QED
      BY <2>1, <2>2 DEF Declares, SomeSet
  <1>7. QED
    BY <1>5, <1>6

\* What PartSteps ends with lists Libs and Wires.
LEMMA WireBlock ==
    ASSUME NEW c \in Commands, c.kind \in PartKinds, c.module = None
    PROVE  Block(WireAll(c), Wires(c), 5, 5)
  <1>1. c.kind # "grpc" /\ PartSet(c) = Range(Parts(c))
    BY DEF PartKinds, PartSet
  <1> DEFINE w1 == IF "controller" \in Range(Parts(c))
                   THEN <<WireApp("controllers", PathOf(c, "controller"))>> ELSE <<>>
             w2 == IF "service" \in Range(Parts(c))
                   THEN <<WireApp("providers", PathOf(c, "service"))>> ELSE <<>>
             S1 == IF "controller" \in PartSet(c) THEN {WireApp("controllers", PathOf(c, "controller"))} ELSE {}
             S2 == IF "service" \in PartSet(c) THEN {WireApp("providers", PathOf(c, "service"))} ELSE {}
  <1>2. Block(w1, S1, 5, 5) /\ Block(w2, S2, 5, 5)
    <2>1. ASSUME NEW x PROVE Block(<<x>>, {x}, Rank(x), Rank(x)) /\ Block(<<>>, {}, 5, 5)
      BY RankIs, SingleBlock, EmptyBlock
    <2>2. Block(w1, S1, 5, 5)
      <3>1. CASE "controller" \in PartSet(c)
        BY <1>1, <2>1, <3>1, StepRanks
      <3>2. CASE "controller" \notin PartSet(c)
        BY <1>1, <2>1, <3>2
      <3>3. QED
        BY <3>1, <3>2
    <2>3. Block(w2, S2, 5, 5)
      <3>1. CASE "service" \in PartSet(c)
        BY <1>1, <2>1, <3>1, StepRanks
      <3>2. CASE "service" \notin PartSet(c)
        BY <1>1, <2>1, <3>2
      <3>3. QED
        BY <3>1, <3>2
    <2>4. QED
      BY <2>2, <2>3
  <1>3. WireAll(c) = w1 \o w2 /\ Wires(c) = S1 \cup S2
    BY DEF WireAll, Wires
  <1> HIDE DEF w1, w2, S1, S2
  <1>4. QED
    BY <1>2, <1>3, JoinedBlocks

\* Lists written out.
LEMMA TwoSteps ==
    ASSUME NEW s, NEW t
    PROVE  LET q == <<s, t>>
           IN  /\ q \in Seq({s, t}) /\ Range(q) = {s, t} /\ Len(q) = 2
               /\ q[1] = s /\ q[2] = t
  <1> DEFINE q == <<s, t>>
  <1>1. /\ q \in Seq({s, t}) /\ Len(q) = 2 /\ DOMAIN q = {1, 2}
        /\ q[1] = s /\ q[2] = t
    OBVIOUS
  <1> HIDE DEF q
  <1>2. Range(q) = {q[1], q[2]}
    BY <1>1 DEF Range
  <1>3. QED
    BY <1>1, <1>2 DEF q

\* The same of three,
LEMMA ThreeSteps ==
    ASSUME NEW s, NEW t, NEW u
    PROVE  LET q == <<s, t, u>>
           IN  /\ q \in Seq({s, t, u}) /\ Range(q) = {s, t, u} /\ Len(q) = 3
               /\ q[1] = s /\ q[2] = t /\ q[3] = u
  <1> DEFINE q == <<s, t, u>>
  <1>1. /\ q \in Seq({s, t, u}) /\ Len(q) = 3 /\ DOMAIN q = {1, 2, 3}
        /\ q[1] = s /\ q[2] = t /\ q[3] = u
    OBVIOUS
  <1> HIDE DEF q
  <1>2. Range(q) = {q[1], q[2], q[3]}
    BY <1>1 DEF Range
  <1>3. QED
    BY <1>1, <1>2 DEF q

\* of four,
LEMMA FourSteps ==
    ASSUME NEW s, NEW t, NEW u, NEW v
    PROVE  LET q == <<s, t, u, v>>
           IN  /\ q \in Seq({s, t, u, v}) /\ Range(q) = {s, t, u, v} /\ Len(q) = 4
               /\ q[1] = s /\ q[2] = t /\ q[3] = u /\ q[4] = v
  <1> DEFINE q == <<s, t, u, v>>
  <1>1. /\ q \in Seq({s, t, u, v}) /\ Len(q) = 4 /\ DOMAIN q = {1, 2, 3, 4}
        /\ q[1] = s /\ q[2] = t /\ q[3] = u /\ q[4] = v
    OBVIOUS
  <1> HIDE DEF q
  <1>2. Range(q) = {q[1], q[2], q[3], q[4]}
    BY <1>1 DEF Range
  <1>3. QED
    BY <1>1, <1>2 DEF q

\* and of six.
LEMMA SixSteps ==
    ASSUME NEW s, NEW t, NEW u, NEW v, NEW w, NEW x
    PROVE  LET q == <<s, t, u, v, w, x>>
           IN  /\ q \in Seq({s, t, u, v, w, x}) /\ Range(q) = {s, t, u, v, w, x} /\ Len(q) = 6
               /\ q[1] = s /\ q[2] = t /\ q[3] = u /\ q[4] = v /\ q[5] = w /\ q[6] = x
  <1> DEFINE q == <<s, t, u, v, w, x>>
  <1>1. /\ q \in Seq({s, t, u, v, w, x}) /\ Len(q) = 6 /\ DOMAIN q = {1, 2, 3, 4, 5, 6}
        /\ q[1] = s /\ q[2] = t /\ q[3] = u /\ q[4] = v /\ q[5] = w /\ q[6] = x
    OBVIOUS
  <1> HIDE DEF q
  <1>2. Range(q) = {q[1], q[2], q[3], q[4], q[5], q[6]}
    BY <1>1 DEF Range
  <1>3. QED
    BY <1>1, <1>2 DEF q

\* Two steps in order are a block,
LEMMA PairBlock ==
    ASSUME NEW s, NEW t, Rank(s) <= Rank(t)
    PROVE  Block(<<s, t>>, {s, t}, Rank(s), Rank(t))
  <1> DEFINE q == <<s, t>>
  <1>1. /\ q \in Seq({s, t}) /\ Range(q) = {s, t} /\ Len(q) = 2
        /\ q[1] = s /\ q[2] = t
    BY TwoSteps
  <1>2. Rank(s) \in 0..5 /\ Rank(t) \in 0..5
    BY RankIs
  <1> HIDE DEF q
  <1>3. InOrder(q)
    BY <1>1, <1>2 DEF InOrder
  <1>4. \A y \in {s, t} : Rank(y) \in Rank(s)..Rank(t)
    BY <1>2
  <1>5. QED
    BY <1>1, <1>3, <1>4 DEF Block, q

\* so are three,
LEMMA TripleBlock ==
    ASSUME NEW s, NEW t, NEW u, Rank(s) <= Rank(t), Rank(t) <= Rank(u)
    PROVE  Block(<<s, t, u>>, {s, t, u}, Rank(s), Rank(u))
  <1> DEFINE q == <<s, t, u>>
  <1>1. /\ q \in Seq({s, t, u}) /\ Range(q) = {s, t, u} /\ Len(q) = 3
        /\ q[1] = s /\ q[2] = t /\ q[3] = u
    BY ThreeSteps
  <1>2. Rank(s) \in 0..5 /\ Rank(t) \in 0..5 /\ Rank(u) \in 0..5
    BY RankIs
  <1> HIDE DEF q
  <1>3. InOrder(q)
    BY <1>1, <1>2 DEF InOrder
  <1>4. \A y \in {s, t, u} : Rank(y) \in Rank(s)..Rank(u)
    BY <1>2
  <1>5. QED
    BY <1>1, <1>3, <1>4 DEF Block, q

\* and four.
LEMMA QuadBlock ==
    ASSUME NEW s, NEW t, NEW u, NEW v, Rank(s) <= Rank(t), Rank(t) <= Rank(u), Rank(u) <= Rank(v)
    PROVE  Block(<<s, t, u, v>>, {s, t, u, v}, Rank(s), Rank(v))
  <1> DEFINE q == <<s, t, u, v>>
  <1>1. /\ q \in Seq({s, t, u, v}) /\ Range(q) = {s, t, u, v} /\ Len(q) = 4
        /\ q[1] = s /\ q[2] = t /\ q[3] = u /\ q[4] = v
    BY FourSteps
  <1>2. Rank(s) \in 0..5 /\ Rank(t) \in 0..5 /\ Rank(u) \in 0..5 /\ Rank(v) \in 0..5
    BY RankIs
  <1> HIDE DEF q
  <1>3. InOrder(q)
    BY <1>1, <1>2 DEF InOrder
  <1>4. \A y \in {s, t, u, v} : Rank(y) \in Rank(s)..Rank(v)
    BY <1>2
  <1>5. QED
    BY <1>1, <1>3, <1>4 DEF Block, q

\* What is said of the steps of every command.
StepsAre(c) == Block(Steps(c), StepsOf(c), 0, 5)

\* PartSteps lists the steps of resources, controllers and services.
LEMMA PartStepsAre == \A c \in Commands : c.kind \in PartKinds => StepsAre(c)
  <1> SUFFICES ASSUME NEW c \in Commands, c.kind \in PartKinds PROVE StepsAre(c)
    OBVIOUS
  <1>1. c.kind \notin StopKinds \cup OtherKinds \cup {"module", "grpc"}
    BY DEF PartKinds, StopKinds, OtherKinds
  <1>2. ModFiles(c) = {}
    BY DEF ModFiles, PartKinds
  <1> DEFINE check == IF c.module = None THEN <<>> ELSE <<FailUnless(Home(c))>>
             last == IF c.module = None THEN LibAll(c) \o WireAll(c) ELSE <<WireFeature(c, ListsOf(c))>>
  <1>3. Steps(c) = ((check \o MakeAll(c)) \o DeclareAll(c)) \o last
    <2>1. c.kind \notin StopKinds /\ c.kind \notin {"module", "grpc", "microservice"}
      BY DEF PartKinds, StopKinds
    <2>11. Steps(c) = PartSteps(c)
      BY <2>1, Zenon DEF Steps
    <2>2. QED
      BY <2>11 DEF PartSteps
  <1>4. Block(check, Checks(c), 0, 2)
    <2>1. CASE c.module = None
      <3>1. Checks(c) = {} /\ check = <<>>
        BY <1>1, <2>1 DEF Checks
      <3>2. Block(<<>>, {}, 0, 0)
        BY EmptyBlock
      <3>3. QED
        BY <3>1, <3>2, WiderBlock
    <2>2. CASE c.module # None
      <3>1. Checks(c) = {FailUnless(Home(c))} /\ check = <<FailUnless(Home(c))>>
        BY <1>1, <2>2 DEF Checks
      <3>2. Block(<<FailUnless(Home(c))>>, {FailUnless(Home(c))}, 0, 0)
        BY SingleBlock, StepRanks
      <3>3. QED
        BY <3>1, <3>2, WiderBlock
    <2>3. QED
      BY <2>1, <2>2
  <1>5. Block(last, Libs(c) \cup Wires(c), 3, 5)
    <2>1. CASE c.module = None
      <3>1. Block(LibAll(c), Libs(c), 4, 4) /\ Block(WireAll(c), Wires(c), 5, 5)
        BY <2>1, LibBlock, WireBlock
      <3>2. Block(LibAll(c), Libs(c), 3, 5)
        BY <3>1, WiderBlock
      <3>3. QED
        BY <2>1, <3>1, <3>2, JoinedBlocks
    <2>2. CASE c.module # None
      <3>1. Libs(c) \cup Wires(c) = {WireFeature(c, ListsOf(c))} /\ last = <<WireFeature(c, ListsOf(c))>>
        BY <2>2 DEF Libs, Wires
      <3>2. Block(<<WireFeature(c, ListsOf(c))>>, {WireFeature(c, ListsOf(c))}, 5, 5)
        BY SingleBlock, StepRanks
      <3>3. Block(<<WireFeature(c, ListsOf(c))>>, {WireFeature(c, ListsOf(c))}, 3, 5)
        BY <3>2, WiderBlock
      <3>4. QED
        BY <3>1, <3>3
    <2>3. QED
      BY <2>1, <2>2
  <1> HIDE DEF check, last
  <1>6. Block(MakeAll(c), Makes(c), 2, 2) /\ Block(DeclareAll(c), Declares(c), 3, 3)
    BY <1>1, MakeBlock, DeclareBlock
  <1>7. Block(check \o MakeAll(c), Checks(c) \cup Makes(c), 0, 2)
    BY <1>4, <1>6, JoinedBlocks
  <1>8. Block(DeclareAll(c), Declares(c), 2, 3)
    BY <1>6, WiderBlock
  <1> DEFINE s1 == check \o MakeAll(c)
             S1 == Checks(c) \cup Makes(c)
             s2 == s1 \o DeclareAll(c)
             S2 == S1 \cup Declares(c)
  <1>9. Block(s2, S2, 0, 3)
    <2> HIDE DEF s1, S1
    <2>1. Block(s1, S1, 0, 2)
      BY <1>7 DEF s1, S1
    <2>2. QED
      BY <1>8, <2>1, JoinedBlocks
  <1>10. Block(s2 \o last, S2 \cup (Libs(c) \cup Wires(c)), 0, 5)
    <2> HIDE DEF s2, S2
    <2>1. QED
      BY <1>5, <1>9, JoinedBlocks
  <1>11. StepsOf(c) = S2 \cup (Libs(c) \cup Wires(c))
    BY <1>1, <1>2 DEF StepsOf
  <1>12. QED
    BY <1>3, <1>10, <1>11 DEF StepsAre

\* What is in the sets for a command of another kind.
LEMMA OtherSets ==
    ASSUME NEW c \in Commands, c.kind \in StopKinds \cup OtherKinds
    PROVE  /\ c.module = None /\ ~c.flat /\ Home(c) = <<>> /\ c.kind \notin PartKinds \cup {"module"}
           /\ Wires(c) = {}
           /\ Checks(c) = IF c.kind \in StopKinds THEN {StopIf(PathOf(c, c.kind))} ELSE {}
           /\ c.kind # "grpc" => /\ Makes(c) = {Make(PathOf(c, c.kind), {})}
                                 /\ Declares(c) = {Announce(c)}
           /\ c.kind \notin {"graphql", "grpc"} => Libs(c) = {Lib(Front(PathOf(c, c.kind)))}
           /\ c.kind \in {"graphql", "grpc"} => Libs(c) = {}
  <1>1. c.kind \notin PartKinds \cup {"module"}
    BY DEF PartKinds, StopKinds, OtherKinds
  <1>2. c.module = None /\ ~c.flat /\ Home(c) = <<>>
    BY <1>1, CommandIs, HomeIs
  <1>3. Wires(c) = {} /\ Checks(c) = IF c.kind \in StopKinds THEN {StopIf(PathOf(c, c.kind))} ELSE {}
    BY <1>1, <1>2 DEF Wires, Checks
  <1>4. c.kind # "grpc" => PartSet(c) = {c.kind} /\ Groups(c) = {{c.kind}}
    <2> HAVE c.kind # "grpc"
    <2>1. PartSet(c) = {c.kind}
      BY <1>1, PartsAre DEF PartKinds
    <2>2. QED
      BY <1>1, <2>1 DEF Groups
  <1>5. c.kind # "grpc" => Makes(c) = {Make(PathOf(c, c.kind), {})} /\ Declares(c) = {Announce(c)}
    <2> HAVE c.kind # "grpc"
    <2>1. Makes(c) = {Make(PathOf(c, c.kind), {})}
      BY <1>4 DEF Makes
    <2>2. Declares(c) = {Declare(Home(c), PathsOf(c, {c.kind}))}
      BY <1>4 DEF Declares
    <2>3. PathsOf(c, {c.kind}) = {PathOf(c, c.kind)}
      BY DEF PathsOf
    <2>4. QED
      BY <1>2, <2>1, <2>2, <2>3 DEF Announce
  <1>6. c.kind \notin {"graphql", "grpc"} => Libs(c) = {Lib(Front(PathOf(c, c.kind)))}
    BY <1>2, <1>4 DEF Libs
  <1>7. c.kind \in {"graphql", "grpc"} => Libs(c) = {}
    BY DEF Libs
  <1>8. QED
    BY <1>1, <1>2, <1>3, <1>5, <1>6, <1>7

\* The steps of the commands that have a file of their own kind.
LEMMA OtherStepsAre == \A c \in Commands : c.kind \in StopKinds \cup OtherKinds => StepsAre(c)
  <1> SUFFICES ASSUME NEW c \in Commands, c.kind \in StopKinds \cup OtherKinds PROVE StepsAre(c)
    OBVIOUS
  <1> DEFINE path == PathOf(c, c.kind)
             make == Make(path, {})
             announce == Announce(c)
             lib == Lib(Front(path))
  <1>1. /\ Rank(make) = 2 /\ Rank(announce) = 3 /\ Rank(lib) = 4 /\ Rank(StopIf(path)) = 0
        /\ Rank(WsMod("make")) = 2 /\ Rank(GraphqlMod("make")) = 2 /\ Rank(GrpcBuild("make")) = 2
        /\ Rank(GrpcMod("make")) = 2 /\ Rank(Make(Folder("microservices"), {})) = 2
        /\ \A ps : Rank(Declare(<<>>, ps)) = 3
    BY StepRanks DEF WsMod, GraphqlMod, GrpcBuild, GrpcMod, Announce
  <1>2. /\ c.module = None /\ ~c.flat /\ Home(c) = <<>> /\ c.kind \notin PartKinds \cup {"module"}
        /\ Wires(c) = {}
        /\ Checks(c) = IF c.kind \in StopKinds THEN {StopIf(path)} ELSE {}
        /\ c.kind # "grpc" => Makes(c) = {make} /\ Declares(c) = {announce}
        /\ c.kind \notin {"graphql", "grpc"} => Libs(c) = {lib}
        /\ c.kind \in {"graphql", "grpc"} => Libs(c) = {}
    BY OtherSets
  <1>3. StepsOf(c) = Checks(c) \cup ModFiles(c) \cup Makes(c) \cup Declares(c) \cup Libs(c) \cup Wires(c)
    BY <1>2 DEF StepsOf
  <1> HIDE DEF make, announce, lib
  <1>4. CASE c.kind \in StopKinds
    <2>1. c.kind \notin {"module", "grpc", "microservice", "graphql", "gateway"}
      BY <1>4 DEF StopKinds
    <2>2. Steps(c) = StopSteps(c)
      BY <1>2, <1>4, <2>1, Zenon DEF Steps
    <2>3. StopSteps(c) = <<StopIf(path), make, announce, lib>>
      BY DEF StopSteps, make, announce, lib
    <2>4. ModFiles(c) = {}
      BY <2>1 DEF ModFiles
    <2>5. StepsOf(c) = {StopIf(path), make, announce, lib}
      BY <1>2, <1>3, <1>4, <2>1, <2>4
    <2>6. Block(<<StopIf(path), make, announce, lib>>, {StopIf(path), make, announce, lib}, 0, 4)
      <3> HIDE DEF path
      <3>1. Block(<<StopIf(path), make, announce, lib>>, {StopIf(path), make, announce, lib},
                  Rank(StopIf(path)), Rank(lib))
        BY <1>1, QuadBlock
      <3>2. QED
        BY <1>1, <3>1
    <2>7. QED
      BY <2>2, <2>3, <2>5, <2>6, WiderBlock DEF StepsAre
  <1>5. CASE c.kind = "grpc"
    <2> DEFINE proto == Make(PathOf(c, "proto"), {})
               protoIn == Declare(<<>>, {PathOf(c, "proto")})
               files == <<GrpcBuild("make"), GrpcMod("make"), proto, make>>
               fileSet == {GrpcBuild("make"), GrpcMod("make"), proto, make}
    <2>1. Steps(c) = GrpcSteps(c) /\ c.kind \notin StopKinds
      BY <1>2, <1>5 DEF Steps, StopKinds
    <2>2. GrpcSteps(c) = files \o <<protoIn, announce>>
      BY <1>5 DEF GrpcSteps, GrpcDeclares, make, announce
    <2>3. ModFiles(c) = {GrpcBuild("make"), GrpcMod("make")}
      BY <1>5 DEF ModFiles
    <2>4. PartSet(c) = {"proto", "grpc"} /\ Groups(c) = {{"proto"}, {"grpc"}}
      BY <1>2, <1>5 DEF PartSet, Groups
    <2>5. Makes(c) = {proto, make}
      BY <1>5, <2>4 DEF Makes, make
    <2>6. Declares(c) = {protoIn, announce}
      <3>1. Declares(c) = {Declare(Home(c), PathsOf(c, {"proto"})), Declare(Home(c), PathsOf(c, {"grpc"}))}
        BY <2>4 DEF Declares
      <3>2. PathsOf(c, {"proto"}) = {PathOf(c, "proto")} /\ PathsOf(c, {"grpc"}) = {PathOf(c, "grpc")}
        BY DEF PathsOf
      <3>3. QED
        BY <1>2, <1>5, <3>1, <3>2 DEF announce, Announce
    <2>7. StepsOf(c) = fileSet \cup {protoIn, announce}
      <3>1. Checks(c) = {} /\ Libs(c) = {}
        BY <1>2, <1>5, <2>1
      <3> HIDE DEF proto, protoIn
      <3>2. QED
        BY <1>2, <1>3, <2>3, <2>5, <2>6, <3>1
    <2>8. Rank(proto) = 2 /\ Rank(protoIn) = 3
      BY <1>1, StepRanks
    <2> HIDE DEF proto, protoIn
    <2>9. Block(files, fileSet, 2, 2)
      <3>1. Block(files, fileSet, Rank(GrpcBuild("make")), Rank(make))
        BY <1>1, <2>8, QuadBlock
      <3>2. QED
        BY <1>1, <3>1
    <2>10. Block(<<protoIn, announce>>, {protoIn, announce}, 2, 3)
      <3>1. Block(<<protoIn, announce>>, {protoIn, announce}, Rank(protoIn), Rank(announce))
        BY <1>1, <2>8, PairBlock
      <3>2. QED
        BY <1>1, <2>8, <3>1, WiderBlock
    <2> HIDE DEF files, fileSet
    <2>11. Block(files \o <<protoIn, announce>>, fileSet \cup {protoIn, announce}, 2, 3)
      BY <2>9, <2>10, JoinedBlocks
    <2>12. Block(Steps(c), StepsOf(c), 2, 3)
      BY <2>1, <2>2, <2>7, <2>11
    <2>13. QED
      BY <2>12, WiderBlock DEF StepsAre
  <1>6. CASE c.kind \in OtherKinds \ {"grpc"}
    <2> DEFINE mod == CASE c.kind = "gateway" -> <<WsMod("make")>>
                        [] c.kind = "graphql" -> <<GraphqlMod("make")>>
                        [] OTHER -> <<>>
               first == IF c.kind = "microservice" THEN <<Make(Folder("microservices"), {})>> ELSE mod
               last == IF c.kind = "graphql" THEN <<>> ELSE <<lib>>
               mid == <<make, announce>>
    <2>1. Checks(c) = {} /\ c.kind \notin StopKinds
      BY <1>2, <1>6 DEF StopKinds, OtherKinds
    <2>2. StepsOf(c) = (ModFiles(c) \cup {make, announce}) \cup Libs(c)
      BY <1>2, <1>3, <1>6, <2>1
    <2>3. Block(first, ModFiles(c), 2, 2)
      <3>1. \A s : Rank(s) = 2 => Block(<<s>>, {s}, 2, 2)
        BY SingleBlock
      <3>2. CASE c.kind = "gateway"
        <4>1. first = <<WsMod("make")>> /\ ModFiles(c) = {WsMod("make")}
          BY <3>2 DEF ModFiles
        <4>2. QED
          BY <1>1, <3>1, <4>1
      <3>3. CASE c.kind = "graphql"
        <4>1. first = <<GraphqlMod("make")>> /\ ModFiles(c) = {GraphqlMod("make")}
          BY <3>3 DEF ModFiles
        <4>2. QED
          BY <1>1, <3>1, <4>1
      <3>4. CASE c.kind = "microservice"
        <4>1. first = <<Make(Folder("microservices"), {})>> /\ ModFiles(c) = {Make(Folder("microservices"), {})}
          BY <3>4 DEF ModFiles
        <4>2. QED
          BY <1>1, <3>1, <4>1
      <3>5. CASE c.kind \notin {"gateway", "graphql", "microservice"}
        <4>1. first = <<>> /\ ModFiles(c) = {}
          BY <1>6, <3>5 DEF ModFiles
        <4>2. QED
          BY <4>1, EmptyBlock
      <3>6. QED
        BY <3>2, <3>3, <3>4, <3>5
    <2>4. Block(last, Libs(c), 3, 4)
      <3>1. CASE c.kind = "graphql"
        <4>1. last = <<>> /\ Libs(c) = {} /\ Block(<<>>, {}, 3, 3)
          BY <1>2, <3>1, EmptyBlock
        <4>2. QED
          BY <4>1, WiderBlock
      <3>2. CASE c.kind # "graphql"
        <4>1. last = <<lib>> /\ Libs(c) = {lib} /\ Block(<<lib>>, {lib}, 4, 4)
          BY <1>1, <1>2, <1>6, <3>2, SingleBlock
        <4>2. QED
          BY <4>1, WiderBlock
      <3>3. QED
        BY <3>1, <3>2
    <2>5. Block(mid, {make, announce}, 2, 3)
      <3>1. Block(<<make, announce>>, {make, announce}, Rank(make), Rank(announce))
        BY <1>1, PairBlock
      <3>2. QED
        BY <1>1, <3>1
    <2>6. Steps(c) = (first \o mid) \o last
      <3>1. SingleSteps(c) = (mod \o mid) \o last
        BY DEF SingleSteps, make, announce, lib
      <3>2. CASE c.kind # "microservice"
        <4>1. c.kind \notin {"module", "grpc"} /\ c.kind \notin PartKinds
          BY <1>2, <1>6
        <4>2. Steps(c) = SingleSteps(c)
          BY <2>1, <3>2, <4>1 DEF Steps
        <4>3. QED
          BY <3>1, <3>2, <4>2
      <3>3. CASE c.kind = "microservice"
        <4>1. Steps(c) = MicroserviceSteps(c)
          BY <1>2, <2>1, <3>3 DEF Steps
        <4>2. mod = <<>> /\ first = <<Make(Folder("microservices"), {})>> /\ last = <<lib>>
          BY <3>3
        <4>3. MicroserviceSteps(c) = <<Make(Folder("microservices"), {})>> \o ((<<>> \o mid) \o <<lib>>)
          BY <3>1, <4>2 DEF MicroserviceSteps
        <4> DEFINE m == Make(Folder("microservices"), {})
        <4>4. /\ <<m>> \in Seq({m, make, announce, lib}) /\ mid \in Seq({m, make, announce, lib})
              /\ <<lib>> \in Seq({m, make, announce, lib})
          OBVIOUS
        <4> HIDE DEF m, mid
        <4>5. <<>> \o mid = mid
          BY <4>4, ConcatEmptySeq
        <4>6. (<<m>> \o mid) \o <<lib>> = <<m>> \o (mid \o <<lib>>)
          BY <4>4, ConcatAssociative
        <4>7. QED
          BY <4>1, <4>2, <4>3, <4>5, <4>6 DEF m
      <3>4. QED
        BY <3>2, <3>3
    <2> HIDE DEF first, last, mid
    <2>7. Block(first \o mid, ModFiles(c) \cup {make, announce}, 2, 3)
      BY <2>3, <2>5, JoinedBlocks
    <2> DEFINE some == first \o mid
               set == ModFiles(c) \cup {make, announce}
    <2>8. Block(some \o last, set \cup Libs(c), 2, 4)
      <3> HIDE DEF some, set
      <3>1. Block(some, set, 2, 3)
        BY <2>7 DEF some, set
      <3>2. QED
        BY <2>4, <3>1, JoinedBlocks
    <2>9. QED
      BY <2>2, <2>6, <2>8, WiderBlock DEF StepsAre
  <1>7. QED
    BY <1>4, <1>5, <1>6

-----------------------------------------------------------------------------
\* No file is put twice by a list of steps.
DistinctPuts(steps) ==
    \A i, j \in 1..Len(steps) :
       (i # j /\ steps[i].op = "put" /\ steps[j].op = "put") => steps[i].path # steps[j].path

\* One list after another, with other files.
LEMMA JoinedPuts ==
    ASSUME NEW S, NEW T, NEW s \in Seq(S), NEW t \in Seq(T), DistinctPuts(s), DistinctPuts(t),
           \A x \in S, y \in T : x.op = "put" /\ y.op = "put" => x.path # y.path
    PROVE  DistinctPuts(s \o t)
  <1> DEFINE u == s \o t
  <1>1. /\ Len(u) = Len(s) + Len(t)
        /\ \A i \in 1..Len(s) : u[i] = s[i]
        /\ \A i \in 1..Len(t) : u[Len(s) + i] = t[i]
    BY Joined
  <1>2. /\ Len(s) \in Nat /\ Len(t) \in Nat
        /\ \A i \in 1..Len(s) : s[i] \in S
        /\ \A i \in 1..Len(t) : t[i] \in T
    OBVIOUS
  <1> HIDE DEF u
  <1>3. \A i \in 1..Len(u) :
            \/ i \in 1..Len(s) /\ u[i] = s[i] /\ u[i] \in S
            \/ i - Len(s) \in 1..Len(t) /\ u[i] = t[i - Len(s)] /\ u[i] \in T
    <2> TAKE i \in 1..Len(u)
    <2>1. CASE i \in 1..Len(s)
      BY <1>1, <1>2, <2>1
    <2>2. CASE i \notin 1..Len(s)
      <3>1. i - Len(s) \in 1..Len(t) /\ Len(s) + (i - Len(s)) = i
        BY <1>1, <1>2, <2>2
      <3>2. u[Len(s) + (i - Len(s))] = t[i - Len(s)]
        BY <1>1, <3>1
      <3>3. QED
        BY <1>2, <3>1, <3>2
    <2>3. QED
      BY <2>1, <2>2
  <1>4. SUFFICES ASSUME NEW i \in 1..Len(u), NEW j \in 1..Len(u), i # j,
                        u[i].op = "put", u[j].op = "put"
                 PROVE  u[i].path # u[j].path
    BY DEF DistinctPuts, u
  <1>5. CASE i \in 1..Len(s) /\ u[i] = s[i] /\ u[i] \in S
    <2>1. CASE j \in 1..Len(s) /\ u[j] = s[j]
      BY <1>4, <1>5, <2>1 DEF DistinctPuts
    <2>2. CASE u[j] \in T
      BY <1>4, <1>5, <2>2
    <2>3. QED
      BY <1>3, <2>1, <2>2
  <1>6. CASE i - Len(s) \in 1..Len(t) /\ u[i] = t[i - Len(s)] /\ u[i] \in T
    <2>1. CASE u[j] \in S
      BY <1>4, <1>6, <2>1
    <2>2. CASE j - Len(s) \in 1..Len(t) /\ u[j] = t[j - Len(s)]
      <3>1. i - Len(s) # j - Len(s)
        BY <1>2, <1>4
      <3>2. QED
        BY <1>4, <1>6, <2>2, <3>1 DEF DistinctPuts
    <2>3. QED
      BY <1>3, <2>1, <2>2
  <1>7. QED
    BY <1>3, <1>5, <1>6

\* Nothing is put twice where one thing is put, or none.
LEMMA FewPuts ==
    /\ \A s : DistinctPuts(<<s>>)
    /\ \A S : \A s \in Seq(S) : (\A x \in S : x.op # "put") => DistinctPuts(s)
  BY DEF DistinctPuts

\* A folder of a feature.
LEMMA WithinIs ==
    ASSUME NEW x \in Names, NEW f \in FolderNames
    PROVE  LET p == Feature(x) \o Folder(f)
           IN  /\ p \in LongPaths /\ Len(p) = 2 /\ Front(p) = Feature(x)
               /\ Last(p) = N("folder", f) /\ p[1] = N("module", x)
               /\ p # Feature(x) /\ Last(p).name = f
  <1>1. /\ Feature(x) \in Paths /\ Feature(x) # <<>> /\ Len(Feature(x)) = 1
        /\ Feature(x)[1] = N("module", x)
    BY FeatureIs DEF LongPaths
  <1>2. N("folder", f) \in Nodes /\ Folder(f) = <<N("folder", f)>> /\ N("folder", f).name = f
    BY FolderIs
  <1> DEFINE n == N("folder", f)
             q == Feature(x) \o <<n>>
  <1>3. /\ q \in LongPaths /\ Len(q) = Len(Feature(x)) + 1
        /\ Front(q) = Feature(x) /\ Last(q) = n
        /\ q[1] = Feature(x)[1]
    BY <1>1, <1>2, Extended
  <1>4. Feature(x) \o Folder(f) = q
    BY <1>2
  <1> HIDE DEF q, n
  <1>5. q # Feature(x)
    BY <1>1, <1>3
  <1>6. /\ q \in LongPaths /\ Len(q) = 2 /\ Front(q) = Feature(x)
        /\ Last(q) = n /\ q[1] = N("module", x) /\ n.name = f
    BY <1>1, <1>2, <1>3 DEF n
  <1>7. QED
    BY <1>4, <1>5, <1>6 DEF n

\* The folders of a feature are one node below it.
LEMMA FeatureFolders ==
    /\ {"controllers", "services", "dto"} \subseteq FolderNames
    /\ \A x \in Names : \A p \in Within(Feature(x)) :
          /\ p \in LongPaths /\ Len(p) = 2 /\ Front(p) = Feature(x) /\ p[1] = N("module", x)
          /\ p # Feature(x) /\ Last(p).kind = "folder"
  <1>1. {"controllers", "services", "dto"} \subseteq FolderNames
    BY DEF FolderNames
  <1>2. ASSUME NEW x \in Names, NEW p \in Within(Feature(x))
        PROVE  /\ p \in LongPaths /\ Len(p) = 2 /\ Front(p) = Feature(x) /\ p[1] = N("module", x)
               /\ p # Feature(x) /\ Last(p).kind = "folder"
    <2>1. PICK f \in {"controllers", "services", "dto"} : p = Feature(x) \o Folder(f)
      BY DEF Within
    <2>2. f \in FolderNames
      BY <1>1
    <2>3. N("folder", f).kind = "folder"
      BY <2>2, FolderIs
    <2>4. QED
      BY <2>1, <2>2, <2>3, WithinIs
  <1>3. QED
    BY <1>1, <1>2

\* The steps of a module.
LEMMA ModuleStepsAre ==
    \A c \in Commands : c.kind = "module" => StepsAre(c) /\ DistinctPuts(Steps(c))
  <1> SUFFICES ASSUME NEW c \in Commands, c.kind = "module"
               PROVE  StepsAre(c) /\ DistinctPuts(Steps(c))
    OBVIOUS
  <1> DEFINE feature == Feature(c.name)
             check == FailIf(feature)
             w(f) == feature \o Folder(f)
             own == Put(feature, Within(feature))
             first == Put(w("controllers"), {})
             second == Put(w("services"), {})
             third == Put(w("dto"), {})
             puts == IF c.flat THEN <<PutFlat(feature)>> ELSE <<own, first, second, third>>
             last == <<Lib(feature), Use(feature), Import(feature)>>
             lastSet == {Lib(feature), Use(feature), Import(feature)}
  <1>1. Steps(c) = (<<check>> \o puts) \o last
    <2>1. c.kind \notin PartKinds
      BY DEF PartKinds
    <2>2. Steps(c) = ModuleSteps(c)
      <3>1. c.kind \notin StopKinds /\ c.kind \notin {"grpc", "microservice"}
        BY DEF StopKinds
      <3>2. QED
        BY <2>1, <3>1, Zenon DEF Steps
    <2>3. QED
      BY <2>2 DEF ModuleSteps, Within
  <1>2. c.name \in Names /\ c.flat \in BOOLEAN
    BY CommandIs
  <1>3. Len(feature) = 1
    BY <1>2, FeatureIs
  <1>4. /\ w("controllers") # w("services") /\ w("controllers") # w("dto") /\ w("services") # w("dto")
        /\ \A f \in {"controllers", "services", "dto"} : w(f) # feature /\ Len(w(f)) = 2
    <2>1. \A f \in {"controllers", "services", "dto"} :
             f \in FolderNames /\ Last(w(f)).name = f /\ w(f) # feature /\ Len(w(f)) = 2
      BY <1>2, FeatureFolders, WithinIs
    <2>2. QED
      BY <2>1
  <1>5. Within(feature) = {w("controllers"), w("services"), w("dto")}
    BY DEF Within
  <1> HIDE DEF w, feature
  <1>6. /\ Rank(check) = 0 /\ Rank(own) = 1 /\ Rank(first) = 2 /\ Rank(second) = 2 /\ Rank(third) = 2
        /\ Rank(PutFlat(feature)) = 1
        /\ Rank(Lib(feature)) = 4 /\ Rank(Use(feature)) = 5 /\ Rank(Import(feature)) = 5
    BY <1>3, <1>4, StepRanks
  <1>7. ModulePuts(c) = IF c.flat THEN {PutFlat(feature)} ELSE {own, first, second, third}
    BY <1>5 DEF ModulePuts, feature
  <1>8. /\ own.op = "put" /\ own.path = feature /\ first.op = "put" /\ first.path = w("controllers")
        /\ second.op = "put" /\ second.path = w("services") /\ third.op = "put" /\ third.path = w("dto")
        /\ check.op # "put" /\ \A s \in lastSet : s.op # "put"
    BY StepFields
  <1> HIDE DEF own, first, second, third, check
  <1>9. Block(puts, ModulePuts(c), 0, 2) /\ DistinctPuts(puts)
    <2>1. CASE c.flat
      <3>1. Block(<<PutFlat(feature)>>, {PutFlat(feature)}, 1, 1)
        BY <1>6, SingleBlock
      <3>2. Block(<<PutFlat(feature)>>, {PutFlat(feature)}, 0, 2)
        BY <3>1, WiderBlock
      <3>3. QED
        BY <1>7, <2>1, <3>2, FewPuts
    <2>2. CASE ~c.flat
      <3> DEFINE q == <<own, first, second, third>>
      <3>1. Block(q, {own, first, second, third}, 1, 2)
        <4>1. Block(q, {own, first, second, third}, Rank(own), Rank(third))
          BY <1>6, QuadBlock
        <4>2. QED
          BY <1>6, <4>1
      <3>2. Len(q) = 4 /\ q[1] = own /\ q[2] = first /\ q[3] = second /\ q[4] = third
        OBVIOUS
      <3> HIDE DEF q
      <3>3. DistinctPuts(q)
        BY <1>4, <1>8, <3>2 DEF DistinctPuts
      <3>4. Block(q, {own, first, second, third}, 0, 2)
        BY <3>1, WiderBlock
      <3>5. puts = q
        BY <2>2 DEF q
      <3>6. QED
        BY <1>7, <2>2, <3>3, <3>4, <3>5
    <2>3. QED
      BY <1>2, <2>1, <2>2
  <1>10. Block(last, lastSet, 2, 5) /\ DistinctPuts(last)
    <2>1. Block(last, lastSet, 4, 5)
      <3>1. Block(last, lastSet, Rank(Lib(feature)), Rank(Import(feature)))
        BY <1>6, TripleBlock
      <3>2. QED
        BY <1>6, <3>1
    <2>2. last \in Seq(lastSet)
      BY <2>1 DEF Block
    <2> HIDE DEF last, lastSet
    <2>3. DistinctPuts(last)
      BY <1>8, <2>2, FewPuts DEF lastSet
    <2>4. QED
      BY <2>1, <2>3, WiderBlock
  <1>11. Block(<<check>>, {check}, 0, 0) /\ DistinctPuts(<<check>>)
    BY <1>6, SingleBlock, FewPuts
  <1> HIDE DEF puts, last, lastSet
  <1>12. Block(<<check>> \o puts, {check} \cup ModulePuts(c), 0, 2)
    BY <1>9, <1>11, JoinedBlocks
  <1>13. DistinctPuts(<<check>> \o puts)
    <2>1. <<check>> \in Seq({check}) /\ puts \in Seq(ModulePuts(c))
      BY <1>9, <1>11 DEF Block
    <2>2. \A x \in {check}, y \in ModulePuts(c) : x.op = "put" /\ y.op = "put" => x.path # y.path
      BY <1>8
    <2>3. DistinctPuts(<<check>>) /\ DistinctPuts(puts)
      BY <1>9, <1>11
    <2> DEFINE one == <<check>>
               S == {check}
    <2>4. one \in Seq(S) /\ DistinctPuts(one)
          /\ \A x \in S, y \in ModulePuts(c) : x.op = "put" /\ y.op = "put" => x.path # y.path
      BY <2>1, <2>2, <2>3
    <2> HIDE DEF one, S
    <2>5. DistinctPuts(one \o puts)
      BY <2>1, <2>3, <2>4, JoinedPuts
    <2>6. QED
      BY <2>5 DEF one
  <1> DEFINE some == <<check>> \o puts
             set == {check} \cup ModulePuts(c)
  <1>14. Block(some, set, 0, 2) /\ DistinctPuts(some)
    BY <1>12, <1>13
  <1> HIDE DEF some, set
  <1>15. Block(some \o last, set \cup lastSet, 0, 5)
    BY <1>10, <1>14, JoinedBlocks
  <1>16. DistinctPuts(some \o last)
    <2>1. some \in Seq(set) /\ last \in Seq(lastSet)
      BY <1>10, <1>14 DEF Block
    <2>2. \A y \in lastSet : y.op # "put"
      BY <1>8 DEF lastSet
    <2>3. QED
      BY <1>10, <1>14, <2>1, <2>2, JoinedPuts
  <1>17. StepsOf(c) = set \cup lastSet
    BY DEF StepsOf, ModuleEntries, set, lastSet, check, feature
  <1>18. QED
    BY <1>1, <1>15, <1>16, <1>17 DEF StepsAre, some

-----------------------------------------------------------------------------
(***************************************************************************)
(* What each step of a command is.                                         *)
(***************************************************************************)

Ops == {"failIf", "failUnless", "stopIf", "put", "make", "declare", "lib", "wireApp", "wireFeature",
        "use", "import"}

\* Shown as StepKinds(c, s) for each step s of c.
StepKinds(c, s) ==
    /\ s.op \in Ops
    /\ s.op = "failIf" => c.kind = "module" /\ s = FailIf(Feature(c.name))
    /\ s.op = "failUnless" => c.kind # "module" /\ c.module # None /\ s = FailUnless(Home(c))
    /\ s.op = "stopIf" => c.kind \in StopKinds /\ s = StopIf(PathOf(c, c.kind))
    /\ s.op = "put" => c.kind = "module" /\ s \in ModulePuts(c)
    /\ s.op = "make" => /\ c.kind # "module"
                        /\ \/ s \in ModFiles(c)
                           \/ \E part \in PartSet(c) : s = Make(PathOf(c, part), {})
    /\ s.op = "declare" => /\ c.kind # "module"
                           /\ \E parts \in Groups(c) : s = Declare(Home(c), PathsOf(c, parts))
    /\ s.op = "lib" =>
          IF c.kind = "module" THEN s = Lib(Feature(c.name))
          ELSE /\ c.module = None /\ c.kind \notin {"graphql", "grpc"}
               /\ \E part \in PartSet(c) :
                     s = Lib(IF c.flat THEN PathOf(c, part) ELSE Front(PathOf(c, part)))
    /\ s.op = "wireApp" =>
          /\ c.kind \in PartKinds /\ c.module = None
          /\ \/ "controller" \in PartSet(c) /\ s = WireApp("controllers", PathOf(c, "controller"))
             \/ "service" \in PartSet(c) /\ s = WireApp("providers", PathOf(c, "service"))
    /\ s.op = "wireFeature" => c.kind \in PartKinds /\ c.module # None /\ s = WireFeature(c, ListsOf(c))
    /\ s.op = "use" => c.kind = "module" /\ s = Use(Feature(c.name))
    /\ s.op = "import" => c.kind = "module" /\ s = Import(Feature(c.name))

\* Modules put their files, the others make theirs.
LEMMA FileOps ==
    ASSUME NEW c \in Commands
    PROVE  /\ \A s \in ModFiles(c) : s.op = "make"
           /\ \A s \in ModulePuts(c) : s.op = "put"
  <1>1. \A s \in ModFiles(c) : s.op = "make"
    <2>1. /\ WsMod("make").op = "make" /\ GraphqlMod("make").op = "make" /\ GrpcBuild("make").op = "make"
          /\ GrpcMod("make").op = "make" /\ Make(Folder("microservices"), {}).op = "make"
      BY StepFields DEF WsMod, GraphqlMod, GrpcBuild, GrpcMod
    <2>2. ModFiles(c) \subseteq {WsMod("make"), GraphqlMod("make"), GrpcBuild("make"), GrpcMod("make"),
                                 Make(Folder("microservices"), {})}
      <3>1. CASE c.kind \in {"gateway", "graphql", "grpc", "microservice"}
        BY <3>1 DEF ModFiles
      <3>2. CASE c.kind \notin {"gateway", "graphql", "grpc", "microservice"}
        <4>1. ModFiles(c) = {}
          BY <3>2 DEF ModFiles
        <4>2. QED
          BY <4>1
      <3>3. QED
        BY <3>1, <3>2
    <2>3. QED
      BY <2>1, <2>2
  <1>2. \A s \in ModulePuts(c) : s.op = "put"
    BY StepFields DEF ModulePuts
  <1>3. QED
    BY <1>1, <1>2

\* A step of a command tells what made it.
LEMMA StepsHaveKinds ==
    ASSUME NEW c \in Commands, NEW s \in StepsOf(c)
    PROVE  StepKinds(c, s)
  <1>0. /\ \A t \in ModFiles(c) : t.op = "make"
        /\ \A t \in ModulePuts(c) : t.op = "put"
        /\ "module" \notin PartKinds
    BY FileOps DEF PartKinds
  <1>1. CASE c.kind = "module"
    <2>1. CASE s = FailIf(Feature(c.name))
      <3>1. s.op = "failIf"
        BY <2>1, StepFields
      <3>2. QED
        BY <1>1, <2>1, <3>1 DEF StepKinds, Ops
    <2>2. CASE s \in ModulePuts(c)
      BY <1>0, <1>1, <2>2 DEF StepKinds, Ops
    <2>3. CASE s = Lib(Feature(c.name))
      <3>1. s.op = "lib"
        BY <2>3, StepFields
      <3>2. QED
        BY <1>1, <2>3, <3>1 DEF StepKinds, Ops
    <2>4. CASE s = Use(Feature(c.name))
      <3>1. s.op = "use"
        BY <2>4, StepFields
      <3>2. QED
        BY <1>1, <2>4, <3>1 DEF StepKinds, Ops
    <2>5. CASE s = Import(Feature(c.name))
      <3>1. s.op = "import"
        BY <2>5, StepFields
      <3>2. QED
        BY <1>1, <2>5, <3>1 DEF StepKinds, Ops
    <2>6. QED
      BY <1>1, <2>1, <2>2, <2>3, <2>4, <2>5 DEF StepsOf, ModuleEntries
  <1>2. CASE c.kind # "module"
    <2>1. CASE s \in Checks(c)
      <3>1. CASE c.module # None /\ s = FailUnless(Home(c))
        <4>1. s.op = "failUnless"
          BY <3>1, StepFields
        <4>2. QED
          BY <1>2, <3>1, <4>1 DEF StepKinds, Ops
      <3>2. CASE c.kind \in StopKinds /\ s = StopIf(PathOf(c, c.kind))
        <4>1. s.op = "stopIf"
          BY <3>2, StepFields
        <4>2. QED
          BY <1>2, <3>2, <4>1 DEF StepKinds, Ops
      <3>3. QED
        BY <2>1, <3>1, <3>2 DEF Checks
    <2>2. CASE s \in ModFiles(c)
      BY <1>0, <1>2, <2>2 DEF StepKinds, Ops
    <2>3. CASE s \in Makes(c)
      <3>1. PICK part \in PartSet(c) : s = Make(PathOf(c, part), {})
        BY <2>3 DEF Makes
      <3>2. s.op = "make"
        BY <3>1, StepFields
      <3>3. QED
        BY <1>2, <3>1, <3>2 DEF StepKinds, Ops
    <2>4. CASE s \in Declares(c)
      <3>1. PICK parts \in Groups(c) : s = Declare(Home(c), PathsOf(c, parts))
        BY <2>4 DEF Declares
      <3>2. s.op = "declare"
        BY <3>1, StepFields
      <3>3. QED
        BY <1>2, <3>1, <3>2 DEF StepKinds, Ops
    <2>5. CASE s \in Libs(c)
      <3>1. /\ c.module = None /\ c.kind \notin {"graphql", "grpc"}
            /\ \E part \in PartSet(c) : s = Lib(IF c.flat THEN PathOf(c, part) ELSE Front(PathOf(c, part)))
        BY <2>5 DEF Libs
      <3>2. s.op = "lib"
        BY <3>1, StepFields
      <3>3. QED
        BY <1>2, <3>1, <3>2 DEF StepKinds, Ops
    <2>6. CASE s \in Wires(c)
      <3>1. c.kind \in PartKinds
        BY <2>6 DEF Wires
      <3>2. CASE c.module # None
        <4>1. s = WireFeature(c, ListsOf(c))
          BY <2>6, <3>1, <3>2 DEF Wires
        <4>2. s.op = "wireFeature"
          BY <4>1, StepFields
        <4>3. QED
          BY <3>1, <3>2, <4>1, <4>2 DEF StepKinds, Ops
      <3>3. CASE c.module = None
        <4>1. \/ "controller" \in PartSet(c) /\ s = WireApp("controllers", PathOf(c, "controller"))
              \/ "service" \in PartSet(c) /\ s = WireApp("providers", PathOf(c, "service"))
          BY <2>6, <3>1, <3>3 DEF Wires
        <4>2. s.op = "wireApp"
          BY <4>1, StepFields
        <4>3. QED
          BY <3>1, <3>3, <4>1, <4>2 DEF StepKinds, Ops
      <3>4. QED
        BY <3>2, <3>3
    <2>7. QED
      BY <1>2, <2>1, <2>2, <2>3, <2>4, <2>5, <2>6 DEF StepsOf
  <1>3. QED
    BY <1>1, <1>2

\* The steps of every command.
LEMMA AllStepsAre == \A c \in Commands : StepsAre(c) /\ DistinctPuts(Steps(c))
  <1> TAKE c \in Commands
  <1>1. CASE c.kind = "module"
    BY <1>1, ModuleStepsAre
  <1>2. CASE c.kind # "module"
    <2>1. StepsAre(c)
      BY <1>2, CommandIs, PartStepsAre, OtherStepsAre
    <2>2. \A s \in StepsOf(c) : s.op # "put"
      BY <1>2, StepsHaveKinds DEF StepKinds
    <2>3. Steps(c) \in Seq(StepsOf(c))
      BY <2>1 DEF StepsAre, Block
    <2>4. QED
      BY <2>1, <2>2, <2>3, FewPuts
  <1>3. QED
    BY <1>1, <1>2

\* Every step reads and writes what steps of its kind do.
StepType(s) ==
    /\ s.op \in Ops
    /\ s.op \in {"make", "put"} =>
          s.path \in Paths /\ s.declares \subseteq LongPaths /\ s.flat \subseteq {s.path} \ {<<>>}
    /\ s.op = "declare" => s.home \in Paths /\ s.paths \subseteq LongPaths
    /\ s.op \in {"lib", "use", "import", "wireApp"} => s.path \in LongPaths
    /\ s.op = "wireApp" => s.list \in Lists
    /\ s.op = "wireFeature" =>
          /\ s.command \in Commands /\ FeatureLists(s) \subseteq Lists
          /\ \A list \in Lists : EntryOf(s.command, list) \in LongPaths

\* Where the templates put files.
LEMMA InIs ==
    ASSUME NEW f \in FolderNames, NEW k \in NodeKinds, NEW x \in Names
    PROVE  LET p == In(f, k, x)
           IN  /\ p \in LongPaths /\ Len(p) = 2 /\ Front(p) = Folder(f)
               /\ Last(p) = N(k, x) /\ Last(p).kind = k /\ Last(p).name = x /\ p[1] = N("folder", f)
  <1>1. N(k, x) \in Nodes /\ N(k, x).kind = k /\ N(k, x).name = x
    BY NodeIs
  <1>2. /\ Folder(f) \in Paths /\ Folder(f) # <<>> /\ Len(Folder(f)) = 1 /\ Folder(f)[1] = N("folder", f)
    BY FolderIs DEF LongPaths
  <1> DEFINE n == N(k, x)
             q == Folder(f) \o <<n>>
  <1>3. /\ q \in LongPaths /\ Len(q) = Len(Folder(f)) + 1 /\ Front(q) = Folder(f) /\ Last(q) = n
        /\ q[1] = Folder(f)[1]
    BY <1>1, <1>2, Extended
  <1>4. In(f, k, x) = q
    BY DEF In
  <1> HIDE DEF q
  <1>5. Len(q) = 2 /\ q[1] = N("folder", f) /\ Last(q).kind = k /\ Last(q).name = x
    BY <1>1, <1>2, <1>3
  <1>6. QED
    BY <1>3, <1>4, <1>5

\* The files of the folders that some generators create.
LEMMA ModsAre ==
    /\ Folder("ws") \in LongPaths /\ Folder("graphql") \in LongPaths /\ Folder("grpc") \in LongPaths
    /\ Folder("build") \in LongPaths /\ Folder("microservices") \in LongPaths
    /\ In("ws", "gateway", "events") \in LongPaths /\ In("graphql", "root", "schema") \in LongPaths
    /\ In("grpc", "root", "service") \in LongPaths /\ In("build", "proto", "greeter") \in LongPaths
    /\ In("microservices", "microservice", "app") \in LongPaths
    /\ \A op : /\ WsMod(op).op = op /\ WsMod(op).path = Folder("ws") /\ WsMod(op).flat = {}
               /\ WsMod(op).declares = {In("ws", "gateway", "events")}
               /\ GraphqlMod(op).op = op /\ GraphqlMod(op).path = Folder("graphql")
               /\ GraphqlMod(op).flat = {} /\ GraphqlMod(op).declares = {In("graphql", "root", "schema")}
               /\ GrpcMod(op).op = op /\ GrpcMod(op).path = Folder("grpc") /\ GrpcMod(op).flat = {}
               /\ GrpcMod(op).declares = {In("grpc", "root", "service")}
               /\ GrpcBuild(op).op = op /\ GrpcBuild(op).path = Folder("build") /\ GrpcBuild(op).flat = {}
               /\ GrpcBuild(op).declares = {Folder("build"), In("build", "proto", "greeter")}
  <1>1. {"ws", "graphql", "grpc", "build", "microservices"} \subseteq FolderNames
    BY DEF FolderNames
  <1>2. {"events", "schema", "service", "greeter", "app"} \subseteq Names
    BY DEF Names, OwnNames
  <1>3. {"gateway", "root", "proto", "microservice"} \subseteq NodeKinds
    BY PartFolders DEF NodeKinds
  <1>4. \A f \in FolderNames : Folder(f) \in LongPaths
    BY FolderIs
  <1>5. \A f \in FolderNames, k \in NodeKinds, x \in Names : In(f, k, x) \in LongPaths
    BY InIs
  <1>6. /\ In("ws", "gateway", "events") \in LongPaths /\ In("graphql", "root", "schema") \in LongPaths
        /\ In("grpc", "root", "service") \in LongPaths /\ In("build", "proto", "greeter") \in LongPaths
        /\ In("microservices", "microservice", "app") \in LongPaths
    BY <1>1, <1>2, <1>3, <1>5
  <1>7. QED
    BY <1>1, <1>4, <1>6, StepFields DEF WsMod, GraphqlMod, GrpcMod, GrpcBuild

\* The steps of every command have their types.
LEMMA StepsHaveTypes ==
    ASSUME NEW c \in Commands, NEW s \in StepsOf(c)
    PROVE  StepType(s)
  <1>1. StepKinds(c, s)
    BY StepsHaveKinds
  <1>2. s.op \in Ops
    BY <1>1 DEF StepKinds
  <1>3. c.name \in Names /\ c.flat \in BOOLEAN
    BY CommandIs
  <1>4. Feature(c.name) \in LongPaths /\ Feature(c.name) # <<>> /\ LongPaths \subseteq Paths
    BY <1>3, FeatureIs DEF LongPaths
  <1>5. \A part \in PartNames : PathOf(c, part) \in LongPaths /\ Dir(c, part) \in Paths
                                /\ Front(PathOf(c, part)) = Dir(c, part)
    BY PathIs, DirIs
  <1>6. c.kind # "module" => PartSet(c) \subseteq PartNames /\ UNION Groups(c) = PartSet(c)
    BY PartsAre
  <1>7. "controller" \in PartNames /\ "service" \in PartNames
    BY PartFolders
  <1>8. s.op = "make" => s.path \in Paths /\ s.declares \subseteq LongPaths /\ s.flat = {}
    <2> HAVE s.op = "make"
    <2>1. CASE s \in ModFiles(c)
      <3>1. s \in {WsMod("make"), GraphqlMod("make"), GrpcBuild("make"), GrpcMod("make"),
                   Make(Folder("microservices"), {})}
        <4>1. CASE c.kind \in {"gateway", "graphql", "grpc", "microservice"}
          BY <2>1, <4>1 DEF ModFiles
        <4>2. CASE c.kind \notin {"gateway", "graphql", "grpc", "microservice"}
          <5>1. ModFiles(c) = {}
            BY <4>2 DEF ModFiles
          <5>2. QED
            BY <2>1, <5>1
        <4>3. QED
          BY <4>1, <4>2
      <3>2. /\ Make(Folder("microservices"), {}).path = Folder("microservices")
            /\ Make(Folder("microservices"), {}).declares = {} /\ Make(Folder("microservices"), {}).flat = {}
        BY StepFields
      <3>3. CASE s \in {WsMod("make"), GraphqlMod("make")}
        BY <1>4, <3>3, ModsAre
      <3>4. CASE s \in {GrpcBuild("make"), GrpcMod("make")}
        BY <1>4, <3>4, ModsAre
      <3>5. CASE s = Make(Folder("microservices"), {})
        BY <1>4, <3>2, <3>5, ModsAre
      <3>6. QED
        BY <3>1, <3>3, <3>4, <3>5
    <2>2. CASE \E part \in PartSet(c) : s = Make(PathOf(c, part), {})
      <3>1. PICK part \in PartSet(c) : s = Make(PathOf(c, part), {})
        BY <2>2
      <3>2. c.kind # "module"
        BY <1>1 DEF StepKinds
      <3>3. PathOf(c, part) \in Paths
        BY <1>4, <1>5, <1>6, <3>2
      <3>4. QED
        BY <3>1, <3>3, StepFields
    <2>3. QED
      BY <1>1, <2>1, <2>2 DEF StepKinds
  <1>9. s.op = "put" => s.path \in Paths /\ s.declares \subseteq LongPaths /\ s.flat \subseteq {s.path} \ {<<>>}
    <2> HAVE s.op = "put"
    <2>1. s \in ModulePuts(c)
      BY <1>1 DEF StepKinds
    <2>2. \A p \in Within(Feature(c.name)) : p \in LongPaths
      BY <1>3, FeatureFolders
    <2>3. CASE s = PutFlat(Feature(c.name))
      BY <1>4, <2>3, StepFields
    <2>4. CASE s = Put(Feature(c.name), Within(Feature(c.name)))
      BY <1>4, <2>2, <2>4, StepFields
    <2>5. CASE \E p \in Within(Feature(c.name)) : s = Put(p, {})
      BY <1>4, <2>2, <2>5, StepFields
    <2>6. QED
      BY <2>1, <2>3, <2>4, <2>5 DEF ModulePuts
  <1>10. s.op = "declare" => s.home \in Paths /\ s.paths \subseteq LongPaths
    <2> HAVE s.op = "declare"
    <2>1. c.kind # "module" /\ \E parts \in Groups(c) : s = Declare(Home(c), PathsOf(c, parts))
      BY <1>1 DEF StepKinds
    <2>2. PICK parts \in Groups(c) : s = Declare(Home(c), PathsOf(c, parts))
      BY <2>1
    <2>3. s.home = Home(c) /\ s.paths = PathsOf(c, parts)
      BY <2>2, StepFields
    <2>4. parts \subseteq PartNames
      BY <1>6, <2>1
    <2>5. QED
      BY <1>5, <2>3, <2>4, HomeIs DEF PathsOf
  <1>11. s.op = "lib" => s.path \in LongPaths
    <2> HAVE s.op = "lib"
    <2>1. CASE c.kind = "module"
      BY <1>1, <1>4, <2>1, StepFields DEF StepKinds
    <2>2. CASE c.kind # "module"
      <3>1. PICK part \in PartSet(c) : s = Lib(IF c.flat THEN PathOf(c, part) ELSE Front(PathOf(c, part)))
        BY <1>1, <2>2 DEF StepKinds
      <3>2. part \in PartNames
        BY <1>6, <2>2
      <3>3. s.path = IF c.flat THEN PathOf(c, part) ELSE Dir(c, part)
        BY <1>5, <3>1, <3>2, StepFields
      <3>4. ~c.flat => Dir(c, part) \in LongPaths
        BY <3>2, DirIs DEF LongPaths
      <3>5. QED
        BY <1>5, <3>2, <3>3, <3>4
    <2>3. QED
      BY <2>1, <2>2
  <1>12. s.op \in {"use", "import"} => s.path \in LongPaths
    BY <1>1, <1>4, StepFields DEF StepKinds
  <1>13. s.op = "wireApp" => s.path \in LongPaths /\ s.list \in Lists
    <2> HAVE s.op = "wireApp"
    <2>1. \/ s = WireApp("controllers", PathOf(c, "controller"))
          \/ s = WireApp("providers", PathOf(c, "service"))
      BY <1>1 DEF StepKinds
    <2>2. QED
      BY <1>5, <1>7, <2>1, StepFields DEF Lists
  <1>14. s.op = "wireFeature" =>
            /\ s.command \in Commands /\ FeatureLists(s) \subseteq Lists
            /\ \A list \in Lists : EntryOf(s.command, list) \in LongPaths
    <2> HAVE s.op = "wireFeature"
    <2>1. s = WireFeature(c, ListsOf(c))
      BY <1>1 DEF StepKinds
    <2>2. s.command = c /\ s.lists = ListsOf(c)
      BY <2>1, StepFields
    <2>3. ListsOf(c) \subseteq Lists
      BY DEF ListsOf, Lists
    <2>4. \A list \in Lists : EntryOf(c, list) \in LongPaths
      BY <1>5, <1>7 DEF EntryOf
    <2>5. QED
      BY <2>2, <2>3, <2>4 DEF FeatureLists
  <1>15. QED
    BY <1>2, <1>8, <1>9, <1>10, <1>11, <1>12, <1>13, <1>14 DEF StepType

\* Puts written out.
LEMMA TwoPuts ==
    ASSUME NEW s, NEW t,
           s.path # t.path
    PROVE  DistinctPuts(<<s, t>>)
  <1> DEFINE q == <<s, t>>
  <1>1. Len(q) = 2 /\ q[1] = s /\ q[2] = t
    OBVIOUS
  <1> HIDE DEF q
  <1>2. DistinctPuts(q)
    BY <1>1 DEF DistinctPuts
  <1>3. QED
    BY <1>2 DEF q

\* The same of three,
LEMMA ThreePuts ==
    ASSUME NEW s, NEW t, NEW u,
           s.path # t.path, s.path # u.path, t.path # u.path
    PROVE  DistinctPuts(<<s, t, u>>)
  <1> DEFINE q == <<s, t, u>>
  <1>1. Len(q) = 3 /\ q[1] = s /\ q[2] = t /\ q[3] = u
    OBVIOUS
  <1> HIDE DEF q
  <1>2. DistinctPuts(q)
    BY <1>1 DEF DistinctPuts
  <1>3. QED
    BY <1>2 DEF q

\* of four,
LEMMA FourPuts ==
    ASSUME NEW s, NEW t, NEW u, NEW v,
           s.path # t.path, s.path # u.path, s.path # v.path, t.path # u.path, t.path # v.path,
           u.path # v.path
    PROVE  DistinctPuts(<<s, t, u, v>>)
  <1> DEFINE q == <<s, t, u, v>>
  <1>1. Len(q) = 4 /\ q[1] = s /\ q[2] = t /\ q[3] = u /\ q[4] = v
    OBVIOUS
  <1> HIDE DEF q
  <1>2. DistinctPuts(q)
    BY <1>1 DEF DistinctPuts
  <1>3. QED
    BY <1>2 DEF q

\* and of six.
LEMMA SixPuts ==
    ASSUME NEW s, NEW t, NEW u, NEW v, NEW w, NEW x,
           s.path # t.path, s.path # u.path, s.path # v.path, s.path # w.path, s.path # x.path,
           t.path # u.path, t.path # v.path, t.path # w.path, t.path # x.path, u.path # v.path,
           u.path # w.path, u.path # x.path, v.path # w.path, v.path # x.path, w.path # x.path
    PROVE  DistinctPuts(<<s, t, u, v, w, x>>)
  <1> DEFINE q == <<s, t, u, v, w, x>>
  <1>1. Len(q) = 6 /\ q[1] = s /\ q[2] = t /\ q[3] = u /\ q[4] = v /\ q[5] = w /\ q[6] = x
    OBVIOUS
  <1> HIDE DEF q
  <1>2. DistinctPuts(q)
    BY <1>1 DEF DistinctPuts
  <1>3. QED
    BY <1>2 DEF q

-----------------------------------------------------------------------------
(***************************************************************************)
(* The inductive invariant.                                                *)
(***************************************************************************)

Homes == {<<>>} \cup {Home(c) : c \in Commands}

\* What a file of src/ has where lib.rs declares it, by transport.
Declared(transport) ==
    (CASE transport = "Http" -> {Controller("app"), Service("app"), Controller("health"),
                                 Folder("guards"), Folder("interceptors")}
       [] transport = "Graphql" -> {Folder("graphql")}
       [] transport = "Grpc" -> {Folder("grpc")}
       [] transport = "Microservices" -> {Folder("microservices")}
       [] OTHER -> {Folder("ws")})
    \cup {<<N("root", "app_module")>>, <<N("root", "app_config")>>}

\* The files of nestforge new.
ScaffoldSet(transport) ==
    {Put(<<>>, Declared(transport)), Put(<<N("root", "app_module")>>, {}),
     Put(<<N("root", "app_config")>>, {})}
    \cup CASE transport = "Http" ->
                {Put(Service("app"), {}), Put(Controller("app"), {}), Put(Controller("health"), {}),
                 Put(Folder("guards"), {}), Put(Folder("filters"), {}), Put(Folder("interceptors"), {})}
           [] transport = "Graphql" ->
                {GraphqlMod("put"), Put(In("graphql", "root", "schema"), {})}
           [] transport = "Grpc" ->
                {GrpcBuild("put"), Put(In("build", "proto", "greeter"), {}), GrpcMod("put"),
                 Put(In("grpc", "root", "service"), {})}
           [] transport = "Microservices" ->
                {Put(Folder("microservices"), {In("microservices", "microservice", "app")}),
                 Put(In("microservices", "microservice", "app"), {})}
           [] OTHER -> {WsMod("put"), Put(In("ws", "gateway", "events"), {})}

StepsIn(r, transport) ==
    IF r = None THEN {} ELSE IF r = NewApp THEN ScaffoldSet(transport) ELSE StepsOf(r)

\* The folders that a declaration creates.
Nested(s) == {Front(p) : p \in s.paths} \ {s.home}

SameEnd(e, path) == EndsWith(Last(e).name, Last(path).name)

\* A step has left in the tree what it is for.
Done(t, s, transport) ==
    /\ s.op \in {"make", "put", "failUnless"} => s.path \in t.files
    /\ s.op = "put" => s.declares \subseteq t.declared /\ s.flat \subseteq t.flat
    /\ s.op = "declare" => \/ (s.paths \subseteq t.declared /\ Nested(s) \subseteq t.files)
                           \/ (Nested(s) = {} /\ s.home \in t.files \ t.flat)
    /\ s.op = "lib" => s.path \in t.declared
    /\ s.op = "use" => s.path \in t.uses
    /\ s.op = "import" => \E e \in Range(t.imports) : SameEnd(e, s.path)
    /\ s.op = "wireApp" => \/ \E e \in Range(t.lists[<<>>][s.list]) : e = s.path \/ SameEnd(e, s.path)
                           \/ (transport # "Http" /\ s.path \in t.uses)
    /\ s.op = "wireFeature" => \A list \in FeatureLists(s) :
                                  EntryOf(s.command, list) \in Range(t.lists[Home(s.command)][list])

\* A module is in the tree below another one, with the folder between them.
Has(t, path) == path \in t.files \cap t.declared
Under(t, home, path) ==
    Has(t, path) /\ (Front(path) = home \/ (Has(t, Front(path)) /\ Front(Front(path)) = home))

\* What the folders of a feature are until lib.rs declares it.
Pending(t, path) ==
    \E x \in Names : /\ Feature(x) \in t.files \ (t.flat \cup t.declared)
                     /\ path \in Within(Feature(x))

\* As Fits, but a feature that is not there has no layout yet.
FitsSo(c, t, transport) ==
    /\ c.kind = "grpc" => transport = "Grpc"
    /\ c.kind = "graphql" => transport = "Graphql"
    /\ c.kind = "gateway" => transport = "Websockets"
    /\ (c.module # None /\ Home(c) \in t.files) => (c.flat <=> Home(c) \in t.flat)
    /\ (c.module # None /\ ~c.flat) => c.kind = "resource"

\* What is true of the files of every tree ...
LaidOut(t) ==
    /\ \A p \in t.files : (p # <<>> /\ p[1].kind = "module") => <<p[1]>> \in t.files
    /\ \A x \in Names : Feature(x) \in t.files =>
          Feature(x) \in t.flat \/ Within(Feature(x)) \subseteq t.declared
    /\ <<>> \notin t.flat /\ t.flat \subseteq t.files

\* ... and of those of whole applications.
Sound(t) ==
    /\ \A p \in t.declared : p \in t.files \/ Pending(t, p)
    /\ \A p \in t.uses : Under(t, <<>>, p)
    /\ \A home \in Homes : \A list \in Lists : \A e \in Range(t.lists[home][list]) : Under(t, home, e)

OwnUses(transport) ==
    IF transport = "Http" THEN {Controller("health"), Controller("app"), Service("app")} ELSE {}

\* The template, before it is all there.
Partial(t, transport) ==
    /\ \A p \in t.declared : \E s \in ScaffoldSet(transport) : p \in s.declares
    /\ t.uses \subseteq OwnUses(transport)
    /\ \A home \in Homes : \A list \in Lists :
          Range(t.lists[home][list]) \subseteq IF home = <<>> THEN OwnUses(transport) ELSE {}

Tidy(entries) == \A i, j \in DOMAIN entries : Last(entries[i]) = Last(entries[j]) => i = j

AllDone(c) == \A s \in StepsOf(c) : Done(tree, s, app.transport)

PlanInv ==
    /\ running = None => plan = <<>>
    /\ app.state = "absent" => running = None /\ tree.files = {}
    /\ app.state = "partial" <=> running = NewApp
    /\ running \in Commands => running \in asked /\ InOrder(plan)
    /\ \A s \in StepsIn(running, app.transport) :
          \/ s \in Range(plan) \/ Done(tree, s, app.transport)
          \/ running.kind \in StopKinds /\ running \in interrupted /\ plan = <<>>
    /\ app.state = "whole" =>
          \A s \in ScaffoldSet(app.transport) : Done(tree, s, app.transport)

PutInv ==
    /\ tree.rewritten = {} /\ LaidOut(tree) /\ DistinctPuts(plan)
    /\ \A i \in 1..Len(plan) : plan[i].op = "put" =>
          plan[i].path \notin tree.files \/ plan[1].op = "failIf"

SoundInv ==
    /\ app.state # "whole" => Partial(tree, app.transport)
    /\ (app.state = "whole" /\ \A c \in asked : FitsSo(c, tree, app.transport)) => Sound(tree)
    /\ \A list \in Lists : Tidy(tree.lists[<<>>][list])

StopInv ==
    \A c \in Commands : (c.kind \in StopKinds /\ PathOf(c, c.kind) \in tree.files) =>
       \/ c \in interrupted \/ AllDone(c)
       \/ running = c /\ StopIf(PathOf(c, c.kind)) \notin Range(plan)

SuccessInv ==
    succeeded # None =>
       /\ app.state = "whole"
       /\ AllDone(succeeded) \/ (succeeded.kind \in StopKinds /\ succeeded \in interrupted)
-----------------------------------------------------------------------------
(***************************************************************************)
(* The files of nestforge new.                                             *)
(***************************************************************************)

AllTransports == {"Http", "Graphql", "Grpc", "Microservices", "Websockets"}

\* What the path of a file of a template is: never in a feature, never a file
\* that a generator looks for before it starts.
OwnPath(p) ==
    \/ p = <<>>
    \/ p \in LongPaths /\ p[1].kind # "module" /\ Last(p).kind \notin StopKinds

\* The modules in src/ of a template are its own.
LEMMA OwnNodes ==
    ASSUME NEW k \in {"root", "controller", "service", "folder"}, NEW x \in OwnNames \cup FolderNames
    PROVE  /\ OwnPath(<<N(k, x)>>) /\ <<N(k, x)>> \in LongPaths /\ Front(<<N(k, x)>>) = <<>>
           /\ Last(<<N(k, x)>>).kind = k /\ Last(<<N(k, x)>>).name = x /\ <<N(k, x)>> # <<>>
           /\ Last(<<N(k, x)>>) = N(k, x)
  <1>1. k \in NodeKinds /\ x \in Names
    BY PartFolders DEF NodeKinds, Names
  <1>2. N(k, x) \in Nodes /\ N(k, x).kind = k /\ N(k, x).name = x
    BY <1>1, NodeIs
  <1>3. <<N(k, x)>> \in LongPaths /\ Front(<<N(k, x)>>) = <<>> /\ Last(<<N(k, x)>>) = N(k, x)
        /\ <<N(k, x)>>[1] = N(k, x)
    BY <1>2, OneNode
  <1>4. k \notin StopKinds /\ k # "module"
    BY DEF StopKinds
  <1>5. <<N(k, x)>> # <<>>
    OBVIOUS
  <1>6. QED
    BY <1>2, <1>3, <1>4, <1>5 DEF OwnPath

\* So are those in its folders.
LEMMA OwnIns ==
    ASSUME NEW f \in FolderNames, NEW k \in {"root", "gateway", "proto", "microservice"}, NEW x \in OwnNames
    PROVE  /\ OwnPath(In(f, k, x)) /\ In(f, k, x) \in LongPaths /\ Front(In(f, k, x)) = Folder(f)
           /\ Last(In(f, k, x)).kind = k /\ Last(In(f, k, x)).name = x /\ In(f, k, x) # <<>>
  <1>1. k \in NodeKinds /\ x \in Names
    BY PartFolders DEF NodeKinds, Names
  <1>2. /\ In(f, k, x) \in LongPaths /\ Front(In(f, k, x)) = Folder(f)
        /\ Last(In(f, k, x)).kind = k /\ Last(In(f, k, x)).name = x /\ In(f, k, x)[1] = N("folder", f)
    BY <1>1, InIs
  <1>3. N("folder", f).kind = "folder"
    BY FolderIs
  <1>4. k \notin StopKinds
    BY DEF StopKinds
  <1>5. QED
    BY <1>2, <1>3, <1>4 DEF OwnPath, LongPaths

\* A path of the template that lib.rs declares, or that is in a folder.
PathTag(p, k, x) == OwnPath(p) /\ p \in LongPaths /\ p # <<>> /\ Last(p).kind = k /\ Last(p).name = x

\* All paths of the templates, told apart by their last nodes.
LEMMA OwnPaths ==
    /\ PathTag(<<N("root", "app_module")>>, "root", "app_module")
    /\ PathTag(<<N("root", "app_config")>>, "root", "app_config")
    /\ PathTag(Controller("app"), "controller", "app") /\ PathTag(Controller("health"), "controller", "health")
    /\ PathTag(Service("app"), "service", "app")
    /\ PathTag(Folder("guards"), "folder", "guards") /\ PathTag(Folder("filters"), "folder", "filters")
    /\ PathTag(Folder("interceptors"), "folder", "interceptors")
    /\ PathTag(Folder("ws"), "folder", "ws") /\ PathTag(Folder("graphql"), "folder", "graphql")
    /\ PathTag(Folder("grpc"), "folder", "grpc") /\ PathTag(Folder("build"), "folder", "build")
    /\ PathTag(Folder("microservices"), "folder", "microservices")
    /\ PathTag(In("ws", "gateway", "events"), "gateway", "events")
    /\ PathTag(In("graphql", "root", "schema"), "root", "schema")
    /\ PathTag(In("grpc", "root", "service"), "root", "service")
    /\ PathTag(In("build", "proto", "greeter"), "proto", "greeter")
    /\ PathTag(In("microservices", "microservice", "app"), "microservice", "app")
    /\ Front(Controller("app")) = <<>> /\ Front(Controller("health")) = <<>> /\ Front(Service("app")) = <<>>
    /\ Last(Controller("app")) # Last(Controller("health"))
  <1>1. {"ws", "graphql", "grpc", "build", "microservices", "guards", "filters", "interceptors"} \subseteq FolderNames
    BY DEF FolderNames
  <1>2. {"app", "health", "app_module", "app_config", "events", "schema", "service", "greeter"} \subseteq OwnNames
    BY DEF OwnNames
  <1>3. \A f \in FolderNames : PathTag(Folder(f), "folder", f)
    BY OwnNodes DEF PathTag, Folder
  <1>4. \A x \in OwnNames : /\ PathTag(Controller(x), "controller", x) /\ PathTag(Service(x), "service", x)
                            /\ PathTag(<<N("root", x)>>, "root", x)
                            /\ Front(Controller(x)) = <<>> /\ Front(Service(x)) = <<>>
    BY OwnNodes DEF PathTag, Controller, Service
  <1>5. \A f \in FolderNames, k \in {"root", "gateway", "proto", "microservice"}, x \in OwnNames :
            PathTag(In(f, k, x), k, x)
    BY OwnIns DEF PathTag
  <1>6. /\ PathTag(In("ws", "gateway", "events"), "gateway", "events")
        /\ PathTag(In("graphql", "root", "schema"), "root", "schema")
        /\ PathTag(In("grpc", "root", "service"), "root", "service")
        /\ PathTag(In("build", "proto", "greeter"), "proto", "greeter")
        /\ PathTag(In("microservices", "microservice", "app"), "microservice", "app")
    BY <1>1, <1>2, <1>5
  <1>7. /\ PathTag(<<N("root", "app_module")>>, "root", "app_module")
        /\ PathTag(<<N("root", "app_config")>>, "root", "app_config")
        /\ PathTag(Controller("app"), "controller", "app") /\ PathTag(Controller("health"), "controller", "health")
        /\ PathTag(Service("app"), "service", "app")
        /\ Front(Controller("app")) = <<>> /\ Front(Controller("health")) = <<>> /\ Front(Service("app")) = <<>>
    BY <1>2, <1>4
  <1>8. Last(Controller("app")) # Last(Controller("health"))
    BY <1>7 DEF PathTag
  <1>9. QED
    BY <1>1, <1>3, <1>6, <1>7, <1>8

\* What they are put with.
LEMMA OwnPuts ==
    \A p, d : Put(p, d).path = p /\ Put(p, d).op = "put" /\ Put(p, d).flat = {} /\ Put(p, d).declares = d
  BY StepFields

\* The list of its files, by transport.
LEMMA ScaffoldIs ==
    ASSUME app.transport \in AllTransports
    PROVE  /\ Scaffold \in Seq(ScaffoldSet(app.transport)) /\ Range(Scaffold) = ScaffoldSet(app.transport)
           /\ DistinctPuts(Scaffold)
  <1> DEFINE root == Put(<<>>, Declared(app.transport))
             module == Put(<<N("root", "app_module")>>, {})
             config == Put(<<N("root", "app_config")>>, {})
             start == <<root, module, config>>
             startSet == {root, module, config}
  <1>1. LibDeclares = Declared(app.transport)
    <2>1. CASE app.transport = "Http"
      BY <2>1 DEF LibDeclares, Declared
    <2>2. CASE app.transport = "Graphql"
      BY <2>2 DEF LibDeclares, Declared
    <2>3. CASE app.transport = "Grpc"
      BY <2>3 DEF LibDeclares, Declared
    <2>4. CASE app.transport = "Microservices"
      BY <2>4 DEF LibDeclares, Declared
    <2>5. CASE app.transport = "Websockets"
      BY <2>5 DEF LibDeclares, Declared
    <2>6. QED
      BY <2>1, <2>2, <2>3, <2>4, <2>5 DEF AllTransports
  <1>2. Scaffold = start \o TransportFiles
    BY <1>1 DEF Scaffold
  <1>3. /\ root.path = <<>> /\ module.path = <<N("root", "app_module")>> /\ config.path = <<N("root", "app_config")>>
    BY OwnPuts
  <1>4. /\ PathTag(module.path, "root", "app_module") /\ PathTag(config.path, "root", "app_config")
    BY <1>3, OwnPaths
  <1> HIDE DEF root, module, config
  <1>5. start \in Seq(startSet) /\ Range(start) = startSet
    BY ThreeSteps
  <1>6. DistinctPuts(start)
    <2>1. root.path # module.path /\ root.path # config.path /\ module.path # config.path
      BY <1>3, <1>4 DEF PathTag
    <2>2. QED
      BY <2>1, ThreePuts
  <1>7. ASSUME NEW T, NEW t, t \in Seq(T), Range(t) = T, DistinctPuts(t), TransportFiles = t,
               ScaffoldSet(app.transport) = startSet \cup T,
               \A y \in T : \E k, x : PathTag(y.path, k, x) /\ (k = "root" => x \notin {"app_module", "app_config"})
        PROVE  /\ Scaffold \in Seq(ScaffoldSet(app.transport)) /\ Range(Scaffold) = ScaffoldSet(app.transport)
               /\ DistinctPuts(Scaffold)
    <2>1. \A y \in T : y.path # root.path /\ y.path # module.path /\ y.path # config.path
      <3> TAKE y \in T
      <3>1. PICK k, x : PathTag(y.path, k, x) /\ (k = "root" => x \notin {"app_module", "app_config"})
        BY <1>7
      <3>2. QED
        BY <1>3, <1>4, <3>1 DEF PathTag
    <2>2. \A z \in startSet, y \in T : z.op = "put" /\ y.op = "put" => z.path # y.path
      BY <2>1
    <2> HIDE DEF start, startSet
    <2>3. DistinctPuts(start \o t)
      BY <1>5, <1>6, <1>7, <2>2, JoinedPuts
    <2>4. start \o t \in Seq(startSet \cup T)
      BY <1>5, <1>7, Joined
    <2>5. Range(start \o t) = startSet \cup T
      <3>1. Range(start \o t) = Range(start) \cup Range(t)
        BY <1>5, <1>7, JoinedRange
      <3>2. QED
        BY <1>5, <1>7, <3>1
    <2>6. QED
      BY <1>2, <1>7, <2>3, <2>4, <2>5
  <1>8. CASE app.transport = "Http"
    <2> DEFINE a == Put(Service("app"), {})
               b == Put(Controller("app"), {})
               c == Put(Controller("health"), {})
               d == Put(Folder("guards"), {})
               e == Put(Folder("filters"), {})
               f == Put(Folder("interceptors"), {})
               t == <<a, b, c, d, e, f>>
               T == {a, b, c, d, e, f}
    <2>1. TransportFiles = t
      BY <1>8 DEF TransportFiles
    <2>2. ScaffoldSet(app.transport) = startSet \cup T
      BY <1>8 DEF ScaffoldSet, root, module, config
    <2>3. /\ PathTag(a.path, "service", "app") /\ PathTag(b.path, "controller", "app")
          /\ PathTag(c.path, "controller", "health") /\ PathTag(d.path, "folder", "guards")
          /\ PathTag(e.path, "folder", "filters") /\ PathTag(f.path, "folder", "interceptors")
      BY OwnPuts, OwnPaths
    <2> HIDE DEF a, b, c, d, e, f
    <2>4. t \in Seq(T) /\ Range(t) = T
      BY SixSteps
    <2>5. DistinctPuts(t)
      <3>1. /\ a.path # b.path /\ a.path # c.path /\ a.path # d.path /\ a.path # e.path /\ a.path # f.path
            /\ b.path # c.path /\ b.path # d.path /\ b.path # e.path /\ b.path # f.path
            /\ c.path # d.path /\ c.path # e.path /\ c.path # f.path
            /\ d.path # e.path /\ d.path # f.path /\ e.path # f.path
        BY <2>3 DEF PathTag
      <3>2. QED
        BY <3>1, SixPuts
    <2>6. \A y \in T : \E k, x : PathTag(y.path, k, x) /\ (k = "root" => x \notin {"app_module", "app_config"})
      BY <2>3
    <2> HIDE DEF t, T
    <2>7. QED
      BY <1>7, <2>1, <2>2, <2>4, <2>5, <2>6
  <1>9. CASE app.transport = "Graphql"
    <2> DEFINE a == GraphqlMod("put")
               b == Put(In("graphql", "root", "schema"), {})
               t == <<a, b>>
               T == {a, b}
    <2>1. TransportFiles = t
      BY <1>9 DEF TransportFiles
    <2>2. ScaffoldSet(app.transport) = startSet \cup T
      BY <1>9 DEF ScaffoldSet, root, module, config
    <2>3. PathTag(a.path, "folder", "graphql") /\ PathTag(b.path, "root", "schema")
      BY OwnPuts, OwnPaths, ModsAre
    <2> HIDE DEF a, b
    <2>4. t \in Seq(T) /\ Range(t) = T
      BY TwoSteps
    <2>5. DistinctPuts(t)
      <3>1. a.path # b.path
        BY <2>3 DEF PathTag
      <3>2. QED
        BY <3>1, TwoPuts
    <2>6. \A y \in T : \E k, x : PathTag(y.path, k, x) /\ (k = "root" => x \notin {"app_module", "app_config"})
      BY <2>3
    <2> HIDE DEF t, T
    <2>7. QED
      BY <1>7, <2>1, <2>2, <2>4, <2>5, <2>6
  <1>10. CASE app.transport = "Grpc"
    <2> DEFINE a == GrpcBuild("put")
               b == Put(In("build", "proto", "greeter"), {})
               c == GrpcMod("put")
               d == Put(In("grpc", "root", "service"), {})
               t == <<a, b, c, d>>
               T == {a, b, c, d}
    <2>1. TransportFiles = t
      BY <1>10 DEF TransportFiles
    <2>2. ScaffoldSet(app.transport) = startSet \cup T
      BY <1>10 DEF ScaffoldSet, root, module, config
    <2>3. /\ PathTag(a.path, "folder", "build") /\ PathTag(b.path, "proto", "greeter")
          /\ PathTag(c.path, "folder", "grpc") /\ PathTag(d.path, "root", "service")
      BY OwnPuts, OwnPaths, ModsAre
    <2> HIDE DEF a, b, c, d
    <2>4. t \in Seq(T) /\ Range(t) = T
      BY FourSteps
    <2>5. DistinctPuts(t)
      <3>1. /\ a.path # b.path /\ a.path # c.path /\ a.path # d.path
            /\ b.path # c.path /\ b.path # d.path /\ c.path # d.path
        BY <2>3 DEF PathTag
      <3>2. QED
        BY <3>1, FourPuts
    <2>6. \A y \in T : \E k, x : PathTag(y.path, k, x) /\ (k = "root" => x \notin {"app_module", "app_config"})
      BY <2>3
    <2> HIDE DEF t, T
    <2>7. QED
      BY <1>7, <2>1, <2>2, <2>4, <2>5, <2>6
  <1>11. CASE app.transport = "Microservices"
    <2> DEFINE a == Put(Folder("microservices"), {In("microservices", "microservice", "app")})
               b == Put(In("microservices", "microservice", "app"), {})
               t == <<a, b>>
               T == {a, b}
    <2>1. TransportFiles = t
      BY <1>11 DEF TransportFiles
    <2>2. ScaffoldSet(app.transport) = startSet \cup T
      BY <1>11 DEF ScaffoldSet, root, module, config
    <2>3. PathTag(a.path, "folder", "microservices") /\ PathTag(b.path, "microservice", "app")
      BY OwnPuts, OwnPaths
    <2> HIDE DEF a, b
    <2>4. t \in Seq(T) /\ Range(t) = T
      BY TwoSteps
    <2>5. DistinctPuts(t)
      <3>1. a.path # b.path
        BY <2>3 DEF PathTag
      <3>2. QED
        BY <3>1, TwoPuts
    <2>6. \A y \in T : \E k, x : PathTag(y.path, k, x) /\ (k = "root" => x \notin {"app_module", "app_config"})
      BY <2>3
    <2> HIDE DEF t, T
    <2>7. QED
      BY <1>7, <2>1, <2>2, <2>4, <2>5, <2>6
  <1>12. CASE app.transport = "Websockets"
    <2> DEFINE a == WsMod("put")
               b == Put(In("ws", "gateway", "events"), {})
               t == <<a, b>>
               T == {a, b}
    <2>1. TransportFiles = t
      BY <1>12 DEF TransportFiles
    <2>2. ScaffoldSet(app.transport) = startSet \cup T
      BY <1>12 DEF ScaffoldSet, root, module, config
    <2>3. PathTag(a.path, "folder", "ws") /\ PathTag(b.path, "gateway", "events")
      BY OwnPuts, OwnPaths, ModsAre
    <2> HIDE DEF a, b
    <2>4. t \in Seq(T) /\ Range(t) = T
      BY TwoSteps
    <2>5. DistinctPuts(t)
      <3>1. a.path # b.path
        BY <2>3 DEF PathTag
      <3>2. QED
        BY <3>1, TwoPuts
    <2>6. \A y \in T : \E k, x : PathTag(y.path, k, x) /\ (k = "root" => x \notin {"app_module", "app_config"})
      BY <2>3
    <2> HIDE DEF t, T
    <2>7. QED
      BY <1>7, <2>1, <2>2, <2>4, <2>5, <2>6
  <1>13. QED
    BY <1>8, <1>9, <1>10, <1>11, <1>12 DEF AllTransports

\* The files themselves: what is declared is put.
LEMMA ScaffoldSteps ==
    ASSUME NEW tr \in AllTransports
    PROVE  /\ \A s \in ScaffoldSet(tr) :
                 /\ s.op = "put" /\ s.flat = {} /\ OwnPath(s.path) /\ StepType(s)
                 /\ \A p \in s.declares : \E u \in ScaffoldSet(tr) : u.path = p
           /\ \E s \in ScaffoldSet(tr) : s.path = <<>> /\ s.declares = Declared(tr)
           /\ \A p \in OwnUses(tr) : /\ p \in Declared(tr) /\ p \in LongPaths /\ Front(p) = <<>>
                                     /\ \E u \in ScaffoldSet(tr) : u.path = p
           /\ tr = "Websockets" => \E u \in ScaffoldSet(tr) : u.path = Folder("ws")
           /\ tr = "Graphql" => /\ Folder("graphql") \in Declared(tr)
                                /\ \E u \in ScaffoldSet(tr) : u.path = Folder("graphql")
           /\ tr = "Grpc" => /\ Folder("grpc") \in Declared(tr)
                             /\ \E u \in ScaffoldSet(tr) : u.path = Folder("grpc")
                             /\ \E u \in ScaffoldSet(tr) : u.path = Folder("build") /\ Folder("build") \in u.declares
  <1> DEFINE S == ScaffoldSet(tr)
             root == Put(<<>>, Declared(tr))
             module == Put(<<N("root", "app_module")>>, {})
             config == Put(<<N("root", "app_config")>>, {})
             Good(s) == /\ s.op = "put" /\ s.flat = {} /\ OwnPath(s.path) /\ StepType(s)
                        /\ \A p \in s.declares : \E u \in S : u.path = p
  <1>1. ASSUME NEW p, NEW d, OwnPath(p), d \subseteq LongPaths, \A q \in d : \E u \in S : u.path = q
        PROVE  Good(Put(p, d)) /\ \A s : (s.op = "put" /\ s.flat = {} /\ s.path = p /\ s.declares = d) => Good(s)
    <2>1. p \in Paths
      <3>1. <<>> \in Paths
        BY DEF Paths
      <3>2. QED
        BY <1>1, <3>1 DEF OwnPath, LongPaths
    <2> HIDE DEF S
    <2>2. \A s : (s.op = "put" /\ s.flat = {} /\ s.path = p /\ s.declares = d) => Good(s)
      BY <1>1, <2>1 DEF StepType, Ops
    <2> HIDE DEF Good
    <2>3. QED
      BY <2>2, OwnPuts
  <1>2. root \in S /\ module \in S /\ config \in S
    BY DEF ScaffoldSet
  <1>3. root.path = <<>> /\ root.declares = Declared(tr)
        /\ module.path = <<N("root", "app_module")>> /\ config.path = <<N("root", "app_config")>>
    BY OwnPuts
  <1>4. ASSUME \A q \in Declared(tr) : q \in LongPaths /\ \E u \in S : u.path = q
        PROVE  Good(root) /\ Good(module) /\ Good(config)
    <2>1. OwnPath(<<>>) /\ OwnPath(<<N("root", "app_module")>>) /\ OwnPath(<<N("root", "app_config")>>)
      BY OwnPaths DEF OwnPath, PathTag
    <2> HIDE DEF S, Good
    <2>2. Good(root)
      BY <1>1, <1>4, <2>1
    <2>3. Good(module) /\ Good(config)
      BY <1>1, <2>1
    <2>4. QED
      BY <2>2, <2>3
  <1>5. CASE tr = "Http"
    <2> DEFINE a == Put(Service("app"), {})
               b == Put(Controller("app"), {})
               c == Put(Controller("health"), {})
               d == Put(Folder("guards"), {})
               e == Put(Folder("filters"), {})
               f == Put(Folder("interceptors"), {})
    <2>1. S = {root, module, config, a, b, c, d, e, f}
      BY <1>5 DEF ScaffoldSet
    <2>2. /\ Declared(tr) = {Controller("app"), Service("app"), Controller("health"), Folder("guards"), Folder("interceptors"),
                          <<N("root", "app_module")>>, <<N("root", "app_config")>>}
          /\ OwnUses(tr) = {Controller("health"), Controller("app"), Service("app")}
      BY <1>5 DEF Declared, OwnUses
    <2>3. /\ a.op = "put" /\ a.path = Service("app") /\ a.declares = {} /\ a.flat = {}
          /\ b.op = "put" /\ b.path = Controller("app") /\ b.declares = {} /\ b.flat = {}
          /\ c.op = "put" /\ c.path = Controller("health") /\ c.declares = {} /\ c.flat = {}
          /\ d.op = "put" /\ d.path = Folder("guards") /\ d.declares = {} /\ d.flat = {}
          /\ e.op = "put" /\ e.path = Folder("filters") /\ e.declares = {} /\ e.flat = {}
          /\ f.op = "put" /\ f.path = Folder("interceptors") /\ f.declares = {} /\ f.flat = {}
      BY OwnPuts, ModsAre
    <2> HIDE DEF a, b, c, d, e, f, S, Good, root, module, config
    <2>4. root \in S /\ module \in S /\ config \in S /\ a \in S /\ b \in S /\ c \in S /\ d \in S /\ e \in S /\ f \in S
      BY <2>1
    <2>5. \A q \in Declared(tr) : q \in LongPaths /\ \E u \in S : u.path = q
      BY <1>3, <2>2, <2>3, <2>4, OwnPaths DEF PathTag
    <2>6. \A s \in S : Good(s)
      <3>1. Good(root) /\ Good(module) /\ Good(config)
        BY <1>4, <2>5
      <3>2. Good(a)
        <4>1. OwnPath(a.path) /\ a.declares \subseteq LongPaths
          BY <2>3, OwnPaths DEF PathTag
        <4>2. \A q \in a.declares : \E u \in S : u.path = q
          BY <2>3, <2>4
        <4>3. QED
          BY <1>1, <2>3, <4>1, <4>2
      <3>3. Good(b)
        <4>1. OwnPath(b.path) /\ b.declares \subseteq LongPaths
          BY <2>3, OwnPaths DEF PathTag
        <4>2. \A q \in b.declares : \E u \in S : u.path = q
          BY <2>3, <2>4
        <4>3. QED
          BY <1>1, <2>3, <4>1, <4>2
      <3>4. Good(c)
        <4>1. OwnPath(c.path) /\ c.declares \subseteq LongPaths
          BY <2>3, OwnPaths DEF PathTag
        <4>2. \A q \in c.declares : \E u \in S : u.path = q
          BY <2>3, <2>4
        <4>3. QED
          BY <1>1, <2>3, <4>1, <4>2
      <3>5. Good(d)
        <4>1. OwnPath(d.path) /\ d.declares \subseteq LongPaths
          BY <2>3, OwnPaths DEF PathTag
        <4>2. \A q \in d.declares : \E u \in S : u.path = q
          BY <2>3, <2>4
        <4>3. QED
          BY <1>1, <2>3, <4>1, <4>2
      <3>6. Good(e)
        <4>1. OwnPath(e.path) /\ e.declares \subseteq LongPaths
          BY <2>3, OwnPaths DEF PathTag
        <4>2. \A q \in e.declares : \E u \in S : u.path = q
          BY <2>3, <2>4
        <4>3. QED
          BY <1>1, <2>3, <4>1, <4>2
      <3>7. Good(f)
        <4>1. OwnPath(f.path) /\ f.declares \subseteq LongPaths
          BY <2>3, OwnPaths DEF PathTag
        <4>2. \A q \in f.declares : \E u \in S : u.path = q
          BY <2>3, <2>4
        <4>3. QED
          BY <1>1, <2>3, <4>1, <4>2
      <3>8. QED
        BY <2>1, <3>1, <3>2, <3>3, <3>4, <3>5, <3>6, <3>7
    <2>7. \A p \in OwnUses(tr) : /\ p \in Declared(tr) /\ p \in LongPaths /\ Front(p) = <<>>
                                    /\ \E u \in S : u.path = p
      BY <2>2, <2>5, OwnPaths DEF PathTag
    <2>8. QED
      BY <1>5, <1>3, <2>4, <2>6, <2>7 DEF S, Good
  <1>6. CASE tr = "Graphql"
    <2> DEFINE a == GraphqlMod("put")
               b == Put(In("graphql", "root", "schema"), {})
    <2>1. S = {root, module, config, a, b}
      BY <1>6 DEF ScaffoldSet
    <2>2. /\ Declared(tr) = {Folder("graphql"),
                          <<N("root", "app_module")>>, <<N("root", "app_config")>>}
          /\ OwnUses(tr) = {}
      BY <1>6 DEF Declared, OwnUses
    <2>3. /\ a.op = "put" /\ a.path = Folder("graphql") /\ a.declares = {In("graphql", "root", "schema")} /\ a.flat = {}
          /\ b.op = "put" /\ b.path = In("graphql", "root", "schema") /\ b.declares = {} /\ b.flat = {}
      BY OwnPuts, ModsAre
    <2> HIDE DEF a, b, S, Good, root, module, config
    <2>4. root \in S /\ module \in S /\ config \in S /\ a \in S /\ b \in S
      BY <2>1
    <2>5. \A q \in Declared(tr) : q \in LongPaths /\ \E u \in S : u.path = q
      BY <1>3, <2>2, <2>3, <2>4, OwnPaths DEF PathTag
    <2>6. \A s \in S : Good(s)
      <3>1. Good(root) /\ Good(module) /\ Good(config)
        BY <1>4, <2>5
      <3>2. Good(a)
        <4>1. OwnPath(a.path) /\ a.declares \subseteq LongPaths
          BY <2>3, OwnPaths DEF PathTag
        <4>2. \A q \in a.declares : \E u \in S : u.path = q
          BY <2>3, <2>4
        <4>3. QED
          BY <1>1, <2>3, <4>1, <4>2
      <3>3. Good(b)
        <4>1. OwnPath(b.path) /\ b.declares \subseteq LongPaths
          BY <2>3, OwnPaths DEF PathTag
        <4>2. \A q \in b.declares : \E u \in S : u.path = q
          BY <2>3, <2>4
        <4>3. QED
          BY <1>1, <2>3, <4>1, <4>2
      <3>4. QED
        BY <2>1, <3>1, <3>2, <3>3
    <2>7. \A p \in OwnUses(tr) : /\ p \in Declared(tr) /\ p \in LongPaths /\ Front(p) = <<>>
                                    /\ \E u \in S : u.path = p
      BY <2>2, <2>5, OwnPaths DEF PathTag
    <2>8. Folder("graphql") \in Declared(tr) /\ \E u \in S : u.path = Folder("graphql")
      BY <2>2, <2>3, <2>4
    <2>9. QED
      BY <1>6, <1>3, <2>4, <2>6, <2>7, <2>8 DEF S, Good
  <1>7. CASE tr = "Grpc"
    <2> DEFINE a == GrpcBuild("put")
               b == Put(In("build", "proto", "greeter"), {})
               c == GrpcMod("put")
               d == Put(In("grpc", "root", "service"), {})
    <2>1. S = {root, module, config, a, b, c, d}
      BY <1>7 DEF ScaffoldSet
    <2>2. /\ Declared(tr) = {Folder("grpc"),
                          <<N("root", "app_module")>>, <<N("root", "app_config")>>}
          /\ OwnUses(tr) = {}
      BY <1>7 DEF Declared, OwnUses
    <2>3. /\ a.op = "put" /\ a.path = Folder("build") /\ a.declares = {Folder("build"), In("build", "proto", "greeter")} /\ a.flat = {}
          /\ b.op = "put" /\ b.path = In("build", "proto", "greeter") /\ b.declares = {} /\ b.flat = {}
          /\ c.op = "put" /\ c.path = Folder("grpc") /\ c.declares = {In("grpc", "root", "service")} /\ c.flat = {}
          /\ d.op = "put" /\ d.path = In("grpc", "root", "service") /\ d.declares = {} /\ d.flat = {}
      BY OwnPuts, ModsAre
    <2> HIDE DEF a, b, c, d, S, Good, root, module, config
    <2>4. root \in S /\ module \in S /\ config \in S /\ a \in S /\ b \in S /\ c \in S /\ d \in S
      BY <2>1
    <2>5. \A q \in Declared(tr) : q \in LongPaths /\ \E u \in S : u.path = q
      BY <1>3, <2>2, <2>3, <2>4, OwnPaths DEF PathTag
    <2>6. \A s \in S : Good(s)
      <3>1. Good(root) /\ Good(module) /\ Good(config)
        BY <1>4, <2>5
      <3>2. Good(a)
        <4>1. OwnPath(a.path) /\ a.declares \subseteq LongPaths
          BY <2>3, OwnPaths DEF PathTag
        <4>2. \A q \in a.declares : \E u \in S : u.path = q
          BY <2>3, <2>4
        <4>3. QED
          BY <1>1, <2>3, <4>1, <4>2
      <3>3. Good(b)
        <4>1. OwnPath(b.path) /\ b.declares \subseteq LongPaths
          BY <2>3, OwnPaths DEF PathTag
        <4>2. \A q \in b.declares : \E u \in S : u.path = q
          BY <2>3, <2>4
        <4>3. QED
          BY <1>1, <2>3, <4>1, <4>2
      <3>4. Good(c)
        <4>1. OwnPath(c.path) /\ c.declares \subseteq LongPaths
          BY <2>3, OwnPaths DEF PathTag
        <4>2. \A q \in c.declares : \E u \in S : u.path = q
          BY <2>3, <2>4
        <4>3. QED
          BY <1>1, <2>3, <4>1, <4>2
      <3>5. Good(d)
        <4>1. OwnPath(d.path) /\ d.declares \subseteq LongPaths
          BY <2>3, OwnPaths DEF PathTag
        <4>2. \A q \in d.declares : \E u \in S : u.path = q
          BY <2>3, <2>4
        <4>3. QED
          BY <1>1, <2>3, <4>1, <4>2
      <3>6. QED
        BY <2>1, <3>1, <3>2, <3>3, <3>4, <3>5
    <2>7. \A p \in OwnUses(tr) : /\ p \in Declared(tr) /\ p \in LongPaths /\ Front(p) = <<>>
                                    /\ \E u \in S : u.path = p
      BY <2>2, <2>5, OwnPaths DEF PathTag
    <2>8. /\ Folder("grpc") \in Declared(tr) /\ \E u \in S : u.path = Folder("grpc")
          /\ \E u \in S : u.path = Folder("build") /\ Folder("build") \in u.declares
      BY <2>2, <2>3, <2>4
    <2>9. QED
      BY <1>7, <1>3, <2>4, <2>6, <2>7, <2>8 DEF S, Good
  <1>8. CASE tr = "Microservices"
    <2> DEFINE a == Put(Folder("microservices"), {In("microservices", "microservice", "app")})
               b == Put(In("microservices", "microservice", "app"), {})
    <2>1. S = {root, module, config, a, b}
      BY <1>8 DEF ScaffoldSet
    <2>2. /\ Declared(tr) = {Folder("microservices"),
                          <<N("root", "app_module")>>, <<N("root", "app_config")>>}
          /\ OwnUses(tr) = {}
      BY <1>8 DEF Declared, OwnUses
    <2>3. /\ a.op = "put" /\ a.path = Folder("microservices") /\ a.declares = {In("microservices", "microservice", "app")} /\ a.flat = {}
          /\ b.op = "put" /\ b.path = In("microservices", "microservice", "app") /\ b.declares = {} /\ b.flat = {}
      BY OwnPuts, ModsAre
    <2> HIDE DEF a, b, S, Good, root, module, config
    <2>4. root \in S /\ module \in S /\ config \in S /\ a \in S /\ b \in S
      BY <2>1
    <2>5. \A q \in Declared(tr) : q \in LongPaths /\ \E u \in S : u.path = q
      BY <1>3, <2>2, <2>3, <2>4, OwnPaths DEF PathTag
    <2>6. \A s \in S : Good(s)
      <3>1. Good(root) /\ Good(module) /\ Good(config)
        BY <1>4, <2>5
      <3>2. Good(a)
        <4>1. OwnPath(a.path) /\ a.declares \subseteq LongPaths
          BY <2>3, OwnPaths DEF PathTag
        <4>2. \A q \in a.declares : \E u \in S : u.path = q
          BY <2>3, <2>4
        <4>3. QED
          BY <1>1, <2>3, <4>1, <4>2
      <3>3. Good(b)
        <4>1. OwnPath(b.path) /\ b.declares \subseteq LongPaths
          BY <2>3, OwnPaths DEF PathTag
        <4>2. \A q \in b.declares : \E u \in S : u.path = q
          BY <2>3, <2>4
        <4>3. QED
          BY <1>1, <2>3, <4>1, <4>2
      <3>4. QED
        BY <2>1, <3>1, <3>2, <3>3
    <2>7. \A p \in OwnUses(tr) : /\ p \in Declared(tr) /\ p \in LongPaths /\ Front(p) = <<>>
                                    /\ \E u \in S : u.path = p
      BY <2>2, <2>5, OwnPaths DEF PathTag
    <2>8. QED
      BY <1>8, <1>3, <2>4, <2>6, <2>7 DEF S, Good
  <1>9. CASE tr = "Websockets"
    <2> DEFINE a == WsMod("put")
               b == Put(In("ws", "gateway", "events"), {})
    <2>1. S = {root, module, config, a, b}
      BY <1>9 DEF ScaffoldSet
    <2>2. /\ Declared(tr) = {Folder("ws"),
                          <<N("root", "app_module")>>, <<N("root", "app_config")>>}
          /\ OwnUses(tr) = {}
      BY <1>9 DEF Declared, OwnUses
    <2>3. /\ a.op = "put" /\ a.path = Folder("ws") /\ a.declares = {In("ws", "gateway", "events")} /\ a.flat = {}
          /\ b.op = "put" /\ b.path = In("ws", "gateway", "events") /\ b.declares = {} /\ b.flat = {}
      BY OwnPuts, ModsAre
    <2> HIDE DEF a, b, S, Good, root, module, config
    <2>4. root \in S /\ module \in S /\ config \in S /\ a \in S /\ b \in S
      BY <2>1
    <2>5. \A q \in Declared(tr) : q \in LongPaths /\ \E u \in S : u.path = q
      BY <1>3, <2>2, <2>3, <2>4, OwnPaths DEF PathTag
    <2>6. \A s \in S : Good(s)
      <3>1. Good(root) /\ Good(module) /\ Good(config)
        BY <1>4, <2>5
      <3>2. Good(a)
        <4>1. OwnPath(a.path) /\ a.declares \subseteq LongPaths
          BY <2>3, OwnPaths DEF PathTag
        <4>2. \A q \in a.declares : \E u \in S : u.path = q
          BY <2>3, <2>4
        <4>3. QED
          BY <1>1, <2>3, <4>1, <4>2
      <3>3. Good(b)
        <4>1. OwnPath(b.path) /\ b.declares \subseteq LongPaths
          BY <2>3, OwnPaths DEF PathTag
        <4>2. \A q \in b.declares : \E u \in S : u.path = q
          BY <2>3, <2>4
        <4>3. QED
          BY <1>1, <2>3, <4>1, <4>2
      <3>4. QED
        BY <2>1, <3>1, <3>2, <3>3
    <2>7. \A p \in OwnUses(tr) : /\ p \in Declared(tr) /\ p \in LongPaths /\ Front(p) = <<>>
                                    /\ \E u \in S : u.path = p
      BY <2>2, <2>5, OwnPaths DEF PathTag
    <2>8. \E u \in S : u.path = Folder("ws")
      BY <2>2, <2>3, <2>4
    <2>9. QED
      BY <1>9, <1>3, <2>4, <2>6, <2>7, <2>8 DEF S, Good
  <1>10. QED
    BY <1>5, <1>6, <1>7, <1>8, <1>9 DEF AllTransports
-----------------------------------------------------------------------------
(***************************************************************************)
(* What a step does to the tree.                                           *)
(***************************************************************************)

Trees == [files : SUBSET Paths, declared : SUBSET LongPaths, rewritten : SUBSET Paths,
          flat : SUBSET Paths, imports : Seq(LongPaths), uses : SUBSET LongPaths,
          lists : [Homes -> [Lists -> Seq(LongPaths)]]]

\* Nothing is taken back, and the layout of a feature is settled with its file.
Grows(t, u) ==
    /\ t.files \subseteq u.files /\ t.declared \subseteq u.declared /\ t.uses \subseteq u.uses
    /\ t.flat \subseteq u.flat /\ u.flat \cap t.files \subseteq t.flat
    /\ Range(t.imports) \subseteq Range(u.imports)
    /\ \A home \in Homes : \A list \in Lists : Range(t.lists[home][list]) \subseteq Range(u.lists[home][list])

\* A list with one entry more, at its front.
LEMMA Prepended ==
    ASSUME NEW S, NEW e \in Seq(S), NEW p \in S
    PROVE  LET q == <<p>> \o e
           IN  /\ q \in Seq(S) /\ Range(q) = {p} \cup Range(e) /\ Len(q) = Len(e) + 1 /\ q[1] = p
               /\ \A i \in 1..Len(e) : q[i + 1] = e[i]
  <1> DEFINE q == <<p>> \o e
  <1>1. <<p>> \in Seq(S) /\ Len(<<p>>) = 1 /\ <<p>>[1] = p /\ Range(<<p>>) = {p}
    BY DEF Range
  <1>2. /\ q \in Seq(S \cup S) /\ Len(q) = Len(<<p>>) + Len(e)
        /\ \A i \in 1..Len(<<p>>) : q[i] = <<p>>[i]
        /\ \A i \in 1..Len(e) : q[Len(<<p>>) + i] = e[i]
    BY <1>1, Joined
  <1>3. Range(q) = {p} \cup Range(e)
    <2> DEFINE one == <<p>>
    <2>1. one \in Seq(S) /\ Range(one) = {p}
      BY <1>1
    <2> HIDE DEF one
    <2>2. Range(one \o e) = Range(one) \cup Range(e)
      BY <2>1, JoinedRange
    <2>3. QED
      BY <2>1, <2>2 DEF one
  <1>4. Len(e) \in Nat /\ S \cup S = S
    OBVIOUS
  <1> HIDE DEF q
  <1>5. Len(q) = Len(e) + 1 /\ q[1] = p /\ \A i \in 1..Len(e) : q[i + 1] = e[i]
    BY <1>1, <1>2, <1>4
  <1>6. QED
    BY <1>1, <1>2, <1>3, <1>4, <1>5 DEF q

\* The steps that look only.
LEMMA ApplyCheck ==
    ASSUME NEW t, NEW s, s.op \in {"failIf", "failUnless", "stopIf"}
    PROVE  Apply(t, s) = t
  BY DEF Apply

\* A file that is there already.
LEMMA ApplyMakeAgain ==
    ASSUME NEW t, NEW s, s.op = "make", s.path \in t.files
    PROVE  Apply(t, s) = t
  BY DEF Apply

\* A new file.
LEMMA ApplyFile ==
    ASSUME NEW t \in Trees, NEW s, StepType(s), s.op \in {"make", "put"}, s.op = "make" => s.path \notin t.files
    PROVE  LET u == Apply(t, s)
           IN  /\ u \in Trees /\ u.files = t.files \cup {s.path} /\ u.declared = t.declared \cup s.declares
               /\ u.rewritten = t.rewritten \cup ({s.path} \cap t.files) /\ u.flat = t.flat \cup s.flat
               /\ u.imports = t.imports /\ u.uses = t.uses /\ u.lists = t.lists
  <1>1. Apply(t, s) = [t EXCEPT !.files = @ \cup {s.path}, !.declared = @ \cup s.declares,
                                !.rewritten = @ \cup ({s.path} \cap t.files), !.flat = @ \cup s.flat]
    BY DEF Apply
  <1>2. s.path \in Paths /\ s.declares \subseteq LongPaths /\ s.flat \subseteq Paths
    BY DEF StepType
  <1> DEFINE files == t.files \cup {s.path}
             declared == t.declared \cup s.declares
             rewritten == t.rewritten \cup ({s.path} \cap t.files)
             flat == t.flat \cup s.flat
  <1>3. /\ files \in SUBSET Paths /\ declared \in SUBSET LongPaths /\ rewritten \in SUBSET Paths
        /\ flat \in SUBSET Paths
    BY <1>2 DEF Trees
  <1>4. Apply(t, s) = [t EXCEPT !.files = files, !.declared = declared, !.rewritten = rewritten, !.flat = flat]
    BY <1>1
  <1> HIDE DEF files, declared, rewritten, flat
  <1>5. Apply(t, s) \in Trees
    BY <1>3, <1>4 DEF Trees
  <1>6. QED
    BY <1>4, <1>5 DEF Trees, files, declared, rewritten, flat

\* Declarations in mod.rs or src/.
LEMMA ApplyDeclare ==
    ASSUME NEW t \in Trees, NEW s, StepType(s), s.op = "declare"
    PROVE  LET u == Apply(t, s)
           IN  /\ u \in Trees /\ u.rewritten = t.rewritten /\ u.flat = t.flat
               /\ u.imports = t.imports /\ u.uses = t.uses /\ u.lists = t.lists
               /\ IF Nested(s) # {} \/ s.home \in t.flat
                  THEN u.files = t.files \cup Nested(s) /\ u.declared = t.declared \cup s.paths
                  ELSE u = t
  <1>1. Apply(t, s) = DeclareIn(t, s)
    BY DEF Apply
  <1>2. s.paths \subseteq LongPaths
    BY DEF StepType
  <1>3. Nested(s) \subseteq Paths
    <2>1. ASSUME NEW p \in LongPaths PROVE Front(p) \in Paths
      <3>1. p \in Seq(Nodes) /\ p # <<>>
        BY DEF LongPaths, Paths
      <3>2. Len(p) \in Nat /\ Len(p) - 1 \in 0..Len(p)
        BY <3>1, EmptySeq
      <3>3. SubSeq(p, 1, Len(p) - 1) \in Seq(Nodes)
        BY <3>1, <3>2, SubSeqProperties
      <3>4. QED
        BY <3>3 DEF Front, Paths
    <2>2. QED
      BY <1>2, <2>1 DEF Nested
  <1>4. CASE Nested(s) # {} \/ s.home \in t.flat
    <2>1. Apply(t, s) = [t EXCEPT !.files = @ \cup Nested(s), !.declared = @ \cup s.paths]
      BY <1>1, <1>4 DEF DeclareIn, Nested
    <2>2. QED
      BY <1>2, <1>3, <1>4, <2>1 DEF Trees
  <1>5. CASE ~(Nested(s) # {} \/ s.home \in t.flat)
    <2>1. Apply(t, s) = t
      BY <1>1, <1>5 DEF DeclareIn, Nested
    <2>2. QED
      BY <1>5, <2>1
  <1>6. QED
    BY <1>4, <1>5

\* A declaration in lib.rs.
LEMMA ApplyLib ==
    ASSUME NEW t \in Trees, NEW s, StepType(s), s.op = "lib"
    PROVE  LET u == Apply(t, s)
           IN  /\ u \in Trees /\ u.files = t.files /\ u.declared = t.declared \cup {s.path}
               /\ u.rewritten = t.rewritten /\ u.flat = t.flat
               /\ u.imports = t.imports /\ u.uses = t.uses /\ u.lists = t.lists
  <1> DEFINE declared == t.declared \cup {s.path}
  <1>1. Apply(t, s) = [t EXCEPT !.declared = declared]
    BY DEF Apply
  <1>2. s.path \in LongPaths
    BY DEF StepType
  <1>3. declared \in SUBSET LongPaths
    BY <1>2 DEF Trees
  <1> HIDE DEF declared
  <1>4. Apply(t, s) \in Trees
    BY <1>1, <1>3 DEF Trees
  <1>5. QED
    BY <1>1, <1>4 DEF Trees, declared

\* A module that AppModule uses, or imports.
LEMMA ApplyUse ==
    ASSUME NEW t \in Trees, NEW s, StepType(s), s.op = "use"
    PROVE  LET u == Apply(t, s)
           IN  /\ u \in Trees /\ u.files = t.files /\ u.declared = t.declared
               /\ u.rewritten = t.rewritten /\ u.flat = t.flat
               /\ u.imports = t.imports /\ u.uses = t.uses \cup {s.path} /\ u.lists = t.lists
  <1> DEFINE uses == t.uses \cup {s.path}
  <1>1. Apply(t, s) = [t EXCEPT !.uses = uses]
    BY DEF Apply
  <1>2. s.path \in LongPaths
    BY DEF StepType
  <1>3. uses \in SUBSET LongPaths
    BY <1>2 DEF Trees
  <1> HIDE DEF uses
  <1>4. Apply(t, s) \in Trees
    BY <1>1, <1>3 DEF Trees
  <1>5. QED
    BY <1>1, <1>4 DEF Trees, uses

\* ... and a feature that AppModule imports.
LEMMA ApplyImport ==
    ASSUME NEW t \in Trees, NEW s, StepType(s), s.op = "import"
    PROVE  LET u == Apply(t, s)
           IN  /\ u \in Trees /\ u.files = t.files /\ u.declared = t.declared
               /\ u.rewritten = t.rewritten /\ u.flat = t.flat /\ u.uses = t.uses /\ u.lists = t.lists
               /\ u.imports = IF Listed(t.imports, s.path) THEN t.imports ELSE <<s.path>> \o t.imports
  <1>1. Apply(t, s) = IF Listed(t.imports, s.path) THEN t ELSE [t EXCEPT !.imports = <<s.path>> \o @]
    BY DEF Apply
  <1>2. s.path \in LongPaths /\ t.imports \in Seq(LongPaths)
    BY DEF StepType, Trees
  <1>3. <<s.path>> \o t.imports \in Seq(LongPaths)
    BY <1>2, Prepended
  <1>4. QED
    BY <1>1, <1>3 DEF Trees

\* An entry of AppModule.
LEMMA ApplyWireApp ==
    ASSUME NEW t \in Trees, NEW s, StepType(s), s.op = "wireApp"
    PROVE  LET u == Apply(t, s)
           IN  /\ u \in Trees /\ u.files = t.files /\ u.declared = t.declared
               /\ u.rewritten = t.rewritten /\ u.flat = t.flat /\ u.imports = t.imports
               /\ IF Listed(t.lists[<<>>][s.list], s.path) THEN u = t
                  ELSE /\ u.uses = t.uses \cup {s.path}
                       /\ u.lists[<<>>][s.list] = Newest(t.lists[<<>>][s.list], s.path)
                       /\ \A home \in Homes, list \in Lists :
                             home # <<>> \/ list # s.list => u.lists[home][list] = t.lists[home][list]
  <1>1. Apply(t, s) = IF Listed(t.lists[<<>>][s.list], s.path) THEN t
                      ELSE [t EXCEPT !.lists[<<>>][s.list] = Newest(@, s.path), !.uses = @ \cup {s.path}]
    BY DEF Apply
  <1>2. s.path \in LongPaths /\ s.list \in Lists /\ <<>> \in Homes
    BY DEF StepType, Homes
  <1>3. CASE Listed(t.lists[<<>>][s.list], s.path)
    BY <1>1, <1>3 DEF Trees
  <1>4. CASE ~Listed(t.lists[<<>>][s.list], s.path)
    <2> DEFINE new == Newest(t.lists[<<>>][s.list], s.path)
               lists == [t.lists EXCEPT ![<<>>] = [t.lists[<<>>] EXCEPT ![s.list] = new]]
    <2>1. t.lists \in [Homes -> [Lists -> Seq(LongPaths)]]
      BY DEF Trees
    <2>2. new \in Seq(LongPaths)
      <3>1. t.lists[<<>>][s.list] \in Seq(LongPaths)
        BY <1>2, <2>1
      <3>2. <<s.path>> \o t.lists[<<>>][s.list] \in Seq(LongPaths)
        BY <1>2, <3>1, Prepended
      <3>3. QED
        BY <3>1, <3>2 DEF Newest
    <2> DEFINE uses == t.uses \cup {s.path}
    <2>3. Apply(t, s) = [t EXCEPT !.lists = lists, !.uses = uses]
      BY <1>1, <1>4
    <2>31. uses \in SUBSET LongPaths
      BY <1>2 DEF Trees
    <2> HIDE DEF new, uses
    <2>4. /\ lists \in [Homes -> [Lists -> Seq(LongPaths)]] /\ lists[<<>>][s.list] = new
          /\ \A home \in Homes, list \in Lists :
                home # <<>> \/ list # s.list => lists[home][list] = t.lists[home][list]
      BY <1>2, <2>1, <2>2
    <2> HIDE DEF lists
    <2>5. Apply(t, s) \in Trees
      BY <2>3, <2>31, <2>4 DEF Trees
    <2>6. /\ Apply(t, s).lists = lists /\ Apply(t, s).uses = t.uses \cup {s.path}
          /\ Apply(t, s).files = t.files /\ Apply(t, s).declared = t.declared
          /\ Apply(t, s).rewritten = t.rewritten /\ Apply(t, s).flat = t.flat
          /\ Apply(t, s).imports = t.imports
      BY <2>3 DEF Trees, uses
    <2>7. QED
      BY <1>4, <2>4, <2>5, <2>6 DEF new
  <1>5. QED
    BY <1>3, <1>4

\* The entries of a feature.
LEMMA ApplyWireFeature ==
    ASSUME NEW t \in Trees, NEW s, StepType(s), s.op = "wireFeature"
    PROVE  LET u == Apply(t, s)
               h == Home(s.command)
           IN  /\ u \in Trees /\ u.files = t.files /\ u.declared = t.declared
               /\ u.rewritten = t.rewritten /\ u.flat = t.flat /\ u.imports = t.imports /\ u.uses = t.uses
               /\ \A home \in Homes : home # h => u.lists[home] = t.lists[home]
               /\ h \in Homes
               /\ \A list \in Lists :
                     IF list \in FeatureLists(s)
                     THEN Range(u.lists[h][list]) = Range(t.lists[h][list]) \cup {EntryOf(s.command, list)}
                     ELSE u.lists[h][list] = t.lists[h][list]
  <1> DEFINE h == Home(s.command)
             new == [list \in Lists |->
                        LET entry == EntryOf(s.command, list) IN
                        IF list \in FeatureLists(s) /\ ~ListedFirst(t.lists[h][list], entry)
                        THEN <<entry>> \o t.lists[h][list] ELSE t.lists[h][list]]
             lists == [t.lists EXCEPT ![h] = new]
  <1>1. h \in Homes /\ \A list \in Lists : EntryOf(s.command, list) \in LongPaths
    BY DEF StepType, Homes
  <1>2. t.lists \in [Homes -> [Lists -> Seq(LongPaths)]]
    BY DEF Trees
  <1>3. Apply(t, s) = [t EXCEPT !.lists = lists]
    <2>1. Apply(t, s) = Wired(t, s)
      BY DEF Apply
    <2>2. QED
      BY <2>1 DEF Wired
  <1>4. ASSUME NEW list \in Lists
        PROVE  /\ new[list] \in Seq(LongPaths)
               /\ IF list \in FeatureLists(s)
                  THEN Range(new[list]) = Range(t.lists[h][list]) \cup {EntryOf(s.command, list)}
                  ELSE new[list] = t.lists[h][list]
    <2> DEFINE old == t.lists[h][list]
               entry == EntryOf(s.command, list)
    <2>1. old \in Seq(LongPaths) /\ entry \in LongPaths
      BY <1>1, <1>2
    <2>2. new[list] = IF list \in FeatureLists(s) /\ ~ListedFirst(old, entry) THEN <<entry>> \o old ELSE old
      OBVIOUS
    <2> HIDE DEF new, old, entry
    <2>3. <<entry>> \o old \in Seq(LongPaths) /\ Range(<<entry>> \o old) = {entry} \cup Range(old)
      BY <2>1, Prepended
    <2>4. ListedFirst(old, entry) => entry \in Range(old)
      <3> HAVE ListedFirst(old, entry)
      <3>1. Len(old) \in Nat /\ Len(old) # 0 /\ old[1] = entry
        BY <2>1, EmptySeq DEF ListedFirst
      <3>2. 1 \in 1..Len(old) /\ Range(old) = {old[i] : i \in 1..Len(old)}
        BY <2>1, <3>1, InRange
      <3>3. QED
        BY <3>1, <3>2
    <2>5. CASE list \in FeatureLists(s) /\ ~ListedFirst(old, entry)
      BY <2>2, <2>3, <2>5 DEF old, entry
    <2>6. CASE list \in FeatureLists(s) /\ ListedFirst(old, entry)
      BY <2>1, <2>2, <2>4, <2>6 DEF old, entry
    <2>7. CASE list \notin FeatureLists(s)
      BY <2>1, <2>2, <2>7 DEF old, entry
    <2>8. QED
      BY <2>5, <2>6, <2>7
  <1>5. new \in [Lists -> Seq(LongPaths)]
    <2>1. new = [list \in Lists |-> new[list]]
      OBVIOUS
    <2> HIDE DEF new
    <2>2. QED
      BY <1>4, <2>1
  <1> HIDE DEF new
  <1>6. /\ lists \in [Homes -> [Lists -> Seq(LongPaths)]] /\ lists[h] = new
        /\ \A home \in Homes : home # h => lists[home] = t.lists[home]
    BY <1>1, <1>2, <1>5
  <1> HIDE DEF lists, h
  <1>7. Apply(t, s) \in Trees
    BY <1>3, <1>6 DEF Trees
  <1>8. /\ Apply(t, s).lists = lists /\ Apply(t, s).uses = t.uses
        /\ Apply(t, s).files = t.files /\ Apply(t, s).declared = t.declared
        /\ Apply(t, s).rewritten = t.rewritten /\ Apply(t, s).flat = t.flat
        /\ Apply(t, s).imports = t.imports
    BY <1>3 DEF Trees
  <1>9. QED
    BY <1>1, <1>4, <1>6, <1>7, <1>8 DEF h

-----------------------------------------------------------------------------
(***************************************************************************)
(* The tree grows, and what a step has done stays.                         *)
(***************************************************************************)

\* A step that is run finds what the steps before it have left.
Ready(t, s) ==
    /\ s.op = "put" => s.path \notin t.files
    /\ s.op = "declare" => s.home \in t.files
    /\ s.op = "failUnless" => s.path \in t.files

\* The types of the fields of a tree.
LEMMA TreesHave ==
    ASSUME NEW t \in Trees
    PROVE  /\ t.files \subseteq Paths /\ t.declared \subseteq LongPaths /\ t.flat \subseteq Paths
           /\ t.imports \in Seq(LongPaths) /\ t.uses \subseteq LongPaths
           /\ \A home \in Homes : \A list \in Lists : t.lists[home][list] \in Seq(LongPaths)
           /\ <<>> \in Homes
  BY DEF Trees, Homes

\* An entry is listed if one that ends like it is in the list.
LEMMA ListedIs ==
    ASSUME NEW S, NEW e \in Seq(S), NEW p
    PROVE  Listed(e, p) <=> \E x \in Range(e) : SameEnd(x, p)
  <1>1. DOMAIN e = 1..Len(e) /\ Range(e) = {e[i] : i \in 1..Len(e)}
    BY InRange
  <1>2. QED
    BY <1>1 DEF Listed, SameEnd

\* Nothing is lost where nothing happens.
LEMMA GrowsItself == \A t : Grows(t, t)
  BY DEF Grows

\* No step takes anything back.
LEMMA StepGrows ==
    ASSUME NEW t \in Trees, NEW s, StepType(s), Ready(t, s), t.flat \subseteq t.files
    PROVE  Apply(t, s) \in Trees /\ Grows(t, Apply(t, s))
  <1> DEFINE u == Apply(t, s)
  <1>1. s.op \in Ops
    BY DEF StepType
  <1>2. CASE s.op \in {"failIf", "failUnless", "stopIf"}
    BY <1>2, ApplyCheck, GrowsItself
  <1>3. CASE s.op \in {"make", "put"}
    <2>1. CASE s.op = "make" /\ s.path \in t.files
      BY <2>1, ApplyMakeAgain, GrowsItself
    <2>2. CASE s.path \notin t.files
      <3>1. /\ u \in Trees /\ u.files = t.files \cup {s.path} /\ u.declared = t.declared \cup s.declares
            /\ u.flat = t.flat \cup s.flat
            /\ u.imports = t.imports /\ u.uses = t.uses /\ u.lists = t.lists
        BY <1>3, <2>2, ApplyFile
      <3>2. s.flat \subseteq {s.path}
        BY <1>3 DEF StepType
      <3> HIDE DEF u
      <3>3. Grows(t, u)
        BY <2>2, <3>1, <3>2 DEF Grows
      <3>4. QED
        BY <3>1, <3>3 DEF u
    <2>3. QED
      BY <1>3, <2>1, <2>2 DEF Ready
  <1>4. CASE s.op = "declare"
    <2>1. /\ u \in Trees /\ u.flat = t.flat /\ u.imports = t.imports /\ u.uses = t.uses /\ u.lists = t.lists
          /\ t.files \subseteq u.files /\ t.declared \subseteq u.declared
      BY <1>4, ApplyDeclare
    <2> HIDE DEF u
    <2>2. Grows(t, u)
      BY <2>1 DEF Grows
    <2>3. QED
      BY <2>1, <2>2 DEF u
  <1>5. CASE s.op \in {"lib", "use"}
    <2>1. /\ u \in Trees /\ u.flat = t.flat /\ u.imports = t.imports /\ t.uses \subseteq u.uses /\ u.lists = t.lists
          /\ u.files = t.files /\ t.declared \subseteq u.declared
      BY <1>5, ApplyLib, ApplyUse
    <2> HIDE DEF u
    <2>2. Grows(t, u)
      BY <2>1 DEF Grows
    <2>3. QED
      BY <2>1, <2>2 DEF u
  <1>6. CASE s.op = "import"
    <2>1. /\ u \in Trees /\ u.flat = t.flat /\ u.uses = t.uses /\ u.lists = t.lists
          /\ u.files = t.files /\ t.declared = u.declared
          /\ u.imports = IF Listed(t.imports, s.path) THEN t.imports ELSE <<s.path>> \o t.imports
      BY <1>6, ApplyImport
    <2>2. s.path \in LongPaths /\ t.imports \in Seq(LongPaths)
      BY <1>6, TreesHave DEF StepType
    <2>3. Range(<<s.path>> \o t.imports) = {s.path} \cup Range(t.imports)
      BY <2>2, Prepended
    <2> HIDE DEF u
    <2>4. Range(t.imports) \subseteq Range(u.imports)
      BY <2>1, <2>3
    <2>5. Grows(t, u)
      BY <2>1, <2>4 DEF Grows
    <2>6. QED
      BY <2>1, <2>5 DEF u
  <1>7. CASE s.op = "wireApp"
    <2>1. /\ u \in Trees /\ u.files = t.files /\ u.declared = t.declared
          /\ u.rewritten = t.rewritten /\ u.flat = t.flat /\ u.imports = t.imports
          /\ IF Listed(t.lists[<<>>][s.list], s.path) THEN u = t
             ELSE /\ u.uses = t.uses \cup {s.path}
                  /\ u.lists[<<>>][s.list] = Newest(t.lists[<<>>][s.list], s.path)
                  /\ \A home \in Homes, list \in Lists :
                        home # <<>> \/ list # s.list => u.lists[home][list] = t.lists[home][list]
      BY <1>7, ApplyWireApp
    <2>2. s.path \in LongPaths /\ s.list \in Lists
      BY <1>7 DEF StepType
    <2>3. t.lists[<<>>][s.list] \in Seq(LongPaths)
      BY <2>2, TreesHave
    <2> DEFINE old == t.lists[<<>>][s.list]
    <2>4. Range(<<s.path>> \o old) = {s.path} \cup Range(old)
      BY <2>2, <2>3, Prepended
    <2>5. Range(old) \subseteq Range(Newest(old, s.path))
      BY <2>4 DEF Newest
    <2> HIDE DEF u
    <2>6. CASE u = t
      BY <2>1, <2>6, GrowsItself DEF u
    <2>7. CASE u # t
      <3>1. \A home \in Homes, list \in Lists : Range(t.lists[home][list]) \subseteq Range(u.lists[home][list])
        <4> TAKE home \in Homes, list \in Lists
        <4>1. CASE home = <<>> /\ list = s.list
          BY <2>1, <2>5, <2>7, <4>1
        <4>2. CASE home # <<>> \/ list # s.list
          BY <2>1, <2>7, <4>2
        <4>3. QED
          BY <4>1, <4>2
      <3>2. Grows(t, u)
        BY <2>1, <2>7, <3>1 DEF Grows
      <3>3. QED
        BY <2>1, <3>2 DEF u
    <2>8. QED
      BY <2>6, <2>7
  <1>8. CASE s.op = "wireFeature"
    <2> DEFINE h == Home(s.command)
    <2>1. /\ u \in Trees /\ u.files = t.files /\ u.declared = t.declared
          /\ u.rewritten = t.rewritten /\ u.flat = t.flat /\ u.imports = t.imports /\ u.uses = t.uses
          /\ \A home \in Homes : home # h => u.lists[home] = t.lists[home]
          /\ \A list \in Lists :
                IF list \in FeatureLists(s)
                THEN Range(u.lists[h][list]) = Range(t.lists[h][list]) \cup {EntryOf(s.command, list)}
                ELSE u.lists[h][list] = t.lists[h][list]
      BY <1>8, ApplyWireFeature
    <2> HIDE DEF u, h
    <2>2. \A home \in Homes, list \in Lists : Range(t.lists[home][list]) \subseteq Range(u.lists[home][list])
      <3> TAKE home \in Homes, list \in Lists
      <3>1. CASE home = h /\ list \in FeatureLists(s)
        BY <2>1, <3>1
      <3>2. CASE home = h /\ list \notin FeatureLists(s)
        BY <2>1, <3>2
      <3>3. CASE home # h
        BY <2>1, <3>3
      <3>4. QED
        BY <3>1, <3>2, <3>3
    <2>3. Grows(t, u)
      BY <2>1, <2>2 DEF Grows
    <2>4. QED
      BY <2>1, <2>3 DEF u
  <1>9. QED
    BY <1>1, <1>2, <1>3, <1>4, <1>5, <1>6, <1>7, <1>8 DEF Ops

\* A step leaves what it is for.
LEMMA StepIsDone ==
    ASSUME NEW t \in Trees, NEW s, StepType(s), Ready(t, s), t.flat \subseteq t.files,
           s.op = "import" => EndsWith(Last(s.path).name, Last(s.path).name)
    PROVE  Done(Apply(t, s), s, app.transport)
  <1> DEFINE u == Apply(t, s)
  <1>1. s.op \in Ops
    BY DEF StepType
  <1>2. CASE s.op \in {"failIf", "failUnless", "stopIf"}
    <2>1. u = t
      BY <1>2, ApplyCheck
    <2>2. QED
      BY <1>2, <2>1 DEF Done, Ready
  <1>3. CASE s.op \in {"make", "put"}
    <2>1. CASE s.op = "make" /\ s.path \in t.files
      BY <2>1, ApplyMakeAgain DEF Done
    <2>2. CASE s.path \notin t.files
      <3>1. /\ u.files = t.files \cup {s.path} /\ u.declared = t.declared \cup s.declares
            /\ u.flat = t.flat \cup s.flat
        BY <1>3, <2>2, ApplyFile
      <3> HIDE DEF u
      <3>2. Done(u, s, app.transport)
        BY <1>3, <3>1 DEF Done
      <3>3. QED
        BY <3>2 DEF u
    <2>3. QED
      BY <1>3, <2>1, <2>2 DEF Ready
  <1>4. CASE s.op = "declare"
    <2>1. IF Nested(s) # {} \/ s.home \in t.flat
          THEN u.files = t.files \cup Nested(s) /\ u.declared = t.declared \cup s.paths
          ELSE u = t
      BY <1>4, ApplyDeclare
    <2>2. s.home \in t.files
      BY <1>4 DEF Ready
    <2> HIDE DEF u
    <2>3. Done(u, s, app.transport)
      <3>1. CASE Nested(s) # {} \/ s.home \in t.flat
        BY <1>4, <2>1, <3>1 DEF Done
      <3>2. CASE ~(Nested(s) # {} \/ s.home \in t.flat)
        BY <1>4, <2>1, <2>2, <3>2 DEF Done
      <3>3. QED
        BY <3>1, <3>2
    <2>4. QED
      BY <2>3 DEF u
  <1>5. CASE s.op = "lib"
    <2>1. s.path \in u.declared
      BY <1>5, ApplyLib
    <2>2. QED
      BY <1>5, <2>1 DEF Done
  <1>6. CASE s.op = "use"
    <2>1. s.path \in u.uses
      BY <1>6, ApplyUse
    <2>2. QED
      BY <1>6, <2>1 DEF Done
  <1>7. CASE s.op = "import"
    <2>1. u.imports = IF Listed(t.imports, s.path) THEN t.imports ELSE <<s.path>> \o t.imports
      BY <1>7, ApplyImport
    <2>2. s.path \in LongPaths /\ t.imports \in Seq(LongPaths)
      BY <1>7, TreesHave DEF StepType
    <2>3. Range(<<s.path>> \o t.imports) = {s.path} \cup Range(t.imports)
      BY <2>2, Prepended
    <2>4. SameEnd(s.path, s.path)
      BY <1>7 DEF SameEnd
    <2>5. Listed(t.imports, s.path) <=> \E x \in Range(t.imports) : SameEnd(x, s.path)
      BY <2>2, ListedIs
    <2> HIDE DEF u
    <2>6. \E x \in Range(u.imports) : SameEnd(x, s.path)
      <3>1. CASE Listed(t.imports, s.path)
        BY <2>1, <2>5, <3>1
      <3>2. CASE ~Listed(t.imports, s.path)
        BY <2>1, <2>3, <2>4, <3>2
      <3>3. QED
        BY <3>1, <3>2
    <2>7. Done(u, s, app.transport)
      BY <1>7, <2>6 DEF Done
    <2>8. QED
      BY <2>7 DEF u
  <1>8. CASE s.op = "wireApp"
    <2>1. IF Listed(t.lists[<<>>][s.list], s.path) THEN u = t
          ELSE /\ u.uses = t.uses \cup {s.path}
               /\ u.lists[<<>>][s.list] = Newest(t.lists[<<>>][s.list], s.path)
      BY <1>8, ApplyWireApp
    <2>2. s.path \in LongPaths /\ s.list \in Lists
      BY <1>8 DEF StepType
    <2> DEFINE old == t.lists[<<>>][s.list]
    <2>3. old \in Seq(LongPaths)
      BY <2>2, TreesHave
    <2>4. Range(<<s.path>> \o old) = {s.path} \cup Range(old)
      BY <2>2, <2>3, Prepended
    <2>5. Listed(old, s.path) <=> \E x \in Range(old) : SameEnd(x, s.path)
      BY <2>3, ListedIs
    <2> HIDE DEF u
    <2>6. \/ \E e \in Range(u.lists[<<>>][s.list]) : e = s.path \/ SameEnd(e, s.path)
          \/ app.transport # "Http" /\ s.path \in u.uses
      <3>1. CASE Listed(old, s.path)
        BY <2>1, <2>5, <3>1
      <3>2. CASE ~Listed(old, s.path) /\ app.transport = "Http"
        <4>1. u.lists[<<>>][s.list] = <<s.path>> \o old
          BY <2>1, <3>2 DEF Newest, HasMarkers
        <4>2. QED
          BY <2>4, <4>1
      <3>3. CASE ~Listed(old, s.path) /\ app.transport # "Http"
        BY <2>1, <3>3
      <3>4. QED
        BY <3>1, <3>2, <3>3
    <2>7. Done(u, s, app.transport)
      BY <1>8, <2>6 DEF Done
    <2>8. QED
      BY <2>7 DEF u
  <1>9. CASE s.op = "wireFeature"
    <2>1. \A list \in Lists :
             list \in FeatureLists(s) =>
                Range(u.lists[Home(s.command)][list])
                    = Range(t.lists[Home(s.command)][list]) \cup {EntryOf(s.command, list)}
      BY <1>9, ApplyWireFeature
    <2>2. FeatureLists(s) \subseteq Lists
      BY <1>9 DEF StepType
    <2> HIDE DEF u
    <2>3. Done(u, s, app.transport)
      BY <1>9, <2>1, <2>2 DEF Done
    <2>4. QED
      BY <2>3 DEF u
  <1>10. QED
    BY <1>1, <1>2, <1>3, <1>4, <1>5, <1>6, <1>7, <1>8, <1>9 DEF Ops

\* ... and it stays.
LEMMA DoneStays ==
    ASSUME NEW t, NEW u, NEW s, NEW tr, StepType(s), Grows(t, u), Done(t, s, tr)
    PROVE  Done(u, s, tr)
  <1>1. s.op \in Ops
    BY DEF StepType
  <1>2. CASE s.op \in {"failIf", "stopIf"}
    BY <1>2 DEF Done
  <1>3. CASE s.op \in {"make", "put", "failUnless"}
    BY <1>3 DEF Done, Grows
  <1>4. CASE s.op = "declare"
    BY <1>4 DEF Done, Grows
  <1>5. CASE s.op \in {"lib", "use", "import"}
    BY <1>5 DEF Done, Grows
  <1>6. CASE s.op = "wireApp"
    <2>1. Range(t.lists[<<>>][s.list]) \subseteq Range(u.lists[<<>>][s.list]) /\ t.uses \subseteq u.uses
      BY <1>6 DEF Grows, Homes, StepType
    <2>2. QED
      BY <1>6, <2>1 DEF Done
  <1>7. CASE s.op = "wireFeature"
    <2>1. \A list \in FeatureLists(s) :
             Range(t.lists[Home(s.command)][list]) \subseteq Range(u.lists[Home(s.command)][list])
      BY <1>7 DEF Grows, Homes, StepType
    <2>2. QED
      BY <1>7, <2>1 DEF Done
  <1>8. QED
    BY <1>1, <1>2, <1>3, <1>4, <1>5, <1>6, <1>7 DEF Ops

\* A module that is in place stays there.
LEMMA UnderStays ==
    ASSUME NEW t, NEW u, Grows(t, u)
    PROVE  \A home, p : Under(t, home, p) => Under(u, home, p)
  BY DEF Grows, Under, Has

\* A command that does not fit will not fit later.
LEMMA FitsBefore ==
    ASSUME NEW t, NEW u, NEW c, NEW tr, Grows(t, u), FitsSo(c, u, tr)
    PROVE  FitsSo(c, t, tr)
  BY DEF Grows, FitsSo
-----------------------------------------------------------------------------
(***************************************************************************)
(* Which files, declarations and layouts a step adds.                      *)
(***************************************************************************)

NewFiles(s) ==
    IF s.op \in {"make", "put"} THEN {s.path} ELSE IF s.op = "declare" THEN Nested(s) ELSE {}
NewDeclared(s) ==
    IF s.op \in {"make", "put"} THEN s.declares
    ELSE IF s.op = "declare" THEN s.paths ELSE IF s.op = "lib" THEN {s.path} ELSE {}
NewFlat(s) == IF s.op \in {"make", "put"} THEN s.flat ELSE {}

\* No step adds more than that.
LEMMA ApplyAdds ==
    ASSUME NEW t \in Trees, NEW s, StepType(s)
    PROVE  LET u == Apply(t, s)
           IN  /\ u.files \subseteq t.files \cup NewFiles(s)
               /\ u.declared \subseteq t.declared \cup NewDeclared(s)
               /\ u.flat \subseteq t.flat \cup NewFlat(s)
               /\ s.op # "put" => u.rewritten = t.rewritten
               /\ (s.op = "put" /\ s.path \notin t.files) => u.rewritten = t.rewritten
               /\ s.op = "put" => /\ u.files = t.files \cup {s.path} /\ u.declared = t.declared \cup s.declares
                                  /\ u.flat = t.flat \cup s.flat
               /\ s.op \notin {"use", "wireApp", "wireFeature"} => u.uses = t.uses /\ u.lists = t.lists
  <1> DEFINE u == Apply(t, s)
  <1>1. s.op \in Ops
    BY DEF StepType
  <1>2. CASE s.op \in {"failIf", "failUnless", "stopIf"}
    <2>1. u = t
      BY <1>2, ApplyCheck
    <2>2. QED
      BY <1>2, <2>1
  <1>3. CASE s.op \in {"make", "put"}
    <2>1. CASE s.op = "make" /\ s.path \in t.files
      BY <2>1, ApplyMakeAgain
    <2>2. CASE ~(s.op = "make" /\ s.path \in t.files)
      <3>1. /\ u.files = t.files \cup {s.path} /\ u.declared = t.declared \cup s.declares
            /\ u.rewritten = t.rewritten \cup ({s.path} \cap t.files) /\ u.flat = t.flat \cup s.flat
            /\ u.uses = t.uses /\ u.lists = t.lists
        BY <1>3, <2>2, ApplyFile
      <3> HIDE DEF u
      <3>2. s.path \notin t.files => u.rewritten = t.rewritten
        BY <3>1
      <3>3. QED
        BY <1>3, <2>2, <3>1, <3>2 DEF NewFiles, NewDeclared, NewFlat, u
    <2>3. QED
      BY <2>1, <2>2
  <1>4. CASE s.op = "declare"
    <2>1. /\ u.rewritten = t.rewritten /\ u.flat = t.flat /\ u.uses = t.uses /\ u.lists = t.lists
          /\ IF Nested(s) # {} \/ s.home \in t.flat
             THEN u.files = t.files \cup Nested(s) /\ u.declared = t.declared \cup s.paths
             ELSE u = t
      BY <1>4, ApplyDeclare
    <2>2. QED
      BY <1>4, <2>1 DEF NewFiles, NewDeclared, NewFlat
  <1>5. CASE s.op = "lib"
    <2>1. /\ u.rewritten = t.rewritten /\ u.flat = t.flat /\ u.files = t.files
          /\ u.declared = t.declared \cup {s.path} /\ u.uses = t.uses /\ u.lists = t.lists
      BY <1>5, ApplyLib
    <2>2. QED
      BY <1>5, <2>1 DEF NewFiles, NewDeclared, NewFlat
  <1>6. CASE s.op \in {"use", "import", "wireApp", "wireFeature"}
    <2>1. /\ u.rewritten = t.rewritten /\ u.flat = t.flat /\ u.files = t.files
          /\ u.declared = t.declared
          /\ s.op = "import" => u.uses = t.uses /\ u.lists = t.lists
      <3>1. CASE s.op = "use"
        BY <3>1, ApplyUse
      <3>2. CASE s.op = "import"
        BY <3>2, ApplyImport
      <3>3. CASE s.op = "wireApp"
        BY <3>3, ApplyWireApp
      <3>4. CASE s.op = "wireFeature"
        BY <3>4, ApplyWireFeature
      <3>5. QED
        BY <1>6, <3>1, <3>2, <3>3, <3>4
    <2>2. QED
      BY <1>6, <2>1
  <1>7. QED
    BY <1>1, <1>2, <1>3, <1>4, <1>5, <1>6 DEF Ops

\* No part is a folder or a feature, and paths of features are of one kind.
LEMMA PartsAreNodes ==
    /\ \A part \in PartNames : part \notin {"module", "folder", "root"}
    /\ \A x, y \in Names : Feature(x) = Feature(y) => x = y
    /\ \A x \in Names : Last(Feature(x)).kind = "module" /\ Feature(x)[1].kind = "module" /\ Feature(x) # <<>>
    /\ \A x \in Names : ~OwnPath(Feature(x))
  <1>1. \A part \in PartNames : part \notin {"module", "folder", "root"}
    BY PartFolders
  <1>2. "module" \in NodeKinds
    BY DEF NodeKinds
  <1>3. \A x \in Names : N("module", x).name = x
    BY <1>2, NodeIs
  <1>4. \A x \in Names : /\ Last(Feature(x)) = N("module", x) /\ Feature(x)[1] = N("module", x)
                         /\ N("module", x).kind = "module" /\ Feature(x) # <<>>
    BY FeatureIs DEF LongPaths
  <1>5. \A x, y \in Names : Feature(x) = Feature(y) => x = y
    BY <1>3, <1>4
  <1>6. QED
    BY <1>1, <1>4, <1>5 DEF OwnPath

\* Where a part and its folder are.
LEMMA PlaceIs ==
    ASSUME NEW c \in Commands, NEW part \in PartNames, NEW p, p \in {PathOf(c, part), Dir(c, part)}, p # Home(c)
    PROVE  /\ p # <<>> /\ Last(p).kind \in {part, "folder"} /\ p \in LongPaths
           /\ p = PathOf(c, part) => Last(p).kind = part
           /\ p = Dir(c, part) => Last(p).kind = "folder"
           /\ p[1].kind = "module" => c.module # None /\ <<p[1]>> = Home(c)
  <1>1. /\ Home(c) \in Paths /\ c.flat \in BOOLEAN
        /\ c.module = None => Home(c) = <<>>
        /\ c.module # None => Home(c) = Feature(c.module) /\ Home(c) # <<>>
    BY HomeIs, CommandIs
  <1>2. c.module # None => <<Home(c)[1]>> = Home(c)
    <2> HAVE c.module # None
    <2>1. Feature(c.module) = <<N("module", c.module)>> /\ Feature(c.module)[1] = N("module", c.module)
      BY CommandIs, FeatureIs
    <2>2. QED
      BY <1>1, <2>1
  <1>3. LET f == N("folder", FolderName[part])
        IN  ~c.flat => /\ Dir(c, part) # <<>> /\ Last(Dir(c, part)) = f /\ f.kind = "folder"
                       /\ Dir(c, part)[1] = IF Home(c) = <<>> THEN f ELSE Home(c)[1]
    BY DirIs
  <1>4. /\ Dir(c, part) \in Paths
        /\ c.flat => Dir(c, part) = Home(c)
    BY DirIs
  <1>5. LET n == N(part, c.name)
        IN  /\ n.kind = part /\ PathOf(c, part) \in LongPaths /\ PathOf(c, part) # <<>>
            /\ Last(PathOf(c, part)) = n
            /\ PathOf(c, part)[1] = IF Dir(c, part) = <<>> THEN n ELSE Dir(c, part)[1]
    BY PathIs DEF LongPaths
  <1>6. part \notin {"module", "folder"}
    BY PartsAreNodes
  <1>7. (Dir(c, part) # <<>> /\ Dir(c, part)[1].kind = "module") => c.module # None /\ <<Dir(c, part)[1]>> = Home(c)
    <2>1. CASE c.flat
      BY <1>1, <1>2, <1>4, <2>1, DirIs
    <2>2. CASE ~c.flat
      BY <1>1, <1>2, <1>3, <2>2
    <2>3. QED
      BY <1>1, <2>1, <2>2
  <1>8. CASE p = PathOf(c, part)
    <2>1. p[1].kind = "module" => c.module # None /\ <<p[1]>> = Home(c)
      BY <1>5, <1>6, <1>7, <1>8
    <2>2. p # Dir(c, part)
      <3>1. Len(PathOf(c, part)) = Len(Dir(c, part)) + 1 /\ Dir(c, part) \in Seq(Nodes)
        BY PathIs, DirIs DEF Paths
      <3>2. Len(Dir(c, part)) \in Nat
        BY <3>1
      <3>3. Len(PathOf(c, part)) # Len(Dir(c, part))
        BY <3>1, <3>2
      <3>4. QED
        BY <1>8, <3>3
    <2>3. QED
      BY <1>5, <1>8, <2>1, <2>2
  <1>9. CASE p = Dir(c, part) /\ p # PathOf(c, part)
    <2>1. ~c.flat
      BY <1>1, <1>9, DirIs
    <2>2. Dir(c, part) \in LongPaths
      BY <2>1, DirIs DEF LongPaths
    <2>3. QED
      BY <1>3, <1>7, <1>9, <2>1, <2>2
  <1>10. QED
    BY <1>8, <1>9

\* The files a command adds that are not in the templates.
LEMMA ModFilesAre ==
    ASSUME NEW c \in Commands, NEW s \in ModFiles(c)
    PROVE  /\ s.op = "make" /\ OwnPath(s.path) /\ s.flat = {} /\ \A p \in s.declares : OwnPath(p)
           /\ \/ c.kind = "gateway" /\ s.path = Folder("ws")
              \/ c.kind = "graphql" /\ s.path = Folder("graphql")
              \/ c.kind = "grpc" /\ s.path \in {Folder("build"), Folder("grpc")}
              \/ c.kind = "microservice" /\ s.declares = {}
  <1>1. CASE c.kind = "gateway"
    <2>1. s = WsMod("make")
      BY <1>1 DEF ModFiles
    <2>2. QED
      BY <1>1, <2>1, ModsAre, OwnPaths DEF PathTag
  <1>2. CASE c.kind = "graphql"
    <2>1. s = GraphqlMod("make")
      BY <1>2 DEF ModFiles
    <2>2. QED
      BY <1>2, <2>1, ModsAre, OwnPaths DEF PathTag
  <1>3. CASE c.kind = "grpc"
    <2>1. s \in {GrpcBuild("make"), GrpcMod("make")}
      BY <1>3 DEF ModFiles
    <2>2. CASE s = GrpcBuild("make")
      BY <1>3, <2>2, ModsAre, OwnPaths DEF PathTag
    <2>3. CASE s = GrpcMod("make")
      BY <1>3, <2>3, ModsAre, OwnPaths DEF PathTag
    <2>4. QED
      BY <2>1, <2>2, <2>3
  <1>4. CASE c.kind = "microservice"
    <2>1. s = Make(Folder("microservices"), {})
      BY <1>4 DEF ModFiles
    <2>2. s.op = "make" /\ s.path = Folder("microservices") /\ s.declares = {} /\ s.flat = {}
      BY <2>1, StepFields
    <2>3. QED
      BY <1>4, <2>2, OwnPaths DEF PathTag
  <1>5. CASE c.kind \notin {"gateway", "graphql", "grpc", "microservice"}
    <2>1. ModFiles(c) = {}
      BY <1>5 DEF ModFiles
    <2>2. QED
      BY <2>1
  <1>6. QED
    BY <1>1, <1>2, <1>3, <1>4, <1>5

\* The files of a module.
LEMMA ModulePutsAre ==
    ASSUME NEW c \in Commands, NEW s \in ModulePuts(c)
    PROVE  LET f == Feature(c.name)
           IN  /\ s.op = "put" /\ s.path \in LongPaths /\ s.path[1] = N("module", c.name)
               /\ \/ c.flat /\ s.path = f /\ s.declares = {} /\ s.flat = {f}
                  \/ ~c.flat /\ s.path = f /\ s.declares = Within(f) /\ s.flat = {}
                  \/ ~c.flat /\ s.path \in Within(f) /\ s.declares = {} /\ s.flat = {}
                     /\ Last(s.path).kind = "folder" /\ Len(s.path) = 2
               /\ s.path = f => Rank(s) = 1
               /\ s.path # f => Rank(s) = 2
  <1> DEFINE f == Feature(c.name)
  <1>1. c.name \in Names /\ c.flat \in BOOLEAN
    BY CommandIs
  <1>2. f \in LongPaths /\ Len(f) = 1 /\ f[1] = N("module", c.name)
    BY <1>1, FeatureIs
  <1>3. \A p \in Within(f) : /\ p \in LongPaths /\ Len(p) = 2 /\ p[1] = N("module", c.name)
                             /\ p # f /\ Last(p).kind = "folder"
    BY <1>1, FeatureFolders
  <1>4. ModulePuts(c) = IF c.flat THEN {PutFlat(f)} ELSE {Put(f, Within(f))} \cup {Put(p, {}) : p \in Within(f)}
    BY DEF ModulePuts
  <1> HIDE DEF f
  <1>5. CASE c.flat
    <2>1. s = PutFlat(f)
      BY <1>4, <1>5
    <2>2. s.op = "put" /\ s.path = f /\ s.declares = {} /\ s.flat = {f} /\ Rank(s) = 1
      BY <1>2, <2>1, StepFields, StepRanks
    <2>3. QED
      BY <1>2, <1>5, <2>2 DEF f
  <1>6. CASE ~c.flat /\ s = Put(f, Within(f))
    <2>1. s.op = "put" /\ s.path = f /\ s.declares = Within(f) /\ s.flat = {} /\ Rank(s) = 1
      BY <1>2, <1>6, StepFields, StepRanks
    <2>2. QED
      BY <1>2, <1>6, <2>1 DEF f
  <1>7. CASE ~c.flat /\ \E p \in Within(f) : s = Put(p, {})
    <2>1. PICK p \in Within(f) : s = Put(p, {})
      BY <1>7
    <2>2. s.op = "put" /\ s.path = p /\ s.declares = {} /\ s.flat = {}
      BY <2>1, StepFields
    <2>3. Rank(s) = 2 /\ p # f
      BY <1>3, <2>1, StepRanks
    <2>4. QED
      BY <1>3, <1>7, <2>2, <2>3 DEF f
  <1>8. QED
    BY <1>1, <1>4, <1>5, <1>6, <1>7

\* A new file is in a feature that is there, or is the feature itself, and the
\* files that some generators look for are written by those only.
LEMMA NewFilesAre ==
    ASSUME NEW c \in Commands, NEW s \in StepsOf(c), NEW p \in NewFiles(s)
    PROVE  /\ (p # <<>> /\ p[1].kind = "module") =>
                 \/ <<p[1]>> = p
                 \/ c.module # None /\ <<p[1]>> = Home(c) /\ Rank(s) > 0 /\ c.kind # "module"
                 \/ c.kind = "module" /\ Rank(s) = 2 /\ <<p[1]>> = Feature(c.name)
           /\ \A x \in Names : p = Feature(x) => s.op = "put" /\ (p \in s.flat \/ s.declares = Within(p))
           /\ (Last(p).kind \in StopKinds /\ p # <<>>) =>
                 /\ c.kind # "module" /\ s.op = "make" /\ Last(p).kind \in PartSet(c)
                 /\ p = PathOf(c, Last(p).kind)
  <1>1. StepKinds(c, s)
    BY StepsHaveKinds
  <1>2. s.op \in {"make", "put", "declare"}
    BY DEF NewFiles
  <1>3. CASE s.op = "make" /\ s \in ModFiles(c)
    <2>1. p = s.path
      BY <1>3 DEF NewFiles
    <2>2. OwnPath(p)
      BY <1>3, <2>1, ModFilesAre
    <2>3. QED
      BY <2>2, PartsAreNodes DEF OwnPath
  <1>4. CASE c.kind # "module" /\ s.op = "make" /\ \E part \in PartSet(c) : s = Make(PathOf(c, part), {})
    <2>1. PICK part \in PartSet(c) : s = Make(PathOf(c, part), {})
      BY <1>4
    <2>2. p = PathOf(c, part) /\ Rank(s) = 2
      BY <1>4, <2>1, StepFields, StepRanks DEF NewFiles
    <2>3. part \in PartNames
      BY <1>4, PartsAre
    <2>4. PathOf(c, part) # Home(c) \/ PathOf(c, part) = Home(c)
      OBVIOUS
    <2>5. p # Home(c)
      <3>0. p \in LongPaths /\ Last(p) = N(part, c.name) /\ N(part, c.name).kind = part
        BY <2>2, <2>3, PathIs
      <3>1. Last(p).kind = part /\ part # "module" /\ p # <<>>
        BY <2>3, <3>0, PartsAreNodes DEF LongPaths
      <3>2. c.module # None => Last(Home(c)).kind = "module"
        BY HomeIs, CommandIs, PartsAreNodes
      <3>3. QED
        BY <3>1, <3>2, HomeIs
    <2>6. /\ p # <<>> /\ Last(p).kind = part
          /\ p[1].kind = "module" => c.module # None /\ <<p[1]>> = Home(c)
      BY <2>2, <2>3, <2>5, PlaceIs
    <2>7. \A x \in Names : p # Feature(x)
      BY <2>3, <2>6, PartsAreNodes
    <2>8. QED
      BY <1>4, <2>1, <2>2, <2>6, <2>7
  <1>5. CASE s.op = "put"
    <2>1. c.kind = "module" /\ s \in ModulePuts(c)
      BY <1>1, <1>5 DEF StepKinds
    <2>2. p = s.path
      BY <1>5 DEF NewFiles
    <2> DEFINE f == Feature(c.name)
    <2>3. /\ p[1] = N("module", c.name)
          /\ \/ p = f /\ s.flat = {f}
             \/ p = f /\ s.declares = Within(f)
             \/ p \in Within(f) /\ Last(p).kind = "folder"
          /\ p # f => Rank(s) = 2
      BY <2>1, <2>2, ModulePutsAre
    <2>4. f = <<N("module", c.name)>>
      BY CommandIs, FeatureIs
    <2>5. \A x \in Names : Last(Feature(x)).kind = "module"
      BY PartsAreNodes
    <2>6. c.name \in Names /\ "folder" \notin StopKinds /\ "module" \notin StopKinds
      BY CommandIs DEF StopKinds
    <2> HIDE DEF f
    <2>7. p = f => Last(p).kind = "module"
      BY <2>5, <2>6 DEF f
    <2>8. QED
      BY <1>5, <2>1, <2>3, <2>4, <2>5, <2>6, <2>7 DEF f
  <1>6. CASE s.op = "declare"
    <2>1. c.kind # "module"
      BY <1>1, <1>6 DEF StepKinds
    <2>2. PICK parts \in Groups(c) : s = Declare(Home(c), PathsOf(c, parts))
      BY <1>1, <1>6 DEF StepKinds
    <2>3. s.home = Home(c) /\ s.paths = PathsOf(c, parts) /\ Rank(s) = 3
      BY <2>2, StepFields, StepRanks
    <2>4. PICK q \in s.paths : p = Front(q) /\ p # s.home
      BY <1>6 DEF NewFiles, Nested
    <2>5. PICK part \in parts : q = PathOf(c, part)
      BY <2>3, <2>4 DEF PathsOf
    <2>6. part \in PartNames
      BY <2>1, <2>5, PartsAre
    <2>7. p = Dir(c, part)
      BY <2>4, <2>5, <2>6, PathIs
    <2>8. /\ p # <<>> /\ Last(p).kind = "folder"
          /\ p[1].kind = "module" => c.module # None /\ <<p[1]>> = Home(c)
      BY <2>3, <2>4, <2>6, <2>7, PlaceIs
    <2>9. "folder" \notin StopKinds
      BY DEF StopKinds
    <2>10. QED
      BY <2>1, <2>3, <2>8, <2>9, PartsAreNodes
  <1>7. QED
    BY <1>1, <1>2, <1>3, <1>4, <1>5, <1>6 DEF StepKinds

-----------------------------------------------------------------------------
(***************************************************************************)
(* The tree stays laid out.                                                *)
(***************************************************************************)

\* The steps of c before s have been taken.
Before(t, c, s, tr) == \A x \in StepsOf(c) : Rank(x) < Rank(s) => Done(t, x, tr)
ScaffoldDone(t, tr) == \A s \in ScaffoldSet(tr) : Done(t, s, tr)

\* A command for a feature has looked for it.
LEMMA HomeIsThere ==
    ASSUME NEW t, NEW tr, NEW c \in Commands, NEW s, Before(t, c, s, tr), Rank(s) > 0, c.kind # "module",
           c.module # None
    PROVE  Home(c) \in t.files /\ Home(c) = Feature(c.module)
  <1>1. FailUnless(Home(c)) \in StepsOf(c)
    BY DEF StepsOf, Checks
  <1>2. Rank(FailUnless(Home(c))) = 0 /\ FailUnless(Home(c)).op = "failUnless" /\ FailUnless(Home(c)).path = Home(c)
    BY StepRanks, StepFields
  <1>3. Done(t, FailUnless(Home(c)), tr)
    BY <1>1, <1>2, RankIs DEF Before
  <1>4. QED
    BY <1>2, <1>3, HomeIs DEF Done

\* A module puts its own file before its folders.
LEMMA FeaturePut ==
    ASSUME NEW c \in Commands, c.kind = "module"
    PROVE  \E x \in StepsOf(c) :
              /\ x.op = "put" /\ x.path = Feature(c.name) /\ Rank(x) = 1
              /\ IF c.flat THEN x.flat = {Feature(c.name)} ELSE x.declares = Within(Feature(c.name))
  <1> DEFINE f == Feature(c.name)
             x == IF c.flat THEN PutFlat(f) ELSE Put(f, Within(f))
  <1>1. x \in StepsOf(c)
    BY DEF StepsOf, ModulePuts
  <1>2. /\ x.op = "put" /\ x.path = f
        /\ IF c.flat THEN x.flat = {f} ELSE x.declares = Within(f)
    BY StepFields
  <1>3. Len(f) = 1
    BY CommandIs, FeatureIs
  <1>4. Rank(x) = 1
    BY <1>3, StepRanks
  <1>5. QED
    BY <1>1, <1>2, <1>4

\* Steps that add neither features nor what is in one.
LEMMA LaidIfOwn ==
    ASSUME NEW t, NEW u, LaidOut(t), t.files \subseteq u.files, t.declared \subseteq u.declared,
           t.flat \subseteq u.flat, <<>> \notin u.flat, u.flat \subseteq u.files,
           \A p \in u.files \ t.files :
              (p # <<>> /\ p[1].kind = "module") => <<p[1]>> \in u.files,
           \A x \in Names : Feature(x) \in u.files \ t.files =>
              Feature(x) \in u.flat \/ Within(Feature(x)) \subseteq u.declared
    PROVE  LaidOut(u)
  BY DEF LaidOut

\* A step of a command leaves the tree laid out, and writes over no file.
LEMMA LaidStays ==
    ASSUME NEW t \in Trees, NEW tr, NEW c \in Commands, NEW s \in StepsOf(c), LaidOut(t), Ready(t, s),
           Before(t, c, s, tr)
    PROVE  LaidOut(Apply(t, s)) /\ Apply(t, s).rewritten = t.rewritten
  <1> DEFINE u == Apply(t, s)
  <1>1. StepType(s) /\ StepKinds(c, s)
    BY StepsHaveTypes, StepsHaveKinds
  <1>2. /\ u.files \subseteq t.files \cup NewFiles(s)
        /\ u.flat \subseteq t.flat \cup NewFlat(s)
        /\ u.rewritten = t.rewritten
        /\ s.op = "put" => /\ u.files = t.files \cup {s.path} /\ u.declared = t.declared \cup s.declares
                           /\ u.flat = t.flat \cup s.flat
    BY <1>1, ApplyAdds DEF Ready
  <1>3. t.files \subseteq u.files /\ t.declared \subseteq u.declared /\ t.flat \subseteq u.flat
    BY <1>1, StepGrows DEF Grows, LaidOut
  <1> HIDE DEF u
  <1>4. <<>> \notin t.flat /\ t.flat \subseteq t.files
    BY DEF LaidOut
  <1>5. <<>> \notin u.flat /\ u.flat \subseteq u.files
    <2>1. CASE s.op = "put"
      <3>1. s.flat \subseteq {s.path} \ {<<>>}
        BY <1>1, <2>1 DEF StepType
      <3>2. QED
        BY <1>2, <1>4, <2>1, <3>1
    <2>2. CASE s.op # "put"
      <3>1. NewFlat(s) = {}
        <4>1. CASE s.op = "make"
          <5>1. s.flat = {}
            BY <1>1, <4>1, ModFilesAre, StepFields DEF StepKinds
          <5>2. QED
            BY <4>1, <5>1 DEF NewFlat
        <4>2. CASE s.op # "make"
          BY <2>2, <4>2 DEF NewFlat
        <4>3. QED
          BY <4>1, <4>2
      <3>2. QED
        BY <1>2, <1>3, <1>4, <3>1
    <2>3. QED
      BY <2>1, <2>2
  <1>6. ASSUME NEW p \in u.files \ t.files, p # <<>>, p[1].kind = "module"
        PROVE  <<p[1]>> \in u.files
    <2>1. p \in NewFiles(s)
      BY <1>2
    <2>2. \/ <<p[1]>> = p
          \/ c.module # None /\ <<p[1]>> = Home(c) /\ Rank(s) > 0 /\ c.kind # "module"
          \/ c.kind = "module" /\ Rank(s) = 2 /\ <<p[1]>> = Feature(c.name)
      BY <1>6, <2>1, NewFilesAre
    <2>3. CASE <<p[1]>> = p
      BY <2>3
    <2>4. CASE c.module # None /\ <<p[1]>> = Home(c) /\ Rank(s) > 0 /\ c.kind # "module"
      BY <1>3, <2>4, HomeIsThere
    <2>5. CASE c.kind = "module" /\ Rank(s) = 2 /\ <<p[1]>> = Feature(c.name)
      <3>1. PICK x \in StepsOf(c) : x.op = "put" /\ x.path = Feature(c.name) /\ Rank(x) = 1
        BY <2>5, FeaturePut
      <3>2. Done(t, x, tr)
        BY <2>5, <3>1 DEF Before
      <3>3. QED
        BY <1>3, <2>5, <3>1, <3>2 DEF Done
    <2>6. QED
      BY <2>2, <2>3, <2>4, <2>5
  <1>7. ASSUME NEW x \in Names, Feature(x) \in u.files \ t.files
        PROVE  Feature(x) \in u.flat \/ Within(Feature(x)) \subseteq u.declared
    <2>1. Feature(x) \in NewFiles(s)
      BY <1>2, <1>7
    <2>2. s.op = "put" /\ (Feature(x) \in s.flat \/ s.declares = Within(Feature(x)))
      BY <2>1, NewFilesAre
    <2>3. QED
      BY <1>2, <2>2
  <1>8. LaidOut(u)
    BY <1>3, <1>5, <1>6, <1>7, LaidIfOwn
  <1>9. QED
    BY <1>2, <1>8 DEF u

\* The same of nestforge new.
LEMMA LaidScaffold ==
    ASSUME NEW t \in Trees, NEW tr \in AllTransports, NEW s \in ScaffoldSet(tr), LaidOut(t), Ready(t, s)
    PROVE  LaidOut(Apply(t, s)) /\ Apply(t, s).rewritten = t.rewritten
  <1> DEFINE u == Apply(t, s)
  <1>1. s.op = "put" /\ s.flat = {} /\ OwnPath(s.path) /\ StepType(s)
    BY ScaffoldSteps
  <1>2. /\ u.files = t.files \cup {s.path} /\ u.declared = t.declared \cup s.declares
        /\ u.flat = t.flat \cup s.flat /\ u.rewritten = t.rewritten
    BY <1>1, ApplyAdds DEF Ready
  <1> HIDE DEF u
  <1>3. \A p \in u.files \ t.files : OwnPath(p)
    BY <1>1, <1>2
  <1>4. \A p \in u.files \ t.files : (p # <<>> /\ p[1].kind = "module") => <<p[1]>> \in u.files
    BY <1>3 DEF OwnPath
  <1>5. \A x \in Names : Feature(x) \notin u.files \ t.files
    BY <1>3, PartsAreNodes
  <1>6. u.flat = t.flat /\ <<>> \notin t.flat /\ t.flat \subseteq t.files
    BY <1>1, <1>2 DEF LaidOut
  <1>7. LaidOut(u)
    BY <1>2, <1>4, <1>5, <1>6, LaidIfOwn
  <1>8. QED
    BY <1>2, <1>7 DEF u

-----------------------------------------------------------------------------
(***************************************************************************)
(* When a command has written and declared its parts, they are in place.   *)
(***************************************************************************)

\* What nestforge new leaves.
LEMMA ScaffoldGives ==
    ASSUME NEW t, NEW tr \in AllTransports, ScaffoldDone(t, tr)
    PROVE  /\ <<>> \in t.files /\ Declared(tr) \subseteq t.declared
           /\ \A u \in ScaffoldSet(tr) : u.path \in t.files /\ u.declares \subseteq t.declared
           /\ tr = "Websockets" => Folder("ws") \in t.files
           /\ tr = "Graphql" => Folder("graphql") \in t.files \cap t.declared
           /\ tr = "Grpc" => /\ Folder("grpc") \in t.files \cap t.declared
                             /\ Folder("build") \in t.files \cap t.declared
           /\ \A p \in OwnUses(tr) : Under(t, <<>>, p)
  <1>1. \A u \in ScaffoldSet(tr) : u.path \in t.files /\ u.declares \subseteq t.declared
    BY ScaffoldSteps DEF ScaffoldDone, Done
  <1>2. <<>> \in t.files /\ Declared(tr) \subseteq t.declared
    BY <1>1, ScaffoldSteps
  <1>3. \A p \in OwnUses(tr) : p \in t.declared /\ p \in t.files /\ Front(p) = <<>>
    BY <1>1, <1>2, ScaffoldSteps
  <1>4. QED
    BY <1>1, <1>2, <1>3, ScaffoldSteps DEF Under, Has

\* The steps for a part.
LEMMA StepsForPart ==
    ASSUME NEW c \in Commands, c.kind # "module", NEW part \in PartSet(c)
    PROVE  /\ Make(PathOf(c, part), {}) \in StepsOf(c)
           /\ \E parts \in Groups(c) : part \in parts /\ Declare(Home(c), PathsOf(c, parts)) \in StepsOf(c)
           /\ (c.module = None /\ c.kind \notin {"graphql", "grpc"}) =>
                 Lib(IF c.flat THEN PathOf(c, part) ELSE Dir(c, part)) \in StepsOf(c)
  <1>1. Make(PathOf(c, part), {}) \in StepsOf(c)
    BY DEF StepsOf, Makes
  <1>2. PICK parts \in Groups(c) : part \in parts
    BY PartsAre
  <1>3. Declare(Home(c), PathsOf(c, parts)) \in StepsOf(c)
    BY <1>2 DEF StepsOf, Declares
  <1>4. part \in PartNames
    BY PartsAre
  <1>5. Front(PathOf(c, part)) = Dir(c, part)
    BY <1>4, PathIs
  <1>6. (c.module = None /\ c.kind \notin {"graphql", "grpc"}) =>
           Lib(IF c.flat THEN PathOf(c, part) ELSE Dir(c, part)) \in Libs(c)
    BY <1>5 DEF Libs
  <1>7. QED
    BY <1>1, <1>2, <1>3, <1>6 DEF StepsOf

\* Its file is there, and so is its folder, which is declared with it.
LEMMA PartIsMade ==
    ASSUME NEW t, NEW tr, NEW c \in Commands, NEW s, Before(t, c, s, tr), c.kind # "module",
           NEW part \in PartSet(c)
    PROVE  /\ Rank(s) > 2 => PathOf(c, part) \in t.files
           /\ (Rank(s) > 3 /\ ~c.flat) => Dir(c, part) \in t.files /\ PathOf(c, part) \in t.declared
           /\ (Rank(s) > 3 /\ c.flat) => PathOf(c, part) \in t.declared \/ Home(c) \in t.files \ t.flat
  <1>1. part \in PartNames
    BY PartsAre
  <1>2. Rank(s) > 2 => PathOf(c, part) \in t.files
    <2> HAVE Rank(s) > 2
    <2> DEFINE x == Make(PathOf(c, part), {})
    <2>1. x \in StepsOf(c) /\ Rank(x) = 2 /\ x.op = "make" /\ x.path = PathOf(c, part)
      BY StepsForPart, StepRanks, StepFields
    <2> HIDE DEF x
    <2>2. Done(t, x, tr)
      BY <2>1, RankIs DEF Before
    <2>3. QED
      BY <2>1, <2>2 DEF Done
  <1>3. ASSUME Rank(s) > 3
        PROVE  /\ ~c.flat => Dir(c, part) \in t.files /\ PathOf(c, part) \in t.declared
               /\ c.flat => PathOf(c, part) \in t.declared \/ Home(c) \in t.files \ t.flat
    <2>1. PICK parts \in Groups(c) : part \in parts /\ Declare(Home(c), PathsOf(c, parts)) \in StepsOf(c)
      BY StepsForPart
    <2> DEFINE x == Declare(Home(c), PathsOf(c, parts))
    <2>2. x \in StepsOf(c) /\ Rank(x) = 3 /\ x.op = "declare" /\ x.home = Home(c) /\ x.paths = PathsOf(c, parts)
      BY <2>1, StepRanks, StepFields
    <2> HIDE DEF x
    <2>3. Done(t, x, tr)
      BY <1>3, <2>2, RankIs DEF Before
    <2>4. PathOf(c, part) \in x.paths
      BY <2>1, <2>2 DEF PathsOf
    <2>5. Front(PathOf(c, part)) = Dir(c, part)
      BY <1>1, PathIs
    <2>6. ~c.flat => Dir(c, part) \in Nested(x)
      <3> HAVE ~c.flat
      <3>1. Dir(c, part) # Home(c)
        BY <1>1, DirIs
      <3>2. QED
        BY <2>2, <2>4, <2>5, <3>1 DEF Nested
    <2>7. QED
      BY <2>2, <2>3, <2>4, <2>6 DEF Done
  <1>4. QED
    BY <1>2, <1>3, CommandIs

\* Once its declarations are made, a part of a command that fits the
\* application is in place.
LEMMA PartInPlace ==
    ASSUME NEW t, NEW tr \in AllTransports, NEW c \in Commands, NEW s, Before(t, c, s, tr), Rank(s) > 4,
           c.kind # "module", NEW part \in PartSet(c), LaidOut(t), ScaffoldDone(t, tr), FitsSo(c, t, tr)
    PROVE  Under(t, Home(c), PathOf(c, part))
  <1>1. part \in PartNames /\ c.flat \in BOOLEAN
    BY PartsAre, CommandIs
  <1>2. Front(PathOf(c, part)) = Dir(c, part)
    BY <1>1, PathIs
  <1>3. PathOf(c, part) \in t.files
        /\ (~c.flat => Dir(c, part) \in t.files /\ PathOf(c, part) \in t.declared)
        /\ (c.flat => PathOf(c, part) \in t.declared \/ Home(c) \in t.files \ t.flat)
    <2>1. Rank(s) > 2 /\ Rank(s) > 3
      BY RankIs
    <2>2. QED
      BY <2>1, PartIsMade
  <1>4. (c.module = None /\ c.kind \notin {"graphql", "grpc"}) =>
           (IF c.flat THEN PathOf(c, part) ELSE Dir(c, part)) \in t.declared
    <2> HAVE c.module = None /\ c.kind \notin {"graphql", "grpc"}
    <2> DEFINE p == IF c.flat THEN PathOf(c, part) ELSE Dir(c, part)
    <2>1. Lib(p) \in StepsOf(c)
      BY StepsForPart
    <2> HIDE DEF p
    <2>2. Rank(Lib(p)) = 4 /\ Lib(p).op = "lib" /\ Lib(p).path = p
      BY StepRanks, StepFields
    <2>3. Done(t, Lib(p), tr)
      BY <2>1, <2>2, RankIs DEF Before
    <2>4. p \in t.declared
      BY <2>2, <2>3 DEF Done
    <2>5. QED
      BY <2>4 DEF p
  <1>5. CASE c.flat
    <2>1. Dir(c, part) = Home(c)
      BY <1>1, <1>5, DirIs
    <2>2. PathOf(c, part) \in t.declared
      <3>1. CASE c.module = None
        <4>1. c.kind \notin {"graphql", "grpc"}
          BY <1>5, CommandIs DEF PartKinds
        <4>2. QED
          BY <1>4, <1>5, <3>1, <4>1
      <3>2. CASE c.module # None
        <4>1. Home(c) \in t.files
          BY <3>2, RankIs, HomeIsThere
        <4>2. Home(c) \in t.flat
          BY <1>5, <3>2, <4>1 DEF FitsSo
        <4>3. QED
          BY <1>3, <1>5, <4>2
      <3>3. QED
        BY <3>1, <3>2
    <2>3. QED
      BY <1>2, <1>3, <2>1, <2>2 DEF Under, Has
  <1>6. CASE ~c.flat
    <2>1. Front(Dir(c, part)) = Home(c) /\ Dir(c, part) = Home(c) \o <<N("folder", FolderName[part])>>
      BY <1>1, <1>6, DirIs
    <2>2. Dir(c, part) \in t.declared
      <3>1. CASE c.module = None /\ c.kind \notin {"graphql", "grpc"}
        BY <1>4, <1>6, <3>1
      <3>2. CASE c.module = None /\ c.kind \in {"graphql", "grpc"}
        <4>1. Dir(c, part) = Folder(FolderName[part])
          BY <1>1, <1>6, <3>2, DirIs
        <4>2. CASE c.kind = "graphql"
          <5>1. PartSet(c) = {"graphql"} /\ tr = "Graphql"
            BY <4>2, PartsAre DEF FitsSo
          <5>2. FolderName[part] = "graphql"
            BY <5>1 DEF FolderName
          <5>3. QED
            BY <4>1, <5>1, <5>2, ScaffoldGives
        <4>3. CASE c.kind = "grpc"
          <5>1. PartSet(c) = {"grpc", "proto"} /\ tr = "Grpc"
            BY <4>3 DEF FitsSo, PartSet
          <5>2. FolderName[part] \in {"grpc", "build"}
            BY <5>1 DEF FolderName
          <5>3. QED
            BY <4>1, <5>1, <5>2, ScaffoldGives
        <4>4. QED
          BY <3>2, <4>2, <4>3
      <3>3. CASE c.module # None
        <4>1. Home(c) \in t.files /\ Home(c) = Feature(c.module) /\ c.module \in Names
          BY <3>3, RankIs, HomeIsThere, CommandIs
        <4>2. Home(c) \notin t.flat /\ c.kind = "resource"
          BY <1>6, <3>3, <4>1 DEF FitsSo
        <4>3. Within(Home(c)) \subseteq t.declared
          BY <4>1, <4>2 DEF LaidOut
        <4>4. PartSet(c) = {"dto", "create_dto", "update_dto", "service", "controller"}
          BY <4>2, PartsAre
        <4>5. FolderName[part] \in {"controllers", "services", "dto"}
          BY <4>4 DEF FolderName
        <4>6. Dir(c, part) = Home(c) \o Folder(FolderName[part])
          BY <1>6 DEF Dir
        <4>7. Dir(c, part) \in Within(Home(c))
          BY <4>5, <4>6 DEF Within
        <4>8. QED
          BY <4>3, <4>7
      <3>4. QED
        BY <3>1, <3>2, <3>3
    <2>3. QED
      BY <1>2, <1>3, <1>6, <2>1, <2>2 DEF Under, Has
  <1>7. QED
    BY <1>1, <1>5, <1>6

-----------------------------------------------------------------------------
(***************************************************************************)
(* A sound tree stays one.                                                 *)
(***************************************************************************)

\* What a step declares.
LEMMA NewDeclaredAre ==
    ASSUME NEW c \in Commands, NEW s \in StepsOf(c), NEW p \in NewDeclared(s)
    PROVE  /\ \/ c.kind = "module" /\ Rank(s) = 4 /\ p = Feature(c.name)
              \/ /\ c.kind # "module" /\ Rank(s) \in {3, 4}
                 /\ \E part \in PartSet(c) : p = PathOf(c, part)
              \/ /\ c.kind # "module" /\ Rank(s) = 4 /\ ~c.flat
                 /\ \E part \in PartSet(c) : p = Dir(c, part)
              \/ c.kind # "module" /\ s \in ModFiles(c) /\ s.op = "make" /\ p \in s.declares
              \/ /\ c.kind = "module" /\ s.op = "put" /\ s.path = Feature(c.name) /\ s.flat = {}
                 /\ s.declares = Within(Feature(c.name))
           /\ \A x \in Names : p = Feature(x) => c.kind = "module" /\ Rank(s) = 4 /\ p = Feature(c.name)
  <1>1. StepKinds(c, s) /\ s.op \in {"make", "put", "declare", "lib"}
    BY StepsHaveKinds DEF NewDeclared
  <1>2. \A part \in PartNames : \A x \in Names : PathOf(c, part) # Feature(x) /\ (~c.flat => Dir(c, part) # Feature(x))
    <2> TAKE part \in PartNames
    <2> TAKE x \in Names
    <2>1. Last(Feature(x)).kind = "module" /\ part # "module"
      BY PartsAreNodes
    <2>2. Last(PathOf(c, part)) = N(part, c.name) /\ N(part, c.name).kind = part
      BY PathIs
    <2>3. ~c.flat => /\ Last(Dir(c, part)) = N("folder", FolderName[part])
                     /\ N("folder", FolderName[part]).kind = "folder"
      BY DirIs
    <2>4. QED
      BY <2>1, <2>2, <2>3
  <1>3. c.kind # "module" => PartSet(c) \subseteq PartNames
    BY PartsAre
  <1>4. CASE s.op = "make" /\ s \in ModFiles(c)
    <2>1. p \in s.declares /\ c.kind # "module" /\ OwnPath(p)
      BY <1>1, <1>4, ModFilesAre DEF NewDeclared, StepKinds
    <2>2. QED
      BY <1>4, <2>1, PartsAreNodes
  <1>5. CASE s.op = "make" /\ \E part \in PartSet(c) : s = Make(PathOf(c, part), {})
    BY <1>5, StepFields DEF NewDeclared
  <1>6. CASE s.op = "put"
    <2>1. c.kind = "module" /\ s \in ModulePuts(c) /\ p \in s.declares
      BY <1>1, <1>6 DEF StepKinds, NewDeclared
    <2>2. s.path = Feature(c.name) /\ s.declares = Within(Feature(c.name)) /\ s.flat = {}
      BY <2>1, ModulePutsAre
    <2>3. Last(p).kind = "folder"
      BY <2>1, <2>2, FeatureFolders, CommandIs
    <2>4. \A x \in Names : p # Feature(x)
      BY <2>3, PartsAreNodes
    <2>5. QED
      BY <1>6, <2>1, <2>2, <2>4
  <1>7. CASE s.op = "declare"
    <2>1. c.kind # "module"
      BY <1>1, <1>7 DEF StepKinds
    <2>2. PICK parts \in Groups(c) : s = Declare(Home(c), PathsOf(c, parts))
      BY <1>1, <1>7 DEF StepKinds
    <2>3. s.paths = PathsOf(c, parts) /\ Rank(s) = 3
      BY <2>2, StepFields, StepRanks
    <2>4. PICK part \in parts : p = PathOf(c, part)
      BY <1>7, <2>3 DEF PathsOf, NewDeclared
    <2>5. part \in PartSet(c)
      BY <2>1, <2>4, PartsAre
    <2>6. QED
      BY <1>2, <1>3, <2>1, <2>3, <2>4, <2>5
  <1>8. CASE s.op = "lib" /\ c.kind = "module"
    <2>1. s = Lib(Feature(c.name))
      BY <1>1, <1>8 DEF StepKinds
    <2>2. p = Feature(c.name) /\ Rank(s) = 4
      BY <1>8, <2>1, StepFields, StepRanks DEF NewDeclared
    <2>3. QED
      BY <1>8, <2>2
  <1>9. CASE s.op = "lib" /\ c.kind # "module"
    <2>1. PICK part \in PartSet(c) : s = Lib(IF c.flat THEN PathOf(c, part) ELSE Front(PathOf(c, part)))
      BY <1>1, <1>9 DEF StepKinds
    <2>2. part \in PartNames
      BY <1>3, <1>9
    <2>3. Front(PathOf(c, part)) = Dir(c, part)
      BY <2>2, PathIs
    <2>4. Rank(s) = 4 /\ p = IF c.flat THEN PathOf(c, part) ELSE Dir(c, part)
      BY <1>9, <2>1, <2>3, StepFields, StepRanks DEF NewDeclared
    <2>5. c.flat \in BOOLEAN
      BY CommandIs
    <2>6. CASE c.flat
      BY <1>2, <1>9, <2>2, <2>4, <2>6
    <2>7. CASE ~c.flat
      BY <1>2, <1>9, <2>2, <2>4, <2>7
    <2>8. QED
      BY <2>5, <2>6, <2>7
  <1>10. QED
    BY <1>1, <1>4, <1>5, <1>6, <1>7, <1>8, <1>9 DEF StepKinds

\* The files of a module, once they are written.
LEMMA ModuleIsMade ==
    ASSUME NEW t, NEW tr, NEW c \in Commands, NEW s, Before(t, c, s, tr), c.kind = "module"
    PROVE  /\ Rank(s) > 1 => Feature(c.name) \in t.files /\ (c.flat => Feature(c.name) \in t.flat)
           /\ (Rank(s) > 2 /\ ~c.flat) => Within(Feature(c.name)) \subseteq t.files
           /\ Rank(s) > 4 => Feature(c.name) \in t.declared
  <1>1. c.name \in Names
    BY CommandIs
  <1>2. ASSUME Rank(s) > 1 PROVE Feature(c.name) \in t.files /\ (c.flat => Feature(c.name) \in t.flat)
    <2>1. PICK x \in StepsOf(c) : /\ x.op = "put" /\ x.path = Feature(c.name) /\ Rank(x) = 1
                                  /\ IF c.flat THEN x.flat = {Feature(c.name)}
                                     ELSE x.declares = Within(Feature(c.name))
      BY FeaturePut
    <2>2. Done(t, x, tr)
      BY <1>2, <2>1, RankIs DEF Before
    <2>3. QED
      BY <2>1, <2>2 DEF Done
  <1>3. ASSUME Rank(s) > 2, ~c.flat, NEW p \in Within(Feature(c.name)) PROVE p \in t.files
    <2>1. Put(p, {}) \in StepsOf(c)
      BY <1>3 DEF StepsOf, ModulePuts
    <2>2. Len(p) = 2
      BY <1>1, FeatureFolders
    <2>3. Rank(Put(p, {})) = 2 /\ Put(p, {}).op = "put" /\ Put(p, {}).path = p
      BY <2>2, StepRanks, StepFields
    <2>4. Done(t, Put(p, {}), tr)
      BY <1>3, <2>1, <2>3, RankIs DEF Before
    <2>5. QED
      BY <2>3, <2>4 DEF Done
  <1>4. ASSUME Rank(s) > 4 PROVE Feature(c.name) \in t.declared
    <2> DEFINE x == Lib(Feature(c.name))
    <2>1. x \in StepsOf(c)
      BY DEF StepsOf
    <2>2. Rank(x) = 4 /\ x.op = "lib" /\ x.path = Feature(c.name)
      BY StepRanks, StepFields
    <2> HIDE DEF x
    <2>3. Done(t, x, tr)
      BY <1>4, <2>1, <2>2, RankIs DEF Before
    <2>4. QED
      BY <2>2, <2>3 DEF Done
  <1>5. QED
    BY <1>2, <1>3, <1>4

\* What a command that fits the application finds of the folders it would create.
LEMMA ModIsThere ==
    ASSUME NEW t, NEW tr \in AllTransports, NEW c \in Commands, NEW s \in ModFiles(c), ScaffoldDone(t, tr),
           FitsSo(c, t, tr)
    PROVE  s.path \in t.files \/ s.declares = {}
  <1>1. /\ tr = "Websockets" => Folder("ws") \in t.files
        /\ tr = "Graphql" => Folder("graphql") \in t.files
        /\ tr = "Grpc" => Folder("grpc") \in t.files /\ Folder("build") \in t.files
    BY ScaffoldGives
  <1>2. \/ c.kind = "gateway" /\ s.path = Folder("ws")
        \/ c.kind = "graphql" /\ s.path = Folder("graphql")
        \/ c.kind = "grpc" /\ s.path \in {Folder("build"), Folder("grpc")}
        \/ c.kind = "microservice" /\ s.declares = {}
    BY ModFilesAre
  <1>3. QED
    BY <1>1, <1>2 DEF FitsSo

\* What is declared has a file, or will be out of reach until it has one.
LEMMA DeclaredStays ==
    ASSUME NEW t \in Trees, NEW tr \in AllTransports, NEW c \in Commands, NEW s \in StepsOf(c),
           LaidOut(t), Ready(t, s), Before(t, c, s, tr), ScaffoldDone(t, tr), FitsSo(c, t, tr), Sound(t)
    PROVE  \A p \in Apply(t, s).declared : p \in Apply(t, s).files \/ Pending(Apply(t, s), p)
  <1> DEFINE u == Apply(t, s)
  <1>1. StepType(s) /\ StepKinds(c, s) /\ c.name \in Names
    BY StepsHaveTypes, StepsHaveKinds, CommandIs
  <1>2. /\ u.declared \subseteq t.declared \cup NewDeclared(s)
        /\ s.op = "put" => /\ u.files = t.files \cup {s.path} /\ u.declared = t.declared \cup s.declares
                           /\ u.flat = t.flat \cup s.flat
    BY <1>1, ApplyAdds
  <1>3. Grows(t, u)
    BY <1>1, StepGrows DEF LaidOut
  <1>4. (s.op = "make" /\ s.path \in t.files) => u = t
    BY ApplyMakeAgain
  <1>5. t.flat \subseteq t.files
    BY DEF LaidOut
  <1> HIDE DEF u
  <1>6. t.files \subseteq u.files /\ u.flat \cap t.files \subseteq t.flat
    BY <1>3 DEF Grows
  <1>7. ASSUME NEW p \in t.declared PROVE p \in u.files \/ Pending(u, p)
    <2>1. CASE p \in t.files
      BY <1>6, <2>1
    <2>2. CASE Pending(t, p)
      <3>1. PICK x \in Names : Feature(x) \in t.files \ (t.flat \cup t.declared) /\ p \in Within(Feature(x))
        BY <2>2 DEF Pending
      <3>2. CASE Feature(x) \notin u.declared
        BY <1>6, <3>1, <3>2 DEF Pending
      <3>3. CASE Feature(x) \in u.declared
        <4>1. Feature(x) \in NewDeclared(s)
          BY <1>2, <3>1, <3>3
        <4>2. c.kind = "module" /\ Rank(s) = 4 /\ Feature(x) = Feature(c.name)
          BY <4>1, NewDeclaredAre
        <4>3. Rank(s) > 1 /\ Rank(s) > 2
          BY <4>2
        <4>4. ~c.flat
          BY <3>1, <4>2, <4>3, ModuleIsMade
        <4>5. Within(Feature(c.name)) \subseteq t.files
          BY <4>2, <4>3, <4>4, ModuleIsMade
        <4>6. QED
          BY <1>6, <3>1, <4>2, <4>5
      <3>4. QED
        BY <3>2, <3>3
    <2>3. QED
      BY <2>1, <2>2 DEF Sound
  <1>8. ASSUME NEW p \in u.declared \ t.declared PROVE p \in u.files \/ Pending(u, p)
    <2>1. p \in NewDeclared(s)
      BY <1>2, <1>8
    <2>2. CASE c.kind = "module" /\ Rank(s) = 4 /\ p = Feature(c.name)
      <3>1. Rank(s) > 1
        BY <2>2
      <3>2. Feature(c.name) \in t.files
        BY <2>2, <3>1, ModuleIsMade
      <3>3. QED
        BY <1>6, <2>2, <3>2
    <2>3. CASE c.kind # "module" /\ Rank(s) \in {3, 4} /\ \E part \in PartSet(c) : p = PathOf(c, part)
      <3>1. Rank(s) > 2
        BY <2>3
      <3>2. p \in t.files
        BY <2>3, <3>1, PartIsMade
      <3>3. QED
        BY <1>6, <3>2
    <2>4. CASE c.kind # "module" /\ Rank(s) = 4 /\ ~c.flat /\ \E part \in PartSet(c) : p = Dir(c, part)
      <3>1. Rank(s) > 3
        BY <2>4
      <3>2. p \in t.files
        BY <2>4, <3>1, PartIsMade
      <3>3. QED
        BY <1>6, <3>2
    <2>5. CASE c.kind # "module" /\ s \in ModFiles(c) /\ s.op = "make" /\ p \in s.declares
      <3>1. s.path \in t.files
        BY <2>5, ModIsThere
      <3>2. u = t
        BY <1>4, <2>5, <3>1
      <3>3. QED
        BY <1>8, <3>2
    <2>6. CASE /\ c.kind = "module" /\ s.op = "put" /\ s.path = Feature(c.name) /\ s.flat = {}
               /\ s.declares = Within(Feature(c.name))
      <3> DEFINE f == Feature(c.name)
      <3>1. \A x \in Names : f \notin Within(Feature(x))
        <4>1. Last(f).kind = "module"
          BY <1>1, PartsAreNodes
        <4>2. \A x \in Names : \A q \in Within(Feature(x)) : Last(q).kind = "folder"
          BY FeatureFolders
        <4>3. QED
          BY <4>1, <4>2
      <3>2. f \notin t.files
        BY <2>6 DEF Ready
      <3>3. f \notin t.declared
        BY <3>1, <3>2 DEF Sound, Pending
      <3>4. f \in u.files \ (u.flat \cup u.declared)
        BY <1>1, <1>2, <1>5, <2>6, <3>1, <3>2, <3>3
      <3>5. p \in Within(f)
        BY <2>1, <2>6 DEF NewDeclared
      <3>6. QED
        BY <1>1, <3>4, <3>5 DEF Pending
    <2>7. QED
      BY <2>1, <2>2, <2>3, <2>4, <2>5, <2>6, NewDeclaredAre
  <1>9. QED
    BY <1>7, <1>8 DEF u

\* The entries that a command adds.
NewUses(s) == IF s.op \in {"use", "wireApp"} THEN {s.path} ELSE {}
NewEntries(s, home, list) ==
    IF s.op = "wireApp" /\ home = <<>> /\ list = s.list THEN {s.path}
    ELSE IF s.op = "wireFeature" /\ home = Home(s.command) /\ list \in FeatureLists(s)
    THEN {EntryOf(s.command, list)} ELSE {}

\* No step adds more than that.
LEMMA ApplyEnters ==
    ASSUME NEW t \in Trees, NEW s, StepType(s)
    PROVE  LET u == Apply(t, s)
           IN  /\ u.uses \subseteq t.uses \cup NewUses(s)
               /\ \A home \in Homes, list \in Lists :
                     Range(u.lists[home][list]) \subseteq Range(t.lists[home][list]) \cup NewEntries(s, home, list)
  <1> DEFINE u == Apply(t, s)
  <1>1. s.op \notin {"use", "wireApp", "wireFeature"} => u.uses = t.uses /\ u.lists = t.lists
    BY ApplyAdds
  <1>2. CASE s.op \notin {"use", "wireApp", "wireFeature"}
    BY <1>1, <1>2
  <1>3. CASE s.op = "use"
    <2>1. u.uses = t.uses \cup {s.path} /\ u.lists = t.lists
      BY <1>3, ApplyUse
    <2>2. QED
      BY <1>3, <2>1 DEF NewUses
  <1>4. CASE s.op = "wireApp"
    <2>1. IF Listed(t.lists[<<>>][s.list], s.path) THEN u = t
          ELSE /\ u.uses = t.uses \cup {s.path}
               /\ u.lists[<<>>][s.list] = Newest(t.lists[<<>>][s.list], s.path)
               /\ \A home \in Homes, list \in Lists :
                     home # <<>> \/ list # s.list => u.lists[home][list] = t.lists[home][list]
      BY <1>4, ApplyWireApp
    <2>2. s.path \in LongPaths /\ s.list \in Lists
      BY <1>4 DEF StepType
    <2> DEFINE old == t.lists[<<>>][s.list]
    <2>3. old \in Seq(LongPaths)
      BY <2>2, TreesHave
    <2>4. Range(<<s.path>> \o old) = {s.path} \cup Range(old)
      BY <2>2, <2>3, Prepended
    <2>5. Range(Newest(old, s.path)) \subseteq {s.path} \cup Range(old)
      BY <2>4 DEF Newest
    <2> HIDE DEF u
    <2>6. CASE Listed(old, s.path)
      BY <2>1, <2>6 DEF u
    <2>7. CASE ~Listed(old, s.path)
      <3>1. \A home \in Homes, list \in Lists :
               Range(u.lists[home][list]) \subseteq Range(t.lists[home][list]) \cup NewEntries(s, home, list)
        <4> TAKE home \in Homes, list \in Lists
        <4>1. CASE home = <<>> /\ list = s.list
          <5>1. NewEntries(s, home, list) = {s.path}
            BY <1>4, <4>1 DEF NewEntries
          <5>2. QED
            BY <2>1, <2>5, <2>7, <4>1, <5>1
        <4>2. CASE home # <<>> \/ list # s.list
          BY <2>1, <2>7, <4>2
        <4>3. QED
          BY <4>1, <4>2
      <3>2. QED
        BY <1>4, <2>1, <2>7, <3>1 DEF NewUses, u
    <2>8. QED
      BY <2>6, <2>7 DEF u
  <1>5. CASE s.op = "wireFeature"
    <2> DEFINE h == Home(s.command)
    <2>1. /\ u.uses = t.uses
          /\ \A home \in Homes : home # h => u.lists[home] = t.lists[home]
          /\ \A list \in Lists :
                IF list \in FeatureLists(s)
                THEN Range(u.lists[h][list]) = Range(t.lists[h][list]) \cup {EntryOf(s.command, list)}
                ELSE u.lists[h][list] = t.lists[h][list]
      BY <1>5, ApplyWireFeature
    <2> HIDE DEF u
    <2>2. \A home \in Homes, list \in Lists :
             Range(u.lists[home][list]) \subseteq Range(t.lists[home][list]) \cup NewEntries(s, home, list)
      <3> TAKE home \in Homes, list \in Lists
      <3>1. CASE home = h /\ list \in FeatureLists(s)
        <4>1. NewEntries(s, home, list) = {EntryOf(s.command, list)}
          BY <1>5, <3>1 DEF NewEntries
        <4>2. QED
          BY <2>1, <3>1, <4>1
      <3>2. CASE home = h /\ list \notin FeatureLists(s)
        BY <2>1, <3>2
      <3>3. CASE home # h
        BY <2>1, <3>3
      <3>4. QED
        BY <3>1, <3>2, <3>3
    <2>3. QED
      BY <2>1, <2>2 DEF u
  <1>6. QED
    BY <1>2, <1>3, <1>4, <1>5

\* What a command enters is in place before.
LEMMA EntriesArePlaced ==
    ASSUME NEW t \in Trees, NEW tr \in AllTransports, NEW c \in Commands, NEW s \in StepsOf(c),
           LaidOut(t), Before(t, c, s, tr), ScaffoldDone(t, tr), FitsSo(c, t, tr)
    PROVE  /\ \A p \in NewUses(s) : Under(t, <<>>, p)
           /\ \A home \in Homes : \A list \in Lists : \A e \in NewEntries(s, home, list) : Under(t, home, e)
  <1>1. StepKinds(c, s) /\ c.flat \in BOOLEAN
    BY StepsHaveKinds, CommandIs
  <1>2. (Rank(s) > 4 /\ c.kind # "module") => \A part \in PartSet(c) : Under(t, Home(c), PathOf(c, part))
    BY PartInPlace
  <1>3. c.module = None => Home(c) = <<>>
    BY HomeIs
  <1>4. s.op \in {"use", "wireApp", "wireFeature"} => Rank(s) > 4
    BY DEF Rank
  <1>5. s.op = "wireApp" => Under(t, <<>>, s.path)
    <2> HAVE s.op = "wireApp"
    <2>1. /\ c.kind \in PartKinds /\ c.module = None
          /\ \/ "controller" \in PartSet(c) /\ s = WireApp("controllers", PathOf(c, "controller"))
             \/ "service" \in PartSet(c) /\ s = WireApp("providers", PathOf(c, "service"))
      BY <1>1 DEF StepKinds
    <2>2. c.kind # "module"
      BY <2>1 DEF PartKinds
    <2>3. \E part \in PartSet(c) : s.path = PathOf(c, part)
      BY <2>1, StepFields
    <2>4. QED
      BY <1>2, <1>3, <1>4, <2>1, <2>2, <2>3
  <1>6. s.op = "use" => Under(t, <<>>, s.path)
    <2> HAVE s.op = "use"
    <2>1. c.kind = "module" /\ s = Use(Feature(c.name))
      BY <1>1 DEF StepKinds
    <2>2. s.path = Feature(c.name) /\ c.name \in Names
      BY <2>1, StepFields, CommandIs
    <2>3. Rank(s) > 4 /\ Rank(s) > 1
      BY <1>4, RankIs
    <2>4. Feature(c.name) \in t.files /\ Feature(c.name) \in t.declared
      BY <2>1, <2>3, ModuleIsMade
    <2>5. Front(Feature(c.name)) = <<>>
      BY <2>2, FeatureIs
    <2>6. QED
      BY <2>2, <2>4, <2>5 DEF Under, Has
  <1>7. s.op = "wireFeature" =>
           s.command = c /\ \A list \in Lists : list \in FeatureLists(s) => Under(t, Home(c), EntryOf(c, list))
    <2> HAVE s.op = "wireFeature"
    <2>1. c.kind \in PartKinds /\ c.module # None /\ s = WireFeature(c, ListsOf(c))
      BY <1>1 DEF StepKinds
    <2>2. s.command = c /\ s.lists = ListsOf(c)
      BY <2>1, StepFields
    <2>3. c.kind \notin {"module", "grpc"}
      BY <2>1 DEF PartKinds
    <2>4. PartSet(c) = Range(Parts(c))
      BY <2>3 DEF PartSet
    <2>5. ASSUME NEW list \in Lists, list \in FeatureLists(s) PROVE Under(t, Home(c), EntryOf(c, list))
      <3>1. EntryOf(c, list) = PathOf(c, IF list = "controllers" THEN "controller" ELSE "service")
        BY DEF EntryOf
      <3>2. (IF list = "controllers" THEN "controller" ELSE "service") \in PartSet(c)
        <4>1. CASE c.flat
          <5>1. list \in ListsOf(c)
            BY <2>2, <2>5, <4>1 DEF FeatureLists
          <5>2. QED
            BY <2>4, <5>1 DEF ListsOf
        <4>2. CASE ~c.flat
          <5>1. c.kind = "resource"
            BY <2>1, <4>2 DEF FitsSo
          <5>2. PartSet(c) = {"dto", "create_dto", "update_dto", "service", "controller"}
            BY <5>1, PartsAre
          <5>3. QED
            BY <5>2
        <4>3. QED
          BY <1>1, <4>1, <4>2
      <3>3. QED
        BY <1>2, <1>4, <2>3, <3>1, <3>2
    <2>6. QED
      BY <2>2, <2>5
  <1>8. \A p \in NewUses(s) : Under(t, <<>>, p)
    BY <1>5, <1>6 DEF NewUses
  <1>9. ASSUME NEW home \in Homes, NEW list \in Lists, NEW e \in NewEntries(s, home, list)
        PROVE  Under(t, home, e)
    <2>1. CASE s.op = "wireApp"
      <3>1. e = s.path /\ home = <<>>
        BY <2>1 DEF NewEntries
      <3>2. QED
        BY <1>5, <2>1, <3>1
    <2>2. CASE s.op = "wireFeature"
      <3>1. e = EntryOf(s.command, list) /\ home = Home(s.command) /\ list \in FeatureLists(s)
        BY <2>2 DEF NewEntries
      <3>2. QED
        BY <1>7, <2>2, <3>1
    <2>3. CASE s.op \notin {"wireApp", "wireFeature"}
      BY <2>3 DEF NewEntries
    <2>4. QED
      BY <2>1, <2>2, <2>3
  <1>10. QED
    BY <1>8, <1>9

\* A step of a command that fits leaves a sound tree.
LEMMA SoundStays ==
    ASSUME NEW t \in Trees, NEW tr \in AllTransports, NEW c \in Commands, NEW s \in StepsOf(c),
           LaidOut(t), Ready(t, s), Before(t, c, s, tr), ScaffoldDone(t, tr), FitsSo(c, t, tr), Sound(t)
    PROVE  Sound(Apply(t, s))
  <1> DEFINE u == Apply(t, s)
  <1>1. \A p \in u.declared : p \in u.files \/ Pending(u, p)
    BY DeclaredStays
  <1>2. StepType(s)
    BY StepsHaveTypes
  <1>3. /\ u.uses \subseteq t.uses \cup NewUses(s)
        /\ \A home \in Homes, list \in Lists :
              Range(u.lists[home][list]) \subseteq Range(t.lists[home][list]) \cup NewEntries(s, home, list)
    BY <1>2, ApplyEnters
  <1>4. Grows(t, u)
    BY <1>2, StepGrows DEF LaidOut
  <1>5. \A home, p : Under(t, home, p) => Under(u, home, p)
    BY <1>4, UnderStays
  <1>6. /\ \A p \in NewUses(s) : Under(t, <<>>, p)
        /\ \A home \in Homes : \A list \in Lists : \A e \in NewEntries(s, home, list) : Under(t, home, e)
    BY EntriesArePlaced
  <1> HIDE DEF u
  <1>7. \A p \in u.uses : Under(u, <<>>, p)
    BY <1>3, <1>5, <1>6 DEF Sound
  <1>8. \A home \in Homes : \A list \in Lists : \A e \in Range(u.lists[home][list]) : Under(u, home, e)
    BY <1>3, <1>5, <1>6 DEF Sound
  <1>9. QED
    BY <1>1, <1>7, <1>8 DEF Sound, u

-----------------------------------------------------------------------------
(***************************************************************************)
(* Lists without duplicates, and the template while it is written.         *)
(***************************************************************************)

\* The name of what a command adds ends with itself.
LEMMA OwnEnd ==
    ASSUME NEW c \in Commands, NEW s \in StepsOf(c), s.op \in {"import", "wireApp"}
    PROVE  EndsWith(Last(s.path).name, Last(s.path).name)
  <1>1. StepKinds(c, s) /\ c.name \in Names /\ EndsWith(c.name, c.name)
    BY StepsHaveKinds, CommandIs
  <1>2. CASE s.op = "import"
    <2>1. s.path = Feature(c.name)
      BY <1>1, <1>2, StepFields DEF StepKinds
    <2>2. Last(Feature(c.name)) = N("module", c.name)
      BY <1>1, FeatureIs
    <2>3. "module" \in NodeKinds
      BY DEF NodeKinds
    <2>4. N("module", c.name).name = c.name
      BY <1>1, <2>3, NodeIs
    <2>5. QED
      BY <1>1, <2>1, <2>2, <2>4
  <1>3. CASE s.op = "wireApp"
    <2>1. s.path = PathOf(c, "controller") \/ s.path = PathOf(c, "service")
      BY <1>1, <1>3, StepFields DEF StepKinds
    <2>2. PICK part \in PartNames : s.path = PathOf(c, part)
      BY <2>1, PartFolders
    <2>3. Last(s.path) = N(part, c.name) /\ N(part, c.name).name = c.name
      BY <2>2, PathIs
    <2>4. QED
      BY <1>1, <2>3
  <1>4. QED
    BY <1>2, <1>3

\* AppModule lists no name twice.
LEMMA TidyStays ==
    ASSUME NEW t \in Trees, NEW c \in Commands, NEW s \in StepsOf(c), NEW list \in Lists,
           Tidy(t.lists[<<>>][list])
    PROVE  Tidy(Apply(t, s).lists[<<>>][list])
  <1> DEFINE u == Apply(t, s)
  <1>1. StepType(s) /\ StepKinds(c, s)
    BY StepsHaveTypes, StepsHaveKinds
  <1>2. CASE s.op \notin {"use", "wireApp", "wireFeature"}
    <2>1. u.lists = t.lists
      BY <1>1, <1>2, ApplyAdds
    <2>2. QED
      BY <2>1
  <1>3. CASE s.op = "use"
    BY <1>1, <1>3, ApplyUse
  <1>4. CASE s.op = "wireFeature"
    <2>1. c.module # None /\ s.command = c
      BY <1>1, <1>4, StepFields DEF StepKinds
    <2>2. <<>> \in Homes /\ Home(s.command) # <<>>
      BY <2>1, HomeIs DEF Homes
    <2>3. \A home \in Homes : home # Home(s.command) => u.lists[home] = t.lists[home]
      BY <1>1, <1>4, ApplyWireFeature
    <2>4. QED
      BY <2>2, <2>3
  <1>5. CASE s.op = "wireApp"
    <2>1. IF Listed(t.lists[<<>>][s.list], s.path) THEN u = t
          ELSE /\ u.lists[<<>>][s.list] = Newest(t.lists[<<>>][s.list], s.path)
               /\ \A home \in Homes, l \in Lists :
                     home # <<>> \/ l # s.list => u.lists[home][l] = t.lists[home][l]
      BY <1>1, <1>5, ApplyWireApp
    <2>2. s.path \in LongPaths /\ s.list \in Lists /\ <<>> \in Homes
      BY <1>1, <1>5 DEF StepType, Homes
    <2> DEFINE old == t.lists[<<>>][s.list]
    <2>3. old \in Seq(LongPaths)
      BY <2>2, TreesHave
    <2> HIDE DEF u
    <2>4. CASE Listed(old, s.path)
      BY <2>1, <2>4 DEF u
    <2>5. CASE ~Listed(old, s.path) /\ list # s.list
      BY <2>1, <2>2, <2>5 DEF u
    <2>6. CASE ~Listed(old, s.path) /\ list = s.list
      <3> DEFINE q == <<s.path>> \o old
      <3>1. Len(q) = Len(old) + 1 /\ q[1] = s.path /\ (\A i \in 1..Len(old) : q[i + 1] = old[i]) /\ q \in Seq(LongPaths)
        BY <2>2, <2>3, Prepended
      <3>2. \A i \in 1..Len(old) : Last(old[i]) # Last(s.path)
        <4>1. \A i \in DOMAIN old : ~EndsWith(Last(old[i]).name, Last(s.path).name)
          BY <2>6 DEF Listed
        <4>2. EndsWith(Last(s.path).name, Last(s.path).name)
          BY <1>5, OwnEnd
        <4>3. DOMAIN old = 1..Len(old)
          BY <2>3
        <4>4. QED
          BY <4>1, <4>2, <4>3
      <3>3. Tidy(old)
        BY <2>6
      <3>4. Len(old) \in Nat /\ DOMAIN old = 1..Len(old) /\ DOMAIN q = 1..Len(q)
        BY <2>3, <3>1
      <3> HIDE DEF q, old
      <3>5. Tidy(q)
        <4> SUFFICES ASSUME NEW i \in 1..Len(q), NEW j \in 1..Len(q), Last(q[i]) = Last(q[j])
                     PROVE  i = j
          BY <3>4 DEF Tidy
        <4>1. i # 1 => i - 1 \in 1..Len(old) /\ q[i] = old[i - 1]
          <5> HAVE i # 1
          <5>1. i - 1 \in 1..Len(old) /\ (i - 1) + 1 = i
            BY <3>1, <3>4
          <5>2. q[(i - 1) + 1] = old[i - 1]
            BY <3>1, <5>1
          <5>3. QED
            BY <5>1, <5>2
        <4>2. j # 1 => j - 1 \in 1..Len(old) /\ q[j] = old[j - 1]
          <5> HAVE j # 1
          <5>1. j - 1 \in 1..Len(old) /\ (j - 1) + 1 = j
            BY <3>1, <3>4
          <5>2. q[(j - 1) + 1] = old[j - 1]
            BY <3>1, <5>1
          <5>3. QED
            BY <5>1, <5>2
        <4>3. (i # 1 /\ j # 1) => i - 1 = j - 1
          BY <3>3, <3>4, <4>1, <4>2 DEF Tidy
        <4>4. i # 1 <=> j # 1
          BY <3>1, <3>2, <4>1, <4>2
        <4>5. QED
          BY <4>3, <4>4
      <3>6. Newest(old, s.path) = q \/ Newest(old, s.path) = old
        BY DEF Newest, q
      <3>7. u.lists[<<>>][list] = Newest(old, s.path)
        BY <2>1, <2>6 DEF old
      <3>8. QED
        BY <3>3, <3>5, <3>6, <3>7 DEF u
    <2>7. QED
      BY <2>4, <2>5, <2>6
  <1>6. QED
    BY <1>2, <1>3, <1>4, <1>5

\* While nestforge new runs, there is nothing but its own.
LEMMA PartialStays ==
    ASSUME NEW t \in Trees, NEW tr \in AllTransports, NEW s \in ScaffoldSet(tr), Partial(t, tr)
    PROVE  /\ Partial(Apply(t, s), tr)
           /\ \A list \in Lists : Apply(t, s).lists[<<>>][list] = t.lists[<<>>][list]
  <1> DEFINE u == Apply(t, s)
  <1>1. s.op = "put" /\ StepType(s)
    BY ScaffoldSteps
  <1>2. u.declared = t.declared \cup s.declares /\ u.uses = t.uses /\ u.lists = t.lists
    BY <1>1, ApplyAdds
  <1> HIDE DEF u
  <1>3. Partial(u, tr)
    BY <1>2 DEF Partial
  <1>4. QED
    BY <1>2, <1>3 DEF u

\* ... and at its end that is sound.
LEMMA PartialIsSound ==
    ASSUME NEW t, NEW tr \in AllTransports, Partial(t, tr), ScaffoldDone(t, tr)
    PROVE  Sound(t)
  <1>1. /\ \A u \in ScaffoldSet(tr) : u.path \in t.files
        /\ \A p \in OwnUses(tr) : Under(t, <<>>, p)
    BY ScaffoldGives
  <1>2. ASSUME NEW p \in t.declared PROVE p \in t.files
    <2>1. PICK s \in ScaffoldSet(tr) : p \in s.declares
      BY DEF Partial
    <2>2. PICK u \in ScaffoldSet(tr) : u.path = p
      BY <2>1, ScaffoldSteps
    <2>3. QED
      BY <1>1, <2>2
  <1>3. \A p \in t.uses : Under(t, <<>>, p)
    BY <1>1 DEF Partial
  <1>4. ASSUME NEW home \in Homes, NEW list \in Lists, NEW e \in Range(t.lists[home][list])
        PROVE  Under(t, home, e)
    <2>1. home = <<>> /\ e \in OwnUses(tr)
      BY <1>4 DEF Partial
    <2>2. QED
      BY <1>1, <2>1
  <1>5. QED
    BY <1>2, <1>3, <1>4 DEF Sound

-----------------------------------------------------------------------------
(***************************************************************************)
(* The invariant is inductive.                                             *)
(***************************************************************************)

TypeInv ==
    /\ app \in [transport : Transports, state : {"absent", "partial", "whole"}]
    /\ tree \in Trees
    /\ running \in {None, NewApp} \cup Commands
    /\ plan \in Seq(StepsIn(running, app.transport))
    /\ asked \subseteq Commands /\ interrupted \subseteq Commands
    /\ succeeded \in {None} \cup Commands

Inv == TypeInv /\ PlanInv /\ PutInv /\ SoundInv /\ StopInv /\ SuccessInv

\* What a command is not.
LEMMA RunningIs ==
    /\ None # NewApp /\ None \notin Commands /\ NewApp \notin Commands
    /\ NewApp.kind \notin StopKinds
    /\ Transports \subseteq AllTransports
    /\ \A tr : StepsIn(None, tr) = {} /\ StepsIn(NewApp, tr) = ScaffoldSet(tr)
    /\ \A tr : \A c \in Commands : StepsIn(c, tr) = StepsOf(c)
  <1>1. None # NewApp /\ None \notin Commands /\ NewApp \notin Commands
    BY GeneratorsAssumption, CommandIs
  <1>2. NewApp.kind = "new"
    BY DEF NewApp, N
  <1>3. Transports \subseteq AllTransports
    BY GeneratorsAssumption DEF AllTransports
  <1>4. QED
    BY <1>1, <1>2, <1>3 DEF StepsIn, StopKinds

\* An empty list.
LEMMA NoSteps == /\ \A S : <<>> \in Seq(S)
                 /\ Range(<<>>) = {} /\ InOrder(<<>>) /\ DistinctPuts(<<>>) /\ Len(<<>>) = 0
  <1>1. Range(<<>>) = {} /\ Len(<<>>) = 0
    BY DEF Range
  <1>2. QED
    BY <1>1 DEF InOrder, DistinctPuts

\* The lists of the template.
LEMMA TemplateIs ==
    ASSUME app.transport \in AllTransports, NEW list \in Lists
    PROVE  /\ TemplateList(list) \in Seq(LongPaths) /\ Tidy(TemplateList(list))
           /\ Range(TemplateList(list)) \subseteq OwnUses(app.transport)
  <1> DEFINE a == Controller("health")
             b == Controller("app")
             d == Service("app")
  <1>1. /\ a \in LongPaths /\ b \in LongPaths /\ d \in LongPaths
        /\ Last(a) # Last(b)
    BY OwnPaths DEF PathTag
  <1> HIDE DEF a, b, d
  <1>2. /\ <<>> \in Seq(LongPaths) /\ Range(<<>>) = {} /\ Tidy(<<>>)
    BY DEF Range, Tidy
  <1>3. /\ <<a, b>> \in Seq(LongPaths) /\ Range(<<a, b>>) = {a, b} /\ Tidy(<<a, b>>)
    <2> DEFINE q == <<a, b>>
    <2>1. DOMAIN q = {1, 2} /\ q[1] = a /\ q[2] = b /\ q \in Seq(LongPaths)
      BY <1>1
    <2> HIDE DEF q
    <2>2. Range(q) = {a, b}
      BY <2>1 DEF Range
    <2>3. Tidy(q)
      BY <1>1, <2>1 DEF Tidy
    <2>4. QED
      BY <2>1, <2>2, <2>3 DEF q
  <1>4. /\ <<d>> \in Seq(LongPaths) /\ Range(<<d>>) = {d} /\ Tidy(<<d>>)
    <2> DEFINE q == <<d>>
    <2>1. DOMAIN q = {1} /\ q[1] = d /\ q \in Seq(LongPaths)
      BY <1>1
    <2> HIDE DEF q
    <2>2. Range(q) = {d}
      BY <2>1 DEF Range
    <2>3. Tidy(q)
      BY <2>1 DEF Tidy
    <2>4. QED
      BY <2>1, <2>2, <2>3 DEF q
  <1>5. CASE app.transport = "Http" /\ list = "controllers"
    <2>1. TemplateList(list) = <<a, b>> /\ OwnUses(app.transport) = {a, b, d}
      BY <1>5 DEF TemplateList, HasMarkers, OwnUses, a, b, d
    <2>2. QED
      BY <1>3, <2>1
  <1>6. CASE app.transport = "Http" /\ list = "providers"
    <2>1. TemplateList(list) = <<d>> /\ OwnUses(app.transport) = {a, b, d}
      BY <1>6 DEF TemplateList, HasMarkers, OwnUses, a, b, d
    <2>2. QED
      BY <1>4, <2>1
  <1>7. CASE app.transport # "Http" \/ list \notin {"controllers", "providers"}
    <2>1. TemplateList(list) = <<>>
      BY <1>7 DEF TemplateList, HasMarkers
    <2>2. QED
      BY <1>2, <2>1
  <1>8. QED
    BY <1>5, <1>6, <1>7

\* It holds in the initial states,
LEMMA InvInit == Init => Inv
  <1> SUFFICES ASSUME Init PROVE Inv
    OBVIOUS
  <1>1. /\ app \in [transport : Transports, state : {"absent"}] /\ app.transport \in AllTransports
        /\ running = None /\ plan = <<>> /\ succeeded = None /\ asked = {} /\ interrupted = {}
    BY RunningIs DEF Init
  <1> DEFINE uses == OwnUses(app.transport)
             lists == [home \in Homes |-> IF home = <<>> THEN [list \in Lists |-> TemplateList(list)] ELSE NoLists]
  <1>2. tree = [files |-> {}, declared |-> {}, rewritten |-> {}, flat |-> {}, imports |-> <<>>,
                uses |-> uses, lists |-> lists]
    BY DEF Init, OwnUses, Homes
  <1>3. \A list \in Lists : /\ TemplateList(list) \in Seq(LongPaths) /\ Tidy(TemplateList(list))
                            /\ Range(TemplateList(list)) \subseteq uses
    BY <1>1, TemplateIs
  <1>4. uses \subseteq LongPaths
    BY <1>1, ScaffoldSteps
  <1>5. NoLists \in [Lists -> Seq(LongPaths)] /\ \A list \in Lists : Range(NoLists[list]) = {}
    BY NoSteps DEF NoLists
  <1>6. lists \in [Homes -> [Lists -> Seq(LongPaths)]]
    BY <1>3, <1>5
  <1>7. \A home \in Homes, list \in Lists :
           lists[home][list] = IF home = <<>> THEN TemplateList(list) ELSE NoLists[list]
    OBVIOUS
  <1>8. <<>> \in Homes /\ <<>> \in Seq(LongPaths)
    BY DEF Homes
  <1> HIDE DEF lists, uses
  <1>9. tree \in Trees
    BY <1>2, <1>4, <1>6, <1>8 DEF Trees
  <1>10. /\ tree.files = {} /\ tree.declared = {} /\ tree.rewritten = {} /\ tree.flat = {}
         /\ tree.uses = uses /\ tree.lists = lists
    BY <1>2
  <1>11. TypeInv
    BY <1>1, <1>9, NoSteps DEF TypeInv
  <1>12. PlanInv
    BY <1>1, <1>10, RunningIs DEF PlanInv
  <1>13. PutInv
    BY <1>1, <1>10, NoSteps DEF PutInv, LaidOut
  <1>14. SoundInv
    <2>1. Partial(tree, app.transport)
      BY <1>3, <1>5, <1>7, <1>10 DEF Partial, uses
    <2>2. \A list \in Lists : Tidy(tree.lists[<<>>][list])
      BY <1>3, <1>7, <1>8, <1>10
    <2>3. app.state # "whole"
      BY <1>1
    <2>4. QED
      BY <2>1, <2>2, <2>3 DEF SoundInv
  <1>15. StopInv /\ SuccessInv
    BY <1>1, <1>10 DEF StopInv, SuccessInv
  <1>16. QED
    BY <1>11, <1>12, <1>13, <1>14, <1>15 DEF Inv

\* nestforge new starts with an empty directory,
LEMMA NewKeepsInv == Inv /\ New => Inv'
  <1> SUFFICES ASSUME Inv, New PROVE Inv'
    OBVIOUS
  <1>1. /\ app.state = "absent" /\ running = None /\ running' = NewApp /\ plan' = Scaffold
        /\ app' = [app EXCEPT !.state = "partial"]
        /\ UNCHANGED <<tree, succeeded, asked, interrupted>>
    BY DEF New
  <1>2. TypeInv /\ PlanInv /\ PutInv /\ SoundInv /\ StopInv /\ SuccessInv
    BY DEF Inv
  <1>3. /\ app' \in [transport : Transports, state : {"absent", "partial", "whole"}]
        /\ app'.transport = app.transport /\ app'.state = "partial" /\ app.transport \in AllTransports
    BY <1>1, <1>2, RunningIs DEF TypeInv
  <1>4. /\ Scaffold \in Seq(ScaffoldSet(app.transport)) /\ Range(Scaffold) = ScaffoldSet(app.transport)
        /\ DistinctPuts(Scaffold)
    BY <1>3, ScaffoldIs
  <1>5. TypeInv'
    BY <1>1, <1>2, <1>3, <1>4, RunningIs DEF TypeInv
  <1>6. PlanInv'
    BY <1>1, <1>2, <1>3, <1>4, RunningIs DEF PlanInv
  <1>7. PutInv'
    <2>1. tree.files = {}
      BY <1>1, <1>2 DEF PlanInv
    <2>2. QED
      BY <1>1, <1>2, <1>4, <2>1 DEF PutInv
  <1>8. SoundInv'
    BY <1>1, <1>2, <1>3 DEF SoundInv
  <1>9. StopInv'
    BY <1>1, <1>2, <1>3, RunningIs DEF StopInv, AllDone
  <1>10. SuccessInv'
    BY <1>1, <1>2, <1>3 DEF SuccessInv, AllDone
  <1>11. QED
    BY <1>5, <1>6, <1>7, <1>8, <1>9, <1>10 DEF Inv

\* The first step of a module is the look at its file.
LEMMA LooksFirst ==
    ASSUME NEW c \in Commands, NEW i \in 1..Len(Steps(c)), Steps(c)[i].op = "put"
    PROVE  Steps(c)[1].op = "failIf"
  <1> DEFINE q == Steps(c)
  <1>1. q \in Seq(StepsOf(c)) /\ Range(q) = StepsOf(c) /\ InOrder(q)
    BY AllStepsAre DEF StepsAre, Block
  <1> HIDE DEF q
  <1>2. q # <<>>
    BY <1>1 DEF q
  <1>3. Head(q) = q[1] /\ q[1] \in StepsOf(c) /\ (\A s \in Range(q) : Rank(q[1]) <= Rank(s)) /\ q[i] \in StepsOf(c)
    BY <1>1, <1>2, FirstAndRest DEF q
  <1>4. c.kind = "module"
    <2>1. q[i].op = "put"
      BY DEF q
    <2>2. QED
      BY <1>3, <2>1, StepsHaveKinds DEF StepKinds
  <1>5. FailIf(Feature(c.name)) \in StepsOf(c) /\ Rank(FailIf(Feature(c.name))) = 0
    BY <1>4, StepRanks DEF StepsOf
  <1>6. Rank(q[1]) = 0
    BY <1>1, <1>3, <1>5, RankIs
  <1>7. q[1].op \in {"failIf", "failUnless", "stopIf"}
    BY <1>6 DEF Rank
  <1>8. "module" \notin StopKinds
    BY DEF StopKinds
  <1>9. QED
    BY <1>3, <1>4, <1>7, <1>8, StepsHaveKinds DEF StepKinds, q

\* nestforge generate with a whole application.
LEMMA GenerateKeepsInv == ASSUME NEW c \in Commands PROVE Inv /\ Generate(c) => Inv'
  <1> SUFFICES ASSUME Inv, Generate(c) PROVE Inv'
    OBVIOUS
  <1>1. /\ app.state = "whole" /\ running = None /\ running' = c /\ plan' = Steps(c) /\ succeeded' = None
        /\ asked' = asked \cup {c} /\ UNCHANGED <<app, tree, interrupted>>
    BY DEF Generate
  <1>2. TypeInv /\ PlanInv /\ PutInv /\ SoundInv /\ StopInv /\ SuccessInv
    BY DEF Inv
  <1>3. Steps(c) \in Seq(StepsOf(c)) /\ Range(Steps(c)) = StepsOf(c) /\ InOrder(Steps(c)) /\ DistinctPuts(Steps(c))
    BY AllStepsAre DEF StepsAre, Block
  <1>4. TypeInv'
    BY <1>1, <1>2, <1>3, RunningIs DEF TypeInv
  <1>5. PlanInv'
    BY <1>1, <1>2, <1>3, RunningIs DEF PlanInv
  <1>6. PutInv'
    BY <1>1, <1>2, <1>3, LooksFirst DEF PutInv
  <1>7. SoundInv'
    BY <1>1, <1>2 DEF SoundInv
  <1>8. StopInv'
    BY <1>1, <1>2, RunningIs DEF StopInv, AllDone
  <1>9. SuccessInv'
    BY <1>1 DEF SuccessInv
  <1>10. QED
    BY <1>4, <1>5, <1>6, <1>7, <1>8, <1>9 DEF Inv

-----------------------------------------------------------------------------
(***************************************************************************)
(* A step of a command.                                                    *)
(***************************************************************************)

\* Whose steps a plan has.
LEMMA PlanIs ==
    ASSUME Inv, plan # <<>>
    PROVE  /\ running = NewApp \/ running \in Commands
           /\ Head(plan) \in StepsIn(running, app.transport) /\ Head(plan) = plan[1]
           /\ Tail(plan) \in Seq(StepsIn(running, app.transport)) /\ Len(plan) \in Nat \ {0}
           /\ Range(plan) = {Head(plan)} \cup Range(Tail(plan)) /\ Range(plan) \subseteq StepsIn(running, app.transport)
           /\ app.transport \in AllTransports
           /\ DistinctPuts(Tail(plan))
           /\ running \in Commands => /\ InOrder(Tail(plan)) /\ app.state = "whole" /\ running \in asked
                                      /\ \A s \in Range(plan) : Rank(Head(plan)) <= Rank(s)
  <1>1. TypeInv /\ PlanInv /\ PutInv
    BY DEF Inv
  <1>2. plan \in Seq(StepsIn(running, app.transport)) /\ app.transport \in AllTransports
    BY <1>1, RunningIs DEF TypeInv
  <1>3. running # None
    BY <1>1 DEF PlanInv
  <1>4. running = NewApp \/ running \in Commands
    BY <1>1, <1>3 DEF TypeInv
  <1> DEFINE S == StepsIn(running, app.transport)
  <1> HIDE DEF S
  <1>5. plan \in Seq(S)
    BY <1>2 DEF S
  <1>6. /\ Head(plan) \in S /\ Tail(plan) \in Seq(S) /\ Head(plan) = plan[1]
        /\ Len(Tail(plan)) = Len(plan) - 1 /\ Len(plan) \in Nat \ {0}
        /\ \A i \in 1..Len(Tail(plan)) : Tail(plan)[i] = plan[i + 1]
        /\ Range(plan) = {Head(plan)} \cup Range(Tail(plan))
        /\ InOrder(plan) => /\ InOrder(Tail(plan))
                            /\ \A s \in Range(plan) : Rank(Head(plan)) <= Rank(s)
    BY <1>5, FirstAndRest
  <1>7. Range(plan) \subseteq S
    BY <1>5, InRange
  <1> DEFINE rest == Tail(plan)
  <1> HIDE DEF rest
  <1>8. DistinctPuts(rest)
    <2> SUFFICES ASSUME NEW i \in 1..Len(rest), NEW j \in 1..Len(rest), i # j, rest[i].op = "put", rest[j].op = "put"
                 PROVE  rest[i].path # rest[j].path
      BY DEF DistinctPuts
    <2>1. /\ i + 1 \in 1..Len(plan) /\ j + 1 \in 1..Len(plan) /\ i + 1 # j + 1
          /\ rest[i] = plan[i + 1] /\ rest[j] = plan[j + 1]
      BY <1>6 DEF rest
    <2>2. DistinctPuts(plan)
      BY <1>1 DEF PutInv
    <2>3. QED
      BY <2>1, <2>2 DEF DistinctPuts
  <1>9. running \in Commands => InOrder(plan) /\ running \in asked /\ app.state = "whole"
    <2> HAVE running \in Commands
    <2>1. running # NewApp /\ running # None
      BY RunningIs
    <2>2. app.state \in {"absent", "partial", "whole"}
      BY <1>1 DEF TypeInv
    <2>3. QED
      BY <1>1, <2>1, <2>2 DEF PlanInv
  <1>10. QED
    BY <1>2, <1>4, <1>6, <1>7, <1>8, <1>9 DEF S, rest

\* What a command finds when it takes a step.
LEMMA StepFacts ==
    ASSUME Inv, plan # <<>>, ~Fails(Head(plan)), running \in Commands
    PROVE  /\ Ready(tree, Head(plan)) /\ Before(tree, running, Head(plan), app.transport)
           /\ ScaffoldDone(tree, app.transport) /\ Head(plan) \in StepsOf(running)
           /\ LaidOut(tree) /\ tree \in Trees /\ StepType(Head(plan)) /\ StepKinds(running, Head(plan))
  <1> DEFINE s == Head(plan)
  <1>1. /\ s \in StepsOf(running) /\ s = plan[1] /\ Len(plan) \in Nat \ {0}
        /\ app.transport \in AllTransports /\ app.state = "whole"
        /\ \A x \in Range(plan) : Rank(s) <= Rank(x)
    BY PlanIs, RunningIs
  <1>2. StepType(s) /\ StepKinds(running, s)
    BY <1>1, StepsHaveTypes, StepsHaveKinds
  <1>3. TypeInv /\ PlanInv /\ PutInv
    BY DEF Inv
  <1>4. ScaffoldDone(tree, app.transport)
    BY <1>1, <1>3 DEF PlanInv, ScaffoldDone
  <1>5. Before(tree, running, s, app.transport)
    <2> SUFFICES ASSUME NEW x \in StepsOf(running), Rank(x) < Rank(s)
                 PROVE  Done(tree, x, app.transport)
      BY DEF Before
    <2>1. x \notin Range(plan)
      <3>1. Rank(x) \in Nat /\ Rank(s) \in Nat
        BY RankIs
      <3>2. ~(Rank(s) <= Rank(x))
        BY <3>1
      <3>3. QED
        BY <1>1, <3>2
    <2>2. x \in StepsIn(running, app.transport)
      BY RunningIs
    <2>3. QED
      BY <1>3, <2>1, <2>2 DEF PlanInv
  <1>6. LaidOut(tree) /\ tree \in Trees
    BY <1>3 DEF PutInv, TypeInv
  <1>7. s.op = "put" => s.path \notin tree.files
    <2>1. 1 \in 1..Len(plan)
      BY <1>1
    <2>2. QED
      BY <1>1, <1>3, <2>1 DEF PutInv
  <1>8. s.op = "failUnless" => s.path \in tree.files
    BY DEF Fails
  <1>9. s.op = "declare" => s.home \in tree.files
    <2> HAVE s.op = "declare"
    <2>1. running.kind # "module" /\ \E parts \in Groups(running) : s = Declare(Home(running), PathsOf(running, parts))
      BY <1>2 DEF StepKinds
    <2>2. s.home = Home(running) /\ Rank(s) = 3
      BY <2>1, StepFields, StepRanks
    <2>3. CASE running.module = None
      <3>1. <<>> \in tree.files
        BY <1>1, <1>4, ScaffoldGives
      <3>2. QED
        BY <2>2, <2>3, <3>1, HomeIs
    <2>4. CASE running.module # None
      <3>1. Rank(s) > 0
        BY <2>2
      <3>2. Home(running) \in tree.files
        BY <1>5, <2>1, <2>4, <3>1, HomeIsThere
      <3>3. QED
        BY <2>2, <3>2
    <2>5. QED
      BY <2>3, <2>4
  <1>10. Ready(tree, s)
    BY <1>7, <1>8, <1>9 DEF Ready
  <1>11. QED
    BY <1>1, <1>2, <1>4, <1>5, <1>6, <1>10

\* Files of the module, before it has one.
LEMMA NothingInside ==
    ASSUME NEW t, LaidOut(t), NEW c \in Commands, c.kind = "module", Feature(c.name) \notin t.files,
           NEW x \in StepsOf(c), x.op = "put"
    PROVE  x.path \notin t.files
  <1>1. x \in ModulePuts(c) /\ c.name \in Names
    BY StepsHaveKinds, CommandIs DEF StepKinds
  <1>2. x.path \in LongPaths /\ x.path[1] = N("module", c.name)
    BY <1>1, ModulePutsAre
  <1>3. Feature(c.name) = <<N("module", c.name)>> /\ N("module", c.name).kind = "module"
    BY <1>1, FeatureIs
  <1>4. x.path # <<>>
    BY <1>2 DEF LongPaths
  <1>5. QED
    BY <1>2, <1>3, <1>4 DEF LaidOut

\* A step of a generator keeps every part of the invariant.
LEMMA CommandKeepsInv == Inv /\ Step /\ running \in Commands => Inv'
  <1> SUFFICES ASSUME Inv, Step, running \in Commands PROVE Inv'
    OBVIOUS
  <1> DEFINE s == Head(plan)
             c == running
             tr == app.transport
             t == tree
             u == tree'
  <1>1. /\ plan # <<>> /\ ~Fails(s) /\ u = Apply(t, s)
        /\ plan' = IF s.op = "stopIf" /\ s.path \in t.files THEN <<>> ELSE Tail(plan)
        /\ UNCHANGED <<app, running, succeeded, asked, interrupted>>
    BY DEF Step
  <1>2. TypeInv /\ PlanInv /\ PutInv /\ SoundInv /\ StopInv /\ SuccessInv
    BY DEF Inv
  <1>3. /\ s \in StepsIn(c, tr) /\ s = plan[1]
        /\ Tail(plan) \in Seq(StepsIn(c, tr)) /\ Len(plan) \in Nat \ {0}
        /\ Range(plan) = {s} \cup Range(Tail(plan)) /\ Range(plan) \subseteq StepsIn(c, tr)
        /\ tr \in AllTransports /\ DistinctPuts(Tail(plan))
        /\ InOrder(Tail(plan)) /\ app.state = "whole" /\ c \in asked
        /\ \A x \in Range(plan) : Rank(s) <= Rank(x)
    BY <1>1, PlanIs
  <1>4. /\ Ready(t, s) /\ Before(t, c, s, tr) /\ ScaffoldDone(t, tr) /\ s \in StepsOf(c)
        /\ LaidOut(t) /\ t \in Trees /\ StepType(s) /\ StepKinds(c, s)
    BY <1>1, StepFacts
  <1>5. StepsIn(c, tr) = StepsOf(c) /\ c # None /\ c # NewApp
    BY RunningIs
  <1>6. u \in Trees /\ Grows(t, u)
    BY <1>1, <1>4, StepGrows DEF LaidOut
  <1>7. Done(u, s, tr)
    BY <1>1, <1>4, StepIsDone, OwnEnd DEF LaidOut
  <1>8. /\ \A x \in StepsOf(c) : Done(t, x, tr) => Done(u, x, tr)
        /\ \A x \in ScaffoldSet(tr) : Done(t, x, tr) => Done(u, x, tr)
        /\ \A d \in Commands : AllDone(d) => \A x \in StepsOf(d) : Done(u, x, tr)
    <2>1. \A d \in Commands : \A x \in StepsOf(d) : Done(t, x, tr) => Done(u, x, tr)
      BY <1>6, DoneStays, StepsHaveTypes
    <2>2. \A x \in ScaffoldSet(tr) : Done(t, x, tr) => Done(u, x, tr)
      BY <1>3, <1>6, DoneStays, ScaffoldSteps
    <2>3. QED
      BY <2>1, <2>2 DEF AllDone
  <1>9. plan' = <<>> \/ plan' = Tail(plan)
    BY <1>1
  <1>10. Range(plan') \subseteq Range(plan) /\ plan' \in Seq(StepsIn(c, tr)) /\ InOrder(plan') /\ DistinctPuts(plan')
    BY <1>3, <1>9, NoSteps
  <1>11. TypeInv'
    BY <1>1, <1>2, <1>6, <1>10 DEF TypeInv
  <1>12. PlanInv'
    <2>1. ASSUME NEW x \in StepsOf(c)
          PROVE  x \in Range(plan') \/ Done(u, x, tr) \/ (c.kind \in StopKinds /\ c \in interrupted /\ plan' = <<>>)
      <3>1. CASE s.op = "stopIf" /\ s.path \in t.files
        <4>1. c.kind \in StopKinds /\ s = StopIf(PathOf(c, c.kind))
          BY <1>4, <3>1 DEF StepKinds
        <4>2. PathOf(c, c.kind) \in t.files
          BY <3>1, <4>1, StepFields
        <4>3. StopIf(PathOf(c, c.kind)) \in Range(plan)
          BY <1>3, <4>1
        <4>4. c \in interrupted \/ AllDone(c)
          BY <1>2, <4>1, <4>2, <4>3 DEF StopInv
        <4>5. plan' = <<>>
          BY <1>1, <3>1
        <4>6. QED
          BY <1>8, <4>1, <4>4, <4>5
      <3>2. CASE ~(s.op = "stopIf" /\ s.path \in t.files)
        <4>1. plan' = Tail(plan)
          BY <1>1, <3>2
        <4>2. x \in Range(plan) \/ Done(t, x, tr)
          BY <1>1, <1>2, <1>5 DEF PlanInv
        <4>3. QED
          BY <1>3, <1>7, <1>8, <4>1, <4>2
      <3>3. QED
        BY <3>1, <3>2
    <2>2. \A x \in ScaffoldSet(tr) : Done(u, x, tr)
      BY <1>4, <1>8 DEF ScaffoldDone
    <2>3. QED
      BY <1>1, <1>3, <1>5, <1>10, <2>1, <2>2 DEF PlanInv
  <1>13. PutInv'
    <2>1. LaidOut(u) /\ u.rewritten = t.rewritten
      BY <1>1, <1>4, LaidStays
    <2>2. t.rewritten = {} /\ DistinctPuts(plan)
      BY <1>2 DEF PutInv
    <2>3. ASSUME NEW i \in 1..Len(plan'), plan'[i].op = "put"
          PROVE  plan'[i].path \notin u.files
      <3> DEFINE x == plan'[i]
      <3>1. plan' = Tail(plan)
        BY <1>9, <2>3, NoSteps
      <3>2. i + 1 \in 1..Len(plan) /\ x = plan[i + 1]
        <4>1. /\ Len(Tail(plan)) = Len(plan) - 1
              /\ \A k \in 1..Len(Tail(plan)) : Tail(plan)[k] = plan[k + 1]
          BY <1>1, <1>2, FirstAndRest DEF TypeInv
        <4>2. QED
          BY <1>3, <2>3, <3>1, <4>1
      <3>3. x \in Range(plan)
        <4>1. Range(plan) = {plan[k] : k \in 1..Len(plan)}
          BY <1>2, InRange DEF TypeInv
        <4>2. QED
          BY <3>2, <4>1
      <3>4. x \in StepsOf(c) /\ x.op = "put"
        BY <1>3, <1>5, <2>3, <3>3
      <3>5. c.kind = "module"
        BY <3>4, StepsHaveKinds DEF StepKinds
      <3> HIDE DEF x
      <3>6. CASE s.op = "failIf"
        <4>1. s = FailIf(Feature(c.name))
          BY <1>4, <3>6 DEF StepKinds
        <4>2. Feature(c.name) \notin t.files
          BY <1>1, <3>6, <4>1, StepFields DEF Fails
        <4>3. u = t
          BY <1>1, <3>6, ApplyCheck
        <4>4. x.path \notin t.files
          BY <1>4, <3>4, <3>5, <4>2, NothingInside
        <4>5. QED
          BY <4>3, <4>4 DEF x
      <3>7. CASE s.op # "failIf"
        <4>1. x.path \notin t.files
          BY <1>2, <1>3, <3>2, <3>4, <3>7 DEF PutInv
        <4>2. u.files \subseteq t.files \cup NewFiles(s)
          BY <1>1, <1>4, ApplyAdds
        <4>3. CASE s.op = "put"
          <5>1. 1 \in 1..Len(plan) /\ 1 # i + 1
            BY <1>3, <2>3
          <5>2. s.path # x.path
            BY <1>3, <2>2, <3>2, <3>4, <4>3, <5>1 DEF DistinctPuts
          <5>3. QED
            BY <4>1, <4>2, <4>3, <5>2 DEF NewFiles, x
        <4>4. CASE s.op # "put"
          <5>1. s.op \notin {"make", "declare"}
            BY <1>4, <3>5 DEF StepKinds
          <5>2. NewFiles(s) = {}
            BY <4>4, <5>1 DEF NewFiles
          <5>3. QED
            BY <4>1, <4>2, <5>2 DEF x
        <4>5. QED
          BY <4>3, <4>4
      <3>8. QED
        BY <3>6, <3>7
    <2>4. QED
      BY <1>10, <2>1, <2>2, <2>3 DEF PutInv
  <1>14. SoundInv'
    <2>1. ASSUME \A d \in asked : FitsSo(d, u, tr) PROVE Sound(u)
      <3>1. \A d \in asked : FitsSo(d, t, tr)
        BY <1>6, <2>1, FitsBefore
      <3>2. Sound(t)
        BY <1>2, <1>3, <3>1 DEF SoundInv
      <3>3. FitsSo(c, t, tr)
        BY <1>3, <3>1
      <3>4. QED
        BY <1>1, <1>3, <1>4, <3>2, <3>3, SoundStays
    <2>2. \A list \in Lists : Tidy(u.lists[<<>>][list])
      <3>1. \A list \in Lists : Tidy(t.lists[<<>>][list])
        BY <1>2 DEF SoundInv
      <3>2. QED
        BY <1>1, <1>4, <3>1, TidyStays
    <2>3. QED
      BY <1>1, <1>3, <2>1, <2>2 DEF SoundInv
  <1>15. StopInv'
    <2> SUFFICES ASSUME NEW d \in Commands, d.kind \in StopKinds, PathOf(d, d.kind) \in u.files
                 PROVE  \/ d \in interrupted \/ \A x \in StepsOf(d) : Done(u, x, tr)
                        \/ c = d /\ StopIf(PathOf(d, d.kind)) \notin Range(plan')
      BY <1>1 DEF StopInv, AllDone
    <2>1. CASE PathOf(d, d.kind) \in t.files
      BY <1>2, <1>8, <1>10, <2>1 DEF StopInv
    <2>2. CASE PathOf(d, d.kind) \notin t.files
      <3> DEFINE p == PathOf(d, d.kind)
      <3>1. p \in NewFiles(s)
        <4>1. u.files \subseteq t.files \cup NewFiles(s)
          BY <1>1, <1>4, ApplyAdds
        <4>2. QED
          BY <2>2, <4>1
      <3>2. d.kind \in PartNames
        BY PartFolders DEF StopKinds
      <3>3. p \in LongPaths /\ Last(p) = N(d.kind, d.name) /\ N(d.kind, d.name).kind = d.kind
            /\ N(d.kind, d.name).name = d.name
        BY <3>2, PathIs
      <3>4. p # <<>>
        BY <3>3 DEF LongPaths
      <3>5. c.kind # "module" /\ s.op = "make" /\ d.kind \in PartSet(c) /\ p = PathOf(c, d.kind)
        BY <1>4, <3>1, <3>3, <3>4, NewFilesAre
      <3>6. c.kind = d.kind
        <4>1. c.kind # "resource"
          <5> SUFFICES ASSUME c.kind = "resource" PROVE FALSE
            OBVIOUS
          <5>1. PartSet(c) = {"dto", "create_dto", "update_dto", "service", "controller"}
            BY <3>5, PartsAre
          <5>2. QED
            BY <3>5, <5>1 DEF StopKinds
        <4>2. c.kind # "grpc"
          BY <3>5 DEF PartSet, StopKinds
        <4>3. QED
          BY <3>5, <4>1, <4>2, PartsAre
      <3>7. c.name = d.name
        <4>1. Last(p) = N(d.kind, c.name) /\ N(d.kind, c.name).name = c.name
          BY <3>2, <3>5, PathIs
        <4>2. QED
          BY <3>3, <4>1
      <3>8. c = d
        <4>1. d.kind \notin PartKinds /\ d.kind # "module"
          BY DEF StopKinds, PartKinds
        <4>2. c.module = None /\ d.module = None /\ ~c.flat /\ ~d.flat /\ c.flat \in BOOLEAN /\ d.flat \in BOOLEAN
          BY <3>6, <4>1, CommandIs
        <4>3. /\ c = [kind |-> c.kind, name |-> c.name, module |-> c.module, flat |-> c.flat]
              /\ d = [kind |-> d.kind, name |-> d.name, module |-> d.module, flat |-> d.flat]
          BY GeneratorsAssumption
        <4>4. c.flat = d.flat
          BY <4>2
        <4>5. QED
          BY <3>6, <3>7, <4>2, <4>3, <4>4
      <3>9. StopIf(p) \notin Range(plan')
        <4>1. Rank(StopIf(p)) = 0
          BY StepRanks
        <4>2. Rank(s) = 2
          BY <3>5 DEF Rank
        <4>3. QED
          BY <1>3, <1>10, <4>1, <4>2
      <3>10. QED
        BY <3>8, <3>9
    <2>3. QED
      BY <2>1, <2>2
  <1>16. SuccessInv'
    <2>1. succeeded \in {None} \cup Commands
      BY <1>2 DEF TypeInv
    <2>2. QED
      BY <1>1, <1>2, <1>8, <2>1 DEF SuccessInv, AllDone
  <1>17. QED
    BY <1>11, <1>12, <1>13, <1>14, <1>15, <1>16 DEF Inv

\* A step of nestforge new.
LEMMA NewAppKeepsInv == Inv /\ Step /\ running = NewApp => Inv'
  <1> SUFFICES ASSUME Inv, Step, running = NewApp PROVE Inv'
    OBVIOUS
  <1> DEFINE s == Head(plan)
             tr == app.transport
             t == tree
             u == tree'
  <1>1. /\ plan # <<>> /\ u = Apply(t, s)
        /\ plan' = IF s.op = "stopIf" /\ s.path \in t.files THEN <<>> ELSE Tail(plan)
        /\ UNCHANGED <<app, running, succeeded, asked, interrupted>>
    BY DEF Step
  <1>2. TypeInv /\ PlanInv /\ PutInv /\ SoundInv /\ StopInv /\ SuccessInv
    BY DEF Inv
  <1>3. /\ StepsIn(running, tr) = ScaffoldSet(tr) /\ running \notin Commands /\ running # None
        /\ running.kind \notin StopKinds
    BY RunningIs
  <1>4. /\ s \in ScaffoldSet(tr) /\ s = plan[1] /\ Len(plan) \in Nat \ {0}
        /\ Tail(plan) \in Seq(ScaffoldSet(tr)) /\ DistinctPuts(Tail(plan))
        /\ Range(plan) = {s} \cup Range(Tail(plan)) /\ Range(plan) \subseteq ScaffoldSet(tr)
        /\ tr \in AllTransports
    BY <1>1, <1>3, PlanIs
  <1>5. s.op = "put" /\ OwnPath(s.path) /\ StepType(s)
    BY <1>4, ScaffoldSteps
  <1>6. plan' = Tail(plan)
    BY <1>1, <1>5
  <1>7. t \in Trees /\ LaidOut(t) /\ t.rewritten = {} /\ DistinctPuts(plan)
        /\ plan \in Seq(ScaffoldSet(tr))
    BY <1>2, <1>3 DEF TypeInv, PutInv
  <1>8. \A i \in 1..Len(plan) : plan[i] \in ScaffoldSet(tr) /\ plan[i].op = "put" /\ plan[i].path \notin t.files
    <2>1. \A i \in 1..Len(plan) : plan[i] \in ScaffoldSet(tr)
      BY <1>7, InRange
    <2>2. \A i \in 1..Len(plan) : plan[i].op = "put"
      BY <1>4, <2>1, ScaffoldSteps
    <2>3. plan[1].op # "failIf"
      BY <1>4, <1>5
    <2>4. QED
      BY <1>2, <2>1, <2>2, <2>3 DEF PutInv
  <1>9. Ready(t, s)
    BY <1>4, <1>5, <1>8 DEF Ready
  <1>10. u \in Trees /\ Grows(t, u) /\ u.files = t.files \cup {s.path}
    BY <1>1, <1>5, <1>7, <1>9, StepGrows, ApplyAdds DEF LaidOut
  <1>11. Done(u, s, tr)
    BY <1>1, <1>5, <1>7, <1>9, StepIsDone DEF LaidOut
  <1>12. /\ \A x \in ScaffoldSet(tr) : Done(t, x, tr) => Done(u, x, tr)
         /\ \A d \in Commands : AllDone(d) => \A x \in StepsOf(d) : Done(u, x, tr)
    <2>1. \A d \in Commands : \A x \in StepsOf(d) : Done(t, x, tr) => Done(u, x, tr)
      BY <1>10, DoneStays, StepsHaveTypes
    <2>2. \A x \in ScaffoldSet(tr) : Done(t, x, tr) => Done(u, x, tr)
      BY <1>4, <1>10, DoneStays, ScaffoldSteps
    <2>3. QED
      BY <2>1, <2>2 DEF AllDone
  <1>13. app.state = "partial"
    BY <1>2 DEF PlanInv
  <1>14. TypeInv'
    BY <1>1, <1>2, <1>3, <1>4, <1>6, <1>10 DEF TypeInv
  <1>15. PlanInv'
    <2>1. \A x \in ScaffoldSet(tr) : x \in Range(plan) \/ Done(t, x, tr)
      BY <1>1, <1>2, <1>3 DEF PlanInv
    <2>2. \A x \in ScaffoldSet(tr) : x \in Range(plan') \/ Done(u, x, tr)
      BY <1>4, <1>6, <1>11, <1>12, <2>1
    <2>3. QED
      BY <1>1, <1>3, <1>13, <2>2 DEF PlanInv
  <1>16. PutInv'
    <2>1. LaidOut(u) /\ u.rewritten = t.rewritten
      BY <1>1, <1>4, <1>7, <1>9, LaidScaffold
    <2>2. ASSUME NEW i \in 1..Len(plan') PROVE plan'[i].path \notin u.files
      <3>1. i + 1 \in 1..Len(plan) /\ plan'[i] = plan[i + 1]
        <4>1. /\ Len(Tail(plan)) = Len(plan) - 1
              /\ \A k \in 1..Len(Tail(plan)) : Tail(plan)[k] = plan[k + 1]
          BY <1>1, <1>7, FirstAndRest
        <4>2. QED
          BY <1>4, <1>6, <4>1
      <3>2. 1 \in 1..Len(plan) /\ 1 # i + 1
        BY <1>4
      <3>3. plan[i + 1].path # s.path
        BY <1>4, <1>7, <1>8, <3>1, <3>2 DEF DistinctPuts
      <3>4. QED
        BY <1>8, <1>10, <3>1, <3>3
    <2>3. QED
      BY <1>4, <1>6, <1>7, <2>1, <2>2 DEF PutInv
  <1>17. SoundInv'
    <2>1. Partial(u, tr) /\ \A list \in Lists : u.lists[<<>>][list] = t.lists[<<>>][list]
      BY <1>1, <1>2, <1>4, <1>7, <1>13, PartialStays DEF SoundInv
    <2>2. QED
      BY <1>1, <1>2, <1>13, <2>1 DEF SoundInv
  <1>18. StopInv'
    <2> SUFFICES ASSUME NEW d \in Commands, d.kind \in StopKinds, PathOf(d, d.kind) \in u.files
                 PROVE  d \in interrupted \/ \A x \in StepsOf(d) : Done(u, x, tr)
      BY <1>1 DEF StopInv, AllDone
    <2> DEFINE p == PathOf(d, d.kind)
    <2>1. d.kind \in PartNames
      BY PartFolders DEF StopKinds
    <2>2. p \in LongPaths /\ Last(p).kind = d.kind /\ p # <<>>
      <3>1. p \in LongPaths /\ Last(p) = N(d.kind, d.name) /\ N(d.kind, d.name).kind = d.kind
        BY <2>1, PathIs
      <3>2. QED
        BY <3>1 DEF LongPaths
    <2>3. p # s.path
      BY <1>5, <2>2 DEF OwnPath
    <2>4. p \in t.files
      BY <1>10, <2>3
    <2>5. QED
      BY <1>2, <1>3, <1>12, <2>4 DEF StopInv
  <1>19. SuccessInv'
    <2>1. succeeded \in {None} \cup Commands
      BY <1>2 DEF TypeInv
    <2>2. QED
      BY <1>1, <1>2, <1>12, <2>1 DEF SuccessInv, AllDone
  <1>20. QED
    BY <1>14, <1>15, <1>16, <1>17, <1>18, <1>19 DEF Inv

\* A command that refuses leaves the tree as it is.
LEMMA RefuseKeepsInv == Inv /\ Refuse => Inv'
  <1> SUFFICES ASSUME Inv, Refuse PROVE Inv'
    OBVIOUS
  <1>1. /\ plan # <<>> /\ Fails(Head(plan)) /\ running' = None /\ plan' = <<>>
        /\ UNCHANGED <<app, tree, succeeded, asked, interrupted>>
    BY DEF Refuse
  <1>2. TypeInv /\ PlanInv /\ PutInv /\ SoundInv /\ StopInv /\ SuccessInv
    BY DEF Inv
  <1>3. /\ running = NewApp \/ running \in Commands
        /\ Head(plan) \in StepsIn(running, app.transport) /\ app.transport \in AllTransports
    BY <1>1, PlanIs
  <1>4. Head(plan).op \in {"failIf", "failUnless"}
    BY <1>1 DEF Fails
  <1>5. running \in Commands /\ running.kind \notin StopKinds
    <2>1. CASE running = NewApp
      <3>1. Head(plan) \in ScaffoldSet(app.transport)
        BY <1>3, <2>1, RunningIs
      <3>2. Head(plan).op = "put"
        BY <1>3, <3>1, ScaffoldSteps
      <3>3. QED
        BY <1>4, <3>2
    <2>2. CASE running \in Commands
      <3>1. StepKinds(running, Head(plan))
        BY <1>3, <2>2, RunningIs, StepsHaveKinds
      <3>2. running.kind = "module" \/ running.module # None
        BY <1>4, <3>1 DEF StepKinds
      <3>3. running.kind = "module" \/ running.kind \in PartKinds
        BY <2>2, <3>2, CommandIs
      <3>4. QED
        BY <2>2, <3>3 DEF PartKinds, StopKinds
    <2>3. QED
      BY <1>3, <2>1, <2>2
  <1>6. app.state = "whole"
    BY <1>1, <1>5, PlanIs
  <1>7. TypeInv'
    BY <1>1, <1>2, NoSteps DEF TypeInv
  <1>8. PlanInv'
    BY <1>1, <1>2, <1>6, RunningIs DEF PlanInv
  <1>9. PutInv'
    BY <1>1, <1>2, NoSteps DEF PutInv
  <1>10. SoundInv'
    BY <1>1, <1>2 DEF SoundInv
  <1>11. StopInv'
    BY <1>1, <1>2, <1>5 DEF StopInv, AllDone
  <1>12. SuccessInv'
    BY <1>1, <1>2 DEF SuccessInv, AllDone
  <1>13. QED
    BY <1>7, <1>8, <1>9, <1>10, <1>11, <1>12 DEF Inv

\* One that succeeds has done all its steps.
LEMMA SucceedKeepsInv == Inv /\ Succeed => Inv'
  <1> SUFFICES ASSUME Inv, Succeed PROVE Inv'
    OBVIOUS
  <1>1. /\ running # None /\ plan = <<>> /\ running' = None /\ plan' = <<>>
        /\ UNCHANGED <<tree, asked, interrupted>>
        /\ IF running = NewApp THEN app' = [app EXCEPT !.state = "whole"] /\ UNCHANGED succeeded
           ELSE succeeded' = running /\ UNCHANGED app
    BY DEF Succeed
  <1>2. TypeInv /\ PlanInv /\ PutInv /\ SoundInv /\ StopInv /\ SuccessInv
    BY DEF Inv
  <1>3. app.transport \in AllTransports /\ running \in {NewApp} \cup Commands
    BY <1>1, <1>2, RunningIs DEF TypeInv
  <1>4. \A x \in StepsIn(running, app.transport) :
           Done(tree, x, app.transport) \/ (running.kind \in StopKinds /\ running \in interrupted)
    BY <1>1, <1>2, NoSteps DEF PlanInv
  <1>5. /\ app' \in [transport : Transports, state : {"absent", "partial", "whole"}]
        /\ app'.transport = app.transport
        /\ app'.state = IF running = NewApp THEN "whole" ELSE app.state
    BY <1>1, <1>2 DEF TypeInv
  <1>6. running = NewApp => ScaffoldDone(tree, app.transport)
    BY <1>4, RunningIs DEF ScaffoldDone
  <1>7. TypeInv'
    BY <1>1, <1>2, <1>3, <1>5, NoSteps DEF TypeInv
  <1>8. app'.state = "whole"
    <2>1. running \in Commands => app.state = "whole"
      <3>1. running \in Commands => running # NewApp
        BY RunningIs
      <3>2. app.state \in {"absent", "partial", "whole"}
        BY <1>2 DEF TypeInv
      <3>3. QED
        BY <1>1, <1>2, <3>1, <3>2 DEF PlanInv
    <2>2. QED
      BY <1>3, <1>5, <2>1
  <1>9. ScaffoldDone(tree, app.transport)
    BY <1>2, <1>5, <1>6, <1>8 DEF PlanInv, ScaffoldDone
  <1>10. PlanInv'
    BY <1>1, <1>5, <1>8, <1>9, RunningIs DEF PlanInv, ScaffoldDone
  <1>11. PutInv'
    BY <1>1, <1>2, NoSteps DEF PutInv
  <1>12. SoundInv'
    <2>1. CASE running = NewApp
      <3>1. app.state # "whole"
        BY <1>2, <2>1 DEF PlanInv
      <3>2. Sound(tree)
        BY <1>2, <1>3, <1>9, <3>1, PartialIsSound DEF SoundInv
      <3>3. QED
        BY <1>1, <1>2, <1>8, <3>2 DEF SoundInv
    <2>2. CASE running # NewApp
      BY <1>1, <1>2, <2>2 DEF SoundInv
    <2>3. QED
      BY <2>1, <2>2
  <1>13. running \in Commands => AllDone(running) \/ (running.kind \in StopKinds /\ running \in interrupted)
    BY <1>4, RunningIs DEF AllDone
  <1>14. StopInv'
    BY <1>1, <1>2, <1>5, <1>13 DEF StopInv, AllDone
  <1>15. SuccessInv'
    <2>1. CASE running = NewApp
      BY <1>1, <1>2, <1>5, <1>8, <2>1 DEF SuccessInv, AllDone
    <2>2. CASE running # NewApp
      <3>1. running \in Commands /\ succeeded' = running
        BY <1>1, <1>3, <2>2
      <3>2. QED
        BY <1>1, <1>5, <1>8, <1>13, <3>1 DEF SuccessInv, AllDone
    <2>3. QED
      BY <2>1, <2>2
  <1>16. QED
    BY <1>7, <1>10, <1>11, <1>12, <1>14, <1>15 DEF Inv

\* One that is interrupted may leave some undone,
LEMMA InterruptKeepsInv == Inv /\ Interrupt => Inv'
  <1> SUFFICES ASSUME Inv, Interrupt PROVE Inv'
    OBVIOUS
  <1>1. /\ running \notin {None, NewApp} /\ running' = None /\ plan' = <<>>
        /\ interrupted' = interrupted \cup {running}
        /\ UNCHANGED <<app, tree, succeeded, asked>>
    BY DEF Interrupt
  <1>2. TypeInv /\ PlanInv /\ PutInv /\ SoundInv /\ StopInv /\ SuccessInv
    BY DEF Inv
  <1>3. running \in Commands
    BY <1>1, <1>2 DEF TypeInv
  <1>4. app.state = "whole"
    <2>1. app.state \in {"absent", "partial", "whole"}
      BY <1>2 DEF TypeInv
    <2>2. QED
      BY <1>1, <1>2, <2>1 DEF PlanInv
  <1>5. TypeInv'
    BY <1>1, <1>2, <1>3, NoSteps DEF TypeInv
  <1>6. PlanInv'
    BY <1>1, <1>2, <1>4, RunningIs DEF PlanInv
  <1>7. PutInv'
    BY <1>1, <1>2, NoSteps DEF PutInv
  <1>8. SoundInv'
    BY <1>1, <1>2 DEF SoundInv
  <1>9. StopInv'
    BY <1>1, <1>2 DEF StopInv, AllDone
  <1>10. SuccessInv'
    BY <1>1, <1>2 DEF SuccessInv, AllDone
  <1>11. QED
    BY <1>5, <1>6, <1>7, <1>8, <1>9, <1>10 DEF Inv

\* and nothing else happens.
LEMMA StutterKeepsInv == Inv /\ UNCHANGED vars => Inv'
  <1> SUFFICES ASSUME Inv, UNCHANGED vars PROVE Inv'
    OBVIOUS
  <1>1. UNCHANGED <<app, tree, running, plan, succeeded, asked, interrupted>>
    BY DEF vars
  <1>2. QED
    BY <1>1 DEF Inv, TypeInv, PlanInv, PutInv, SoundInv, StopInv, SuccessInv, AllDone

\* The invariant holds.
THEOREM InvHolds == Spec => []Inv
  <1>1. Init => Inv
    BY InvInit
  <1>2. Inv /\ [Next]_vars => Inv'
    <2> SUFFICES ASSUME Inv, [Next]_vars PROVE Inv'
      OBVIOUS
    <2>1. CASE New
      BY <2>1, NewKeepsInv
    <2>2. CASE \E c \in Commands : Generate(c)
      BY <2>2, GenerateKeepsInv
    <2>3. CASE Step
      <3>1. running = NewApp \/ running \in Commands
        BY <2>3, PlanIs DEF Step
      <3>2. QED
        BY <2>3, <3>1, CommandKeepsInv, NewAppKeepsInv
    <2>4. CASE Refuse
      BY <2>4, RefuseKeepsInv
    <2>5. CASE Succeed
      BY <2>5, SucceedKeepsInv
    <2>6. CASE Interrupt
      BY <2>6, InterruptKeepsInv
    <2>7. CASE Over
      BY <2>7, StutterKeepsInv DEF Over
    <2>8. CASE UNCHANGED vars
      BY <2>8, StutterKeepsInv
    <2>9. QED
      BY <2>1, <2>2, <2>3, <2>4, <2>5, <2>6, <2>7, <2>8 DEF Next
  <1>3. QED
    BY <1>1, <1>2, PTL DEF Spec

-----------------------------------------------------------------------------
(***************************************************************************)
(* What the compiler finds.                                                *)
(***************************************************************************)

\* A path ends with its last node.
LEMMA Split ==
    ASSUME NEW p \in LongPaths
    PROVE  /\ Front(p) \in Paths /\ Len(p) = Len(Front(p)) + 1 /\ Len(Front(p)) \in Nat
           /\ \A k \in 0..Len(Front(p)) : SubSeq(p, 1, k) = SubSeq(Front(p), 1, k)
           /\ SubSeq(p, 1, Len(p)) = p /\ SubSeq(p, 1, 0) = <<>> /\ SubSeq(p, 1, 1) = <<p[1]>>
           /\ \A k \in 1..Len(p) : SubSeq(p, 1, k)[1] = p[1] /\ Len(SubSeq(p, 1, k)) = k
  <1>1. p \in Seq(Nodes) /\ p # <<>>
    BY DEF LongPaths, Paths
  <1>2. Len(p) \in Nat \ {0}
    BY <1>1, EmptySeq
  <1> DEFINE m == Len(p) - 1
             f == SubSeq(p, 1, m)
  <1>3. m \in 0..Len(p) /\ m \in Nat /\ Len(p) = m + 1
    BY <1>2
  <1>4. f \in Seq(Nodes) /\ Len(f) = m /\ \A i \in 1..m : f[i] = p[i]
    BY <1>1, <1>2, <1>3, SubSeqProperties
  <1>5. Front(p) = f
    BY DEF Front
  <1> HIDE DEF m, f
  <1>6. \A k \in 0..m : SubSeq(p, 1, k) = SubSeq(f, 1, k)
    <2> TAKE k \in 0..m
    <2>1. /\ SubSeq(p, 1, k) = [i \in 1..k |-> p[i]]
          /\ SubSeq(f, 1, k) = [i \in 1..k |-> f[i]]
      BY <1>1, <1>3, <1>4
    <2>2. \A i \in 1..k : f[i] = p[i]
      BY <1>3, <1>4
    <2>3. QED
      BY <2>1, <2>2
  <1>7. SubSeq(p, 1, Len(p)) = p /\ SubSeq(p, 1, 0) = <<>> /\ SubSeq(p, 1, 1) = <<p[1]>>
    <2>1. SubSeq(p, 1, Len(p)) = p /\ SubSeq(p, 1, 0) = <<>>
      BY <1>1, <1>2
    <2> DEFINE q == SubSeq(p, 1, 1)
    <2>2. q \in Seq(Nodes) /\ Len(q) = 1 /\ q[1] = p[1]
      BY <1>1, <1>2, SubSeqProperties
    <2> HIDE DEF q
    <2>3. q = <<q[1]>>
      BY <2>2
    <2>4. QED
      BY <2>1, <2>2, <2>3 DEF q
  <1>8. \A k \in 1..Len(p) : SubSeq(p, 1, k)[1] = p[1] /\ Len(SubSeq(p, 1, k)) = k
    BY <1>1, <1>2
  <1>9. QED
    BY <1>3, <1>4, <1>5, <1>6, <1>7, <1>8 DEF Paths

\* src/ is found where it is.
LEMMA RootResolves ==
    ASSUME <<>> \in tree.files
    PROVE  Resolves(<<>>)
  <1>1. Len(<<>>) = 0 /\ SubSeq(<<>>, 1, 0) = <<>> /\ 1..0 = {} /\ 0..0 = {0}
    OBVIOUS
  <1>2. QED
    BY <1>1 DEF Resolves, Reached

\* One node further.
LEMMA NextResolves ==
    ASSUME NEW p \in LongPaths, Resolves(Front(p)), Has(tree, p)
    PROVE  Resolves(p)
  <1>1. /\ Len(p) = Len(Front(p)) + 1 /\ Len(Front(p)) \in Nat
        /\ \A k \in 0..Len(Front(p)) : SubSeq(p, 1, k) = SubSeq(Front(p), 1, k)
        /\ SubSeq(p, 1, Len(p)) = p
    BY Split
  <1>2. \A n \in 1..Len(p) : SubSeq(p, 1, n) \in tree.declared
    <2> TAKE n \in 1..Len(p)
    <2>1. CASE n = Len(p)
      BY <1>1, <2>1 DEF Has
    <2>2. CASE n # Len(p)
      <3>1. n \in 1..Len(Front(p)) /\ n \in 0..Len(Front(p))
        BY <1>1, <2>2
      <3>2. SubSeq(Front(p), 1, n) \in tree.declared
        BY <3>1 DEF Resolves, Reached
      <3>3. QED
        BY <1>1, <3>1, <3>2
    <2>3. QED
      BY <2>1, <2>2
  <1>3. \A n \in 0..Len(p) : SubSeq(p, 1, n) \in tree.files
    <2> TAKE n \in 0..Len(p)
    <2>1. CASE n = Len(p)
      BY <1>1, <2>1 DEF Has
    <2>2. CASE n # Len(p)
      <3>1. n \in 0..Len(Front(p))
        BY <1>1, <2>2
      <3>2. SubSeq(Front(p), 1, n) \in tree.files
        BY <3>1 DEF Resolves
      <3>3. QED
        BY <1>1, <3>1, <3>2
    <2>3. QED
      BY <2>1, <2>2
  <1>4. QED
    BY <1>2, <1>3 DEF Resolves, Reached

\* What is under a module that is found is found.
LEMMA UnderResolves ==
    ASSUME tree \in Trees, NEW home, NEW p, Under(tree, home, p), Resolves(home)
    PROVE  Resolves(p)
  <1>1. tree.declared \subseteq LongPaths
    BY TreesHave
  <1>2. p \in LongPaths /\ Has(tree, p)
    BY <1>1 DEF Under, Has
  <1>3. CASE Front(p) = home
    BY <1>2, <1>3, NextResolves
  <1>4. CASE Has(tree, Front(p)) /\ Front(Front(p)) = home
    <2>1. Front(p) \in LongPaths
      BY <1>1, <1>4 DEF Has
    <2>2. Resolves(Front(p))
      BY <1>4, <2>1, NextResolves
    <2>3. QED
      BY <1>2, <2>2, NextResolves
  <1>5. QED
    BY <1>3, <1>4 DEF Under

\* What is known of a whole application whose commands fit it.
LEMMA WholeIsSound ==
    ASSUME Inv, app.state = "whole", FitSoFar
    PROVE  Sound(tree) /\ <<>> \in tree.files /\ tree \in Trees
  <1>1. \A c \in asked : FitsSo(c, tree, app.transport)
    BY DEF FitSoFar, Fits, FitsSo
  <1>2. Sound(tree)
    BY <1>1 DEF Inv, SoundInv
  <1>3. app.transport \in AllTransports /\ tree \in Trees
    BY RunningIs DEF Inv, TypeInv
  <1>4. ScaffoldDone(tree, app.transport)
    BY DEF Inv, PlanInv, ScaffoldDone
  <1>5. QED
    BY <1>2, <1>3, <1>4, ScaffoldGives

\* The invariant is as strong as TreeIsSound.
LEMMA InvGivesTree == Inv => TreeIsSound
  <1> SUFFICES ASSUME Inv PROVE TreeIsSound
    OBVIOUS
  <1>1. tree.rewritten = {}
    BY DEF Inv, PutInv
  <1>2. ASSUME app.state = "whole", FitSoFar, NEW path \in tree.declared, Reached(path) PROVE Resolves(path)
    <2>1. Sound(tree) /\ <<>> \in tree.files /\ path \in LongPaths
      BY <1>2, WholeIsSound, TreesHave
    <2>2. /\ SubSeq(path, 1, 0) = <<>> /\ SubSeq(path, 1, 1) = <<path[1]>> /\ Len(path) \in Nat /\ Len(path) >= 1
          /\ \A k \in 1..Len(path) : SubSeq(path, 1, k)[1] = path[1] /\ Len(SubSeq(path, 1, k)) = k
      BY <2>1, Split
    <2>3. ASSUME NEW n \in 1..Len(path) PROVE SubSeq(path, 1, n) \in tree.files
      <3> DEFINE q == SubSeq(path, 1, n)
      <3>1. q \in tree.declared
        BY <1>2 DEF Reached
      <3>2. q[1] = path[1]
        BY <2>2
      <3> HIDE DEF q
      <3>3. ~Pending(tree, q)
        <4> SUFFICES ASSUME NEW x \in Names, Feature(x) \notin tree.declared, q \in Within(Feature(x))
                     PROVE  FALSE
          BY DEF Pending
        <4>1. q[1] = N("module", x)
          BY FeatureFolders
        <4>2. Feature(x) = <<path[1]>>
          BY <3>2, <4>1, FeatureIs
        <4>3. SubSeq(path, 1, 1) \in tree.declared
          BY <1>2, <2>2 DEF Reached
        <4>4. QED
          BY <2>2, <4>2, <4>3
      <3>4. q \in tree.files
        BY <2>1, <3>1, <3>3 DEF Sound
      <3>5. QED
        BY <3>4 DEF q
    <2>4. \A n \in 0..Len(path) : SubSeq(path, 1, n) \in tree.files
      <3> TAKE n \in 0..Len(path)
      <3>1. CASE n = 0
        BY <2>1, <2>2, <3>1
      <3>2. CASE n # 0
        <4>1. n \in 1..Len(path)
          BY <2>2, <3>2
        <4>2. QED
          BY <2>3, <4>1
      <3>3. QED
        BY <3>1, <3>2
    <2>5. QED
      BY <1>2, <2>4 DEF Resolves
  <1>3. QED
    BY <1>1, <1>2 DEF TreeIsSound

\* What the root declares has its file, and no file is written twice
\* (create_new_app, generate_*, write_file), whatever the commands are, in
\* which order they come and where they are interrupted.
THEOREM TreesAreSound == Spec => []TreeIsSound
  <1>1. Inv => TreeIsSound
    BY InvGivesTree
  <1>2. QED
    BY <1>1, InvHolds, PTL

\* The same of the lists.
LEMMA InvGivesLists == Inv => ListsAreSound
  <1> SUFFICES ASSUME Inv PROVE ListsAreSound
    OBVIOUS
  <1>1. EntriesResolve
    <2> SUFFICES ASSUME app.state = "whole", FitSoFar
                 PROVE  /\ \A path \in tree.uses : Resolves(path)
                        /\ \A home \in DOMAIN tree.lists : Resolves(home) =>
                             \A list \in Lists : \A i \in DOMAIN tree.lists[home][list] :
                                Resolves(tree.lists[home][list][i])
      BY DEF EntriesResolve
    <2>1. Sound(tree) /\ <<>> \in tree.files /\ tree \in Trees
      BY WholeIsSound
    <2>2. \A path \in tree.uses : Resolves(path)
      BY <2>1, RootResolves, UnderResolves DEF Sound
    <2>3. DOMAIN tree.lists = Homes
      BY <2>1 DEF Trees
    <2>4. ASSUME NEW home \in Homes, Resolves(home), NEW list \in Lists, NEW i \in DOMAIN tree.lists[home][list]
          PROVE  Resolves(tree.lists[home][list][i])
      <3>1. tree.lists[home][list][i] \in Range(tree.lists[home][list])
        BY DEF Range
      <3>2. QED
        BY <2>1, <2>4, <3>1, UnderResolves DEF Sound
    <2>5. QED
      BY <2>2, <2>3, <2>4
  <1>2. AppListsOnce
    BY DEF AppListsOnce, Inv, SoundInv, Tidy
  <1>3. QED
    BY <1>1, <1>2 DEF ListsAreSound

\* AppModule names nothing twice, whatever commands run in whichever layout.
\* As long as the commands fit the application (Fits), every entry of AppModule
\* and of a feature that is reached names a module that is there
\* (patch_app_module*, patch_feature_module).
THEOREM ListsStaySound == Spec => []ListsAreSound
  <1>1. Inv => ListsAreSound
    BY InvGivesLists
  <1>2. QED
    BY <1>1, InvHolds, PTL

\* The imports of a part of a resource are its other parts.
LEMMA ImportsArePaths ==
    ASSUME NEW c \in Commands, c.kind = "resource", NEW part \in {"dto", "create_dto", "update_dto", "service"}
    PROVE  ImportOf(c, part) = PathOf(c, part)
  <1>1. part \in PartNames /\ c.flat \in BOOLEAN
    BY PartFolders, CommandIs
  <1> DEFINE n == N(part, c.name)
             folder == Folder(IF part = "service" THEN "services" ELSE "dto")
  <1>2. PathOf(c, part) = Dir(c, part) \o <<n>> /\ n \in Nodes
    BY <1>1, PathIs
  <1>3. folder = Folder(FolderName[part])
    BY DEF FolderName
  <1>4. /\ c.flat => Dir(c, part) = Home(c)
        /\ ~c.flat => Dir(c, part) = Home(c) \o folder
        /\ (c.module = None /\ ~c.flat) => Dir(c, part) = folder
    <2>1. (c.module = None /\ ~c.flat) => Dir(c, part) = Folder(FolderName[part])
      BY <1>1, DirIs
    <2>2. QED
      BY <1>3, <2>1 DEF Dir
  <1>5. /\ c.module = None => Home(c) = <<>>
        /\ c.module # None => Home(c) = Feature(c.module)
    BY HomeIs
  <1> HIDE DEF n, folder
  <1>6. ImportOf(c, part) = CASE c.module # None /\ ~c.flat -> Feature(c.module) \o folder \o <<n>>
                              [] c.module # None /\ c.flat -> Feature(c.module) \o <<n>>
                              [] c.module = None /\ ~c.flat -> folder \o <<n>>
                              [] OTHER -> <<n>>
    BY DEF ImportOf, n, folder
  <1>7. CASE c.module # None /\ ~c.flat
    BY <1>2, <1>4, <1>5, <1>6, <1>7
  <1>8. CASE c.module # None /\ c.flat
    BY <1>2, <1>4, <1>5, <1>6, <1>8
  <1>9. CASE c.module = None /\ ~c.flat
    BY <1>2, <1>4, <1>6, <1>9
  <1>10. CASE c.module = None /\ c.flat
    <2>1. <<>> \o <<n>> = <<n>>
      OBVIOUS
    <2>2. QED
      BY <1>2, <1>4, <1>5, <1>6, <1>10, <2>1
  <1>11. QED
    BY <1>1, <1>7, <1>8, <1>9, <1>10

\* What a command has done that has done all.
LEMMA DoneIsComplete ==
    ASSUME Inv, app.state = "whole", NEW c \in Commands, AllDone(c), Fits(c), Resolves(Home(c))
    PROVE  Complete(c)
  <1> DEFINE tr == app.transport
             s == Use(<<>>)
  <1>1. tr \in AllTransports /\ tree \in Trees /\ LaidOut(tree) /\ ScaffoldDone(tree, tr)
    BY RunningIs DEF Inv, TypeInv, PutInv, PlanInv, ScaffoldDone
  <1>2. Rank(s) = 5
    BY StepRanks
  <1> HIDE DEF s
  <1>3. Before(tree, c, s, tr)
    BY DEF Before, AllDone
  <1>4. FitsSo(c, tree, tr)
    BY DEF Fits, FitsSo
  <1>5. \A x \in StepsOf(c) : Done(tree, x, tr)
    BY DEF AllDone
  <1>6. CASE c.kind = "module"
    <2> DEFINE f == Feature(c.name)
    <2>1. f \in LongPaths /\ Front(f) = <<>> /\ c.name \in Names
      BY CommandIs, FeatureIs
    <2>2. f \in tree.files /\ f \in tree.declared
      BY <1>2, <1>3, <1>6, ModuleIsMade
    <2>3. Use(f) \in StepsOf(c) /\ Import(f) \in StepsOf(c)
      BY <1>6 DEF StepsOf, ModuleEntries
    <2>4. <<>> \in tree.files
      BY <1>1, ScaffoldGives
    <2> HIDE DEF f
    <2>5. Resolves(f)
      BY <2>1, <2>2, <2>4, RootResolves, NextResolves DEF Has
    <2>6. f \in tree.uses
      <3>1. Done(tree, Use(f), tr) /\ Use(f).op = "use" /\ Use(f).path = f
        BY <1>5, <2>3, StepFields
      <3>2. QED
        BY <3>1 DEF Done
    <2>7. Listed(tree.imports, f)
      <3>1. Done(tree, Import(f), tr) /\ Import(f).op = "import" /\ Import(f).path = f
        BY <1>5, <2>3, StepFields
      <3>2. \E e \in Range(tree.imports) : SameEnd(e, f)
        BY <3>1 DEF Done
      <3>3. tree.imports \in Seq(LongPaths)
        BY <1>1, TreesHave
      <3>4. QED
        BY <3>2, <3>3, ListedIs
    <2>8. QED
      BY <1>6, <2>5, <2>6, <2>7 DEF Complete, f
  <1>7. CASE c.kind # "module"
    <2>1. \A part \in PartSet(c) : Under(tree, Home(c), PathOf(c, part))
      BY <1>1, <1>2, <1>3, <1>4, <1>7, PartInPlace
    <2>2. \A part \in PartSet(c) : Resolves(PathOf(c, part))
      BY <1>1, <2>1, UnderResolves
    <2>3. Range(Parts(c)) \subseteq PartSet(c)
      <3>1. CASE c.kind = "grpc"
        <4>1. Range(Parts(c)) = {"grpc"} /\ PartSet(c) = {"proto", "grpc"}
          BY <1>7, <3>1, PartsAre DEF PartSet
        <4>2. QED
          BY <4>1
      <3>2. CASE c.kind # "grpc"
        BY <3>2 DEF PartSet
      <3>3. QED
        BY <3>1, <3>2
    <2>4. \A part \in Range(Parts(c)) : Resolves(PathOf(c, part))
      BY <2>2, <2>3
    <2>5. c.kind = "resource" => \A part \in Range(Parts(c)) : \A needed \in Needs(part) : Resolves(ImportOf(c, needed))
      <3> SUFFICES ASSUME c.kind = "resource", NEW part, NEW needed \in Needs(part)
                   PROVE  Resolves(ImportOf(c, needed))
        OBVIOUS
      <3>1. needed \in {"dto", "create_dto", "update_dto", "service"}
        <4>1. CASE part = "service"
          BY <4>1 DEF Needs
        <4>2. CASE part = "controller"
          BY <4>2 DEF Needs
        <4>3. CASE part \notin {"service", "controller"}
          <5>1. Needs(part) = {}
            BY <4>3 DEF Needs
          <5>2. QED
            BY <5>1
        <4>4. QED
          BY <4>1, <4>2, <4>3
      <3>2. ImportOf(c, needed) = PathOf(c, needed)
        BY <3>1, ImportsArePaths
      <3>3. needed \in PartSet(c)
        <4>1. PartSet(c) = {"dto", "create_dto", "update_dto", "service", "controller"}
          BY <1>7, PartsAre
        <4>2. QED
          BY <3>1, <4>1
      <3>4. QED
        BY <2>2, <3>2, <3>3
    <2>6. c.kind = "grpc" => PathOf(c, "proto") \in tree.files \cap tree.declared
      <3> HAVE c.kind = "grpc"
      <3>1. "proto" \in PartSet(c)
        BY DEF PartSet
      <3>2. QED
        BY <2>1, <3>1 DEF Under, Has
    <2>7. ASSUME NEW list \in ListsOf(c) \ (IF c.module = None THEN {"exports"} ELSE {})
          PROVE  Entered(EntryOf(c, list), Home(c), list)
      <3>1. c.kind \in PartKinds
        <4>1. "controller" \in Range(Parts(c)) \/ "service" \in Range(Parts(c))
          BY <2>7 DEF ListsOf
        <4>2. c.kind # "resource" => Range(Parts(c)) = {c.kind}
          BY <1>7, PartsAre
        <4>3. QED
          BY <4>1, <4>2 DEF PartKinds
      <3>2. PartSet(c) = Range(Parts(c))
        BY <3>1 DEF PartSet, PartKinds
      <3>3. list \in Lists
        BY <2>7 DEF ListsOf, Lists
      <3>4. CASE c.module # None
        <4> DEFINE x == WireFeature(c, ListsOf(c))
        <4>1. x \in StepsOf(c)
          BY <1>7, <3>1, <3>4 DEF StepsOf, Wires
        <4>2. x.op = "wireFeature" /\ x.command = c /\ x.lists = ListsOf(c)
          BY StepFields
        <4> HIDE DEF x
        <4>3. list \in FeatureLists(x)
          BY <2>7, <3>3, <4>2 DEF FeatureLists
        <4>4. Done(tree, x, tr)
          BY <1>5, <4>1
        <4>5. EntryOf(c, list) \in Range(tree.lists[Home(c)][list])
          BY <4>2, <4>3, <4>4 DEF Done
        <4>6. QED
          BY <4>5 DEF Entered
      <3>5. CASE c.module = None
        <4> DEFINE p == EntryOf(c, list)
                   x == WireApp(list, p)
        <4>1. x \in Wires(c)
          <5>1. CASE list = "controllers"
            <6>1. "controller" \in PartSet(c) /\ p = PathOf(c, "controller")
              BY <2>7, <3>2, <5>1 DEF ListsOf, EntryOf
            <6>2. QED
              BY <3>1, <3>5, <5>1, <6>1 DEF Wires
          <5>2. CASE list # "controllers"
            <6>1. list = "providers" /\ "service" \in PartSet(c) /\ p = PathOf(c, "service")
              BY <2>7, <3>2, <3>5, <5>2 DEF ListsOf, EntryOf
            <6>2. QED
              BY <3>1, <3>5, <6>1 DEF Wires
          <5>3. QED
            BY <5>1, <5>2
        <4>2. x \in StepsOf(c)
          BY <1>7, <4>1 DEF StepsOf
        <4>3. x.op = "wireApp" /\ x.list = list /\ x.path = p
          BY StepFields
        <4>4. Home(c) = <<>>
          BY <3>5, HomeIs
        <4> HIDE DEF x, p
        <4>5. Done(tree, x, tr)
          BY <1>5, <4>2
        <4>6. \/ \E e \in Range(tree.lists[<<>>][list]) : e = p \/ SameEnd(e, p)
              \/ tr # "Http" /\ p \in tree.uses
          BY <4>3, <4>5 DEF Done
        <4>7. Entered(p, <<>>, list)
          <5>1. CASE tr # "Http" /\ p \in tree.uses
            BY <5>1 DEF Entered, HasMarkers
          <5>2. CASE p \in Range(tree.lists[<<>>][list])
            BY <5>2 DEF Entered
          <5>3. CASE \E e \in Range(tree.lists[<<>>][list]) : e # p /\ SameEnd(e, p)
            <6>1. PICK i \in DOMAIN tree.lists[<<>>][list] : /\ tree.lists[<<>>][list][i] # p
                                                             /\ SameEnd(tree.lists[<<>>][list][i], p)
              BY <5>3 DEF Range
            <6>2. QED
              BY <6>1 DEF Entered, SameEnd
          <5>4. QED
            BY <4>6, <5>1, <5>2, <5>3
        <4>8. QED
          BY <4>4, <4>7 DEF p
      <3>6. QED
        BY <3>4, <3>5
    <2>8. QED
      BY <1>7, <2>4, <2>5, <2>6, <2>7 DEF Complete
  <1>8. QED
    BY <1>6, <1>7

\* A command that succeeded is one that has done all its steps.
LEMMA InvGivesSuccess == Inv => SuccessIsComplete
  <1> SUFFICES ASSUME Inv, succeeded # None, Fits(succeeded), Resolves(Home(succeeded)),
                      ~(succeeded.kind \in StopKinds /\ succeeded \in interrupted)
               PROVE  Complete(succeeded)
    BY DEF SuccessIsComplete
  <1>1. succeeded \in Commands
    BY DEF Inv, TypeInv
  <1>2. app.state = "whole" /\ AllDone(succeeded)
    BY DEF Inv, SuccessInv
  <1>3. QED
    BY <1>1, <1>2, DoneIsComplete

\* A command that reports success has left every file, declaration and entry
\* it is for, also after interruptions, unless it is of a kind that stops at
\* its file or is for a feature that was interrupted (generate_*).
THEOREM SuccessesAreComplete == Spec => []SuccessIsComplete
  <1>1. Inv => SuccessIsComplete
    BY InvGivesSuccess
  <1>2. QED
    BY <1>1, InvHolds, PTL
=============================================================================
