------------------------ MODULE RequestPipelineProofs ------------------------
(***************************************************************************)
(* Theorems about RequestPipeline for every value of its constants: any    *)
(* number of requests, middlewares, interceptors and guards, with wrappers *)
(* that call their next as often as they like.                             *)
(***************************************************************************)
EXTENDS RequestPipeline, SequenceTheorems, TLAPS

-----------------------------------------------------------------------------
(***************************************************************************)
(* The inductive invariant.  A layer's next can be taken once, and what is *)
(* below a layer is reached through that next alone: the layers whose next *)
(* is spent are the first ones, and a request is fresh while it is in the  *)
(* one after them, which it enters once.  Only a fresh request comes to a  *)
(* guard or to the handler, so that what is true of the guards then stays  *)
(* true.                                                                   *)
(***************************************************************************)

\* The guards of the layers up to l.
GuardsTo(l, rt) == UNION {{<<k, i>> : i \in 1..Len(GuardList[k][rt])} : k \in 2..l}

\* The wrappers around a route, and the order they are entered in.
Around(rt) == {<<1, i>> : i \in Matching[rt]} \cup
                 UNION {{<<l, i>> : i \in 1..Interceptors[l][rt]} : l \in 2..Depth(rt)}

Place(f) == <<f.layer, f.index>>
Precedes(v, w) == v[1] < w[1] \/ (v[1] = w[1] /\ v[2] < w[2])
UpTo(v, w) == Precedes(v, w) \/ v = w

\* The places of the first n frames of a stack.
Entered(stack, n) == {Place(stack[i]) : i \in 1..n}

\* Each frame stands for a wrapper of the route, and every wrapper before it
\* is on the stack below it, and nothing else is.
StackOK(stack, rt) ==
    \A k \in 1..Len(stack) :
        /\ Place(stack[k]) \in Around(rt)
        /\ \A w \in Around(rt) :
              Precedes(w, Place(stack[k])) => \E i \in 1..(k - 1) : Place(stack[i]) = w
        /\ \A i \in 1..(k - 1) : Precedes(Place(stack[i]), Place(stack[k]))

\* The request is inside of the wrappers up to place w.
EnteredTo(stack, rt, w) ==
    /\ \A k \in 1..Len(stack) : UpTo(Place(stack[k]), w)
    /\ \A v \in Around(rt) : UpTo(v, w) => \E k \in 1..Len(stack) : Place(stack[k]) = v

Spot(r) == <<at[r].layer, at[r].next>>

\* The layers whose next was taken are the first ones, and whoever is in a
\* layer came through the nexts above it.
SpentOK(r) ==
    LET depth == Depth(route[r]) IN
    /\ \A l \in spent[r] : l <= depth /\ \A m \in 1..(l - 1) : m \in spent[r]
    /\ at[r].layer <= depth
    /\ \A m \in 1..(at[r].layer - 1) : m \in spent[r]
    /\ \A k \in 1..Len(frames[r]) :
          \A m \in 1..(frames[r][k].layer - 1) : m \in spent[r]

WrappedOK(r) ==
    /\ StackOK(frames[r], route[r])
    /\ phase[r] = "inside" => frames[r] # <<>>
    /\ phase[r] = "chain" => EnteredTo(frames[r], route[r], Spot(r))
    /\ phase[r] = "guards" => EnteredTo(frames[r], route[r], <<at[r].layer, 0>>)
    /\ phase[r] = "handler" =>
          \A v \in Around(route[r]) : \E k \in 1..Len(frames[r]) : Place(frames[r][k]) = v

\* Layer l is the one a fresh request is in, past the guards of that layer.
Fresh(r, l) == \/ phase[r] = "chain" /\ at[r].layer = l /\ l \notin spent[r]
               \/ phase[r] = "inside" /\ Inner(r).layer = l /\ l \notin spent[r]

Untouched(r) == ~refused[r] /\ runs[r] = 0

GuardsOK(r) ==
    LET rt == route[r]
        depth == Depth(rt) IN
    /\ \A g \in passed[r] : who[r] \in Admits[GuardList[g[1]][rt][g[2]]]
    /\ phase[r] \in {"new", "resolving"} =>
          /\ at[r] = [layer |-> 1, next |-> 0] /\ frames[r] = <<>>
          /\ spent[r] = {} /\ passed[r] = {} /\ Untouched(r)
    /\ phase[r] = "guards" =>
          /\ at[r].layer \in 2..3 /\ at[r].layer \notin spent[r]
          /\ at[r].next <= Len(GuardsOf(r))
          /\ passed[r] = GuardsTo(at[r].layer - 1, rt) \cup
                            {<<at[r].layer, i>> : i \in 1..at[r].next}
          /\ Untouched(r)
    /\ \A l \in Layers : Fresh(r, l) => passed[r] = GuardsTo(l, rt) /\ Untouched(r)
    /\ phase[r] = "handler" =>
          /\ depth \in spent[r] /\ at[r].layer = depth
          /\ passed[r] = GuardsTo(depth, rt) /\ Untouched(r)
    /\ runs[r] > 0 =>
          /\ depth \in spent[r] /\ passed[r] = GuardsTo(depth, rt)
          /\ runs[r] = 1 /\ ~refused[r]

\* Whoever waits for an answer has one once next came back.
ReplyOK(r) ==
    phase[r] \in {"leaving", "answered"} \/ (phase[r] = "inside" /\ Inner(r).calls > 0) =>
        /\ reply[r] \in Response
        /\ reply[r].from \in {"guard", "resolver"} => reply[r].filters # {}

RequestOK(r) == SpentOK(r) /\ WrappedOK(r) /\ GuardsOK(r) /\ ReplyOK(r)

PipelineInv == TypeOK /\ \A r \in Requests : RequestOK(r)

-----------------------------------------------------------------------------
(***************************************************************************)
(* Routes, wrappers and guards.                                            *)
(***************************************************************************)

LEMMA DepthType ==
    ASSUME NEW rt \in Routes
    PROVE  Depth(rt) \in 1..3
  BY PipelineAssumption DEF Depth

LEMMA WrappersType ==
    ASSUME NEW rt \in Routes, NEW l \in Layers
    PROVE  Wrappers(l, rt) \in Nat
  BY PipelineAssumption DEF Wrappers, Layers

\* The wrappers around a route are numbered from 1 in each of its layers.
LEMMA AroundPlaces ==
    ASSUME NEW rt \in Routes
    PROVE  /\ \A w \in Around(rt) :
                 /\ w[1] \in 1..Depth(rt) /\ w[2] \in Nat \ {0}
                 /\ w = <<w[1], w[2]>> /\ w[2] <= Wrappers(w[1], rt)
           /\ \A i : <<1, i>> \in Around(rt) <=> i \in Matching[rt]
           /\ \A l \in 2..3, i \in Nat \ {0} :
                 l <= Depth(rt) /\ i <= Wrappers(l, rt) => <<l, i>> \in Around(rt)
  <1>1. Depth(rt) \in 1..3
    BY DepthType
  <1>2. Matching[rt] \subseteq 1..Middlewares /\ Middlewares \in Nat
    BY PipelineAssumption
  <1>3. \A l \in 2..3 : Interceptors[l][rt] \in Nat
    BY PipelineAssumption
  <1>4. ASSUME NEW w \in Around(rt)
        PROVE  /\ w[1] \in 1..Depth(rt) /\ w[2] \in Nat \ {0}
               /\ w = <<w[1], w[2]>> /\ w[2] <= Wrappers(w[1], rt)
    <2>1. CASE \E i \in Matching[rt] : w = <<1, i>>
      BY <1>1, <1>2, <2>1 DEF Wrappers
    <2>2. CASE \E l \in 2..Depth(rt) : \E i \in 1..Interceptors[l][rt] : w = <<l, i>>
      BY <1>1, <1>3, <2>2 DEF Wrappers
    <2>3. QED
      BY <2>1, <2>2 DEF Around
  <1>5. \A i : <<1, i>> \in Around(rt) <=> i \in Matching[rt]
    BY <1>1 DEF Around
  <1>6. ASSUME NEW l \in 2..3, NEW i \in Nat \ {0}, l <= Depth(rt), i <= Wrappers(l, rt)
        PROVE  <<l, i>> \in Around(rt)
    <2>1. l \in 2..Depth(rt) /\ i \in 1..Interceptors[l][rt]
      BY <1>1, <1>3, <1>6 DEF Wrappers
    <2>2. QED
      BY <2>1 DEF Around
  <1>7. QED
    BY <1>4, <1>5, <1>6

\* The guards of a layer come after those of the layers above it.
LEMMA GuardLists ==
    ASSUME NEW l \in 2..3, NEW rt \in Routes
    PROVE  GuardList[l][rt] \in Seq(Guards) /\ Len(GuardList[l][rt]) \in Nat
  <1>1. GuardList[l][rt] \in Seq(Guards)
    BY PipelineAssumption
  <1>2. QED
    BY <1>1

LEMMA GuardsOfLayers ==
    ASSUME NEW rt \in Routes
    PROVE  /\ GuardsTo(1, rt) = {}
           /\ \A l \in 2..3 : GuardsTo(l, rt) =
                 GuardsTo(l - 1, rt) \cup {<<l, i>> : i \in 1..Len(GuardList[l][rt])}
  <1>1. GuardsTo(1, rt) = {}
    BY DEF GuardsTo
  <1>2. ASSUME NEW l \in 2..3
        PROVE  GuardsTo(l, rt) =
                 GuardsTo(l - 1, rt) \cup {<<l, i>> : i \in 1..Len(GuardList[l][rt])}
    <2> DEFINE layer(k) == {<<k, i>> : i \in 1..Len(GuardList[k][rt])}
    <2>1. GuardsTo(l, rt) = UNION {layer(k) : k \in 2..l}
          /\ GuardsTo(l - 1, rt) = UNION {layer(k) : k \in 2..(l - 1)}
      BY DEF GuardsTo
    <2> HIDE DEF layer
    <2>2. 2..l = 2..(l - 1) \cup {l}
      OBVIOUS
    <2>3. GuardsTo(l, rt) = GuardsTo(l - 1, rt) \cup layer(l)
      BY <2>1, <2>2
    <2>4. QED
      BY <2>3 DEF layer
  <1>3. QED
    BY <1>1, <1>2

LEMMA AllGuardsReached == \A r \in Requests : AllGuards(r) = GuardsTo(Depth(route[r]), route[r])
  BY DEF AllGuards, GuardsTo

-----------------------------------------------------------------------------
(***************************************************************************)
(* Stacks of wrappers.                                                     *)
(***************************************************************************)

\* Only the places of the frames matter.
LEMMA SamePlaces ==
    ASSUME NEW rt, NEW s, NEW t, StackOK(s, rt), Len(t) = Len(s), Len(s) \in Nat,
           \A k \in 1..Len(s) : Place(t[k]) = Place(s[k])
    PROVE  /\ StackOK(t, rt)
           /\ \A w : EnteredTo(s, rt, w) => EnteredTo(t, rt, w)
  BY DEF StackOK, EnteredTo

\* A wrapper returns.
LEMMA PoppedStack ==
    ASSUME NEW rt, NEW s \in Seq(Frame), s # <<>>, StackOK(s, rt)
    PROVE  LET t == SubSeq(s, 1, Len(s) - 1) IN
           /\ t \in Seq(Frame) /\ Len(t) = Len(s) - 1
           /\ \A k \in 1..Len(t) : t[k] = s[k]
           /\ StackOK(t, rt)
  <1> DEFINE t == SubSeq(s, 1, Len(s) - 1)
  <1>1. Len(s) \in Nat \ {0}
    OBVIOUS
  <1>2. t \in Seq(Frame) /\ Len(t) = Len(s) - 1 /\ \A k \in 1..Len(t) : t[k] = s[k]
    <2> DEFINE n == Len(s) - 1
    <2>1. n \in Int /\ 1 \in Int /\ \A i \in 1..n : s[i] \in Frame
      BY <1>1
    <2>2. t = SubSeq(s, 1, n)
      OBVIOUS
    <2> HIDE DEF n, t
    <2>3. /\ SubSeq(s, 1, n) \in Seq(Frame)
          /\ Len(SubSeq(s, 1, n)) = IF 1 <= n THEN n - 1 + 1 ELSE 0
          /\ \A k \in 1..(n - 1 + 1) : SubSeq(s, 1, n)[k] = s[1 + k - 1]
      BY <2>1, SubSeqProperties
    <2>4. n \in Nat /\ n = Len(s) - 1
      BY <1>1 DEF n
    <2>5. Len(t) = n
      BY <2>2, <2>3, <2>4
    <2>6. ASSUME NEW k \in 1..n PROVE t[k] = s[k]
      <3>1. k \in 1..(n - 1 + 1) /\ 1 + k - 1 = k
        BY <2>4
      <3>2. QED
        BY <2>2, <2>3, <3>1
    <2>7. QED
      BY <2>2, <2>3, <2>4, <2>5, <2>6
  <1> HIDE DEF t
  <1>3. \A k \in 1..Len(t) :
           k \in 1..Len(s) /\ t[k] = s[k] /\ \A i \in 1..(k - 1) : t[i] = s[i]
    BY <1>1, <1>2
  <1>4. StackOK(t, rt)
    BY <1>3 DEF StackOK
  <1>5. QED
    BY <1>2, <1>4 DEF t

\* A wrapper is entered after those before it.
LEMMA PushedStack ==
    ASSUME NEW rt \in Routes, NEW s \in Seq(Frame), StackOK(s, rt),
           NEW f \in Frame, NEW n \in Nat, f.index = n + 1,
           Place(f) \in Around(rt), EnteredTo(s, rt, <<f.layer, n>>)
    PROVE  /\ Append(s, f) \in Seq(Frame) /\ Len(Append(s, f)) = Len(s) + 1
           /\ \A k \in 1..Len(s) : Append(s, f)[k] = s[k]
           /\ Append(s, f)[Len(s) + 1] = f
           /\ StackOK(Append(s, f), rt)
  <1> DEFINE t == Append(s, f)
  <1>1. /\ t \in Seq(Frame) /\ Len(t) = Len(s) + 1 /\ Len(s) \in Nat
        /\ \A k \in 1..Len(s) : t[k] = s[k]
        /\ t[Len(s) + 1] = f
    OBVIOUS
  <1> HIDE DEF t
  <1>2. ASSUME NEW k \in 1..Len(s)
        PROVE  /\ Place(t[k]) \in Around(rt)
               /\ \A w \in Around(rt) :
                     Precedes(w, Place(t[k])) => \E i \in 1..(k - 1) : Place(t[i]) = w
               /\ \A i \in 1..(k - 1) : Precedes(Place(t[i]), Place(t[k]))
    <2>1. t[k] = s[k] /\ \A i \in 1..(k - 1) : t[i] = s[i]
      BY <1>1
    <2>2. QED
      BY <2>1 DEF StackOK
  <1>3. \A i \in 1..Len(s) : Precedes(Place(t[i]), Place(f))
    <2>1. SUFFICES ASSUME NEW i \in 1..Len(s) PROVE Precedes(Place(s[i]), Place(f))
      BY <1>1
    <2>2. UpTo(Place(s[i]), <<f.layer, n>>)
      BY DEF EnteredTo
    <2>3. s[i] \in Frame
      BY <1>1
    <2>4. QED
      BY <2>2, <2>3 DEF UpTo, Precedes, Place, Frame, Layers
  <1>4. ASSUME NEW w \in Around(rt), Precedes(w, Place(f))
        PROVE  \E i \in 1..Len(s) : Place(t[i]) = w
    <2>1. w[1] \in Nat /\ w[2] \in Nat /\ w = <<w[1], w[2]>>
      BY AroundPlaces, DepthType
    <2>2. UpTo(w, <<f.layer, n>>)
      BY <1>4, <2>1 DEF UpTo, Precedes, Place, Frame, Layers
    <2>3. QED
      BY <1>1, <2>2 DEF EnteredTo
  <1>5. StackOK(t, rt)
    <2>1. SUFFICES ASSUME NEW k \in 1..(Len(s) + 1)
                   PROVE  /\ Place(t[k]) \in Around(rt)
                          /\ \A w \in Around(rt) :
                                Precedes(w, Place(t[k])) =>
                                    \E i \in 1..(k - 1) : Place(t[i]) = w
                          /\ \A i \in 1..(k - 1) : Precedes(Place(t[i]), Place(t[k]))
      BY <1>1 DEF StackOK
    <2>2. CASE k \in 1..Len(s)
      BY <1>2, <2>2
    <2>3. CASE k = Len(s) + 1
      BY <1>1, <1>3, <1>4, <2>3
    <2>4. QED
      BY <1>1, <2>2, <2>3
  <1>6. QED
    BY <1>1, <1>5 DEF t

\* The innermost wrapper calls its next: the request is where it entered it.
LEMMA EnteredToInner ==
    ASSUME NEW rt \in Routes, NEW s \in Seq(Frame), s # <<>>, StackOK(s, rt)
    PROVE  EnteredTo(s, rt, Place(s[Len(s)]))
  <1> DEFINE n == Len(s)
  <1>1. n \in Nat \ {0}
    OBVIOUS
  <1>2. \A k \in 1..n : k = n \/ k \in 1..(n - 1)
    BY <1>1
  <1>3. n \in 1..n /\ \A i \in 1..(n - 1) : i \in 1..n
    BY <1>1
  <1>4. QED
    BY <1>2, <1>3 DEF StackOK, EnteredTo, UpTo

\* A middleware that does not match is passed by.
LEMMA EnteredPast ==
    ASSUME NEW rt \in Routes, NEW s \in Seq(Frame), NEW l \in Layers, NEW n \in Nat,
           EnteredTo(s, rt, <<l, n>>), <<l, n + 1>> \notin Around(rt)
    PROVE  EnteredTo(s, rt, <<l, n + 1>>)
  <1>1. ASSUME NEW k \in 1..Len(s) PROVE UpTo(Place(s[k]), <<l, n + 1>>)
    <2>1. UpTo(Place(s[k]), <<l, n>>)
      BY DEF EnteredTo
    <2>2. s[k] \in Frame
      OBVIOUS
    <2>3. QED
      BY <2>1, <2>2 DEF UpTo, Precedes, Place, Frame, Layers
  <1>2. ASSUME NEW v \in Around(rt), UpTo(v, <<l, n + 1>>)
        PROVE  UpTo(v, <<l, n>>)
    <2>1. v[1] \in Nat /\ v[2] \in Nat /\ v = <<v[1], v[2]>> /\ v # <<l, n + 1>>
      BY AroundPlaces, DepthType
    <2>2. QED
      BY <1>2, <2>1 DEF UpTo, Precedes, Layers
  <1>3. QED
    BY <1>1, <1>2 DEF EnteredTo

\* At the end of a layer's list all its wrappers are entered.
LEMMA EnteredAll ==
    ASSUME NEW rt \in Routes, NEW s \in Seq(Frame), NEW l \in Layers, NEW n \in Nat,
           EnteredTo(s, rt, <<l, n>>), Wrappers(l, rt) <= n
    PROVE  /\ EnteredTo(s, rt, <<l + 1, 0>>)
           /\ l = Depth(rt) =>
                 \A v \in Around(rt) : \E k \in 1..Len(s) : Place(s[k]) = v
  <1>1. ASSUME NEW k \in 1..Len(s) PROVE UpTo(Place(s[k]), <<l + 1, 0>>)
    <2>1. UpTo(Place(s[k]), <<l, n>>)
      BY DEF EnteredTo
    <2>2. s[k] \in Frame
      OBVIOUS
    <2>3. QED
      BY <2>1, <2>2 DEF UpTo, Precedes, Place, Frame, Layers
  <1>2. ASSUME NEW v \in Around(rt), v[1] <= l PROVE UpTo(v, <<l, n>>)
    <2>1. /\ v[1] \in Nat /\ v[2] \in Nat /\ v = <<v[1], v[2]>>
          /\ v[2] <= Wrappers(v[1], rt)
      BY AroundPlaces, DepthType
    <2>2. Wrappers(l, rt) \in Nat
      BY WrappersType
    <2>3. QED
      BY <1>2, <2>1, <2>2 DEF UpTo, Precedes, Layers
  <1>3. ASSUME NEW v \in Around(rt), UpTo(v, <<l + 1, 0>>) PROVE v[1] <= l
    <2>1. v[1] \in Nat /\ v[2] \in Nat \ {0} /\ v = <<v[1], v[2]>>
      BY AroundPlaces, DepthType
    <2>2. QED
      BY <1>3, <2>1 DEF UpTo, Precedes, Layers
  <1>4. \A v \in Around(rt) : v[1] <= Depth(rt)
    BY AroundPlaces, DepthType
  <1>5. QED
    BY <1>1, <1>2, <1>3, <1>4 DEF EnteredTo

-----------------------------------------------------------------------------
(***************************************************************************)
(* Types.                                                                  *)
(***************************************************************************)

LEMMA Typed ==
    ASSUME TypeOK, NEW r \in Requests
    PROVE  /\ route[r] \in Routes /\ phase[r] \in Phases
           /\ at[r] \in [layer: Layers, next: Nat]
           /\ at[r].layer \in 1..3 /\ at[r].next \in Nat
           /\ frames[r] \in Seq(Frame) /\ Len(frames[r]) \in Nat
           /\ \A k \in 1..Len(frames[r]) : frames[r][k] \in Frame
           /\ frames[r] # <<>> =>
                 /\ Len(frames[r]) \in 1..Len(frames[r])
                 /\ Inner(r) = frames[r][Len(frames[r])] /\ Inner(r) \in Frame
           /\ spent[r] \subseteq Layers /\ refused[r] \in BOOLEAN /\ runs[r] \in Nat
           /\ Depth(route[r]) \in 1..3
  <1>1. /\ route[r] \in Routes /\ phase[r] \in Phases
        /\ at[r] \in [layer: Layers, next: Nat]
        /\ at[r].layer \in 1..3 /\ at[r].next \in Nat
        /\ frames[r] \in Seq(Frame) /\ Len(frames[r]) \in Nat
        /\ spent[r] \subseteq Layers /\ refused[r] \in BOOLEAN /\ runs[r] \in Nat
    BY DEF TypeOK, Layers
  <1>2. \A k \in 1..Len(frames[r]) : frames[r][k] \in Frame
    BY <1>1
  <1>3. frames[r] # <<>> =>
           /\ Len(frames[r]) \in 1..Len(frames[r])
           /\ Inner(r) = frames[r][Len(frames[r])] /\ Inner(r) \in Frame
    BY <1>1, <1>2 DEF Inner
  <1>4. QED
    BY <1>1, <1>2, <1>3, DepthType

LEMMA DeliverTypes ==
    ASSUME TypeOK, NEW r \in Requests, NEW response \in Response, Deliver(r, response)
    PROVE  /\ phase' \in [Requests -> Phases]
           /\ reply' \in [Requests -> Response \cup {None}]
           /\ phase'[r] = IF frames[r] = <<>> THEN "leaving" ELSE "inside"
           /\ reply'[r] = response
           /\ \A q \in Requests \ {r} : phase'[q] = phase[q] /\ reply'[q] = reply[q]
  BY DEF TypeOK, Deliver, Goto, Phases

LEMMA GotoTypes ==
    ASSUME TypeOK, NEW r \in Requests, NEW p \in Phases, Goto(r, p)
    PROVE  /\ phase' \in [Requests -> Phases]
           /\ phase'[r] = p
           /\ \A q \in Requests \ {r} : phase'[q] = phase[q]
  BY DEF TypeOK, Goto

LEMMA Responses ==
    /\ \A error \in BOOLEAN :
          /\ Respond(error, "handler", {}) \in Response
          /\ Respond(error, "wrapper", {}) \in Response
          /\ Respond(error, "next", {}) \in Response
          /\ Respond(error, "fallback", {}) \in Response
          /\ Respond(error, "resolver", {"global"}) \in Response
          /\ \A l : Respond(error, "guard", Filters(l)) \in Response
    /\ \A error, from, filters :
          /\ Respond(error, from, filters).from = from
          /\ Respond(error, from, filters).filters = filters
  BY DEF Respond, Response, Filters

\* What a request is while no step touches it.
LEMMA RequestStays ==
    ASSUME NEW r \in Requests, RequestOK(r),
           phase'[r] = phase[r], route'[r] = route[r], who'[r] = who[r],
           at'[r] = at[r], frames'[r] = frames[r], spent'[r] = spent[r],
           passed'[r] = passed[r], refused'[r] = refused[r], runs'[r] = runs[r],
           reply'[r] = reply[r]
    PROVE  RequestOK(r)'
  <1>1. SpentOK(r)'
    BY DEF RequestOK, SpentOK
  <1>2. WrappedOK(r)'
    BY DEF RequestOK, WrappedOK, Spot
  <1>3. GuardsOK(r)'
    BY DEF RequestOK, GuardsOK, Fresh, Untouched, Inner, GuardsOf
  <1>4. ReplyOK(r)'
    BY DEF RequestOK, ReplyOK, Inner
  <1>5. QED
    BY <1>1, <1>2, <1>3, <1>4 DEF RequestOK

\* Every step but Receive changes what belongs to one request.
LEMMA OthersStay ==
    ASSUME PipelineInv, NEW r \in Requests, TypeOK', RequestOK(r)', route' = route,
           \A q \in Requests \ {r} :
              /\ phase'[q] = phase[q] /\ who'[q] = who[q]
              /\ at'[q] = at[q] /\ frames'[q] = frames[q] /\ spent'[q] = spent[q]
              /\ passed'[q] = passed[q] /\ refused'[q] = refused[q]
              /\ runs'[q] = runs[q] /\ reply'[q] = reply[q]
    PROVE  PipelineInv'
  <1>1. ASSUME NEW q \in Requests, q # r PROVE RequestOK(q)'
    <2>1. RequestOK(q)
      BY DEF PipelineInv
    <2>2. QED
      BY <1>1, <2>1, RequestStays
  <1>2. QED
    BY <1>1 DEF PipelineInv

\* The wrappers a request is in are those of its route.
LEMMA FramePlaces ==
    ASSUME TypeOK, NEW r \in Requests, RequestOK(r), NEW k \in 1..Len(frames[r])
    PROVE  /\ frames[r][k] \in Frame
           /\ frames[r][k].layer \in 1..Depth(route[r])
           /\ frames[r][k].index \in Nat \ {0}
  <1>1. Place(frames[r][k]) \in Around(route[r])
    BY DEF RequestOK, WrappedOK, StackOK
  <1>2. frames[r][k] \in Frame /\ route[r] \in Routes
    BY Typed
  <1>3. QED
    BY <1>1, <1>2, AroundPlaces DEF Place

-----------------------------------------------------------------------------
(***************************************************************************)
(* A response goes up: no wrapper it can reach is fresh.                   *)
(***************************************************************************)

LEMMA DeliveredRequest ==
    ASSUME TypeOK, NEW r \in Requests, RequestOK(r),
           NEW response \in Response, Deliver(r, response),
           response.from \in {"guard", "resolver"} => response.filters # {},
           UNCHANGED <<frames, route, who, passed>>,
           SpentOK(r)',
           \A k \in 1..Len(frames[r]) : frames[r][k].layer \in spent'[r],
           runs'[r] > 0 =>
              /\ Depth(route[r]) \in spent'[r]
              /\ passed[r] = GuardsTo(Depth(route[r]), route[r])
              /\ runs'[r] = 1 /\ ~refused'[r]
    PROVE  RequestOK(r)'
  <1>1. /\ phase'[r] = IF frames[r] = <<>> THEN "leaving" ELSE "inside"
        /\ reply'[r] = response
    BY DeliverTypes
  <1>2. WrappedOK(r)'
    BY <1>1 DEF RequestOK, WrappedOK
  <1>3. \A l \in Layers : ~Fresh(r, l)'
    BY <1>1, Typed DEF Fresh, Inner
  <1>4. GuardsOK(r)'
    BY <1>1, <1>3 DEF RequestOK, GuardsOK
  <1>5. ReplyOK(r)'
    BY <1>1 DEF ReplyOK
  <1>6. QED
    BY <1>2, <1>4, <1>5 DEF RequestOK

-----------------------------------------------------------------------------
(***************************************************************************)
(* The context middleware and the resolver.                                *)
(***************************************************************************)

LEMMA ArrivalKeeps ==
    ASSUME PipelineInv, NEW r \in Requests, Receive(r) \/ Identify(r)
    PROVE  PipelineInv'
  <1>1. TypeOK /\ RequestOK(r)
    BY DEF PipelineInv
  <1>2. /\ phase[r] \in {"new", "resolving"}
        /\ \/ phase' = [phase EXCEPT ![r] = "resolving"] /\ who' = who
           \/ /\ phase' = [phase EXCEPT ![r] = "chain"]
              /\ \E i : who' = [who EXCEPT ![r] = i]
        /\ UNCHANGED <<route, at, frames, spent, passed, refused, runs, reply>>
    BY DEF Receive, Identify, Goto, history
  <1>3. TypeOK'
    <2>1. CASE Receive(r)
      <3>1. sequence' \in Nat /\ id' \in [Requests -> Nat] /\ phase' \in [Requests -> Phases]
        BY <1>1, <2>1 DEF TypeOK, Receive, Goto, Phases
      <3>2. scope' \in [Requests -> Scope]
        <4>1. scope[r] \in Scope /\ sequence \in Nat
          BY <1>1 DEF TypeOK
        <4>2. [scope[r] EXCEPT !.id = sequence] \in Scope
          BY <4>1 DEF Scope
        <4>3. scope' = [scope EXCEPT ![r] = [scope[r] EXCEPT !.id = sequence]]
          BY <2>1 DEF Receive
        <4>4. QED
          BY <1>1, <4>2, <4>3 DEF TypeOK
      <3>3. QED
        BY <1>1, <1>2, <2>1, <3>1, <3>2 DEF TypeOK, Receive
    <2>2. CASE Identify(r)
      <3>1. PICK i \in Identities \cup {Anonymous} :
               /\ who' = [who EXCEPT ![r] = i]
               /\ scope' = [scope EXCEPT ![r].who = i]
        BY <2>2 DEF Identify
      <3>2. scope' \in [Requests -> Scope]
        <4>1. scope[r] \in Scope
          BY <1>1 DEF TypeOK
        <4>2. [scope[r] EXCEPT !.who = i] \in Scope
          BY <4>1 DEF Scope
        <4>3. scope' = [scope EXCEPT ![r] = [scope[r] EXCEPT !.who = i]]
          BY <3>1
        <4>4. QED
          BY <1>1, <4>2, <4>3 DEF TypeOK
      <3>3. phase' \in [Requests -> Phases] /\ who' \in [Requests -> Identities \cup {Anonymous}]
        BY <1>1, <2>2, <3>1 DEF TypeOK, Identify, Goto, Phases
      <3>4. QED
        BY <1>1, <1>2, <2>2, <3>2, <3>3 DEF TypeOK, Identify
    <2>3. QED
      BY <2>1, <2>2
  <1>4. /\ at[r] = [layer |-> 1, next |-> 0] /\ frames[r] = <<>>
        /\ spent[r] = {} /\ passed[r] = {} /\ Untouched(r)
    BY <1>1, <1>2 DEF RequestOK, GuardsOK
  <1>5. phase'[r] \in {"resolving", "chain"}
    BY <1>1, <1>2 DEF TypeOK
  <1>6. SpentOK(r)'
    BY <1>1, <1>2 DEF RequestOK, SpentOK
  <1>7. WrappedOK(r)'
    <2>1. EnteredTo(frames[r], route[r], Spot(r))
      <3>1. \A v \in Around(route[r]) : ~UpTo(v, <<1, 0>>)
        BY <1>1, Typed, AroundPlaces DEF UpTo, Precedes
      <3>2. QED
        BY <1>4, <3>1 DEF EnteredTo, Spot
    <2>2. QED
      BY <1>1, <1>2, <1>5, <2>1 DEF RequestOK, WrappedOK, Spot
  <1>8. GuardsOK(r)'
    <2>1. passed[r] = GuardsTo(1, route[r])
      BY <1>1, <1>4, Typed, GuardsOfLayers
    <2>2. \A l \in Layers : Fresh(r, l)' => l = 1
      BY <1>2, <1>4, <1>5 DEF Fresh
    <2>3. QED
      BY <1>2, <1>4, <1>5, <2>1, <2>2 DEF GuardsOK, Untouched
  <1>9. ReplyOK(r)'
    BY <1>1, <1>2, <1>5 DEF RequestOK, ReplyOK
  <1>10. RequestOK(r)'
    BY <1>6, <1>7, <1>8, <1>9 DEF RequestOK
  <1>11. QED
    BY <1>1, <1>2, <1>3, <1>10, OthersStay DEF TypeOK

LEMMA RejectKeeps ==
    ASSUME PipelineInv, NEW r \in Requests, Reject(r)
    PROVE  PipelineInv'
  <1> DEFINE response == Respond(TRUE, "resolver", {"global"})
  <1>1. TypeOK /\ RequestOK(r)
    BY DEF PipelineInv
  <1>2. /\ phase[r] = "resolving" /\ refused' = [refused EXCEPT ![r] = TRUE]
        /\ UNCHANGED <<sequence, route, id, who, scope, at, frames, spent, passed, runs>>
    BY DEF Reject, context
  <1>3. response \in Response /\ response.from = "resolver" /\ response.filters = {"global"}
    <2>1. response \in Response
      BY Responses
    <2>2. response.from = "resolver" /\ response.filters = {"global"}
      BY DEF Respond
    <2>3. QED
      BY <2>1, <2>2
  <1>4. Deliver(r, response)
    BY DEF Reject
  <1> HIDE DEF response
  <1>5. TypeOK'
    BY <1>1, <1>2, <1>3, <1>4, DeliverTypes DEF TypeOK
  <1>6. frames[r] = <<>> /\ runs[r] = 0
    BY <1>1, <1>2 DEF RequestOK, GuardsOK, Untouched
  <1>7. SpentOK(r)'
    BY <1>1, <1>2 DEF RequestOK, SpentOK
  <1>8. RequestOK(r)'
    BY <1>1, <1>2, <1>3, <1>4, <1>6, <1>7, DeliveredRequest
  <1>9. \A q \in Requests \ {r} : phase'[q] = phase[q] /\ reply'[q] = reply[q]
    BY <1>1, <1>3, <1>4, DeliverTypes
  <1>10. QED
    BY <1>1, <1>2, <1>5, <1>8, <1>9, OthersStay DEF TypeOK

-----------------------------------------------------------------------------
(***************************************************************************)
(* Down through a layer's wrappers.                                        *)
(***************************************************************************)

LEMMA SkipKeeps ==
    ASSUME PipelineInv, NEW r \in Requests, SkipMiddleware(r)
    PROVE  PipelineInv'
  <1>1. TypeOK /\ RequestOK(r) /\ at[r].next \in Nat /\ at[r].layer \in Layers
    BY Typed DEF PipelineInv, Layers
  <1>2. /\ phase[r] = "chain" /\ at[r].layer = 1
        /\ at[r].next + 1 \notin Matching[route[r]]
        /\ at' = [at EXCEPT ![r] = [at[r] EXCEPT !.next = @ + 1]]
        /\ UNCHANGED <<phase, frames, spent, sequence, route, id, who, scope,
                       passed, refused, runs, reply>>
    BY DEF SkipMiddleware, InChain, NextMatches, context, history
  <1>3. /\ [at[r] EXCEPT !.next = @ + 1] \in [layer: Layers, next: Nat]
        /\ [at[r] EXCEPT !.next = @ + 1].layer = at[r].layer
        /\ [at[r] EXCEPT !.next = @ + 1].next = at[r].next + 1
    BY <1>1, Typed
  <1>4. at'[r].layer = at[r].layer /\ at'[r].next = at[r].next + 1
    BY <1>1, <1>2, <1>3 DEF TypeOK
  <1>5. TypeOK'
    BY <1>1, <1>2, <1>3 DEF TypeOK
  <1>6. SpentOK(r)'
    BY <1>1, <1>2, <1>4 DEF RequestOK, SpentOK
  <1>7. WrappedOK(r)'
    <2>1. EnteredTo(frames[r], route[r], <<at[r].layer, at[r].next>>)
      BY <1>1, <1>2 DEF RequestOK, WrappedOK, Spot
    <2>2. <<at[r].layer, at[r].next + 1>> \notin Around(route[r])
      BY <1>1, <1>2, Typed, AroundPlaces
    <2>3. EnteredTo(frames[r], route[r], <<at[r].layer, at[r].next + 1>>)
      BY <1>1, <2>1, <2>2, Typed, EnteredPast
    <2>4. QED
      BY <1>1, <1>2, <1>4, <2>3 DEF RequestOK, WrappedOK, Spot
  <1>8. GuardsOK(r)'
    <2>1. \A l \in Layers : Fresh(r, l)' => Fresh(r, l)
      BY <1>2, <1>4 DEF Fresh
    <2>2. QED
      BY <1>1, <1>2, <2>1 DEF RequestOK, GuardsOK, Untouched
  <1>9. ReplyOK(r)'
    BY <1>1, <1>2 DEF RequestOK, ReplyOK
  <1>10. QED
    BY <1>1, <1>2, <1>5, <1>6, <1>7, <1>8, <1>9, OthersStay DEF RequestOK, TypeOK

LEMMA EnterKeeps ==
    ASSUME PipelineInv, NEW r \in Requests, EnterWrapper(r)
    PROVE  PipelineInv'
  <1> DEFINE f == [layer |-> at[r].layer, index |-> at[r].next + 1, calls |-> 0]
             t == Append(frames[r], f)
             n == Len(frames[r])
  <1>1. /\ TypeOK /\ RequestOK(r) /\ at[r].next \in Nat /\ at[r].layer \in Layers
        /\ frames[r] \in Seq(Frame) /\ n \in Nat /\ route[r] \in Routes
    BY Typed DEF PipelineInv, Layers
  <1>2. /\ phase[r] = "chain" /\ WrappersLeft(r) /\ NextMatches(r)
        /\ frames' = [frames EXCEPT ![r] = t]
        /\ phase' = [phase EXCEPT ![r] = "inside"]
        /\ UNCHANGED <<at, spent, sequence, route, id, who, scope,
                       passed, refused, runs, reply>>
    BY DEF EnterWrapper, InChain, Goto, context, history
  <1>3. f \in Frame /\ f.layer = at[r].layer /\ f.index = at[r].next + 1 /\ f.calls = 0
    BY <1>1, PipelineAssumption DEF Frame
  <1>4. Place(f) \in Around(route[r])
    <2>1. at[r].layer \in 1..3 /\ at[r].layer <= Depth(route[r])
      BY <1>1 DEF RequestOK, SpentOK, Layers
    <2>2. at[r].next + 1 <= Wrappers(at[r].layer, route[r])
      BY <1>1, <1>2, WrappersType DEF WrappersLeft
    <2>3. CASE at[r].layer = 1
      BY <1>1, <1>2, <2>3, AroundPlaces DEF NextMatches, Place
    <2>4. CASE at[r].layer \in 2..3
      BY <1>1, <2>1, <2>2, <2>4, AroundPlaces DEF Place
    <2>5. QED
      BY <2>1, <2>3, <2>4
  <1>5. EnteredTo(frames[r], route[r], <<f.layer, at[r].next>>)
    BY <1>1, <1>2, <1>3 DEF RequestOK, WrappedOK, Spot
  <1> HIDE DEF f
  <1>6. StackOK(frames[r], route[r])
    BY <1>1 DEF RequestOK, WrappedOK
  <1>7. /\ t \in Seq(Frame) /\ Len(t) = n + 1
        /\ \A k \in 1..n : t[k] = frames[r][k]
        /\ t[n + 1] = f
        /\ StackOK(t, route[r])
    BY <1>1, <1>3, <1>4, <1>5, <1>6, PushedStack
  <1> HIDE DEF t
  <1>8. frames'[r] = t /\ phase'[r] = "inside"
    BY <1>1, <1>2 DEF TypeOK
  <1> HIDE DEF n
  <1>9. TypeOK'
    BY <1>1, <1>2, <1>7 DEF TypeOK, Phases
  <1>10. t # <<>> /\ Inner(r)' = f
    BY <1>1, <1>7, <1>8 DEF Inner
  <1>11. SpentOK(r)'
    <2>1. \A m \in 1..(f.layer - 1) : m \in spent[r]
      BY <1>1, <1>3 DEF RequestOK, SpentOK
    <2>2. \A k \in 1..(n + 1) : k = n + 1 \/ k \in 1..n
      BY <1>1
    <2>3. \A k \in 1..(n + 1) : \A m \in 1..(t[k].layer - 1) : m \in spent[r]
      BY <1>1, <1>7, <2>1, <2>2 DEF RequestOK, SpentOK, n
    <2>4. QED
      BY <1>1, <1>2, <1>7, <1>8, <2>3 DEF RequestOK, SpentOK
  <1>12. WrappedOK(r)'
    BY <1>2, <1>7, <1>8, <1>10 DEF WrappedOK
  <1>13. GuardsOK(r)'
    <2>1. \A l \in Layers : Fresh(r, l)' => Fresh(r, l)
      BY <1>2, <1>3, <1>8, <1>10 DEF Fresh
    <2>2. QED
      BY <1>1, <1>2, <1>8, <2>1 DEF RequestOK, GuardsOK, Untouched
  <1>14. ReplyOK(r)'
    BY <1>1, <1>2, <1>3, <1>8, <1>10 DEF RequestOK, ReplyOK
  <1>15. QED
    BY <1>1, <1>2, <1>9, <1>11, <1>12, <1>13, <1>14, OthersStay DEF RequestOK, TypeOK

\* A next that was taken answers with an error: those above are past it too.
LEMMA NextAgainKeeps ==
    ASSUME PipelineInv, NEW r \in Requests, NextAgain(r)
    PROVE  PipelineInv'
  <1> DEFINE response == Respond(TRUE, "next", {})
  <1>1. TypeOK /\ RequestOK(r)
    BY DEF PipelineInv
  <1>2. /\ phase[r] = "chain" /\ at[r].layer \in spent[r]
        /\ UNCHANGED <<at, frames, spent, sequence, route, id, who, scope,
                       passed, refused, runs>>
    BY DEF NextAgain, AtNext, InChain, context, history
  <1>3. response \in Response /\ response.from = "next"
    BY Responses
  <1>4. Deliver(r, response)
    BY DEF NextAgain
  <1> HIDE DEF response
  <1>5. TypeOK'
    BY <1>1, <1>2, <1>3, <1>4, DeliverTypes DEF TypeOK
  <1>6. SpentOK(r)'
    BY <1>1, <1>2 DEF RequestOK, SpentOK
  <1>7. ASSUME NEW k \in 1..Len(frames[r]) PROVE frames[r][k].layer \in spent[r]
    <2>1. UpTo(Place(frames[r][k]), <<at[r].layer, at[r].next>>)
      BY <1>1, <1>2 DEF RequestOK, WrappedOK, EnteredTo, Spot
    <2>2. frames[r][k].layer \in 1..3 /\ frames[r][k].layer <= at[r].layer
      BY <1>1, <2>1, Typed, FramePlaces DEF UpTo, Precedes, Place
    <2>3. QED
      BY <1>1, <1>2, <2>2, Typed DEF RequestOK, SpentOK
  <1>8. runs[r] > 0 =>
           /\ Depth(route[r]) \in spent[r]
           /\ passed[r] = GuardsTo(Depth(route[r]), route[r])
           /\ runs[r] = 1 /\ ~refused[r]
    BY <1>1 DEF RequestOK, GuardsOK
  <1>9. RequestOK(r)'
    BY <1>1, <1>2, <1>3, <1>4, <1>6, <1>7, <1>8, DeliveredRequest
  <1>10. \A q \in Requests \ {r} : phase'[q] = phase[q] /\ reply'[q] = reply[q]
    BY <1>1, <1>3, <1>4, DeliverTypes
  <1>11. QED
    BY <1>1, <1>2, <1>5, <1>9, <1>10, OthersStay DEF TypeOK

\* A request that comes to a next which was not taken is fresh, so that every
\* guard of this layer has let it pass.
LEMMA DescendKeeps ==
    ASSUME PipelineInv, NEW r \in Requests, Descend(r)
    PROVE  PipelineInv'
  <1> DEFINE l == at[r].layer
             below == [layer |-> l + 1, next |-> 0]
             taken == (spent[r] \cup {l}) \ {l + 1}
             rt == route[r]
  <1>1. /\ TypeOK /\ RequestOK(r) /\ l \in 1..3 /\ at[r].next \in Nat /\ Depth(rt) \in 1..3
        /\ rt \in Routes /\ spent[r] \subseteq Layers
    BY Typed DEF PipelineInv
  <1>2. /\ phase[r] = "chain" /\ ~WrappersLeft(r)
        /\ l \notin spent[r] /\ l < Depth(rt)
        /\ spent' = [spent EXCEPT ![r] = taken]
        /\ at' = [at EXCEPT ![r] = below]
        /\ phase' = [phase EXCEPT ![r] = "guards"]
        /\ UNCHANGED <<frames, sequence, route, id, who, scope,
                       passed, refused, runs, reply>>
    BY DEF Descend, AtNext, InChain, Goto, context, history
  <1>3. below \in [layer: Layers, next: Nat] /\ taken \subseteq Layers
        /\ below.layer = l + 1 /\ below.next = 0
    BY <1>1, <1>2 DEF Layers
  <1>4. at'[r] = below /\ spent'[r] = taken /\ phase'[r] = "guards"
    BY <1>1, <1>2 DEF TypeOK
  <1>5. TypeOK'
    BY <1>1, <1>2, <1>3 DEF TypeOK, Phases
  <1>6. (l + 1) \notin spent[r] /\ taken = spent[r] \cup {l}
    BY <1>1, <1>2 DEF RequestOK, SpentOK
  <1>7. SpentOK(r)'
    <2>1. \A m \in 1..(l - 1) : m \in spent[r]
      BY <1>1 DEF RequestOK, SpentOK
    <2>2. \A m \in 1..l : m \in taken
      BY <1>1, <1>6, <2>1
    <2>3. \A m \in taken : m <= Depth(rt) /\ \A j \in 1..(m - 1) : j \in taken
      BY <1>1, <1>2, <1>6, <2>1 DEF RequestOK, SpentOK, Layers
    <2>4. \A k \in 1..Len(frames[r]) : \A m \in 1..(frames[r][k].layer - 1) : m \in taken
      BY <1>1, <1>6 DEF RequestOK, SpentOK
    <2>5. QED
      BY <1>1, <1>2, <1>3, <1>4, <2>2, <2>3, <2>4 DEF SpentOK
  <1>8. WrappedOK(r)'
    <2>1. EnteredTo(frames[r], rt, <<l, at[r].next>>)
      BY <1>1, <1>2 DEF RequestOK, WrappedOK, Spot
    <2>2. Wrappers(l, rt) <= at[r].next
      BY <1>1, <1>2, WrappersType DEF WrappersLeft, Layers
    <2>3. EnteredTo(frames[r], rt, <<l + 1, 0>>)
      BY <1>1, <2>1, <2>2, Typed, EnteredAll DEF Layers
    <2>4. QED
      BY <1>1, <1>2, <1>3, <1>4, <2>3 DEF RequestOK, WrappedOK
  <1>9. GuardsOK(r)'
    <2>1. passed[r] = GuardsTo(l, rt) /\ Untouched(r)
      BY <1>1, <1>2 DEF RequestOK, GuardsOK, Fresh, Layers
    <2>2. Len(GuardsOf(r)') \in Nat
      BY <1>1, <1>2, <1>3, <1>4, PipelineAssumption DEF GuardsOf
    <2>3. (l + 1) - 1 = l /\ (l + 1) \in 2..3 /\ (l + 1) \notin taken
      BY <1>1, <1>2
    <2>4. {<<l + 1, i>> : i \in 1..0} = {}
      OBVIOUS
    <2>5. \A m \in Layers : ~Fresh(r, m)'
      BY <1>4 DEF Fresh
    <2>6. \A g \in passed[r] : who[r] \in Admits[GuardList[g[1]][rt][g[2]]]
      BY <1>1 DEF RequestOK, GuardsOK
    <2>7. at'[r].layer = l + 1 /\ at'[r].next = 0
      BY <1>3, <1>4
    <2> HIDE DEF below, taken, l
    <2>8. QED
      BY <1>2, <1>4, <2>1, <2>2, <2>3, <2>4, <2>5, <2>6, <2>7 DEF GuardsOK, Untouched
  <1>10. ReplyOK(r)'
    BY <1>1, <1>2, <1>4 DEF RequestOK, ReplyOK
  <1>11. QED
    BY <1>1, <1>2, <1>5, <1>7, <1>8, <1>9, <1>10, OthersStay DEF RequestOK, TypeOK

LEMMA CallHandlerKeeps ==
    ASSUME PipelineInv, NEW r \in Requests, CallHandler(r)
    PROVE  PipelineInv'
  <1> DEFINE rt == route[r]
             l == at[r].layer
             taken == spent[r] \cup {l}
             response == Respond(TRUE, "fallback", {})
  <1>1. /\ TypeOK /\ RequestOK(r) /\ l \in 1..3 /\ at[r].next \in Nat /\ Depth(rt) \in 1..3
        /\ rt \in Routes /\ spent[r] \subseteq Layers /\ frames[r] \in Seq(Frame)
    BY Typed DEF PipelineInv
  <1>2. /\ phase[r] = "chain" /\ ~WrappersLeft(r)
        /\ l \notin spent[r] /\ l = Depth(rt)
        /\ spent' = [spent EXCEPT ![r] = taken]
        /\ UNCHANGED <<at, frames, sequence, route, id, who, scope,
                       passed, refused, runs>>
    BY DEF CallHandler, AtNext, InChain, context, history
  <1>3. spent'[r] = taken /\ spent' \in [Requests -> SUBSET Layers]
    BY <1>1, <1>2 DEF TypeOK, Layers
  <1>4. response \in Response /\ response.from = "fallback"
    BY Responses
  <1>5. SpentOK(r)'
    <2>1. \A m \in 1..(l - 1) : m \in spent[r]
      BY <1>1 DEF RequestOK, SpentOK
    <2>2. QED
      BY <1>1, <1>2, <1>3, <2>1 DEF RequestOK, SpentOK
  <1>6. \A k \in 1..Len(frames[r]) : frames[r][k].layer \in taken
    <2>1. SUFFICES ASSUME NEW k \in 1..Len(frames[r]) PROVE frames[r][k].layer \in taken
      OBVIOUS
    <2>2. frames[r][k].layer \in 1..l
      BY <1>1, <1>2, FramePlaces
    <2>3. QED
      BY <1>1, <2>2 DEF RequestOK, SpentOK
  <1>7. passed[r] = GuardsTo(l, rt) /\ Untouched(r)
    BY <1>1, <1>2 DEF RequestOK, GuardsOK, Fresh, Layers
  <1>8. CASE Kind[rt] = "missing"
    <2>1. Deliver(r, response)
      BY <1>8 DEF CallHandler
    <2> HIDE DEF response
    <2>2. TypeOK'
      BY <1>1, <1>2, <1>3, <1>4, <2>1, DeliverTypes DEF TypeOK
    <2>3. RequestOK(r)'
      BY <1>1, <1>2, <1>3, <1>4, <1>5, <1>6, <1>7, <2>1, DeliveredRequest DEF Untouched
    <2>4. \A q \in Requests \ {r} : phase'[q] = phase[q] /\ reply'[q] = reply[q]
      BY <1>1, <1>4, <2>1, DeliverTypes
    <2>5. QED
      BY <1>1, <1>2, <2>2, <2>3, <2>4, OthersStay DEF TypeOK
  <1>9. CASE Kind[rt] # "missing"
    <2>1. phase' = [phase EXCEPT ![r] = "handler"] /\ reply' = reply
      BY <1>9 DEF CallHandler, Goto
    <2>2. phase'[r] = "handler"
      BY <1>1, <2>1 DEF TypeOK
    <2>3. TypeOK'
      BY <1>1, <1>2, <1>3, <2>1 DEF TypeOK, Phases
    <2>4. WrappedOK(r)'
      <3>1. EnteredTo(frames[r], rt, <<l, at[r].next>>)
        BY <1>1, <1>2 DEF RequestOK, WrappedOK, Spot
      <3>2. Wrappers(l, rt) <= at[r].next
        BY <1>1, <1>2, WrappersType DEF WrappersLeft, Layers
      <3>3. \A v \in Around(rt) : \E k \in 1..Len(frames[r]) : Place(frames[r][k]) = v
        BY <1>1, <1>2, <3>1, <3>2, EnteredAll DEF Layers
      <3>4. QED
        BY <1>1, <1>2, <2>2, <3>3 DEF RequestOK, WrappedOK
    <2>5. GuardsOK(r)'
      <3>1. \A m \in Layers : ~Fresh(r, m)'
        BY <2>2 DEF Fresh
      <3>2. \A g \in passed[r] : who[r] \in Admits[GuardList[g[1]][rt][g[2]]]
        BY <1>1 DEF RequestOK, GuardsOK
      <3>3. QED
        BY <1>2, <1>3, <1>7, <2>2, <3>1, <3>2 DEF GuardsOK, Untouched
    <2>6. ReplyOK(r)'
      BY <1>1, <2>1, <2>2 DEF RequestOK, ReplyOK
    <2>7. QED
      BY <1>1, <1>2, <1>5, <2>1, <2>3, <2>4, <2>5, <2>6, OthersStay DEF RequestOK, TypeOK
  <1>10. QED
    BY <1>8, <1>9

-----------------------------------------------------------------------------
(***************************************************************************)
(* Guards.                                                                 *)
(***************************************************************************)

LEMMA GuardPassesKeeps ==
    ASSUME PipelineInv, NEW r \in Requests, GuardPasses(r)
    PROVE  PipelineInv'
  <1> DEFINE rt == route[r]
             l == at[r].layer
             n == at[r].next
             further == [at[r] EXCEPT !.next = @ + 1]
             now == passed[r] \cup {<<l, n + 1>>}
  <1>1. /\ TypeOK /\ RequestOK(r) /\ l \in 1..3 /\ n \in Nat
        /\ rt \in Routes /\ at[r] \in [layer: Layers, next: Nat]
    BY Typed DEF PipelineInv
  <1>2. /\ phase[r] = "guards" /\ n < Len(GuardsOf(r))
        /\ who[r] \in Admits[Guard(r)]
        /\ passed' = [passed EXCEPT ![r] = now]
        /\ at' = [at EXCEPT ![r] = further]
        /\ UNCHANGED <<phase, frames, spent, sequence, route, id, who, scope,
                       refused, runs, reply>>
    BY DEF GuardPasses, Guarding, context
  <1>3. /\ further \in [layer: Layers, next: Nat]
        /\ further.layer = l /\ further.next = n + 1
    BY <1>1
  <1>4. at'[r] = further /\ passed'[r] = now
    BY <1>1, <1>2 DEF TypeOK
  <1>5. TypeOK'
    <2>1. now \subseteq Layers \X Nat
      BY <1>1 DEF TypeOK, Layers
    <2>2. passed' \in [Requests -> SUBSET (Layers \X Nat)]
      BY <1>1, <1>2, <2>1 DEF TypeOK
    <2>3. QED
      BY <1>1, <1>2, <1>3, <2>2 DEF TypeOK
  <1>6. SpentOK(r)'
    BY <1>1, <1>2, <1>3, <1>4 DEF RequestOK, SpentOK
  <1>7. WrappedOK(r)'
    BY <1>1, <1>2, <1>3, <1>4 DEF RequestOK, WrappedOK
  <1>8. GuardsOK(r)'
    <2>1. /\ l \in 2..3 /\ l \notin spent[r] /\ Untouched(r)
          /\ passed[r] = GuardsTo(l - 1, rt) \cup {<<l, i>> : i \in 1..n}
          /\ \A g \in passed[r] : who[r] \in Admits[GuardList[g[1]][rt][g[2]]]
      BY <1>1, <1>2 DEF RequestOK, GuardsOK
    <2>2. Len(GuardsOf(r)) \in Nat /\ GuardsOf(r)' = GuardsOf(r)
      <3>1. Len(GuardsOf(r)) \in Nat
        BY <1>1, <2>1, GuardLists DEF GuardsOf
      <3>2. QED
        BY <1>2, <1>3, <1>4, <3>1 DEF GuardsOf
    <2>3. now = GuardsTo(l - 1, rt) \cup {<<l, i>> : i \in 1..(n + 1)}
      <3>1. {<<l, i>> : i \in 1..(n + 1)} = {<<l, i>> : i \in 1..n} \cup {<<l, n + 1>>}
        <4>1. 1..(n + 1) = 1..n \cup {n + 1}
          BY <1>1
        <4>2. QED
          BY <4>1
      <3> DEFINE old == {<<l, i>> : i \in 1..n}
                 new == {<<l, i>> : i \in 1..(n + 1)}
                 g == <<l, n + 1>>
      <3>2. passed[r] = GuardsTo(l - 1, rt) \cup old /\ new = old \cup {g}
        BY <2>1, <3>1
      <3>3. now = passed[r] \cup {g}
        OBVIOUS
      <3> HIDE DEF old, new, g, now
      <3>4. now = GuardsTo(l - 1, rt) \cup new
        BY <3>2, <3>3
      <3>5. QED
        BY <3>4 DEF new
    <2>4. \A g \in now : who[r] \in Admits[GuardList[g[1]][rt][g[2]]]
      <3>1. who[r] \in Admits[GuardList[l][rt][n + 1]]
        BY <1>2 DEF Guard, GuardsOf
      <3>2. SUFFICES ASSUME NEW g \in now
                     PROVE  who[r] \in Admits[GuardList[g[1]][rt][g[2]]]
        OBVIOUS
      <3>3. g \in passed[r] \/ (g[1] = l /\ g[2] = n + 1)
        BY <3>2
      <3>4. QED
        BY <2>1, <3>1, <3>3
    <2>5. \A m \in Layers : ~Fresh(r, m)'
      BY <1>2 DEF Fresh
    <2>6. at'[r].layer = l /\ at'[r].next = n + 1 /\ n + 1 <= Len(GuardsOf(r)')
      BY <1>1, <1>2, <1>3, <1>4, <2>2
    <2> HIDE DEF now, further, l, n
    <2>7. QED
      BY <1>2, <1>4, <2>1, <2>3, <2>4, <2>5, <2>6 DEF GuardsOK, Untouched
  <1>9. ReplyOK(r)'
    BY <1>1, <1>2 DEF RequestOK, ReplyOK
  <1>10. QED
    BY <1>1, <1>2, <1>5, <1>6, <1>7, <1>8, <1>9, OthersStay DEF RequestOK, TypeOK

\* A refusal goes to the wrappers of the layers above, whose nexts are taken.
LEMMA GuardRefusesKeeps ==
    ASSUME PipelineInv, NEW r \in Requests, GuardRefuses(r)
    PROVE  PipelineInv'
  <1> DEFINE l == at[r].layer
             response == Respond(TRUE, "guard", Filters(l))
  <1>1. TypeOK /\ RequestOK(r)
    BY DEF PipelineInv
  <1>2. /\ phase[r] = "guards" /\ refused' = [refused EXCEPT ![r] = TRUE]
        /\ UNCHANGED <<at, frames, spent, sequence, route, id, who, scope, passed, runs>>
    BY DEF GuardRefuses, Guarding, context
  <1>3. response \in Response /\ response.filters # {}
    <2>1. response \in Response
      BY Responses
    <2>2. response.filters = Filters(l)
      BY DEF Respond
    <2>3. Filters(l) # {}
      BY DEF Filters
    <2>4. QED
      BY <2>1, <2>2, <2>3
  <1>4. Deliver(r, response)
    BY DEF GuardRefuses
  <1> HIDE DEF response
  <1>5. TypeOK'
    BY <1>1, <1>2, <1>3, <1>4, DeliverTypes DEF TypeOK
  <1>6. SpentOK(r)'
    BY <1>1, <1>2 DEF RequestOK, SpentOK
  <1>7. ASSUME NEW k \in 1..Len(frames[r]) PROVE frames[r][k].layer \in spent[r]
    <2>1. UpTo(Place(frames[r][k]), <<l, 0>>)
      BY <1>1, <1>2 DEF RequestOK, WrappedOK, EnteredTo
    <2>2. frames[r][k].layer \in 1..(l - 1)
      BY <1>1, <2>1, Typed, FramePlaces DEF UpTo, Precedes, Place
    <2>3. QED
      BY <1>1, <2>2 DEF RequestOK, SpentOK
  <1>8. runs[r] = 0
    BY <1>1, <1>2 DEF RequestOK, GuardsOK, Untouched
  <1>9. RequestOK(r)'
    BY <1>1, <1>2, <1>3, <1>4, <1>6, <1>7, <1>8, DeliveredRequest
  <1>10. \A q \in Requests \ {r} : phase'[q] = phase[q] /\ reply'[q] = reply[q]
    BY <1>1, <1>3, <1>4, DeliverTypes
  <1>11. QED
    BY <1>1, <1>2, <1>5, <1>9, <1>10, OthersStay DEF TypeOK

LEMMA StartInterceptorsKeeps ==
    ASSUME PipelineInv, NEW r \in Requests, StartInterceptors(r)
    PROVE  PipelineInv'
  <1> DEFINE rt == route[r]
             l == at[r].layer
             reset == [at[r] EXCEPT !.next = 0]
  <1>1. /\ TypeOK /\ RequestOK(r) /\ l \in 1..3 /\ at[r].next \in Nat
        /\ rt \in Routes /\ at[r] \in [layer: Layers, next: Nat]
    BY Typed DEF PipelineInv
  <1>2. /\ phase[r] = "guards" /\ ~(at[r].next < Len(GuardsOf(r)))
        /\ at' = [at EXCEPT ![r] = reset]
        /\ phase' = [phase EXCEPT ![r] = "chain"]
        /\ UNCHANGED <<frames, spent, sequence, route, id, who, scope,
                       passed, refused, runs, reply>>
    BY DEF StartInterceptors, Guarding, Goto, context, history
  <1>3. reset \in [layer: Layers, next: Nat] /\ reset.layer = l /\ reset.next = 0
    BY <1>1
  <1>4. at'[r] = reset /\ phase'[r] = "chain"
    BY <1>1, <1>2 DEF TypeOK
  <1>5. TypeOK'
    BY <1>1, <1>2, <1>3 DEF TypeOK, Phases
  <1>6. SpentOK(r)'
    BY <1>1, <1>2, <1>3, <1>4 DEF RequestOK, SpentOK
  <1>7. WrappedOK(r)'
    BY <1>1, <1>2, <1>3, <1>4 DEF RequestOK, WrappedOK, Spot
  <1>8. GuardsOK(r)'
    <2>1. /\ l \in 2..3 /\ Untouched(r) /\ at[r].next <= Len(GuardsOf(r))
          /\ passed[r] = GuardsTo(l - 1, rt) \cup {<<l, i>> : i \in 1..at[r].next}
          /\ \A g \in passed[r] : who[r] \in Admits[GuardList[g[1]][rt][g[2]]]
      BY <1>1, <1>2 DEF RequestOK, GuardsOK
    <2>2. at[r].next = Len(GuardList[l][rt])
      <3>1. Len(GuardList[l][rt]) \in Nat
        BY <1>1, <2>1, GuardLists
      <3>2. QED
        BY <1>1, <1>2, <2>1, <3>1 DEF GuardsOf
    <2>3. passed[r] = GuardsTo(l, rt)
      BY <1>1, <2>1, <2>2, GuardsOfLayers
    <2>4. \A m \in Layers : Fresh(r, m)' => m = l
      BY <1>3, <1>4 DEF Fresh
    <2> HIDE DEF reset
    <2>5. QED
      BY <1>2, <1>4, <2>1, <2>3, <2>4 DEF GuardsOK, Untouched
  <1>9. ReplyOK(r)'
    BY <1>1, <1>2, <1>4 DEF RequestOK, ReplyOK
  <1>10. QED
    BY <1>1, <1>2, <1>5, <1>6, <1>7, <1>8, <1>9, OthersStay DEF RequestOK, TypeOK

-----------------------------------------------------------------------------
(***************************************************************************)
(* The handler, and the way up.                                            *)
(***************************************************************************)

LEMMA HandleKeeps ==
    ASSUME PipelineInv, NEW r \in Requests, Handle(r)
    PROVE  PipelineInv'
  <1> DEFINE depth == Depth(route[r])
  <1>1. TypeOK /\ RequestOK(r) /\ depth \in 1..3
    BY Typed DEF PipelineInv
  <1>2. /\ phase[r] = "handler" /\ runs' = [runs EXCEPT ![r] = @ + 1]
        /\ UNCHANGED <<at, frames, spent, sequence, route, id, who, scope, passed, refused>>
    BY DEF Handle, context
  <1>3. PICK response \in Response : /\ response.from = "handler"
                                     /\ Deliver(r, response)
    BY Responses DEF Handle
  <1>4. depth \in spent[r] /\ passed[r] = GuardsTo(depth, route[r]) /\ Untouched(r)
    BY <1>1, <1>2 DEF RequestOK, GuardsOK
  <1>5. runs'[r] = 1 /\ runs' \in [Requests -> Nat]
    BY <1>1, <1>2, <1>4 DEF TypeOK, Untouched
  <1>6. TypeOK'
    BY <1>1, <1>2, <1>3, <1>5, DeliverTypes DEF TypeOK
  <1>7. SpentOK(r)'
    BY <1>1, <1>2 DEF RequestOK, SpentOK
  <1>8. ASSUME NEW k \in 1..Len(frames[r]) PROVE frames[r][k].layer \in spent[r]
    <2>1. frames[r][k].layer \in 1..depth
      BY <1>1, FramePlaces
    <2>2. QED
      BY <1>1, <1>4, <2>1 DEF RequestOK, SpentOK
  <1>9. RequestOK(r)'
    BY <1>1, <1>2, <1>3, <1>4, <1>5, <1>7, <1>8, DeliveredRequest DEF Untouched
  <1>10. \A q \in Requests \ {r} : phase'[q] = phase[q] /\ reply'[q] = reply[q]
    BY <1>1, <1>3, DeliverTypes
  <1>11. QED
    BY <1>1, <1>2, <1>6, <1>9, <1>10, OthersStay DEF TypeOK

LEMMA CallNextKeeps ==
    ASSUME PipelineInv, NEW r \in Requests, CallNext(r)
    PROVE  PipelineInv'
  <1> DEFINE n == Len(frames[r])
             f == frames[r][n]
             g == [f EXCEPT !.calls = @ + 1]
             t == [frames[r] EXCEPT ![n] = g]
             here == [layer |-> f.layer, next |-> f.index]
  <1>1. /\ TypeOK /\ RequestOK(r) /\ frames[r] # <<>> /\ n \in 1..n /\ n \in Nat
        /\ Inner(r) = f /\ f \in Frame /\ frames[r] \in Seq(Frame) /\ route[r] \in Routes
    <2>1. TypeOK /\ RequestOK(r) /\ phase[r] = "inside"
      BY DEF PipelineInv, CallNext
    <2>2. frames[r] # <<>>
      BY <2>1 DEF RequestOK, WrappedOK
    <2>3. QED
      BY <2>1, <2>2, Typed
  <1>2. /\ phase[r] = "inside" /\ f.calls < MaxCalls
        /\ frames' = [frames EXCEPT ![r] = t]
        /\ at' = [at EXCEPT ![r] = here]
        /\ phase' = [phase EXCEPT ![r] = "chain"]
        /\ UNCHANGED <<spent, sequence, route, id, who, scope,
                       passed, refused, runs, reply>>
    BY <1>1 DEF CallNext, Goto, context, history, TypeOK
  <1>3. g \in Frame /\ g.layer = f.layer /\ g.index = f.index
    <2>1. f \in Frame /\ f.calls < MaxCalls
      BY <1>1, <1>2
    <2> HIDE DEF f
    <2>2. f.calls + 1 \in 0..MaxCalls
      BY <2>1, PipelineAssumption DEF Frame
    <2>3. QED
      BY <2>1, <2>2 DEF Frame
  <1>4. here \in [layer: Layers, next: Nat] /\ here.layer = f.layer /\ here.next = f.index
    BY <1>1 DEF Frame
  <1> HIDE DEF g
  <1>5. /\ t \in Seq(Frame) /\ Len(t) = n /\ t[n] = g
        /\ \A k \in 1..n : k # n => t[k] = frames[r][k]
    BY <1>1, <1>3
  <1> HIDE DEF t
  <1>6. \A k \in 1..n : /\ Place(t[k]) = Place(frames[r][k])
                        /\ t[k].layer = frames[r][k].layer
    BY <1>3, <1>5 DEF Place
  <1> HIDE DEF here
  <1>7. frames'[r] = t /\ at'[r] = here /\ phase'[r] = "chain"
    BY <1>1, <1>2 DEF TypeOK
  <1>8. TypeOK'
    BY <1>1, <1>2, <1>4, <1>5 DEF TypeOK, Phases
  <1>9. f.layer \in 1..Depth(route[r])
    BY <1>1, FramePlaces
  <1>10. SpentOK(r)'
    <2>1. \A m \in 1..(f.layer - 1) : m \in spent[r]
      BY <1>1 DEF RequestOK, SpentOK
    <2>2. \A k \in 1..n : \A m \in 1..(t[k].layer - 1) : m \in spent[r]
      BY <1>1, <1>6 DEF RequestOK, SpentOK
    <2>3. f.layer <= Depth(route[r])
      BY <1>1, <1>9, Typed
    <2> HIDE DEF f, n
    <2>4. QED
      BY <1>1, <1>2, <1>4, <1>5, <1>7, <2>1, <2>2, <2>3 DEF RequestOK, SpentOK
  <1>11. WrappedOK(r)'
    <2>1. StackOK(frames[r], route[r])
      BY <1>1 DEF RequestOK, WrappedOK
    <2>2. EnteredTo(frames[r], route[r], Place(f))
      BY <1>1, <2>1, EnteredToInner
    <2>3. StackOK(t, route[r]) /\ EnteredTo(t, route[r], Place(f))
      BY <1>1, <1>5, <1>6, <2>1, <2>2, SamePlaces
    <2>4. Place(f) = <<here.layer, here.next>>
      BY <1>4 DEF Place
    <2> HIDE DEF f
    <2>5. QED
      BY <1>2, <1>7, <2>3, <2>4 DEF WrappedOK, Spot
  <1>12. GuardsOK(r)'
    <2>1. \A l \in Layers : Fresh(r, l)' => Fresh(r, l)
      BY <1>1, <1>2, <1>4, <1>7 DEF Fresh
    <2>2. QED
      BY <1>1, <1>2, <1>7, <2>1 DEF RequestOK, GuardsOK, Untouched
  <1>13. ReplyOK(r)'
    BY <1>1, <1>2, <1>7 DEF RequestOK, ReplyOK
  <1>14. QED
    BY <1>1, <1>2, <1>8, <1>10, <1>11, <1>12, <1>13, OthersStay DEF RequestOK, TypeOK

\* The wrapper that a response goes up to is in the same layer as the one that
\* returns, or in a layer above it, whose next is taken.
LEMMA LeaveKeeps ==
    ASSUME PipelineInv, NEW r \in Requests, Leave(r)
    PROVE  PipelineInv'
  <1> DEFINE s == frames[r]
             n == Len(frames[r])
             t == SubSeq(s, 1, n - 1)
             place == IF n = 1 THEN "leaving" ELSE "inside"
  <1>1. /\ TypeOK /\ RequestOK(r) /\ s # <<>> /\ n \in 1..n /\ n \in Nat
        /\ Inner(r) = s[n] /\ s[n] \in Frame /\ s \in Seq(Frame) /\ route[r] \in Routes
    <2>1. TypeOK /\ RequestOK(r) /\ phase[r] = "inside"
      BY DEF PipelineInv, Leave
    <2>2. s # <<>>
      BY <2>1 DEF RequestOK, WrappedOK
    <2>3. QED
      BY <2>1, <2>2, Typed
  <1>2. /\ phase[r] = "inside"
        /\ frames' = [frames EXCEPT ![r] = t]
        /\ phase' = [phase EXCEPT ![r] = place]
        /\ UNCHANGED <<at, spent, sequence, route, id, who, scope,
                       passed, refused, runs>>
    BY <1>1 DEF Leave, Goto, context, history, TypeOK
  <1>3. /\ t \in Seq(Frame) /\ Len(t) = n - 1
        /\ \A k \in 1..(n - 1) : t[k] = s[k]
        /\ StackOK(t, route[r])
    <2>1. StackOK(s, route[r])
      BY <1>1 DEF RequestOK, WrappedOK
    <2>2. QED
      BY <1>1, <2>1, PoppedStack
  <1> HIDE DEF t
  <1>4. /\ reply' \in [Requests -> Response \cup {None}]
        /\ reply'[r] \in Response
        /\ reply'[r].from \in {"guard", "resolver"} => reply'[r].filters # {}
        /\ \A q \in Requests \ {r} : reply'[q] = reply[q]
    <2>1. CASE Inner(r).calls > 0 /\ UNCHANGED reply
      BY <1>1, <1>2, <2>1 DEF RequestOK, ReplyOK, TypeOK
    <2>2. CASE \E error \in BOOLEAN : reply' = [reply EXCEPT ![r] = Respond(error, "wrapper", {})]
      BY <1>1, <2>2, Responses DEF TypeOK
    <2>3. QED
      BY <2>1, <2>2 DEF Leave
  <1>5. frames'[r] = t /\ phase'[r] = place /\ \A q \in Requests \ {r} : phase'[q] = phase[q]
    BY <1>1, <1>2 DEF TypeOK
  <1>6. TypeOK'
    BY <1>1, <1>2, <1>3, <1>4 DEF TypeOK, Phases
  <1>7. SpentOK(r)'
    BY <1>1, <1>2, <1>3, <1>5 DEF RequestOK, SpentOK
  <1>8. WrappedOK(r)'
    <2>1. n # 1 => t # <<>>
      <3>1. n \in Nat /\ n \in 1..n /\ Len(t) = n - 1
        BY <1>1, <1>3
      <3> HIDE DEF n
      <3>2. QED
        BY <3>1
    <2>2. QED
      BY <1>2, <1>3, <1>5, <2>1 DEF WrappedOK
  <1>9. GuardsOK(r)'
    <2>1. ASSUME NEW l \in Layers, Fresh(r, l)' PROVE Fresh(r, l)
      <3>1. n # 1 /\ l \notin spent[r] /\ Inner(r)'.layer = l
        BY <1>2, <1>5, <2>1 DEF Fresh
      <3>2. n - 1 \in 1..n /\ n - 1 \in 1..(n - 1)
        <4>1. n \in Nat /\ n \in 1..n
          BY <1>1
        <4> HIDE DEF n
        <4>2. QED
          BY <3>1, <4>1
      <3>3. Inner(r)' = s[n - 1] /\ s[n - 1].layer = l
        BY <1>3, <1>5, <3>1, <3>2 DEF Inner
      <3>4. Precedes(Place(s[n - 1]), Place(s[n]))
        BY <1>1, <3>2 DEF RequestOK, WrappedOK, StackOK
      <3>5. s[n - 1].layer \in 1..3 /\ s[n].layer \in 1..3
        BY <1>1, <3>2, Typed DEF Frame, Layers
      <3>6. l <= s[n].layer
        BY <3>3, <3>4, <3>5 DEF Precedes, Place
      <3>7. \A m \in 1..(s[n].layer - 1) : m \in spent[r]
        BY <1>1 DEF RequestOK, SpentOK
      <3>8. s[n].layer = l
        BY <3>1, <3>5, <3>6, <3>7 DEF Layers
      <3>9. QED
        BY <1>1, <1>2, <3>1, <3>8 DEF Fresh
    <2>2. phase'[r] \in {"leaving", "inside"}
      BY <1>5
    <2>3. QED
      BY <1>1, <1>2, <2>1, <2>2 DEF RequestOK, GuardsOK, Untouched
  <1>10. ReplyOK(r)'
    BY <1>4 DEF ReplyOK
  <1>11. QED
    BY <1>1, <1>2, <1>4, <1>5, <1>6, <1>7, <1>8, <1>9, <1>10, OthersStay DEF RequestOK, TypeOK

LEMMA EndKeeps ==
    ASSUME PipelineInv, NEW r \in Requests, Answer(r) \/ Disconnect(r)
    PROVE  PipelineInv'
  <1>1. TypeOK /\ RequestOK(r)
    BY DEF PipelineInv
  <1>2. /\ \/ phase[r] = "leaving" /\ phase' = [phase EXCEPT ![r] = "answered"]
           \/ phase' = [phase EXCEPT ![r] = "gone"]
        /\ UNCHANGED <<at, frames, spent, sequence, route, id, who, scope,
                       passed, refused, runs, reply>>
    BY DEF Answer, Disconnect, Goto, context, history
  <1>3. \/ phase[r] = "leaving" /\ phase'[r] = "answered"
        \/ phase'[r] = "gone"
    BY <1>1, <1>2 DEF TypeOK
  <1>4. TypeOK'
    BY <1>1, <1>2 DEF TypeOK, Phases
  <1>5. SpentOK(r)' /\ WrappedOK(r)'
    BY <1>1, <1>2, <1>3 DEF RequestOK, SpentOK, WrappedOK
  <1>6. GuardsOK(r)'
    BY <1>1, <1>2, <1>3 DEF RequestOK, GuardsOK, Fresh
  <1>7. ReplyOK(r)'
    BY <1>1, <1>2, <1>3 DEF RequestOK, ReplyOK
  <1>8. QED
    BY <1>1, <1>2, <1>4, <1>5, <1>6, <1>7, OthersStay DEF RequestOK, TypeOK

-----------------------------------------------------------------------------
LEMMA InitPipeline == Init => PipelineInv
  <1> SUFFICES ASSUME Init PROVE PipelineInv
    OBVIOUS
  <1>1. TypeOK
    BY DEF Init, TypeOK, Phases, Scope, Layers
  <1>2. ASSUME NEW r \in Requests PROVE RequestOK(r)
    <2>1. /\ phase[r] = "new" /\ at[r] = [layer |-> 1, next |-> 0] /\ frames[r] = <<>>
          /\ spent[r] = {} /\ passed[r] = {} /\ ~refused[r] /\ runs[r] = 0
          /\ reply[r] = None
      BY DEF Init
    <2>2. SpentOK(r) /\ WrappedOK(r)
      BY <1>1, <2>1, Typed DEF SpentOK, WrappedOK, StackOK
    <2>3. GuardsOK(r)
      BY <2>1 DEF GuardsOK, Fresh, Untouched
    <2>4. ReplyOK(r)
      BY <2>1 DEF ReplyOK
    <2>5. QED
      BY <2>2, <2>3, <2>4 DEF RequestOK
  <1>3. QED
    BY <1>1, <1>2 DEF PipelineInv

LEMMA NextPipeline == PipelineInv /\ [Next]_vars => PipelineInv'
  <1> SUFFICES ASSUME PipelineInv, [Next]_vars PROVE PipelineInv'
    OBVIOUS
  <1>1. ASSUME NEW r \in Requests, Receive(r) \/ Proceed(r) \/ Disconnect(r)
        PROVE  PipelineInv'
    BY <1>1, ArrivalKeeps, RejectKeeps, SkipKeeps, EnterKeeps, NextAgainKeeps,
       DescendKeeps, CallHandlerKeeps, GuardPassesKeeps, GuardRefusesKeeps,
       StartInterceptorsKeeps, HandleKeeps, CallNextKeeps, LeaveKeeps, EndKeeps
    DEF Proceed
  <1>2. CASE UNCHANGED vars
    <2>1. TypeOK'
      BY <1>2 DEF vars, control, context, history, PipelineInv, TypeOK
    <2>2. ASSUME NEW r \in Requests PROVE RequestOK(r)'
      BY <1>2, RequestStays DEF vars, control, context, history, PipelineInv
    <2>3. QED
      BY <2>1, <2>2 DEF PipelineInv
  <1>3. QED
    BY <1>1, <1>2 DEF Next

-----------------------------------------------------------------------------
(***************************************************************************)
(* The theorems about guards and wrappers.                                 *)
(***************************************************************************)

LEMMA PipelineHolds == Spec => []PipelineInv
  BY InitPipeline, NextPipeline, PTL DEF Spec

\* Guards have the last word: however wrappers retry, answer by themselves or
\* call next again, a handler runs only for a request that all guards of the
\* application and of its route let through, no refusal is overcome, and one
\* that reaches the client went through the exception filters
\* (execute_pipeline, run_middleware_chain, request_context_middleware).
THEOREM GuardsHaveTheLastWord == Spec => []GuardsDecide
  <1>1. ASSUME PipelineInv PROVE GuardsDecide
    <2>1. TypeOK /\ \A r \in Requests : RequestOK(r)
      BY <1>1 DEF PipelineInv
    <2>2. ASSUME NEW r \in Requests, phase[r] = "handler" \/ runs[r] > 0
          PROVE  /\ passed[r] = AllGuards(r)
                 /\ \A g \in AllGuards(r) : who[r] \in Admits[GuardList[g[1]][route[r]][g[2]]]
      BY <2>1, <2>2, AllGuardsReached DEF RequestOK, GuardsOK
    <2>3. ASSUME NEW r \in Requests, refused[r] PROVE phase[r] # "handler" /\ runs[r] = 0
      BY <2>1, <2>3, Typed DEF RequestOK, GuardsOK, Untouched
    <2>4. RefusalIsFiltered
      BY <2>1 DEF RequestOK, ReplyOK, RefusalIsFiltered
    <2>5. QED
      BY <2>1, <2>2, <2>3, <2>4 DEF GuardsDecide, GuardedHandler, RefusalIsFinal
  <1>2. QED
    BY <1>1, PipelineHolds, PTL

\* However the wrappers behave, the handler runs once at most, and inside every
\* middleware that matches the route and every interceptor, in their order
\* (the one-shot next of run_middleware_chain and execute_pipeline).
THEOREM HandlersRunOnceAndWrapped == Spec => []HandlerRunsWrapped
  <1>1. ASSUME PipelineInv PROVE HandlerRunsWrapped
    <2>1. TypeOK /\ \A r \in Requests : RequestOK(r)
      BY <1>1 DEF PipelineInv
    <2>2. HandlerRunsOnce
      <3>1. SUFFICES ASSUME NEW r \in Requests
                     PROVE  runs[r] + (IF phase[r] = "handler" THEN 1 ELSE 0) <= 1
        BY DEF HandlerRunsOnce
      <3>2. runs[r] \in Nat /\ (runs[r] > 0 => runs[r] = 1)
            /\ (phase[r] = "handler" => runs[r] = 0)
        BY <2>1, Typed DEF RequestOK, GuardsOK, Untouched
      <3>3. QED
        BY <3>2
    <2>3. ASSUME NEW r \in Requests, phase[r] = "handler"
          PROVE  /\ {<<frames[r][i].layer, frames[r][i].index>> : i \in 1..Len(frames[r])}
                        = Around(route[r])
                 /\ \A i, j \in 1..Len(frames[r]) :
                       i < j => Precedes(Place(frames[r][i]), Place(frames[r][j]))
      <3>1. /\ StackOK(frames[r], route[r])
            /\ \A v \in Around(route[r]) : \E k \in 1..Len(frames[r]) : Place(frames[r][k]) = v
        BY <2>1, <2>3 DEF RequestOK, WrappedOK
      <3>2. {Place(frames[r][i]) : i \in 1..Len(frames[r])} = Around(route[r])
        BY <3>1 DEF StackOK
      <3>3. ASSUME NEW i \in 1..Len(frames[r]), NEW j \in 1..Len(frames[r]), i < j
            PROVE  Precedes(Place(frames[r][i]), Place(frames[r][j]))
        <4>1. i \in 1..(j - 1)
          BY <2>1, <3>3, Typed
        <4>2. QED
          BY <3>1, <4>1 DEF StackOK
      <3>4. QED
        BY <3>2, <3>3 DEF Place
    <2>4. HandlerIsWrapped
      BY <2>3 DEF HandlerIsWrapped, Around, Precedes, Place
    <2>5. QED
      BY <2>2, <2>4 DEF HandlerRunsWrapped
  <1>2. QED
    BY <1>1, PipelineHolds, PTL

-----------------------------------------------------------------------------
(***************************************************************************)
(* Request contexts.                                                       *)
(***************************************************************************)

\* The ids given out are those below the sequence, each to one request, and a
\* scope says what the request's extensions say.
ContextOK ==
    /\ sequence > 0
    /\ \A r \in Requests :
          /\ scope[r] = [id |-> id[r], who |-> who[r]]
          /\ IF phase[r] = "new" THEN id[r] = 0 ELSE id[r] \in 1..(sequence - 1)
    /\ \A r, q \in Requests : phase[r] # "new" /\ q # r => id[q] # id[r]

LEMMA ReceiveContext ==
    ASSUME TypeOK, ContextOK, NEW r \in Requests, Receive(r)
    PROVE  ContextOK'
  <1>1. /\ sequence \in Nat \ {0} /\ phase[r] = "new"
        /\ id' = [id EXCEPT ![r] = sequence] /\ sequence' = sequence + 1
        /\ scope' = [scope EXCEPT ![r] = [scope[r] EXCEPT !.id = sequence]]
        /\ phase' = [phase EXCEPT ![r] = "resolving"] /\ who' = who
    BY DEF TypeOK, ContextOK, Receive, Goto
  <1>2. scope'[r] = [id |-> sequence, who |-> who[r]]
    <2>1. scope[r] = [id |-> id[r], who |-> who[r]]
      BY DEF ContextOK
    <2>2. scope'[r] = [scope[r] EXCEPT !.id = sequence]
      BY <1>1 DEF TypeOK
    <2>3. QED
      BY <2>1, <2>2
  <1>3. /\ id'[r] = sequence /\ phase'[r] = "resolving"
        /\ \A q \in Requests \ {r} :
              id'[q] = id[q] /\ scope'[q] = scope[q] /\ phase'[q] = phase[q]
    BY <1>1 DEF TypeOK
  <1>4. \A q \in Requests : id[q] \in Nat /\ id[q] < sequence
    <2>1. \A q \in Requests : id[q] = 0 \/ id[q] \in 1..(sequence - 1)
      BY DEF ContextOK
    <2>2. QED
      BY <1>1, <2>1
  <1>5. QED
    BY <1>1, <1>2, <1>3, <1>4 DEF ContextOK

LEMMA IdentifyContext ==
    ASSUME TypeOK, ContextOK, NEW r \in Requests, Identify(r)
    PROVE  ContextOK'
  <1>1. PICK i : /\ who' = [who EXCEPT ![r] = i]
                 /\ scope' = [scope EXCEPT ![r] = [scope[r] EXCEPT !.who = i]]
                 /\ phase[r] = "resolving" /\ phase' = [phase EXCEPT ![r] = "chain"]
                 /\ id' = id /\ sequence' = sequence
    BY DEF Identify, Goto
  <1>2. scope[r] = [id |-> id[r], who |-> who[r]]
    BY DEF ContextOK
  <1>3. who'[r] = i /\ scope'[r] = [id |-> id[r], who |-> i]
    BY <1>1, <1>2 DEF TypeOK
  <1>4. \A q \in Requests :
           /\ phase[q] = "new" <=> phase'[q] = "new"
           /\ q # r => scope'[q] = scope[q] /\ who'[q] = who[q]
    BY <1>1 DEF TypeOK
  <1>5. \A q \in Requests : scope'[q] = [id |-> id'[q], who |-> who'[q]]
    BY <1>1, <1>3, <1>4 DEF ContextOK
  <1>6. \A q \in Requests : IF phase'[q] = "new" THEN id'[q] = 0
                                                ELSE id'[q] \in 1..(sequence' - 1)
    BY <1>1, <1>4 DEF ContextOK
  <1>7. \A p, q \in Requests : phase'[p] # "new" /\ q # p => id'[q] # id'[p]
    BY <1>1, <1>4 DEF ContextOK
  <1>8. QED
    BY <1>1, <1>5, <1>6, <1>7 DEF ContextOK

\* Requests that are served side by side never see each other's id, identity
\* or container (request_context_middleware, NEXT_REQUEST_SEQUENCE).
THEOREM ContextsAreTheirOwn == Spec => []OwnContext
  <1> DEFINE Inv == TypeOK /\ ContextOK
  <1>1. Init => ContextOK
    BY DEF Init, ContextOK
  <1>2. ASSUME TypeOK, ContextOK, [Next]_vars PROVE ContextOK'
    <2>1. CASE UNCHANGED vars
      BY <1>2, <2>1 DEF vars, control, context, ContextOK
    <2>2. ASSUME NEW r \in Requests, Receive(r) PROVE ContextOK'
      BY <1>2, <2>2, ReceiveContext
    <2>3. ASSUME NEW r \in Requests, Identify(r) PROVE ContextOK'
      BY <1>2, <2>3, IdentifyContext
    <2>4. ASSUME NEW r \in Requests, Proceed(r) \/ Disconnect(r), ~Identify(r)
          PROVE  ContextOK'
      <3>1. UNCHANGED context
        BY <2>4 DEF Proceed, Disconnect, Reject, SkipMiddleware, EnterWrapper, NextAgain,
             Descend, CallHandler, GuardPasses, GuardRefuses, StartInterceptors, Handle,
             CallNext, Leave, Answer, context
      <3>2. \A q \in Requests : phase'[q] = "new" <=> phase[q] = "new"
        <4>1. /\ phase[r] # "new"
              /\ \/ phase' = phase
                 \/ \E p \in Phases \ {"new"} : phase' = [phase EXCEPT ![r] = p]
          BY <2>4 DEF Proceed, Disconnect, Reject, SkipMiddleware, EnterWrapper, NextAgain,
               Descend, CallHandler, GuardPasses, GuardRefuses, StartInterceptors, Handle,
               CallNext, Leave, Answer, Deliver, Goto, AtNext, InChain, Guarding, Phases
        <4>2. QED
          BY <1>2, <4>1 DEF TypeOK
      <3>3. QED
        BY <1>2, <3>1, <3>2 DEF ContextOK, context
    <2>5. QED
      BY <1>2, <2>1, <2>2, <2>3, <2>4 DEF Next
  <1>3. PipelineInv => TypeOK
    BY DEF PipelineInv
  <1>4. TypeOK /\ ContextOK => OwnContext
    BY DEF ContextOK, OwnContext
  <1>5. QED
    BY <1>1, <1>2, <1>3, <1>4, PipelineHolds, PTL DEF Spec

==============================================================================
