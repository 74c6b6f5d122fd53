-------------------------- MODULE ContainerProofs --------------------------
(***************************************************************************)
(* Theorems about Container for every value of its constants.              *)
(***************************************************************************)
EXTENDS Container, TLAPS

-----------------------------------------------------------------------------
(***************************************************************************)
(* The operators on stacks of frames.                                      *)
(***************************************************************************)

\* The innermost frame of a non-empty stack.
LEMMA TopFrame ==
    ASSUME TypeOK, NEW t \in Threads, ~Idle(t)
    PROVE  /\ Len(stack[t]) \in Nat \ {0}
           /\ stack[t] \in Seq(Frame)
           /\ Top(t) \in Frame
           /\ Top(t) = stack[t][Len(stack[t])]
  BY DEF TypeOK, Idle, Top

\* Returned pops one frame and leaves every other as it was, except that the
\* caller's factory advances and may reach what the value reaches.
LEMMA ReturnedFrames ==
    ASSUME NEW s \in Seq(Frame), Len(s) \in Nat \ {0}, NEW i \in Instance
    PROVE  /\ Returned(s, i) \in Seq(Frame)
           /\ Len(Returned(s, i)) = Len(s) - 1
           /\ \A k \in 1..(Len(s) - 1) :
                 /\ Returned(s, i)[k] \in Frame
                 /\ s[k] \in Frame
                 /\ Returned(s, i)[k].type = s[k].type
                 /\ Returned(s, i)[k].stage = s[k].stage
                 /\ Returned(s, i)[k].role = s[k].role
                 /\ Returned(s, i)[k].known = s[k].known
                 /\ Returned(s, i)[k].uses \subseteq s[k].uses \cup i.uses
  <1> DEFINE n == Len(s) - 1
             r == Returned(s, i)
  <1>1. n \in Nat /\ \A k \in 1..n : s[k] \in Frame
    OBVIOUS
  <1>2. r = [k \in 1..n |-> IF k = n
                            THEN [s[k] EXCEPT !.at = @ + 1, !.uses = @ \cup i.uses]
                            ELSE s[k]]
    BY DEF Returned
  <1>3. ASSUME NEW k \in 1..n
        PROVE  /\ r[k] \in Frame
               /\ r[k].type = s[k].type /\ r[k].stage = s[k].stage
               /\ r[k].role = s[k].role /\ r[k].known = s[k].known
               /\ r[k].uses \subseteq s[k].uses \cup i.uses
    <2>1. CASE k = n
      <3>1. r[k] = [s[k] EXCEPT !.at = @ + 1, !.uses = @ \cup i.uses]
        BY <1>2, <2>1
      <3>2. s[k] \in Frame /\ i.uses \subseteq Containers
        BY <1>1 DEF Instance
      <3> DEFINE f == s[k]
      <3> HIDE DEF r
      <3>3. [f EXCEPT !.at = @ + 1, !.uses = @ \cup i.uses] \in Frame
        <4>1. f.at + 1 \in Nat /\ f.uses \cup i.uses \in SUBSET Containers
          BY <3>2 DEF Frame
        <4>2. f \in Frame
          BY <3>2
        <4> HIDE DEF f
        <4>3. QED
          BY <4>1, <4>2 DEF Frame
      <3>4. r[k] = [f EXCEPT !.at = @ + 1, !.uses = @ \cup i.uses]
        BY <3>1
      <3>5. f \in Frame
        BY <3>2
      <3> HIDE DEF f
      <3>6. /\ r[k].type = f.type /\ r[k].stage = f.stage
            /\ r[k].role = f.role /\ r[k].known = f.known
            /\ r[k].uses \subseteq f.uses \cup i.uses
        BY <3>4, <3>5 DEF Frame
      <3>7. QED
        BY <3>3, <3>4, <3>6 DEF f
    <2>2. CASE k # n
      <3>1. r[k] = s[k]
        BY <1>2, <2>2
      <3>2. QED
        BY <3>1, <1>1
    <2>3. QED
      BY <2>1, <2>2
  <1>4. r \in Seq(Frame) /\ Len(r) = n
    <2>1. r \in [1..n -> Frame]
      BY <1>2, <1>3
    <2>2. QED
      BY <1>1, <2>1
  <1>5. QED
    BY <1>1, <1>3, <1>4


\* The three ways a step of a resolve changes the stack of its thread: it goes
\* on to the next stage, returns a value, or enters a dependency.
LEMMA GoToFrames ==
    ASSUME TypeOK, NEW t \in Threads, ~Idle(t),
           NEW stage \in Stages, NEW role \in Roles \cup {"lookup"},
           GoTo(t, stage, role)
    PROVE  LET n == Len(stack[t]) IN
           /\ stack' \in [Threads -> Seq(Frame)]
           /\ \A u \in Threads \ {t} : stack'[u] = stack[u]
           /\ Len(stack'[t]) = n
           /\ \A k \in 1..n : k # n => stack'[t][k] = stack[t][k]
           /\ stack'[t][n].stage = stage
           /\ stack'[t][n].role = role
           /\ stack'[t][n].type = stack[t][n].type
           /\ stack'[t][n].uses = stack[t][n].uses
           /\ stack'[t][n].known = stack[t][n].known
  <1> DEFINE n == Len(stack[t])
             f == [stack[t][n] EXCEPT !.stage = stage, !.role = role]
  <1>1. n \in Nat \ {0} /\ stack[t] \in Seq(Frame) /\ stack[t][n] \in Frame
    BY TopFrame
  <1>2. /\ f \in Frame /\ f.stage = stage /\ f.role = role
        /\ f.type = stack[t][n].type /\ f.uses = stack[t][n].uses
        /\ f.known = stack[t][n].known
    BY <1>1 DEF Frame
  <1>3. stack' = [stack EXCEPT ![t] = [stack[t] EXCEPT ![n] = f]]
    BY <1>1 DEF GoTo, TypeOK
  <1> DEFINE g == [stack[t] EXCEPT ![n] = f]
  <1>4. /\ g \in Seq(Frame) /\ Len(g) = n /\ g[n] = f
        /\ \A k \in 1..n : k # n => g[k] = stack[t][k]
    <2> HIDE DEF f
    <2>1. QED
      BY <1>1, <1>2
  <1>5. stack' \in [Threads -> Seq(Frame)] /\ stack'[t] = g
        /\ \A u \in Threads \ {t} : stack'[u] = stack[u]
    <2>1. stack' = [stack EXCEPT ![t] = g]
      BY <1>3
    <2> HIDE DEF g
    <2>2. QED
      BY <2>1, <1>4 DEF TypeOK
  <1> HIDE DEF g, f
  <1>6. QED
    BY <1>2, <1>4, <1>5

LEMMA ReturnFrames ==
    ASSUME TypeOK, NEW t \in Threads, ~Idle(t), NEW i \in Instance, Return(t, i)
    PROVE  LET n == Len(stack[t]) IN
           /\ stack' \in [Threads -> Seq(Frame)]
           /\ \A u \in Threads \ {t} : stack'[u] = stack[u]
           /\ Len(stack'[t]) = n - 1
           /\ \A k \in 1..(n - 1) :
                 /\ stack'[t][k].type = stack[t][k].type
                 /\ stack'[t][k].stage = stack[t][k].stage
                 /\ stack'[t][k].role = stack[t][k].role
                 /\ stack'[t][k].known = stack[t][k].known
                 /\ stack'[t][k].uses \subseteq stack[t][k].uses \cup i.uses
  <1>1. stack[t] \in Seq(Frame) /\ Len(stack[t]) \in Nat \ {0}
    BY TopFrame
  <1>2. stack' = [stack EXCEPT ![t] = Returned(stack[t], i)]
    BY DEF Return
  <1> DEFINE r == Returned(stack[t], i)
  <1>3. /\ r \in Seq(Frame) /\ Len(r) = Len(stack[t]) - 1
        /\ \A k \in 1..(Len(stack[t]) - 1) :
              /\ r[k].type = stack[t][k].type
              /\ r[k].stage = stack[t][k].stage
              /\ r[k].role = stack[t][k].role
              /\ r[k].known = stack[t][k].known
              /\ r[k].uses \subseteq stack[t][k].uses \cup i.uses
    BY <1>1, ReturnedFrames
  <1>4. stack' = [stack EXCEPT ![t] = r]
    BY <1>2
  <1> HIDE DEF r
  <1>5. /\ stack' \in [Threads -> Seq(Frame)] /\ stack'[t] = r
        /\ \A u \in Threads \ {t} : stack'[u] = stack[u]
    BY <1>3, <1>4 DEF TypeOK
  <1>6. QED
    BY <1>3, <1>5

\* A call that starts work on container c with the single frame f.
LEMMA StartFrames ==
    ASSUME TypeOK, NEW t \in Threads, NEW c, NEW f,
           on' = [on EXCEPT ![t] = c], stack' = [stack EXCEPT ![t] = <<f>>]
    PROVE  /\ \A u \in Threads \ {t} : stack'[u] = stack[u] /\ on'[u] = on[u]
           /\ Len(stack'[t]) = 1 /\ stack'[t][1] = f /\ on'[t] = c
  <1>1. stack'[t] = <<f>> /\ on'[t] = c
    BY DEF TypeOK
  <1>2. \A u \in Threads \ {t} : stack'[u] = stack[u] /\ on'[u] = on[u]
    BY DEF TypeOK
  <1>3. QED
    BY <1>1, <1>2

LEMMA EnterFrames ==
    ASSUME TypeOK, NEW t \in Threads, NEW f \in Frame,
           stack' = [stack EXCEPT ![t] = Append(stack[t], f)]
    PROVE  LET n == Len(stack[t]) IN
           /\ stack' \in [Threads -> Seq(Frame)]
           /\ \A u \in Threads \ {t} : stack'[u] = stack[u]
           /\ Len(stack'[t]) = n + 1
           /\ \A k \in 1..n : stack'[t][k] = stack[t][k]
           /\ stack'[t][n + 1] = f
  BY DEF TypeOK

LEMMA UnwindFrames ==
    ASSUME TypeOK, NEW t \in Threads, Unwind(t)
    PROVE  /\ stack' \in [Threads -> Seq(Frame)]
           /\ \A u \in Threads \ {t} : stack'[u] = stack[u]
           /\ Len(stack'[t]) = 0
  BY DEF TypeOK, Unwind

\* A frame for a new resolve.
LEMMA EnteringFrame ==
    ASSUME NEW c \in Containers, NEW ty \in Types
    PROVE  Entering(c, ty) \in Frame
  BY DEF Entering, Frame, Stages, Visible

LEMMA NewInstanceType ==
    ASSUME NEW role \in Roles, NEW uses \in SUBSET Containers
    PROVE  /\ NewInstance(role, uses) \in Instance
           /\ NewInstance(role, uses) # None
           /\ NewInstance(role, uses).role = role
           /\ NewInstance(role, uses).uses = uses
  BY ContainerAssumption DEF NewInstance, Instance

-----------------------------------------------------------------------------
(***************************************************************************)
(* Type correctness.                                                       *)
(***************************************************************************)

LEMMA InitTypeOK == Init => TypeOK
  <1> SUFFICES ASSUME Init PROVE TypeOK
    OBVIOUS
  <1>1. stack \in [Threads -> Seq(Frame)]
    BY DEF Init
  <1>2. QED
    BY <1>1 DEF Init, TypeOK, Containers

\* The value a resolve finds in a map, or that a factory makes, is an instance.
LEMMA FoundInstance ==
    ASSUME TypeOK, NEW t \in Threads, ~Idle(t)
    PROVE  /\ Top(t).type \in Types
           /\ overrides[on[t]][Top(t).type] \in Instance \cup {None}
           /\ inner[Top(t).type] \in Instance \cup {None}
           /\ Top(t).uses \in SUBSET Containers
           /\ on[t] \in Containers
  <1>1. Top(t).type \in Types /\ Top(t).uses \in SUBSET Containers
    BY TopFrame DEF Frame
  <1>2. QED
    BY <1>1 DEF TypeOK

\* What CacheRequestValue puts into overrides.
RequestValue(t) ==
    [NewInstance("request", Top(t).uses \cup {on[t]})
        EXCEPT !.nth = made[on[t]][Top(t).type] + 1]

LEMMA RequestValueType ==
    ASSUME TypeOK, NEW t \in Threads, ~Idle(t)
    PROVE  /\ RequestValue(t) \in Instance
           /\ RequestValue(t) # None
           /\ RequestValue(t).role = "request"
           /\ RequestValue(t).uses = Top(t).uses \cup {on[t]}
  <1>1. /\ made[on[t]][Top(t).type] + 1 \in Nat
        /\ Top(t).uses \cup {on[t]} \in SUBSET Containers
    BY FoundInstance DEF TypeOK
  <1>2. QED
    BY <1>1, ContainerAssumption DEF RequestValue, NewInstance, Instance, Roles

LEMMA CallTypeOK ==
    ASSUME TypeOK, NEW t \in Threads, Call(t)
    PROVE  TypeOK'
  <1>1. ASSUME NEW s \in Scopes, Scoped(t, s)
        PROVE  TypeOK'
    BY <1>1 DEF Scoped, TypeOK, registry, Containers
  <1>2. ASSUME NEW ty \in Types, Register(t, ty) \/ Replace(t, ty)
        PROVE  TypeOK'
    <2>1. NewInstance("value", {}) \in Instance
      BY NewInstanceType DEF Roles
    <2>2. inner' = [inner EXCEPT ![ty] = NewInstance("value", {})] /\ names' = names \cup {ty}
      BY <1>2 DEF Register, Replace
    <2>3. UNCHANGED <<requestFactories, transientFactories, overrides, opened, on, stack, made>>
      BY <1>2 DEF Register, Replace
    <2>4. QED
      BY <2>1, <2>2, <2>3 DEF TypeOK
  <1>3. ASSUME NEW ty \in Types, RegisterRequestFactory(t, ty) \/ RegisterTransientFactory(t, ty)
        PROVE  TypeOK'
    BY <1>3 DEF RegisterRequestFactory, RegisterTransientFactory, TypeOK
  <1>4. ASSUME NEW ty \in Types, StartFactoryProvider(t, ty)
        PROVE  TypeOK'
    <2>1. [Entering(Root, ty) EXCEPT !.stage = "build", !.role = "factory"] \in Frame
      BY EnteringFrame DEF Containers, Entering, Frame, Stages, Roles
    <2>2. QED
      BY <1>4, <2>1 DEF StartFactoryProvider, TypeOK, registry, Containers
  <1>5. ASSUME NEW ty \in Types, NEW c \in Containers, OverrideValue(t, c, ty)
        PROVE  TypeOK'
    <2>1. NewInstance("override", {c}) \in Instance
      BY NewInstanceType DEF Roles
    <2>2. QED
      BY <1>5, <2>1 DEF OverrideValue, TypeOK
  <1>6. ASSUME NEW ty \in Types, NEW c \in Containers, StartResolve(t, c, ty)
        PROVE  TypeOK'
    BY <1>6, EnteringFrame DEF StartResolve, TypeOK, registry
  <1>7. QED
    BY <1>1, <1>2, <1>3, <1>4, <1>5, <1>6 DEF Call

LEMMA StepTypeOK ==
    ASSUME TypeOK, NEW t \in Threads, Step(t)
    PROVE  TypeOK'
  <1> USE DEF registry
  <1>1. CASE ReadOverrides(t)
    <2>1. ~Idle(t)
      BY <1>1 DEF ReadOverrides, Working
    <2>2. stack' \in [Threads -> Seq(Frame)]
      <3>1. CASE overrides[on[t]][Top(t).type] # None
        BY <1>1, <2>1, <3>1, FoundInstance, ReturnFrames DEF ReadOverrides
      <3>2. CASE overrides[on[t]][Top(t).type] = None
        BY <1>1, <2>1, <3>2, GoToFrames DEF ReadOverrides, Stages
      <3>3. QED
        BY <3>1, <3>2
    <2>3. QED
      BY <1>1, <2>2 DEF ReadOverrides, TypeOK
  <1>2. CASE ReadInner(t)
    <2>1. ~Idle(t)
      BY <1>2 DEF ReadInner, Working
    <2>2. stack' \in [Threads -> Seq(Frame)]
      <3>1. CASE inner[Top(t).type] # None
        BY <1>2, <2>1, <3>1, FoundInstance, ReturnFrames DEF ReadInner
      <3>2. CASE inner[Top(t).type] = None
        BY <1>2, <2>1, <3>2, GoToFrames DEF ReadInner, Stages
      <3>3. QED
        BY <3>1, <3>2
    <2>3. QED
      BY <1>2, <2>2 DEF ReadInner, TypeOK
  <1>3. CASE ReadRequestFactories(t)
    <2>1. ~Idle(t)
      BY <1>3 DEF ReadRequestFactories, Working
    <2>2. stack' \in [Threads -> Seq(Frame)]
      BY <1>3, <2>1, GoToFrames DEF ReadRequestFactories, Stages, Roles
    <2>3. QED
      BY <1>3, <2>2 DEF ReadRequestFactories, TypeOK
  <1>4. CASE ReadTransientFactories(t)
    <2>1. ~Idle(t)
      BY <1>4 DEF ReadTransientFactories, Working
    <2>2. stack' \in [Threads -> Seq(Frame)]
      BY <1>4, <2>1, GoToFrames, UnwindFrames DEF ReadTransientFactories, Stages, Roles
    <2>3. QED
      BY <1>4, <2>2 DEF ReadTransientFactories, TypeOK
  <1>5. CASE FactoryResolves(t)
    <2>1. ~Idle(t)
      BY <1>5 DEF FactoryResolves, Building, Working
    <2>2. Deps[Top(t).type][Top(t).at + 1] \in Types
      BY <1>5, <2>1, TopFrame, FoundInstance, ContainerAssumption
      DEF FactoryResolves, DepsLeft, Frame
    <2>3. stack' \in [Threads -> Seq(Frame)]
      BY <1>5, <2>1, <2>2, EnterFrames, EnteringFrame, FoundInstance DEF FactoryResolves, TypeOK
    <2>4. QED
      BY <1>5, <2>3 DEF FactoryResolves, TypeOK
  <1>6. CASE FactoryFails(t)
    BY <1>6, UnwindFrames DEF FactoryFails, TypeOK
  <1>7. CASE CacheRequestValue(t)
    <2>1. ~Idle(t)
      BY <1>7 DEF CacheRequestValue, Building, Working
    <2>2. /\ Return(t, RequestValue(t))
          /\ overrides' = [overrides EXCEPT ![on[t]][Top(t).type] = RequestValue(t)]
          /\ made' = [made EXCEPT ![on[t]][Top(t).type] = @ + 1]
          /\ UNCHANGED <<registry, opened, on>>
      BY <1>7 DEF CacheRequestValue, RequestValue
    <2>3. RequestValue(t) \in Instance
      BY <2>1, RequestValueType
    <2>4. stack' \in [Threads -> Seq(Frame)]
      BY <2>1, <2>2, <2>3, ReturnFrames
    <2>5. QED
      BY <2>1, <2>2, <2>3, <2>4, FoundInstance DEF TypeOK
  <1>8. CASE HandOutTransient(t)
    <2>1. ~Idle(t)
      BY <1>8 DEF HandOutTransient, Building, Working
    <2>2. stack' \in [Threads -> Seq(Frame)]
      BY <1>8, <2>1, FoundInstance, NewInstanceType, ReturnFrames DEF HandOutTransient, Roles
    <2>3. QED
      BY <1>8, <2>2 DEF HandOutTransient, TypeOK
  <1>9. CASE RegisterFactoryValue(t)
    <2>1. ~Idle(t)
      BY <1>9 DEF RegisterFactoryValue, Building, Working
    <2>2. stack' \in [Threads -> Seq(Frame)]
      BY <1>9, UnwindFrames DEF RegisterFactoryValue
    <2>3. NewInstance("factory", Top(t).uses) \in Instance
      BY <2>1, FoundInstance, NewInstanceType DEF Roles
    <2>4. /\ inner' \in [Types -> Instance \cup {None}] /\ names' \subseteq Types
          /\ UNCHANGED <<requestFactories, transientFactories, overrides, opened, on, made>>
      <3> DEFINE ty == Top(t).type
                 value == NewInstance("factory", Top(t).uses)
      <3>1. ty \in Types /\ value \in Instance
        BY <2>1, <2>3, FoundInstance
      <3>2. \/ UNCHANGED <<inner, names>>
            \/ inner' = [inner EXCEPT ![ty] = value] /\ names' = names \cup {ty}
        BY <1>9 DEF RegisterFactoryValue
      <3>3. UNCHANGED <<requestFactories, transientFactories, overrides, opened, on, made>>
        BY <1>9 DEF RegisterFactoryValue
      <3> HIDE DEF ty, value
      <3>4. QED
        BY <3>1, <3>2, <3>3 DEF TypeOK
    <2>5. QED
      BY <2>2, <2>4 DEF TypeOK
  <1>10. QED
    BY <1>1, <1>2, <1>3, <1>4, <1>5, <1>6, <1>7, <1>8, <1>9 DEF Step

\* Every map holds values of its slot's kind and every stack is one of frames,
\* whatever the threads and the types.
THEOREM TypeCorrect == Spec => []TypeOK
  <1>1. TypeOK /\ [Next]_vars => TypeOK'
    <2> SUFFICES ASSUME TypeOK, [Next]_vars PROVE TypeOK'
      OBVIOUS
    <2>1. CASE UNCHANGED vars
      BY <2>1 DEF vars, registry, TypeOK
    <2>2. ASSUME NEW t \in Threads, Call(t) \/ Step(t) PROVE TypeOK'
      BY <2>2, CallTypeOK, StepTypeOK
    <2>3. QED
      BY <2>1, <2>2 DEF Next
  <1>2. QED
    BY InitTypeOK, <1>1, PTL DEF Spec

-----------------------------------------------------------------------------
(***************************************************************************)
(* Isolation.  ScopeIsolation is inductive together with two facts about   *)
(* the running factories: what they have got hold of is isolated too, and  *)
(* a factory whose value becomes a singleton runs on the root.             *)
(***************************************************************************)

FactoriesOnRoot ==
    \A t \in Threads : \A k \in 1..Len(stack[t]) :
        stack[t][k].role = "factory" => on[t] = Root

FramesIsolated == FactoriesIsolated /\ FactoriesOnRoot

IsolationInv == ScopeIsolation /\ FramesIsolated

IsolatedFrame(t, k) ==
    /\ stack[t][k].uses \subseteq {on[t], Root}
    /\ stack[t][k].role = "factory" => on[t] = Root

LEMMA IsolatedGoTo ==
    ASSUME TypeOK, FramesIsolated, NEW t \in Threads, ~Idle(t), UNCHANGED on,
           NEW stage \in Stages, NEW role \in (Roles \cup {"lookup"}) \ {"factory"},
           GoTo(t, stage, role)
    PROVE  FramesIsolated'
  <1> DEFINE n == Len(stack[t])
  <1>1. /\ n \in Nat \ {0} /\ stack[t][n] \in Frame
        /\ \A u \in Threads \ {t} : stack'[u] = stack[u]
        /\ Len(stack'[t]) = n
        /\ \A k \in 1..n : k # n => stack'[t][k] = stack[t][k]
        /\ stack'[t][n].uses = stack[t][n].uses
        /\ stack'[t][n].role = role
    <2>1. role \in Roles \cup {"lookup"}
      OBVIOUS
    <2>2. n \in Nat \ {0} /\ stack[t][n] \in Frame
      BY TopFrame
    <2>3. QED
      BY <2>1, <2>2, GoToFrames
  <1>2. ASSUME NEW u \in Threads, NEW k \in 1..Len(stack'[u])
        PROVE  IsolatedFrame(u, k)'
    <2>1. CASE u # t \/ (u = t /\ k # n)
      BY <1>1, <2>1 DEF FramesIsolated, FactoriesIsolated, FactoriesOnRoot, IsolatedFrame
    <2>2. CASE u = t /\ k = n
      BY <1>1, <2>2 DEF FramesIsolated, FactoriesIsolated, IsolatedFrame
    <2>3. QED
      BY <2>1, <2>2
  <1>3. QED
    BY <1>2 DEF FramesIsolated, FactoriesIsolated, FactoriesOnRoot, IsolatedFrame

LEMMA IsolatedReturn ==
    ASSUME TypeOK, FramesIsolated, NEW t \in Threads, ~Idle(t), UNCHANGED on,
           NEW i \in Instance, i.uses \subseteq {on[t], Root}, Return(t, i)
    PROVE  FramesIsolated'
  <1> DEFINE n == Len(stack[t])
  <1>1. /\ n \in Nat \ {0}
        /\ \A u \in Threads \ {t} : stack'[u] = stack[u]
        /\ Len(stack'[t]) = n - 1
        /\ \A k \in 1..(n - 1) :
              /\ stack'[t][k].role = stack[t][k].role
              /\ stack'[t][k].uses \subseteq stack[t][k].uses \cup i.uses
    BY TopFrame, ReturnFrames
  <1>2. ASSUME NEW u \in Threads, NEW k \in 1..Len(stack'[u])
        PROVE  IsolatedFrame(u, k)'
    <2>1. CASE u # t
      BY <1>1, <2>1 DEF FramesIsolated, FactoriesIsolated, FactoriesOnRoot, IsolatedFrame
    <2>2. CASE u = t
      <3>1. k \in 1..(n - 1) /\ k \in 1..Len(stack[t])
        BY <1>1, <2>2
      <3>2. /\ stack[t][k].uses \subseteq {on[t], Root}
            /\ stack[t][k].role = "factory" => on[t] = Root
        BY <3>1 DEF FramesIsolated, FactoriesIsolated, FactoriesOnRoot
      <3>3. QED
        BY <1>1, <2>2, <3>1, <3>2 DEF IsolatedFrame
    <2>3. QED
      BY <2>1, <2>2
  <1>3. QED
    BY <1>2 DEF FramesIsolated, FactoriesIsolated, FactoriesOnRoot, IsolatedFrame

LEMMA IsolatedEnter ==
    ASSUME TypeOK, FramesIsolated, NEW t \in Threads, UNCHANGED on,
           NEW c \in Containers, NEW ty \in Types,
           stack' = [stack EXCEPT ![t] = Append(stack[t], Entering(c, ty))]
    PROVE  FramesIsolated'
  <1> DEFINE n == Len(stack[t])
             f == Entering(c, ty)
  <1>1. /\ n \in Nat /\ f \in Frame /\ f.uses = {} /\ f.role = "lookup"
    BY EnteringFrame DEF Entering, TypeOK
  <1> HIDE DEF f
  <1>2. /\ \A u \in Threads \ {t} : stack'[u] = stack[u]
        /\ Len(stack'[t]) = n + 1
        /\ \A k \in 1..n : stack'[t][k] = stack[t][k]
        /\ stack'[t][n + 1] = f
    BY <1>1, EnterFrames DEF f
  <1>3. ASSUME NEW u \in Threads, NEW k \in 1..Len(stack'[u])
        PROVE  IsolatedFrame(u, k)'
    <2>1. CASE u # t \/ k \in 1..n
      <3>1. k \in 1..Len(stack[u]) /\ stack'[u][k] = stack[u][k]
        BY <1>2, <2>1
      <3>2. QED
        BY <3>1 DEF FramesIsolated, FactoriesIsolated, FactoriesOnRoot, IsolatedFrame
    <2>2. CASE u = t /\ k \notin 1..n
      <3>1. stack'[u][k] = f
        BY <1>1, <1>2, <2>2
      <3>2. QED
        BY <1>1, <3>1 DEF IsolatedFrame
    <2>3. QED
      BY <2>1, <2>2
  <1>4. QED
    BY <1>3 DEF FramesIsolated, FactoriesIsolated, FactoriesOnRoot, IsolatedFrame

LEMMA IsolatedUnwind ==
    ASSUME TypeOK, FramesIsolated, NEW t \in Threads, UNCHANGED on, Unwind(t)
    PROVE  FramesIsolated'
  <1>1. ASSUME NEW u \in Threads, NEW k \in 1..Len(stack'[u])
        PROVE  IsolatedFrame(u, k)'
    <2>1. k \in 1..Len(stack[u]) /\ stack'[u][k] = stack[u][k]
      BY <1>1, UnwindFrames
    <2>2. QED
      BY <2>1 DEF FramesIsolated, FactoriesIsolated, FactoriesOnRoot, IsolatedFrame
  <1>2. QED
    BY <1>1 DEF FramesIsolated, FactoriesIsolated, FactoriesOnRoot, IsolatedFrame

\* The private values and the singletons t can be handed are isolated.
LEMMA FoundIsolated ==
    ASSUME TypeOK, IsolationInv, NEW t \in Threads, ~Idle(t)
    PROVE  /\ overrides[on[t]][Top(t).type] # None
                => overrides[on[t]][Top(t).type].uses \subseteq {on[t], Root}
           /\ inner[Top(t).type] # None => inner[Top(t).type].uses \subseteq {Root}
           /\ Top(t).uses \subseteq {on[t], Root}
           /\ Top(t).role = "factory" => on[t] = Root
  BY TopFrame, FoundInstance
  DEF IsolationInv, ScopeIsolation, FramesIsolated, FactoriesIsolated, FactoriesOnRoot

LEMMA CallIsolation ==
    ASSUME TypeOK, IsolationInv, NEW t \in Threads, Call(t)
    PROVE  IsolationInv'
  <1> USE DEF IsolationInv, FramesIsolated
  <1>1. ASSUME NEW s \in Scopes, Scoped(t, s)
        PROVE  IsolationInv'
    BY <1>1 DEF Scoped, TypeOK, registry, ScopeIsolation, FactoriesIsolated,
                FactoriesOnRoot, Containers
  <1>2. ASSUME NEW ty \in Types, Register(t, ty) \/ Replace(t, ty)
        PROVE  IsolationInv'
    <2>1. /\ inner' = [inner EXCEPT ![ty] = NewInstance("value", {})]
          /\ UNCHANGED <<overrides, on, stack>>
      BY <1>2 DEF Register, Replace
    <2>2. NewInstance("value", {}).uses = {}
      BY DEF NewInstance
    <2>3. QED
      BY <2>1, <2>2 DEF TypeOK, ScopeIsolation, FactoriesIsolated, FactoriesOnRoot
  <1>3. ASSUME NEW ty \in Types, RegisterRequestFactory(t, ty) \/ RegisterTransientFactory(t, ty)
        PROVE  IsolationInv'
    BY <1>3 DEF RegisterRequestFactory, RegisterTransientFactory, ScopeIsolation,
                FactoriesIsolated, FactoriesOnRoot
  <1>4. ASSUME NEW ty \in Types, StartFactoryProvider(t, ty)
        PROVE  IsolationInv'
    <2> DEFINE f == [Entering(Root, ty) EXCEPT !.stage = "build", !.role = "factory"]
    <2>1. f.uses = {}
      BY DEF Entering
    <2> HIDE DEF f
    <2>2. /\ stack' = [stack EXCEPT ![t] = <<f>>] /\ on' = [on EXCEPT ![t] = Root]
          /\ UNCHANGED <<inner, overrides>>
      BY <1>4 DEF StartFactoryProvider, registry, f
    <2>3. /\ \A u \in Threads \ {t} : stack'[u] = stack[u] /\ on'[u] = on[u]
          /\ Len(stack'[t]) = 1 /\ stack'[t][1] = f /\ on'[t] = Root
      BY <2>2, StartFrames
    <2>4. FactoriesIsolated' /\ FactoriesOnRoot'
      BY <2>1, <2>3 DEF FactoriesIsolated, FactoriesOnRoot
    <2>5. QED
      BY <2>2, <2>4 DEF ScopeIsolation
  <1>5. ASSUME NEW ty \in Types, NEW c \in Containers, OverrideValue(t, c, ty)
        PROVE  IsolationInv'
    <2>1. /\ overrides' = [overrides EXCEPT ![c][ty] = NewInstance("override", {c})]
          /\ UNCHANGED <<inner, on, stack>>
      BY <1>5 DEF OverrideValue
    <2>2. NewInstance("override", {c}).uses = {c}
      BY DEF NewInstance
    <2>3. ASSUME NEW d \in Containers, NEW ty2 \in Types, overrides'[d][ty2] # None
          PROVE  overrides'[d][ty2].uses \subseteq {d, Root}
      <3>1. CASE d = c /\ ty2 = ty
        BY <2>1, <2>2, <3>1 DEF TypeOK
      <3>2. CASE ~(d = c /\ ty2 = ty)
        <4>1. overrides'[d][ty2] = overrides[d][ty2]
          BY <2>1, <3>2 DEF TypeOK
        <4>2. QED
          BY <2>3, <4>1 DEF ScopeIsolation
      <3>3. QED
        BY <3>1, <3>2
    <2>4. QED
      BY <2>1, <2>3 DEF ScopeIsolation, FactoriesIsolated, FactoriesOnRoot
  <1>6. ASSUME NEW ty \in Types, NEW c \in Containers, StartResolve(t, c, ty)
        PROVE  IsolationInv'
    <2> DEFINE f == Entering(c, ty)
    <2>1. f.uses = {} /\ f.role = "lookup"
      BY DEF Entering
    <2> HIDE DEF f
    <2>2. /\ stack' = [stack EXCEPT ![t] = <<f>>] /\ on' = [on EXCEPT ![t] = c]
          /\ UNCHANGED <<inner, overrides>>
      BY <1>6 DEF StartResolve, registry, f
    <2>3. /\ \A u \in Threads \ {t} : stack'[u] = stack[u] /\ on'[u] = on[u]
          /\ Len(stack'[t]) = 1 /\ stack'[t][1] = f /\ on'[t] = c
      BY <2>2, StartFrames
    <2>4. FactoriesIsolated' /\ FactoriesOnRoot'
      BY <2>1, <2>3 DEF FactoriesIsolated, FactoriesOnRoot
    <2>5. QED
      BY <2>2, <2>4 DEF ScopeIsolation
  <1>7. QED
    BY <1>1, <1>2, <1>3, <1>4, <1>5, <1>6 DEF Call

LEMMA StepIsolation ==
    ASSUME TypeOK, IsolationInv, NEW t \in Threads, Step(t)
    PROVE  IsolationInv'
  <1> USE DEF registry
  <1>0. ~Idle(t) /\ FramesIsolated
    BY DEF Step, ReadOverrides, ReadInner, ReadRequestFactories, ReadTransientFactories,
           FactoryResolves, FactoryFails, CacheRequestValue, HandOutTransient,
           RegisterFactoryValue, Building, Working, IsolationInv
  <1>1. CASE ReadOverrides(t)
    <2>1. FramesIsolated'
      <3>1. CASE overrides[on[t]][Top(t).type] # None
        BY <1>0, <1>1, <3>1, FoundInstance, FoundIsolated, IsolatedReturn DEF ReadOverrides
      <3>2. CASE overrides[on[t]][Top(t).type] = None
        BY <1>0, <1>1, <3>2, IsolatedGoTo DEF ReadOverrides, Stages
      <3>3. QED
        BY <3>1, <3>2
    <2>2. QED
      BY <1>1, <2>1 DEF ReadOverrides, IsolationInv, ScopeIsolation
  <1>2. CASE ReadInner(t)
    <2>1. FramesIsolated'
      <3>1. CASE inner[Top(t).type] # None
        BY <1>0, <1>2, <3>1, FoundInstance, FoundIsolated, IsolatedReturn DEF ReadInner
      <3>2. CASE inner[Top(t).type] = None
        BY <1>0, <1>2, <3>2, IsolatedGoTo DEF ReadInner, Stages
      <3>3. QED
        BY <3>1, <3>2
    <2>2. QED
      BY <1>2, <2>1 DEF ReadInner, IsolationInv, ScopeIsolation
  <1>3. CASE ReadRequestFactories(t)
    <2>1. FramesIsolated'
      BY <1>0, <1>3, IsolatedGoTo DEF ReadRequestFactories, Stages, Roles
    <2>2. QED
      BY <1>3, <2>1 DEF ReadRequestFactories, IsolationInv, ScopeIsolation
  <1>4. CASE ReadTransientFactories(t)
    <2>1. FramesIsolated'
      BY <1>0, <1>4, IsolatedGoTo, IsolatedUnwind DEF ReadTransientFactories, Stages, Roles
    <2>2. QED
      BY <1>4, <2>1 DEF ReadTransientFactories, IsolationInv, ScopeIsolation
  <1>5. CASE FactoryResolves(t)
    <2>1. Deps[Top(t).type][Top(t).at + 1] \in Types
      BY <1>0, <1>5, TopFrame, FoundInstance, ContainerAssumption
      DEF FactoryResolves, DepsLeft, Frame
    <2>2. FramesIsolated'
      BY <1>0, <1>5, <2>1, FoundInstance, IsolatedEnter DEF FactoryResolves, TypeOK
    <2>3. QED
      BY <1>5, <2>2 DEF FactoryResolves, IsolationInv, ScopeIsolation
  <1>6. CASE FactoryFails(t)
    BY <1>0, <1>6, IsolatedUnwind DEF FactoryFails, IsolationInv, ScopeIsolation
  <1>7. CASE CacheRequestValue(t)
    <2>1. /\ Return(t, RequestValue(t))
          /\ overrides' = [overrides EXCEPT ![on[t]][Top(t).type] = RequestValue(t)]
          /\ UNCHANGED <<inner, on>>
      BY <1>7 DEF CacheRequestValue, RequestValue
    <2>2. RequestValue(t) \in Instance /\ RequestValue(t).uses \subseteq {on[t], Root}
      BY <1>0, RequestValueType, FoundIsolated
    <2>3. FramesIsolated'
      BY <1>0, <2>1, <2>2, IsolatedReturn
    <2>4. ScopeIsolation'
      BY <1>0, <2>1, <2>2, FoundInstance DEF TypeOK, IsolationInv, ScopeIsolation
    <2>5. QED
      BY <2>3, <2>4 DEF IsolationInv
  <1>8. CASE HandOutTransient(t)
    <2>1. /\ NewInstance("transient", Top(t).uses) \in Instance
          /\ NewInstance("transient", Top(t).uses).uses \subseteq {on[t], Root}
      BY <1>0, FoundInstance, FoundIsolated, NewInstanceType DEF Roles
    <2>2. FramesIsolated'
      BY <1>0, <1>8, <2>1, IsolatedReturn DEF HandOutTransient
    <2>3. QED
      BY <1>8, <2>2 DEF HandOutTransient, IsolationInv, ScopeIsolation
  <1>9. CASE RegisterFactoryValue(t)
    <2>1. NewInstance("factory", Top(t).uses).uses \subseteq {Root}
      BY <1>0, <1>9, FoundInstance, FoundIsolated, NewInstanceType DEF Roles, RegisterFactoryValue
    <2>2. FramesIsolated'
      BY <1>0, <1>9, IsolatedUnwind DEF RegisterFactoryValue
    <2>3. ScopeIsolation'
      BY <1>0, <1>9, <2>1, FoundInstance DEF TypeOK, IsolationInv, ScopeIsolation, RegisterFactoryValue
    <2>4. QED
      BY <2>2, <2>3 DEF IsolationInv
  <1>10. QED
    BY <1>1, <1>2, <1>3, <1>4, <1>5, <1>6, <1>7, <1>8, <1>9 DEF Step

\* No value of one request is ever reachable from another request's scope or
\* from a singleton, for any set of requests, threads, types and factories.
THEOREM Isolation == Spec => []Isolated
  <1>1. Init => IsolationInv
    <2> SUFFICES ASSUME Init PROVE IsolationInv
      OBVIOUS
    <2>1. \A t \in Threads : Len(stack[t]) = 0
      BY DEF Init
    <2>2. QED
      BY <2>1 DEF Init, IsolationInv, ScopeIsolation, FramesIsolated, FactoriesIsolated,
                  FactoriesOnRoot
  <1>2. TypeOK /\ IsolationInv /\ [Next]_vars => IsolationInv'
    <2> SUFFICES ASSUME TypeOK, IsolationInv, [Next]_vars PROVE IsolationInv'
      OBVIOUS
    <2>1. CASE UNCHANGED vars
      BY <2>1 DEF vars, registry, IsolationInv, ScopeIsolation, FramesIsolated,
                  FactoriesIsolated, FactoriesOnRoot
    <2>2. ASSUME NEW t \in Threads, Call(t) \/ Step(t) PROVE IsolationInv'
      BY <2>2, CallIsolation, StepIsolation
    <2>3. QED
      BY <2>1, <2>2 DEF Next
  <1>3. IsolationInv => Isolated
    BY DEF IsolationInv, FramesIsolated, Isolated
  <1>4. QED
    BY TypeCorrect, <1>1, <1>2, <1>3, PTL DEF Spec

-----------------------------------------------------------------------------
(***************************************************************************)
(* Request values are made once, and stay.  A thread works only on an open *)
(* container that it serves; the resolves nested in one another are for    *)
(* types of decreasing rank, hence for different types; and a slot that a  *)
(* request factory is going to fill is empty until it does.                *)
(***************************************************************************)

Scheduled ==
    /\ Root \in opened
    /\ \A t \in Threads : ~Idle(t) => on[t] \in Serves[t] \cap opened

Descending ==
    \A t \in Threads : \A k \in 1..Len(stack[t]) : \A j \in 1..(k - 1) :
        Rank[stack[t][k].type] < Rank[stack[t][j].type]

UnopenedEmpty ==
    \A c \in Containers \ opened, ty \in Types :
        overrides[c][ty] = None /\ made[c][ty] = 0

MadeIsCached ==
    \A c \in Containers, ty \in Types :
        Sole(c) => /\ made[c][ty] <= 1
                   /\ overrides[c][ty] = None => made[c][ty] = 0

\* The resolve in frame k of t has seen its slot empty and may fill it.
Pending(t, k) ==
    \/ stack[t][k].stage \in {"inner", "request"}
    \/ stack[t][k].stage = "build" /\ stack[t][k].role = "request"

PendingIsEmpty ==
    \A t \in Threads : \A k \in 1..Len(stack[t]) :
        Sole(on[t]) /\ Pending(t, k) => overrides[on[t]][stack[t][k].type] = None

OnceInv ==
    /\ Scheduled /\ Descending /\ UnopenedEmpty
    /\ MadeIsCached /\ PendingIsEmpty

\* A step of a resolve moves t's own stack only: on to the next stage, back to
\* the caller, into a dependency, or all the way out.
Advances(t, stage, role) == ~Idle(t) /\ GoTo(t, stage, role)
HandsBack(t) == ~Idle(t) /\ \E i \in Instance : Return(t, i)
Enters(t) ==
    /\ Building(t) /\ DepsLeft(t)
    /\ stack' = [stack EXCEPT ![t] =
                    Append(@, Entering(on[t], Deps[Top(t).type][Top(t).at + 1]))]

LEMMA DependencyType ==
    ASSUME TypeOK, NEW t \in Threads, Building(t), DepsLeft(t)
    PROVE  LET d == Deps[Top(t).type][Top(t).at + 1] IN
           /\ d \in Types
           /\ Rank[d] < Rank[Top(t).type]
           /\ Rank[d] \in Nat /\ Rank[Top(t).type] \in Nat
  <1>1. ~Idle(t) /\ Top(t).type \in Types /\ Top(t).at \in Nat
    BY TopFrame DEF Building, Working, Frame
  <1>2. Deps[Top(t).type] \in Seq(Types)
    BY <1>1, ContainerAssumption
  <1>3. Top(t).at + 1 \in 1..Len(Deps[Top(t).type])
    BY <1>1, <1>2 DEF DepsLeft
  <1>4. QED
    BY <1>1, <1>2, <1>3, ContainerAssumption

\* How the frames of t look after such a step: the frames that remain hold the
\* types they held, and at most one new frame is for a type of lower rank.
LEMMA StepFrames ==
    ASSUME TypeOK, NEW t \in Threads,
           \/ HandsBack(t) \/ Enters(t) \/ Unwind(t)
           \/ \E stage \in Stages, role \in Roles \cup {"lookup"} : Advances(t, stage, role)
    PROVE  /\ \A u \in Threads \ {t} : stack'[u] = stack[u]
           /\ Len(stack'[t]) \in Nat
           /\ stack'[t] \in Seq(Frame)
           /\ \A k \in 1..Len(stack'[t]) : k <= Len(stack[t]) =>
                 stack'[t][k].type = stack[t][k].type
           /\ \A k \in 1..Len(stack'[t]) : k > Len(stack[t]) =>
                 /\ k = Len(stack[t]) + 1
                 /\ Len(stack[t]) > 0
                 /\ stack'[t][k].stage = "overrides"
                 /\ Rank[stack'[t][k].type] < Rank[Top(t).type]
  <1> DEFINE n == Len(stack[t])
  <1>1. n \in Nat
    BY DEF TypeOK
  <1>2. CASE HandsBack(t)
    <2>1. PICK i \in Instance : ~Idle(t) /\ Return(t, i)
      BY <1>2 DEF HandsBack
    <2>2. QED
      BY <1>1, <2>1, TopFrame, ReturnFrames
  <1>3. CASE Enters(t)
    <2> DEFINE d == Deps[Top(t).type][Top(t).at + 1]
               f == Entering(on[t], d)
    <2>1. d \in Types /\ Rank[d] < Rank[Top(t).type]
      BY <1>3, DependencyType DEF Enters
    <2>2. f \in Frame /\ f.type = d /\ f.stage = "overrides"
      BY <2>1, EnteringFrame DEF TypeOK, Entering
    <2>3. stack' = [stack EXCEPT ![t] = Append(stack[t], f)]
      BY <1>3 DEF Enters
    <2>4. n > 0
      BY <1>1, <1>3, TopFrame DEF Enters, Building, Working
    <2> HIDE DEF f, d
    <2>5. /\ stack' \in [Threads -> Seq(Frame)]
          /\ \A u \in Threads \ {t} : stack'[u] = stack[u]
          /\ Len(stack'[t]) = n + 1 /\ stack'[t][n + 1] = f
          /\ \A k \in 1..n : stack'[t][k] = stack[t][k]
      BY <2>2, <2>3, EnterFrames
    <2>6. QED
      BY <1>1, <2>1, <2>2, <2>4, <2>5
  <1>4. CASE Unwind(t)
    BY <1>4, UnwindFrames
  <1>5. ASSUME NEW stage \in Stages, NEW role \in Roles \cup {"lookup"}, Advances(t, stage, role)
        PROVE  /\ \A u \in Threads \ {t} : stack'[u] = stack[u]
               /\ Len(stack'[t]) = n /\ stack'[t] \in Seq(Frame)
               /\ \A k \in 1..n : stack'[t][k].type = stack[t][k].type
    BY <1>1, <1>5, GoToFrames DEF Advances
  <1>6. QED
    BY <1>1, <1>2, <1>3, <1>4, <1>5

LEMMA DescendingKept ==
    ASSUME TypeOK, Descending, NEW t \in Threads,
           \/ HandsBack(t) \/ Enters(t) \/ Unwind(t)
           \/ \E stage \in Stages, role \in Roles \cup {"lookup"} : Advances(t, stage, role)
    PROVE  Descending'
  <1> DEFINE n == Len(stack[t])
  <1>1. n \in Nat /\ \A k \in 1..n : stack[t][k].type \in Types /\ Rank[stack[t][k].type] \in Nat
    <2>1. n \in Nat /\ \A k \in 1..n : stack[t][k] \in Frame
      BY DEF TypeOK
    <2>2. QED
      BY <2>1, ContainerAssumption DEF Frame
  <1> SUFFICES ASSUME NEW u \in Threads, NEW k \in 1..Len(stack'[u]), NEW j \in 1..(k - 1)
               PROVE  Rank[stack'[u][k].type] < Rank[stack'[u][j].type]
    BY DEF Descending
  <1>2. CASE u # t
    BY <1>2, StepFrames DEF Descending
  <1>3. CASE u = t /\ k <= n
    <2>1. k \in 1..n /\ j \in 1..n
      BY <1>1, <1>3, StepFrames
    <2>2. Rank[stack[t][k].type] < Rank[stack[t][j].type]
      BY <2>1 DEF Descending
    <2>3. stack'[t][k].type = stack[t][k].type /\ stack'[t][j].type = stack[t][j].type
      BY <1>3, <2>1, StepFrames
    <2>4. QED
      BY <1>3, <2>2, <2>3
  <1>4. CASE u = t /\ k > n
    <2>1. k = n + 1 /\ n > 0 /\ Rank[stack'[t][k].type] < Rank[Top(t).type]
      BY <1>4, StepFrames
    <2>2. j \in 1..n /\ stack'[t][j].type = stack[t][j].type
      BY <1>1, <1>4, <2>1, StepFrames
    <2>3. stack'[t][k].type \in Types
      <3>1. stack'[t][k] \in Frame
        BY <1>4, StepFrames
      <3>2. QED
        BY <3>1 DEF Frame
    <2>4. Rank[stack[t][n].type] <= Rank[stack[t][j].type]
      <3>1. CASE j = n
        BY <1>1, <2>2, <3>1
      <3>2. CASE j # n
        <4>1. n \in 1..Len(stack[t]) /\ j \in 1..(n - 1)
          BY <1>1, <2>2, <3>2
        <4>2. QED
          BY <1>1, <2>2, <4>1 DEF Descending
      <3>3. QED
        BY <3>1, <3>2
    <2>5. n \in 1..n /\ Top(t) = stack[t][n]
      BY <1>1, <2>1 DEF Top
    <2>6. /\ Rank[stack'[t][k].type] \in Nat /\ Rank[stack[t][n].type] \in Nat
          /\ Rank[stack[t][j].type] \in Nat
      BY <1>1, <2>2, <2>3, <2>5, ContainerAssumption
    <2>7. Rank[stack'[t][k].type] < Rank[stack[t][j].type]
      BY <2>1, <2>4, <2>5, <2>6
    <2>8. QED
      BY <1>4, <2>2, <2>7
  <1>5. QED
    BY <1>1, <1>2, <1>3, <1>4, StepFrames

\* Moving the innermost resolve on keeps PendingIsEmpty if its slot is empty
\* whenever the new stage is one that may fill it.
LEMMA PendingAdvance ==
    ASSUME TypeOK, PendingIsEmpty, NEW t \in Threads, UNCHANGED <<on, overrides>>,
           NEW stage \in Stages, NEW role \in Roles \cup {"lookup"}, Advances(t, stage, role),
           (stage \in {"inner", "request"} \/ (stage = "build" /\ role = "request"))
              /\ Sole(on[t]) => overrides[on[t]][Top(t).type] = None
    PROVE  PendingIsEmpty'
  <1> DEFINE n == Len(stack[t])
  <1>1. ~Idle(t) /\ GoTo(t, stage, role)
    BY DEF Advances
  <1>2. /\ n \in Nat \ {0} /\ Top(t) = stack[t][n]
        /\ \A u \in Threads \ {t} : stack'[u] = stack[u]
        /\ Len(stack'[t]) = n
        /\ \A k \in 1..n : k # n => stack'[t][k] = stack[t][k]
        /\ stack'[t][n].stage = stage /\ stack'[t][n].role = role
        /\ stack'[t][n].type = stack[t][n].type
    BY <1>1, TopFrame, GoToFrames
  <1> SUFFICES ASSUME NEW u \in Threads, NEW k \in 1..Len(stack'[u]),
                      Sole(on[u]), Pending(u, k)'
               PROVE  overrides[on[u]][stack'[u][k].type] = None
    BY DEF PendingIsEmpty, Sole
  <1>3. CASE u = t /\ k = n
    BY <1>2, <1>3 DEF Pending
  <1>4. CASE u # t \/ (u = t /\ k # n)
    BY <1>2, <1>4 DEF Pending, PendingIsEmpty
  <1>5. QED
    BY <1>3, <1>4

\* Returning to the caller keeps it if no other pending slot was filled.
LEMMA PendingReturn ==
    ASSUME TypeOK, NEW t \in Threads, UNCHANGED on, HandsBack(t),
           \A u \in Threads : \A k \in 1..Len(stack[u]) :
               (u # t \/ k < Len(stack[t])) /\ Sole(on[u]) /\ Pending(u, k)
               => overrides'[on[u]][stack[u][k].type] = None
    PROVE  PendingIsEmpty'
  <1> DEFINE n == Len(stack[t])
  <1>1. PICK i \in Instance : ~Idle(t) /\ Return(t, i)
    BY DEF HandsBack
  <1>2. /\ n \in Nat \ {0}
        /\ \A u \in Threads \ {t} : stack'[u] = stack[u]
        /\ Len(stack'[t]) = n - 1
        /\ \A k \in 1..(n - 1) : /\ stack'[t][k].type = stack[t][k].type
                                 /\ stack'[t][k].stage = stack[t][k].stage
                                 /\ stack'[t][k].role = stack[t][k].role
    BY <1>1, TopFrame, ReturnFrames
  <1> SUFFICES ASSUME NEW u \in Threads, NEW k \in 1..Len(stack'[u]),
                      Sole(on[u]), Pending(u, k)'
               PROVE  overrides'[on[u]][stack'[u][k].type] = None
    BY DEF PendingIsEmpty, Sole
  <1>3. CASE u = t
    <2>1. k \in 1..(n - 1) /\ k \in 1..Len(stack[u]) /\ k < Len(stack[t])
      BY <1>2, <1>3
    <2>2. Pending(u, k) /\ stack'[u][k].type = stack[u][k].type
      BY <1>2, <1>3, <2>1 DEF Pending
    <2>3. QED
      BY <2>1, <2>2
  <1>4. CASE u # t
    BY <1>2, <1>4 DEF Pending
  <1>5. QED
    BY <1>3, <1>4

LEMMA PendingEnter ==
    ASSUME TypeOK, PendingIsEmpty, NEW t \in Threads, UNCHANGED <<on, overrides>>,
           Enters(t) \/ Unwind(t)
    PROVE  PendingIsEmpty'
  <1> DEFINE n == Len(stack[t])
  <1>1. n \in Nat
    BY DEF TypeOK
  <1> SUFFICES ASSUME NEW u \in Threads, NEW k \in 1..Len(stack'[u]),
                      Sole(on[u]), Pending(u, k)'
               PROVE  overrides[on[u]][stack'[u][k].type] = None
    BY DEF PendingIsEmpty, Sole
  <1>2. CASE u # t
    BY <1>2, StepFrames DEF Pending, PendingIsEmpty
  <1>3. CASE u = t /\ Unwind(t)
    BY <1>3, UnwindFrames
  <1>4. CASE u = t /\ Enters(t)
    <2> DEFINE f == Entering(on[t], Deps[Top(t).type][Top(t).at + 1])
    <2>1. f \in Frame
      BY <1>4, DependencyType, EnteringFrame DEF Enters, TypeOK
    <2>2. f.stage = "overrides"
      BY DEF Entering
    <2>3. stack' = [stack EXCEPT ![t] = Append(stack[t], f)]
      BY <1>4 DEF Enters
    <2> HIDE DEF f
    <2>4. /\ Len(stack'[t]) = n + 1 /\ stack'[t][n + 1] = f
          /\ \A m \in 1..n : stack'[t][m] = stack[t][m]
      BY <2>1, <2>3, EnterFrames
    <2>5. k # n + 1
      BY <1>4, <2>2, <2>4 DEF Pending
    <2>6. k \in 1..n /\ stack'[t][k] = stack[t][k]
      BY <1>1, <1>4, <2>4, <2>5
    <2>7. QED
      BY <1>4, <2>6 DEF Pending, PendingIsEmpty
  <1>5. QED
    BY <1>2, <1>3, <1>4

\* A step that fills no slot keeps everything but PendingIsEmpty on its own.
LEMMA OnceKept ==
    ASSUME TypeOK, OnceInv, NEW t \in Threads, UNCHANGED <<on, opened, overrides, made>>,
           \/ HandsBack(t) \/ Enters(t) \/ Unwind(t)
           \/ \E stage \in Stages, role \in Roles \cup {"lookup"} : Advances(t, stage, role),
           ~Idle(t)
    PROVE  Scheduled' /\ Descending' /\ UnopenedEmpty' /\ MadeIsCached'
  <1>1. Descending'
    BY DescendingKept DEF OnceInv
  <1>2. Scheduled'
    BY StepFrames DEF OnceInv, Scheduled, Idle
  <1>3. UnopenedEmpty' /\ MadeIsCached'
    BY DEF OnceInv, UnopenedEmpty, MadeIsCached, Sole
  <1>4. QED
    BY <1>1, <1>2, <1>3

LEMMA StepOnce ==
    ASSUME TypeOK, OnceInv, NEW t \in Threads, Step(t)
    PROVE  OnceInv'
  <1> DEFINE n == Len(stack[t])
  <1>0. ~Idle(t) /\ PendingIsEmpty /\ n \in Nat \ {0} /\ Top(t) = stack[t][n]
    BY TopFrame DEF Step, ReadOverrides, ReadInner, ReadRequestFactories, ReadTransientFactories,
           FactoryResolves, FactoryFails, CacheRequestValue, HandOutTransient,
           RegisterFactoryValue, Building, Working, OnceInv
  <1> USE DEF registry
  <1>1. CASE ReadOverrides(t)
    <2>1. UNCHANGED <<on, opened, overrides, made>>
      BY <1>1 DEF ReadOverrides
    <2>2. CASE overrides[on[t]][Top(t).type] # None
      <3>1. HandsBack(t)
        BY <1>0, <1>1, <2>2, FoundInstance DEF ReadOverrides, HandsBack
      <3>2. QED
        BY <1>0, <2>1, <3>1, OnceKept, PendingReturn DEF OnceInv, PendingIsEmpty
    <2>3. CASE overrides[on[t]][Top(t).type] = None
      <3>1. Advances(t, "inner", "lookup")
        BY <1>0, <1>1, <2>3 DEF ReadOverrides, Advances
      <3>2. QED
        BY <1>0, <2>1, <2>3, <3>1, OnceKept, PendingAdvance DEF OnceInv, Stages
    <2>4. QED
      BY <2>2, <2>3
  <1>2. CASE ReadInner(t)
    <2>1. UNCHANGED <<on, opened, overrides, made>>
      BY <1>2 DEF ReadInner
    <2>2. CASE inner[Top(t).type] # None
      <3>1. HandsBack(t)
        BY <1>0, <1>2, <2>2, FoundInstance DEF ReadInner, HandsBack
      <3>2. QED
        BY <1>0, <2>1, <3>1, OnceKept, PendingReturn DEF OnceInv, PendingIsEmpty
    <2>3. CASE inner[Top(t).type] = None
      <3>1. Advances(t, "request", "lookup")
        BY <1>0, <1>2, <2>3 DEF ReadInner, Advances
      <3>2. Sole(on[t]) => overrides[on[t]][Top(t).type] = None
        BY <1>0, <1>2 DEF ReadInner, Working, PendingIsEmpty, Pending
      <3>3. QED
        BY <1>0, <2>1, <3>1, <3>2, OnceKept, PendingAdvance DEF OnceInv, Stages
    <2>4. QED
      BY <2>2, <2>3
  <1>3. CASE ReadRequestFactories(t)
    <2>1. UNCHANGED <<on, opened, overrides, made>>
      BY <1>3 DEF ReadRequestFactories
    <2>2. Sole(on[t]) => overrides[on[t]][Top(t).type] = None
      BY <1>0, <1>3 DEF ReadRequestFactories, Working, PendingIsEmpty, Pending
    <2>3. Advances(t, "build", "request") \/ Advances(t, "transient", "lookup")
      BY <1>0, <1>3 DEF ReadRequestFactories, Advances
    <2>4. QED
      BY <1>0, <2>1, <2>2, <2>3, OnceKept, PendingAdvance DEF OnceInv, Stages, Roles
  <1>4. CASE ReadTransientFactories(t)
    <2>1. UNCHANGED <<on, opened, overrides, made>>
      BY <1>4 DEF ReadTransientFactories
    <2>2. Advances(t, "build", "transient") \/ Unwind(t)
      BY <1>0, <1>4 DEF ReadTransientFactories, Advances
    <2>3. QED
      BY <1>0, <2>1, <2>2, OnceKept, PendingAdvance, PendingEnter DEF OnceInv, Stages, Roles
  <1>5. CASE FactoryResolves(t)
    <2>1. UNCHANGED <<on, opened, overrides, made>> /\ Enters(t)
      BY <1>5 DEF FactoryResolves, Enters
    <2>2. QED
      BY <1>0, <2>1, OnceKept, PendingEnter DEF OnceInv
  <1>6. CASE FactoryFails(t)
    <2>1. UNCHANGED <<on, opened, overrides, made>> /\ Unwind(t)
      BY <1>6 DEF FactoryFails
    <2>2. QED
      BY <1>0, <2>1, OnceKept, PendingEnter DEF OnceInv
  <1>7. CASE CacheRequestValue(t)
    <2> DEFINE c == on[t]
               ty == Top(t).type
    <2>1. /\ Return(t, RequestValue(t))
          /\ overrides' = [overrides EXCEPT ![c][ty] = RequestValue(t)]
          /\ made' = [made EXCEPT ![c][ty] = @ + 1]
          /\ UNCHANGED <<opened, on>>
          /\ Pending(t, n)
      BY <1>0, <1>7 DEF CacheRequestValue, RequestValue, Building, Working, Pending
    <2>2. RequestValue(t) \in Instance /\ RequestValue(t) # None
      BY <1>0, RequestValueType
    <2>3. HandsBack(t) /\ c \in Containers /\ ty \in Types
      BY <1>0, <2>1, <2>2, FoundInstance DEF HandsBack
    <2>4. Descending' /\ Scheduled'
      <3>1. Scheduled'
        BY <1>0, <2>1, <2>3, StepFrames DEF OnceInv, Scheduled, Idle
      <3>2. QED
        BY <2>3, <3>1, DescendingKept DEF OnceInv
    <2>5. UnopenedEmpty'
      BY <1>0, <2>1, <2>3 DEF OnceInv, Scheduled, UnopenedEmpty, TypeOK
    <2>6. MadeIsCached'
      <3>1. Sole(c) => made[c][ty] = 0
        BY <1>0, <2>1, <2>3 DEF PendingIsEmpty, OnceInv, MadeIsCached
      <3> SUFFICES ASSUME NEW d \in Containers, NEW tz \in Types, Sole(d)
                   PROVE  /\ made'[d][tz] <= 1
                          /\ overrides'[d][tz] = None => made'[d][tz] = 0
        BY DEF MadeIsCached, Sole
      <3>2. CASE d = c /\ tz = ty
        <4>1. overrides'[d][tz] = RequestValue(t) /\ made'[d][tz] = made[c][ty] + 1
          BY <2>1, <2>3, <3>2 DEF TypeOK
        <4>2. QED
          BY <2>2, <3>1, <3>2, <4>1
      <3>3. CASE ~(d = c /\ tz = ty)
        <4>1. overrides'[d][tz] = overrides[d][tz] /\ made'[d][tz] = made[d][tz]
          BY <2>1, <3>3 DEF TypeOK
        <4>2. QED
          BY <4>1 DEF OnceInv, MadeIsCached
      <3>4. QED
        BY <3>2, <3>3
    <2>7. ASSUME NEW u \in Threads, NEW k \in 1..Len(stack[u]),
                 u # t \/ k < Len(stack[t]), Sole(on[u]), Pending(u, k)
          PROVE  overrides'[on[u]][stack[u][k].type] = None
      <3>1. overrides[on[u]][stack[u][k].type] = None
        BY <2>7 DEF OnceInv, PendingIsEmpty
      <3>2. on[u] # c \/ stack[u][k].type # ty
        <4>1. CASE u # t
          <5>1. ~Idle(u)
            BY <2>7 DEF Idle
          <5>2. QED
            BY <1>0, <2>7, <4>1, <5>1 DEF OnceInv, Scheduled, Sole
        <4>2. CASE u = t
          <5>1. Rank[stack[t][n].type] < Rank[stack[t][k].type]
            BY <1>0, <2>7, <4>2 DEF OnceInv, Descending
          <5>2. Rank[stack[t][n].type] \in Nat
            BY <1>0, <2>3, ContainerAssumption
          <5>3. QED
            BY <1>0, <4>2, <5>1, <5>2
        <4>3. QED
          BY <4>1, <4>2
      <3>3. on[u] \in Containers /\ stack[u][k].type \in Types
        <4>1. stack[u][k] \in Frame
          BY DEF TypeOK
        <4>2. QED
          BY <4>1 DEF Frame, TypeOK
      <3>4. QED
        BY <2>1, <3>1, <3>2, <3>3 DEF TypeOK
    <2>8. PendingIsEmpty'
      BY <2>1, <2>3, <2>7, PendingReturn
    <2>9. QED
      BY <2>4, <2>5, <2>6, <2>8 DEF OnceInv
  <1>8. CASE HandOutTransient(t)
    <2>1. UNCHANGED <<on, opened, overrides, made>> /\ HandsBack(t)
      BY <1>0, <1>8, FoundInstance, NewInstanceType DEF HandOutTransient, HandsBack, Roles
    <2>2. QED
      BY <1>0, <2>1, OnceKept, PendingReturn DEF OnceInv, PendingIsEmpty
  <1>9. CASE RegisterFactoryValue(t)
    <2>1. UNCHANGED <<on, opened, overrides, made>> /\ Unwind(t)
      BY <1>9 DEF RegisterFactoryValue
    <2>2. QED
      BY <1>0, <2>1, OnceKept, PendingEnter DEF OnceInv
  <1>10. QED
    BY <1>1, <1>2, <1>3, <1>4, <1>5, <1>6, <1>7, <1>8, <1>9 DEF Step

\* What an idle thread does between calls leaves the running resolves alone,
\* unless another thread shares the container, which Sole excludes.
LEMMA CallOnce ==
    ASSUME TypeOK, OnceInv, NEW t \in Threads, Call(t)
    PROVE  OnceInv'
  <1> USE DEF registry
  <1>1. ASSUME NEW s \in Scopes, Scoped(t, s)
        PROVE  OnceInv'
    <2>1. /\ s \notin opened /\ opened' = opened \cup {s}
          /\ overrides' = [overrides EXCEPT ![s] = [ty \in Types |-> None]]
          /\ UNCHANGED <<on, stack, made>>
      BY <1>1 DEF Scoped
    <2>2. s \in Containers /\ \A ty \in Types : overrides[s][ty] = None /\ made[s][ty] = 0
      BY <2>1 DEF OnceInv, UnopenedEmpty, Containers
    <2>3. \A c \in Containers, ty \in Types : overrides'[c][ty] = overrides[c][ty]
      BY <2>1, <2>2 DEF TypeOK
    <2>4. Scheduled' /\ Descending' /\ UnopenedEmpty' /\ MadeIsCached'
      BY <2>1, <2>3 DEF OnceInv, Scheduled, Descending, UnopenedEmpty, MadeIsCached, Idle, Sole
    <2>5. PendingIsEmpty'
      <3> SUFFICES ASSUME NEW u \in Threads, NEW k \in 1..Len(stack[u]),
                          Sole(on[u]), Pending(u, k)
                   PROVE  overrides'[on[u]][stack[u][k].type] = None
        BY <2>1 DEF PendingIsEmpty, Pending, Sole
      <3>1. on[u] \in Containers /\ stack[u][k] \in Frame
        BY DEF TypeOK
      <3>2. QED
        BY <2>3, <3>1 DEF OnceInv, PendingIsEmpty, Frame
    <2>6. QED
      BY <2>4, <2>5 DEF OnceInv
  <1>2. ASSUME NEW ty \in Types,
               \/ Register(t, ty) \/ Replace(t, ty)
               \/ RegisterRequestFactory(t, ty) \/ RegisterTransientFactory(t, ty)
        PROVE  OnceInv'
    <2>1. UNCHANGED <<overrides, opened, on, stack, made>>
      BY <1>2 DEF Register, Replace, RegisterRequestFactory, RegisterTransientFactory
    <2>2. QED
      BY <2>1 DEF OnceInv, Scheduled, Descending, UnopenedEmpty, MadeIsCached,
                  PendingIsEmpty, Pending, Idle, Sole
  <1>3. ASSUME NEW c \in Containers, NEW f \in Frame, c \in Serves[t] \cap opened,
               f.stage = "overrides" \/ (f.stage = "build" /\ f.role = "factory"),
               on' = [on EXCEPT ![t] = c], stack' = [stack EXCEPT ![t] = <<f>>],
               UNCHANGED <<overrides, opened, made>>
        PROVE  OnceInv'
    <2>1. /\ \A u \in Threads \ {t} : stack'[u] = stack[u] /\ on'[u] = on[u]
          /\ Len(stack'[t]) = 1 /\ stack'[t][1] = f /\ on'[t] = c
      BY <1>3, StartFrames
    <2>2. Scheduled' /\ UnopenedEmpty' /\ MadeIsCached'
      BY <1>3, <2>1 DEF OnceInv, Scheduled, UnopenedEmpty, MadeIsCached, Idle, Sole
    <2>3. Descending'
      BY <2>1 DEF OnceInv, Descending
    <2>4. PendingIsEmpty'
      BY <1>3, <2>1 DEF OnceInv, PendingIsEmpty, Pending, Sole
    <2>5. QED
      BY <2>2, <2>3, <2>4 DEF OnceInv
  <1>4. ASSUME NEW ty \in Types, StartFactoryProvider(t, ty)
        PROVE  OnceInv'
    <2> DEFINE f == [Entering(Root, ty) EXCEPT !.stage = "build", !.role = "factory"]
    <2>1. f \in Frame /\ f.stage = "build" /\ f.role = "factory"
      BY EnteringFrame DEF Containers, Entering, Frame, Stages, Roles
    <2>2. Root \in Containers /\ Root \in Serves[t] \cap opened
      BY <1>4 DEF StartFactoryProvider, Registering, OnceInv, Scheduled, Containers
    <2>3. /\ on' = [on EXCEPT ![t] = Root] /\ stack' = [stack EXCEPT ![t] = <<f>>]
          /\ UNCHANGED <<overrides, opened, made>>
      BY <1>4 DEF StartFactoryProvider
    <2> HIDE DEF f
    <2>4. QED
      BY <1>3, <2>1, <2>2, <2>3
  <1>5. ASSUME NEW ty \in Types, NEW c \in Containers, OverrideValue(t, c, ty)
        PROVE  OnceInv'
    <2> DEFINE i == NewInstance("override", {c})
    <2>1. i # None
      BY NewInstanceType DEF Roles
    <2>2. /\ Idle(t) /\ c \in Serves[t] \cap opened
          /\ overrides' = [overrides EXCEPT ![c][ty] = i]
          /\ UNCHANGED <<opened, on, stack, made>>
      BY <1>5 DEF OverrideValue
    <2> HIDE DEF i
    <2>3. \A d \in Containers, tz \in Types :
              overrides'[d][tz] = IF d = c /\ tz = ty THEN i ELSE overrides[d][tz]
      BY <2>2 DEF TypeOK
    <2>4. Scheduled' /\ Descending' /\ UnopenedEmpty' /\ MadeIsCached'
      BY <2>1, <2>2, <2>3
      DEF OnceInv, Scheduled, Descending, UnopenedEmpty, MadeIsCached, Idle, Sole
    <2>5. PendingIsEmpty'
      <3> SUFFICES ASSUME NEW u \in Threads, NEW k \in 1..Len(stack[u]),
                          Sole(on[u]), Pending(u, k)
                   PROVE  overrides'[on[u]][stack[u][k].type] = None
        BY <2>2 DEF PendingIsEmpty, Pending, Sole
      <3>1. on[u] \in Containers /\ stack[u][k].type \in Types
        <4>1. stack[u][k] \in Frame
          BY DEF TypeOK
        <4>2. QED
          BY <4>1 DEF Frame, TypeOK
      <3>2. ~Idle(u) /\ on[u] \in Serves[u]
        BY DEF Idle, OnceInv, Scheduled
      <3>3. on[u] # c
        BY <2>2, <3>2 DEF Sole
      <3>4. QED
        BY <2>3, <3>1, <3>3 DEF OnceInv, PendingIsEmpty
    <2>6. QED
      BY <2>4, <2>5 DEF OnceInv
  <1>6. ASSUME NEW ty \in Types, NEW c \in Containers, StartResolve(t, c, ty)
        PROVE  OnceInv'
    <2> DEFINE f == Entering(c, ty)
    <2>1. f \in Frame /\ f.stage = "overrides"
      BY EnteringFrame DEF Entering
    <2>2. /\ c \in Serves[t] \cap opened
          /\ on' = [on EXCEPT ![t] = c] /\ stack' = [stack EXCEPT ![t] = <<f>>]
          /\ UNCHANGED <<overrides, opened, made>>
      BY <1>6 DEF StartResolve
    <2> HIDE DEF f
    <2>3. QED
      BY <1>3, <2>1, <2>2
  <1>7. QED
    BY <1>1, <1>2, <1>4, <1>5, <1>6 DEF Call

LEMMA OnceInvariant == Spec => []OnceInv
  <1>1. Init => OnceInv
    <2> SUFFICES ASSUME Init PROVE OnceInv
      OBVIOUS
    <2>1. \A t \in Threads : Len(stack[t]) = 0 /\ Idle(t)
      BY DEF Init, Idle
    <2>2. QED
      BY <2>1 DEF Init, OnceInv, Scheduled, Descending, UnopenedEmpty, MadeIsCached, PendingIsEmpty
  <1>2. TypeOK /\ OnceInv /\ [Next]_vars => OnceInv'
    <2> SUFFICES ASSUME TypeOK, OnceInv, [Next]_vars PROVE OnceInv'
      OBVIOUS
    <2>1. CASE UNCHANGED vars
      BY <2>1 DEF vars, registry, OnceInv, Scheduled, Descending, UnopenedEmpty, MadeIsCached,
                  PendingIsEmpty, Pending, Idle, Sole
    <2>2. ASSUME NEW t \in Threads, Call(t) \/ Step(t) PROVE OnceInv'
      BY <2>2, CallOnce, StepOnce
    <2>3. QED
      BY <2>1, <2>2 DEF Next
  <1>3. QED
    BY TypeCorrect, <1>1, <1>2, PTL DEF Spec

\* A container that one task works on never makes two values of one request-
\* scoped type, however its resolves nest, fail and are repeated.
THEOREM MadeOnce == Spec => []MadeOncePerSoleScope
  <1>1. OnceInv => MadeOncePerSoleScope
    BY DEF OnceInv, MadeIsCached, MadeOncePerSoleScope
  <1>2. QED
    BY OnceInvariant, <1>1, PTL

\* There, a private value gives way only to an explicit override.
THEOREM CachedValuesStay == Spec => CachedStays
  <1> DEFINE A == \A c \in Containers, ty \in Types :
                      /\ Sole(c)
                      /\ overrides[c][ty] # None
                      /\ overrides'[c][ty] # overrides[c][ty]
                      => overrides'[c][ty].role = "override"
  <1>1. TypeOK /\ OnceInv /\ [Next]_vars => [A]_overrides
    <2> SUFFICES ASSUME TypeOK, OnceInv, Next, NEW d \in Containers, NEW tz \in Types,
                        Sole(d), overrides[d][tz] # None, overrides'[d][tz] # overrides[d][tz]
                 PROVE  overrides'[d][tz].role = "override"
      BY DEF vars
    <2>1. PICK t \in Threads : Call(t) \/ Step(t)
      BY DEF Next
    <2>2. CASE Call(t)
      <3>1. ASSUME NEW s \in Scopes, Scoped(t, s) PROVE FALSE
        BY <3>1 DEF Scoped, TypeOK, OnceInv, UnopenedEmpty, Containers
      <3>2. ASSUME NEW ty \in Types, NEW c \in Containers, OverrideValue(t, c, ty)
            PROVE  overrides'[d][tz].role = "override"
        <4>1. overrides' = [overrides EXCEPT ![c][ty] = NewInstance("override", {c})]
          BY <3>2 DEF OverrideValue
        <4>2. NewInstance("override", {c}).role = "override"
          BY DEF NewInstance
        <4>3. QED
          BY <4>1, <4>2 DEF TypeOK
      <3>3. QED
        BY <2>2, <3>1, <3>2 DEF Call, Register, Replace, RegisterRequestFactory,
           RegisterTransientFactory, StartFactoryProvider, StartResolve
    <2>3. CASE Step(t)
      <3>1. CacheRequestValue(t)
        BY <2>3 DEF Step, ReadOverrides, ReadInner, ReadRequestFactories, ReadTransientFactories,
           FactoryResolves, FactoryFails, HandOutTransient, RegisterFactoryValue
      <3>2. ~Idle(t) /\ Pending(t, Len(stack[t])) /\ Top(t) = stack[t][Len(stack[t])]
        BY <3>1 DEF CacheRequestValue, Building, Working, Pending, Top
      <3>3. overrides' = [overrides EXCEPT ![on[t]][Top(t).type] = RequestValue(t)]
        BY <3>1 DEF CacheRequestValue, RequestValue
      <3>4. d = on[t] /\ tz = Top(t).type
        BY <3>3 DEF TypeOK
      <3>5. overrides[d][tz] = None
        BY <3>2, <3>4, TopFrame DEF OnceInv, PendingIsEmpty
      <3>6. QED
        BY <3>5
    <2>4. QED
      BY <2>1, <2>2, <2>3
  <1>2. QED
    BY TypeCorrect, OnceInvariant, <1>1, PTL DEF Spec, CachedStays

-----------------------------------------------------------------------------
(***************************************************************************)
(* A known type is found.  The four maps are read one after the other, but *)
(* no step takes a type out of one: what the maps not yet searched hold    *)
(* can only grow, so a type that was somewhere when the resolve started is *)
(* still ahead of it or has been found.                                    *)
(***************************************************************************)

\* The maps that a resolve at this stage has still to search hold the type.
Ahead(stage, c, ty) ==
    /\ stage = "overrides" => Visible(c, ty)
    /\ stage = "inner" => inner[ty] # None \/ ty \in requestFactories \cup transientFactories
    /\ stage = "request" => ty \in requestFactories \cup transientFactories
    /\ stage = "transient" => ty \in transientFactories

KnownAhead ==
    \A t \in Threads : \A k \in 1..Len(stack[t]) :
        stack[t][k].known => Ahead(stack[t][k].stage, on[t], stack[t][k].type)

MapsGrow ==
    /\ \A ty \in Types : inner[ty] # None => inner'[ty] # None
    /\ \A c \in Containers, ty \in Types :
          overrides[c][ty] # None => overrides'[c][ty] # None
    /\ requestFactories \subseteq requestFactories'
    /\ transientFactories \subseteq transientFactories'

LEMMA CallGrows ==
    ASSUME TypeOK, OnceInv, NEW t \in Threads, Call(t)
    PROVE  MapsGrow
  <1> USE DEF registry
  <1>1. ASSUME NEW s \in Scopes, Scoped(t, s) PROVE MapsGrow
    BY <1>1 DEF Scoped, MapsGrow, TypeOK, OnceInv, UnopenedEmpty
  <1>2. ASSUME NEW ty \in Types, Register(t, ty) \/ Replace(t, ty) PROVE MapsGrow
    <2>1. NewInstance("value", {}) # None
      BY NewInstanceType DEF Roles
    <2>2. /\ inner' = [inner EXCEPT ![ty] = NewInstance("value", {})]
          /\ UNCHANGED <<requestFactories, transientFactories, overrides>>
      BY <1>2 DEF Register, Replace
    <2>3. QED
      BY <2>1, <2>2 DEF TypeOK, MapsGrow
  <1>3. ASSUME NEW ty \in Types, NEW c \in Containers, OverrideValue(t, c, ty) PROVE MapsGrow
    <2>1. NewInstance("override", {c}) # None
      BY NewInstanceType DEF Roles
    <2>2. QED
      BY <1>3, <2>1 DEF OverrideValue, TypeOK, MapsGrow
  <1>4. ASSUME NEW ty \in Types,
               RegisterRequestFactory(t, ty) \/ RegisterTransientFactory(t, ty)
        PROVE  MapsGrow
    BY <1>4 DEF RegisterRequestFactory, RegisterTransientFactory, MapsGrow
  <1>5. ASSUME NEW ty \in Types,
               \/ StartFactoryProvider(t, ty)
               \/ \E c \in Containers : StartResolve(t, c, ty)
        PROVE  MapsGrow
    BY <1>5 DEF StartFactoryProvider, StartResolve, MapsGrow
  <1>6. QED
    BY <1>1, <1>2, <1>3, <1>4, <1>5 DEF Call

LEMMA StepGrows ==
    ASSUME TypeOK, NEW t \in Threads, Step(t)
    PROVE  MapsGrow
  <1> USE DEF registry
  <1>1. CASE CacheRequestValue(t)
    <2>1. RequestValue(t) # None
      BY <1>1, RequestValueType DEF CacheRequestValue, Building, Working
    <2>2. /\ overrides' = [overrides EXCEPT ![on[t]][Top(t).type] = RequestValue(t)]
          /\ UNCHANGED registry
      BY <1>1 DEF CacheRequestValue, RequestValue
    <2>3. QED
      BY <2>1, <2>2 DEF TypeOK, MapsGrow
  <1>2. CASE RegisterFactoryValue(t)
    <2>1. NewInstance("factory", Top(t).uses) # None
      BY <1>2, FoundInstance, NewInstanceType DEF Roles, RegisterFactoryValue, Building, Working
    <2>2. QED
      BY <1>2, <2>1 DEF RegisterFactoryValue, TypeOK, MapsGrow
  <1>3. QED
    BY <1>1, <1>2 DEF Step, ReadOverrides, ReadInner, ReadRequestFactories, ReadTransientFactories,
       FactoryResolves, FactoryFails, HandOutTransient, MapsGrow

\* What is ahead of a resolve stays ahead while it waits.
LEMMA AheadKept ==
    ASSUME TypeOK, KnownAhead, MapsGrow, NEW t \in Threads, NEW k \in 1..Len(stack[t]),
           on'[t] = on[t], stack'[t][k].type = stack[t][k].type,
           stack'[t][k].stage = stack[t][k].stage, stack'[t][k].known = stack[t][k].known,
           stack'[t][k].known
    PROVE  Ahead(stack[t][k].stage, on[t], stack[t][k].type)'
  <1>1. stack[t][k] \in Frame
    BY DEF TypeOK
  <1>2. stack[t][k].type \in Types /\ on[t] \in Containers
    BY <1>1 DEF Frame, TypeOK
  <1>3. Ahead(stack[t][k].stage, on[t], stack[t][k].type)
    BY DEF KnownAhead
  <1>4. QED
    BY <1>2, <1>3 DEF Ahead, Visible, MapsGrow

\* The other threads' resolves only wait while t moves.
LEMMA OthersAhead ==
    ASSUME TypeOK, KnownAhead, MapsGrow, NEW t \in Threads,
           \A u \in Threads \ {t} : stack'[u] = stack[u] /\ on'[u] = on[u],
           \A k \in 1..Len(stack'[t]) :
               stack'[t][k].known => Ahead(stack[t][k].stage, on[t], stack[t][k].type)'
    PROVE  KnownAhead'
  BY AheadKept DEF KnownAhead

LEMMA AheadGoTo ==
    ASSUME TypeOK, KnownAhead, MapsGrow, NEW t \in Threads, ~Idle(t), UNCHANGED on,
           NEW stage \in Stages, NEW role \in Roles \cup {"lookup"}, GoTo(t, stage, role),
           Top(t).known => Ahead(stage, on[t], Top(t).type)
    PROVE  KnownAhead'
  <1> DEFINE n == Len(stack[t])
  <1>1. /\ n \in Nat \ {0} /\ Top(t) = stack[t][n]
        /\ Top(t).type \in Types /\ on[t] \in Containers
    BY TopFrame, FoundInstance
  <1>2. /\ \A u \in Threads \ {t} : stack'[u] = stack[u]
        /\ Len(stack'[t]) = n
        /\ \A k \in 1..n : k # n => stack'[t][k] = stack[t][k]
        /\ stack'[t][n].stage = stage
        /\ stack'[t][n].type = stack[t][n].type
        /\ stack'[t][n].known = stack[t][n].known
    BY GoToFrames
  <1>3. ASSUME NEW k \in 1..n, stack'[t][k].known
        PROVE  Ahead(stack[t][k].stage, on[t], stack[t][k].type)'
    <2>1. CASE k # n
      BY <1>2, <1>3, <2>1, AheadKept
    <2>2. CASE k = n
      BY <1>1, <1>2, <1>3, <2>2 DEF Ahead, Visible, MapsGrow
    <2>3. QED
      BY <2>1, <2>2
  <1>4. QED
    BY <1>2, <1>3, OthersAhead

LEMMA AheadReturn ==
    ASSUME TypeOK, KnownAhead, MapsGrow, NEW t \in Threads, ~Idle(t), UNCHANGED on,
           NEW i \in Instance, Return(t, i)
    PROVE  KnownAhead'
  <1> DEFINE n == Len(stack[t])
  <1>1. n \in Nat \ {0}
    BY TopFrame
  <1>2. /\ \A u \in Threads \ {t} : stack'[u] = stack[u]
        /\ Len(stack'[t]) = n - 1
        /\ \A k \in 1..(n - 1) : /\ stack'[t][k].type = stack[t][k].type
                                 /\ stack'[t][k].stage = stack[t][k].stage
                                 /\ stack'[t][k].known = stack[t][k].known
    BY ReturnFrames
  <1>3. ASSUME NEW k \in 1..(n - 1), stack'[t][k].known
        PROVE  Ahead(stack[t][k].stage, on[t], stack[t][k].type)'
    <2>1. k \in 1..n
      BY <1>1
    <2>2. QED
      BY <1>2, <1>3, <2>1, AheadKept
  <1>4. QED
    BY <1>2, <1>3, OthersAhead

LEMMA AheadEnter ==
    ASSUME TypeOK, KnownAhead, MapsGrow, NEW t \in Threads, Enters(t),
           UNCHANGED <<on, registry, overrides>>
    PROVE  KnownAhead'
  <1> DEFINE n == Len(stack[t])
             d == Deps[Top(t).type][Top(t).at + 1]
             f == Entering(on[t], d)
  <1>1. n \in Nat /\ d \in Types
    BY DependencyType DEF Enters, TypeOK
  <1>2. f \in Frame
    BY <1>1, EnteringFrame DEF TypeOK
  <1>3. f.known => Ahead(f.stage, on[t], f.type)
    BY DEF Entering, Ahead
  <1>4. stack' = [stack EXCEPT ![t] = Append(stack[t], f)]
    BY DEF Enters
  <1> HIDE DEF f
  <1>5. /\ \A u \in Threads \ {t} : stack'[u] = stack[u]
        /\ Len(stack'[t]) = n + 1 /\ stack'[t][n + 1] = f
        /\ \A k \in 1..n : stack'[t][k] = stack[t][k]
    BY <1>2, <1>4, EnterFrames
  <1>6. ASSUME NEW k \in 1..(n + 1), stack'[t][k].known
        PROVE  Ahead(stack[t][k].stage, on[t], stack[t][k].type)'
    <2>1. CASE k \in 1..n
      BY <1>5, <1>6, <2>1, AheadKept
    <2>2. CASE k = n + 1
      BY <1>3, <1>5, <1>6, <2>2 DEF Ahead, Visible, registry
    <2>3. QED
      BY <1>1, <2>1, <2>2
  <1>7. QED
    BY <1>5, <1>6, OthersAhead

LEMMA AheadUnwind ==
    ASSUME TypeOK, KnownAhead, MapsGrow, NEW t \in Threads, UNCHANGED on, Unwind(t)
    PROVE  KnownAhead'
  <1>1. \A k \in 1..Len(stack'[t]) : FALSE
    BY UnwindFrames
  <1>2. QED
    BY <1>1, UnwindFrames, OthersAhead

LEMMA CallAhead ==
    ASSUME TypeOK, OnceInv, KnownAhead, NEW t \in Threads, Call(t)
    PROVE  KnownAhead'
  <1>1. MapsGrow
    BY CallGrows
  <1>2. ASSUME UNCHANGED <<on, stack>> PROVE KnownAhead'
    BY <1>1, <1>2, AheadKept DEF KnownAhead
  <1>3. ASSUME NEW c, NEW f,
               on' = [on EXCEPT ![t] = c], stack' = [stack EXCEPT ![t] = <<f>>],
               f.known => Ahead(f.stage, c, f.type), UNCHANGED <<registry, overrides>>
        PROVE  KnownAhead'
    <2>1. /\ \A u \in Threads \ {t} : stack'[u] = stack[u] /\ on'[u] = on[u]
          /\ Len(stack'[t]) = 1 /\ stack'[t][1] = f /\ on'[t] = c
      BY <1>3, StartFrames
    <2>2. ASSUME NEW k \in 1..1, stack'[t][k].known
          PROVE  Ahead(stack[t][k].stage, on[t], stack[t][k].type)'
      <3>1. k = 1
        OBVIOUS
      <3>2. QED
        BY <1>3, <2>1, <2>2, <3>1 DEF Ahead, Visible, registry
    <2>3. QED
      BY <1>1, <2>1, <2>2, OthersAhead
  <1>4. ASSUME NEW ty \in Types, StartFactoryProvider(t, ty) PROVE KnownAhead'
    <2> DEFINE f == [Entering(Root, ty) EXCEPT !.stage = "build", !.role = "factory"]
    <2>1. f.known => Ahead(f.stage, Root, f.type)
      BY DEF Entering, Ahead
    <2>2. /\ on' = [on EXCEPT ![t] = Root] /\ stack' = [stack EXCEPT ![t] = <<f>>]
          /\ UNCHANGED <<registry, overrides>>
      BY <1>4 DEF StartFactoryProvider
    <2> HIDE DEF f
    <2>3. QED
      BY <1>3, <2>1, <2>2
  <1>5. ASSUME NEW ty \in Types, NEW c \in Containers, StartResolve(t, c, ty) PROVE KnownAhead'
    <2> DEFINE f == Entering(c, ty)
    <2>1. f.known => Ahead(f.stage, c, f.type)
      BY DEF Entering, Ahead
    <2>2. /\ on' = [on EXCEPT ![t] = c] /\ stack' = [stack EXCEPT ![t] = <<f>>]
          /\ UNCHANGED <<registry, overrides>>
      BY <1>5 DEF StartResolve
    <2> HIDE DEF f
    <2>3. QED
      BY <1>3, <2>1, <2>2
  <1>6. QED
    BY <1>2, <1>4, <1>5 DEF Call, Scoped, Register, Replace, OverrideValue,
       RegisterRequestFactory, RegisterTransientFactory

LEMMA StepAhead ==
    ASSUME TypeOK, KnownAhead, NEW t \in Threads, Step(t)
    PROVE  KnownAhead'
  <1> DEFINE n == Len(stack[t])
  <1>1. ~Idle(t) /\ MapsGrow /\ UNCHANGED on
    BY StepGrows DEF Step, ReadOverrides, ReadInner, ReadRequestFactories, ReadTransientFactories,
       FactoryResolves, FactoryFails, CacheRequestValue, HandOutTransient,
       RegisterFactoryValue, Building, Working
  <1>2. Top(t).known => Ahead(Top(t).stage, on[t], Top(t).type)
    <2>1. n \in Nat \ {0} /\ Top(t) = stack[t][n]
      BY <1>1, TopFrame
    <2>2. QED
      BY <2>1 DEF KnownAhead
  <1>3. CASE ReadOverrides(t)
    <2>1. CASE overrides[on[t]][Top(t).type] # None
      BY <1>1, <1>3, <2>1, FoundInstance, AheadReturn DEF ReadOverrides
    <2>2. CASE overrides[on[t]][Top(t).type] = None
      <3>1. Top(t).known => Ahead("inner", on[t], Top(t).type)
        BY <1>2, <1>3, <2>2 DEF ReadOverrides, Working, Ahead, Visible
      <3>2. QED
        BY <1>1, <1>3, <2>2, <3>1, AheadGoTo DEF ReadOverrides, Stages
    <2>3. QED
      BY <2>1, <2>2
  <1>4. CASE ReadInner(t)
    <2>1. CASE inner[Top(t).type] # None
      BY <1>1, <1>4, <2>1, FoundInstance, AheadReturn DEF ReadInner
    <2>2. CASE inner[Top(t).type] = None
      <3>1. Top(t).known => Ahead("request", on[t], Top(t).type)
        BY <1>2, <1>4, <2>2 DEF ReadInner, Working, Ahead
      <3>2. QED
        BY <1>1, <1>4, <2>2, <3>1, AheadGoTo DEF ReadInner, Stages
    <2>3. QED
      BY <2>1, <2>2
  <1>5. CASE ReadRequestFactories(t)
    <2>1. CASE Top(t).type \in requestFactories
      <3>1. Ahead("build", on[t], Top(t).type)
        BY DEF Ahead
      <3>2. QED
        BY <1>1, <1>5, <2>1, <3>1, AheadGoTo DEF ReadRequestFactories, Stages, Roles
    <2>2. CASE Top(t).type \notin requestFactories
      <3>1. Top(t).known => Ahead("transient", on[t], Top(t).type)
        BY <1>2, <1>5, <2>2 DEF ReadRequestFactories, Working, Ahead
      <3>2. QED
        BY <1>1, <1>5, <2>2, <3>1, AheadGoTo DEF ReadRequestFactories, Stages, Roles
    <2>3. QED
      BY <2>1, <2>2
  <1>6. CASE ReadTransientFactories(t)
    <2>1. Ahead("build", on[t], Top(t).type)
      BY DEF Ahead
    <2>2. QED
      BY <1>1, <1>6, <2>1, AheadGoTo, AheadUnwind DEF ReadTransientFactories, Stages, Roles
  <1>7. CASE FactoryResolves(t)
    BY <1>1, <1>7, AheadEnter DEF FactoryResolves, Enters
  <1>8. CASE FactoryFails(t) \/ RegisterFactoryValue(t)
    BY <1>1, <1>8, AheadUnwind DEF FactoryFails, RegisterFactoryValue
  <1>9. CASE CacheRequestValue(t)
    <2>1. Return(t, RequestValue(t))
      BY <1>9 DEF CacheRequestValue, RequestValue
    <2>2. QED
      BY <1>1, <2>1, RequestValueType, AheadReturn
  <1>10. CASE HandOutTransient(t)
    <2>1. NewInstance("transient", Top(t).uses) \in Instance
      BY <1>1, FoundInstance, NewInstanceType DEF Roles
    <2>2. QED
      BY <1>1, <1>10, <2>1, AheadReturn DEF HandOutTransient
  <1>11. QED
    BY <1>3, <1>4, <1>5, <1>6, <1>7, <1>8, <1>9, <1>10 DEF Step

\* A type that was registered when a resolve of it started is never reported
\* as unknown, whatever other threads register and replace in the meantime.
THEOREM KnownFound == Spec => []KnownIsFound
  <1>1. Init => KnownAhead
    <2> SUFFICES ASSUME Init PROVE KnownAhead
      OBVIOUS
    <2>1. \A t \in Threads : Len(stack[t]) = 0
      BY DEF Init
    <2>2. QED
      BY <2>1 DEF KnownAhead
  <1>2. TypeOK /\ OnceInv /\ KnownAhead /\ [Next]_vars => KnownAhead'
    <2> SUFFICES ASSUME TypeOK, OnceInv, KnownAhead, [Next]_vars PROVE KnownAhead'
      OBVIOUS
    <2>1. CASE UNCHANGED vars
      BY <2>1 DEF vars, registry, KnownAhead, Ahead, Visible
    <2>2. ASSUME NEW t \in Threads, Call(t) \/ Step(t) PROVE KnownAhead'
      BY <2>2, CallAhead, StepAhead
    <2>3. QED
      BY <2>1, <2>2 DEF Next
  <1>3. TypeOK /\ KnownAhead => KnownIsFound
    <2> SUFFICES ASSUME TypeOK, KnownAhead, NEW t \in Threads,
                        Working(t, "transient"), Top(t).known
                 PROVE  Top(t).type \in transientFactories
      BY DEF KnownIsFound
    <2>1. Len(stack[t]) \in Nat \ {0} /\ Top(t) = stack[t][Len(stack[t])]
      BY TopFrame DEF Working
    <2>2. Ahead(Top(t).stage, on[t], Top(t).type)
      BY <2>1 DEF KnownAhead
    <2>3. QED
      BY <2>2 DEF Working, Ahead
  <1>4. QED
    BY TypeCorrect, OnceInvariant, <1>1, <1>2, <1>3, PTL DEF Spec

=============================================================================
