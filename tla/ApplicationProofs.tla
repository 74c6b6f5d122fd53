-------------------------- MODULE ApplicationProofs --------------------------
(***************************************************************************)
(* Theorems about ModuleGraph and Application for every value of their     *)
(* constants: any graph of imports, any providers, any lists of hooks.     *)
(***************************************************************************)
EXTENDS Application, SequenceTheorems, TLAPS

-----------------------------------------------------------------------------
(***************************************************************************)
(* The inductive invariant of the walk: what the running calls have done,  *)
(* frame by frame, and what the modules that contributed left behind.      *)
(***************************************************************************)

ImportsOf(i) == modules[calls[i].ref].imports
ProvidersOf(i) == modules[calls[i].ref].providers

\* A call has registered nothing while an import of its module is visited, and
\* each import it is past has been visited, but for the one of the next call.
FrameOK(i) ==
    /\ calls[i].imported <= Len(ImportsOf(i))
    /\ calls[i].provided <= Len(ProvidersOf(i))
    /\ calls[i].provided > 0 => /\ walk = "register"
                                /\ i = Len(calls)
                                /\ calls[i].imported = Len(ImportsOf(i))
    /\ \A k \in 1..calls[i].imported :
          \/ Name[ImportsOf(i)[k]] \in visited
          \/ i < Len(calls) /\ ImportsOf(i)[k] = calls[i + 1].ref

\* The calls go down a path of the graph that meets no name twice.
CallsOK ==
    /\ calls # <<>> => calls[1].ref = AppModule
    /\ \A i \in 1..Len(calls) : FrameOK(i)
    /\ \A i, j \in 1..Len(calls) : i < j => calls[j].ref \in Dependencies(calls[i].ref)
    /\ \A i, j \in 1..Len(calls) : Name[calls[i].ref] = Name[calls[j].ref] => i = j
    /\ \A n : n \in visiting <=> \E i \in 1..Len(calls) : n = Name[calls[i].ref]
    /\ visiting \cap visited = {}

CollectedOK ==
    /\ \A n : n \in visited <=> \E i \in 1..Len(collected) : n = Name[collected[i]]
    /\ \A i \in 1..Len(collected) : collected[i] \in {AppModule} \cup Dependencies(AppModule)
    /\ ImportsFirst
    /\ ContributesOnce

\* What the container holds comes from a module that contributed, or from the
\* call that registers.
ProvidedBy(i, ty) == \E k \in 1..calls[i].provided : ty = ProvidersOf(i)[k]
SingletonsOK ==
    walk = "register" =>
        \A ty : ty \in singletons <=>
            \/ \E i \in 1..Len(collected) : ty \in Provided(collected[i])
            \/ calls # <<>> /\ ProvidedBy(Len(calls), ty)

OutcomeOK ==
    /\ outcome = "walking" => calls # <<>>
    /\ outcome = "done" => /\ calls = <<>>
                           /\ \E i \in 1..Len(collected) : collected[i] = AppModule
    /\ WellFormedStarts

GraphInv == TypeOK /\ CallsOK /\ CollectedOK /\ SingletonsOK /\ OutcomeOK

-----------------------------------------------------------------------------
(***************************************************************************)
(* What a module depends on is the least set that holds its imports and    *)
(* those of its members.                                                   *)
(***************************************************************************)

LEMMA DependenciesAreClosed ==
    ASSUME modules \in [Refs -> ModuleRef], NEW r \in Refs
    PROVE  /\ Imported(r) \subseteq Dependencies(r)
           /\ \A q \in Dependencies(r) : Imported(q) \subseteq Dependencies(r)
           /\ Dependencies(r) \subseteq Refs
  <1>1. \A q \in Refs : Imported(q) \subseteq Refs
    BY DEF Imported, ModuleRef
  <1>2. QED
    BY <1>1 DEF Dependencies

LEMMA DependenciesAreLeast ==
    ASSUME NEW r, NEW S \in SUBSET Refs, Imported(r) \subseteq S,
           \A s \in S : Imported(s) \subseteq S
    PROVE  Dependencies(r) \subseteq S
  BY DEF Dependencies

LEMMA DependenciesAreTransitive ==
    ASSUME modules \in [Refs -> ModuleRef], NEW r \in Refs, NEW q \in Dependencies(r)
    PROVE  Dependencies(q) \subseteq Dependencies(r)
  BY DependenciesAreClosed, DependenciesAreLeast

\* The graph is the same throughout the walk.
LEMMA DependenciesStay ==
    ASSUME modules' = modules, NEW r
    PROVE  Dependencies(r)' = Dependencies(r)
  BY DEF Dependencies, Imported

LEMMA Indexed ==
    ASSUME modules \in [Refs -> ModuleRef], NEW r \in Refs
    PROVE  /\ modules[r].imports \in Seq(Refs) /\ modules[r].providers \in Seq(Types)
           /\ modules[r].exports \subseteq Types
           /\ \A q : q \in Imported(r) <=>
                 \E k \in 1..Len(modules[r].imports) : q = modules[r].imports[k]
           /\ \A ty : ty \in Provided(r) <=>
                 \E k \in 1..Len(modules[r].providers) : ty = modules[r].providers[k]
  BY DEF Imported, Provided, ModuleRef

\* The frames are well typed, and what they walk through.
LEMMA TopFrame ==
    ASSUME TypeOK, calls # <<>>
    PROVE  /\ Len(calls) \in Nat \ {0} /\ Len(calls) \in 1..Len(calls)
           /\ \A i \in 1..Len(calls) :
                 /\ calls[i] \in Frame /\ calls[i].ref \in Refs
                 /\ calls[i].imported \in Nat /\ calls[i].provided \in Nat
                 /\ ImportsOf(i) \in Seq(Refs) /\ ProvidersOf(i) \in Seq(Types)
  <1>1. Len(calls) \in Nat \ {0}
    BY EmptySeq DEF TypeOK
  <1>2. \A i \in 1..Len(calls) : calls[i] \in Frame
    BY ElementOfSeq DEF TypeOK
  <1>3. SUFFICES ASSUME NEW i \in 1..Len(calls)
                 PROVE  /\ calls[i] \in Frame /\ calls[i].ref \in Refs
                        /\ calls[i].imported \in Nat /\ calls[i].provided \in Nat
                        /\ ImportsOf(i) \in Seq(Refs) /\ ProvidersOf(i) \in Seq(Types)
    BY <1>1
  <1>4. /\ calls[i] \in Frame /\ calls[i].ref \in Refs
        /\ calls[i].imported \in Nat /\ calls[i].provided \in Nat
    BY <1>2 DEF Frame
  <1>5. QED
    BY <1>4, Indexed DEF TypeOK, ImportsOf, ProvidersOf

\* With distinct names, what a module that contributed depends on contributed
\* before it.
LEMMA DependenciesContributed ==
    ASSUME TypeOK, ImportsFirst, NamesAreDistinct, NEW i \in 1..Len(collected)
    PROVE  \A q \in Dependencies(collected[i]) : \E j \in 1..(i - 1) : collected[j] = q
  <1> DEFINE S == {collected[j] : j \in 1..(i - 1)}
  <1>1. \A j \in 1..Len(collected) : collected[j] \in Refs
    BY DEF TypeOK
  <1>2. \A j \in 1..i : Imported(collected[j]) \subseteq {collected[l] : l \in 1..(j - 1)}
    <2>1. SUFFICES ASSUME NEW j \in 1..i, NEW q \in Imported(collected[j])
                   PROVE  \E l \in 1..(j - 1) : q = collected[l]
      OBVIOUS
    <2>2. j \in 1..Len(collected)
      OBVIOUS
    <2>3. PICK l \in 1..(j - 1) : Name[collected[l]] = Name[q]
      BY <2>2 DEF ImportsFirst
    <2>4. l \in 1..Len(collected)
      OBVIOUS
    <2>5. q \in Refs
      <3>1. collected[j] \in Refs /\ modules \in [Refs -> ModuleRef]
        BY <1>1, <2>2 DEF TypeOK
      <3>2. QED
        BY <2>1, <3>1, Indexed
    <2>6. QED
      BY <1>1, <2>3, <2>4, <2>5 DEF NamesAreDistinct
  <1>3. Imported(collected[i]) \subseteq S
    BY <1>2
  <1>4. \A s \in S : Imported(s) \subseteq S
    BY <1>2
  <1>5. S \subseteq Refs
    BY <1>1
  <1>6. QED
    <2> HIDE DEF S
    <2>1. Dependencies(collected[i]) \subseteq S
      BY <1>3, <1>4, <1>5, DependenciesAreLeast
    <2>2. QED
      BY <2>1 DEF S

\* What the module of a call depends on has contributed when the call is past
\* its imports.
LEMMA DependenciesAreReady ==
    ASSUME GraphInv, NamesAreDistinct, calls # <<>>,
           calls[Len(calls)].imported = Len(ImportsOf(Len(calls)))
    PROVE  \A q \in Dependencies(calls[Len(calls)].ref) :
               \E j \in 1..Len(collected) : collected[j] = q
  <1> DEFINE top == calls[Len(calls)]
             S == {collected[j] : j \in 1..Len(collected)}
  <1>1. Len(calls) \in 1..Len(calls) /\ top \in Frame /\ top.ref \in Refs
    BY TopFrame DEF GraphInv
  <1>2. \A j \in 1..Len(collected) : collected[j] \in Refs
    BY DEF GraphInv, TypeOK
  <1>3. Imported(top.ref) \subseteq S
    <2>1. SUFFICES ASSUME NEW k \in 1..Len(ImportsOf(Len(calls)))
                   PROVE  \E j \in 1..Len(collected) : ImportsOf(Len(calls))[k] = collected[j]
      BY DEF Imported, ImportsOf
    <2>2. FrameOK(Len(calls))
      BY <1>1 DEF GraphInv, CallsOK
    <2>3. Name[ImportsOf(Len(calls))[k]] \in visited
      BY <1>1, <2>2 DEF FrameOK
    <2>4. PICK j \in 1..Len(collected) : Name[ImportsOf(Len(calls))[k]] = Name[collected[j]]
      BY <2>3 DEF GraphInv, CollectedOK
    <2>5. ImportsOf(Len(calls))[k] \in Refs
      BY <1>1 DEF GraphInv, TypeOK, ImportsOf, ModuleRef
    <2>6. QED
      BY <1>2, <2>4, <2>5 DEF NamesAreDistinct
  <1>4. \A s \in S : Imported(s) \subseteq S
    <2>1. ASSUME NEW i \in 1..Len(collected), NEW q \in Imported(collected[i])
          PROVE  \E j \in 1..Len(collected) : q = collected[j]
      <3>1. q \in Dependencies(collected[i])
        BY <1>2, DependenciesAreClosed DEF GraphInv, TypeOK
      <3>2. PICK j \in 1..(i - 1) : collected[j] = q
        BY <3>1, DependenciesContributed DEF GraphInv, CollectedOK
      <3>3. QED
        BY <3>2
    <2>2. QED
      BY <2>1
  <1>5. S \subseteq Refs
    BY <1>2
  <1>6. QED
    <2> HIDE DEF S, top
    <2>1. Dependencies(top.ref) \subseteq S
      BY <1>3, <1>4, <1>5, DependenciesAreLeast
    <2>2. QED
      BY <2>1 DEF S, top

-----------------------------------------------------------------------------
(***************************************************************************)
(* The frames after a step.                                                *)
(***************************************************************************)

LEMMA Imports ==
    ASSUME TypeOK, calls # <<>>,
           calls' = [calls EXCEPT ![Len(calls)].imported = @ + 1]
    PROVE  /\ calls' \in Seq(Frame) /\ Len(calls') = Len(calls)
           /\ \A i \in 1..Len(calls) :
                 /\ calls'[i].ref = calls[i].ref /\ calls'[i].provided = calls[i].provided
                 /\ calls'[i].imported = IF i = Len(calls) THEN calls[i].imported + 1
                                         ELSE calls[i].imported
  <1> DEFINE e == [calls[Len(calls)] EXCEPT !.imported = @ + 1]
  <1>1. calls[Len(calls)] \in Frame
    BY TopFrame
  <1>2. /\ e \in Frame /\ e.ref = calls[Len(calls)].ref
        /\ e.provided = calls[Len(calls)].provided
        /\ e.imported = calls[Len(calls)].imported + 1
    BY <1>1 DEF Frame
  <1>3. calls' = [calls EXCEPT ![Len(calls)] = e]
    OBVIOUS
  <1> HIDE DEF e
  <1>4. /\ calls' \in Seq(Frame) /\ Len(calls') = Len(calls)
        /\ \A i \in 1..Len(calls) : calls'[i] = IF i = Len(calls) THEN e ELSE calls[i]
    <2>1. calls \in Seq(Frame) /\ Len(calls) \in 1..Len(calls)
      BY TopFrame DEF TypeOK
    <2>2. QED
      BY <1>2, <1>3, <2>1, ExceptSeq
  <1>5. QED
    BY <1>2, <1>4

LEMMA Provides ==
    ASSUME TypeOK, calls # <<>>,
           calls' = [calls EXCEPT ![Len(calls)].provided = @ + 1]
    PROVE  /\ calls' \in Seq(Frame) /\ Len(calls') = Len(calls)
           /\ \A i \in 1..Len(calls) :
                 /\ calls'[i].ref = calls[i].ref /\ calls'[i].imported = calls[i].imported
                 /\ calls'[i].provided = IF i = Len(calls) THEN calls[i].provided + 1
                                         ELSE calls[i].provided
  <1> DEFINE e == [calls[Len(calls)] EXCEPT !.provided = @ + 1]
  <1>1. calls[Len(calls)] \in Frame
    BY TopFrame
  <1>2. /\ e \in Frame /\ e.ref = calls[Len(calls)].ref
        /\ e.imported = calls[Len(calls)].imported
        /\ e.provided = calls[Len(calls)].provided + 1
    BY <1>1 DEF Frame
  <1>3. calls' = [calls EXCEPT ![Len(calls)] = e]
    OBVIOUS
  <1> HIDE DEF e
  <1>4. /\ calls' \in Seq(Frame) /\ Len(calls') = Len(calls)
        /\ \A i \in 1..Len(calls) : calls'[i] = IF i = Len(calls) THEN e ELSE calls[i]
    <2>1. calls \in Seq(Frame) /\ Len(calls) \in 1..Len(calls)
      BY TopFrame DEF TypeOK
    <2>2. QED
      BY <1>2, <1>3, <2>1, ExceptSeq
  <1>5. QED
    BY <1>2, <1>4

LEMMA Visits ==
    ASSUME TypeOK, calls # <<>>, NEW r \in Refs,
           calls' = Append([calls EXCEPT ![Len(calls)].imported = @ + 1], Call(r))
    PROVE  /\ calls' \in Seq(Frame) /\ Len(calls') = Len(calls) + 1
           /\ \A i \in 1..Len(calls) :
                 /\ calls'[i].ref = calls[i].ref /\ calls'[i].provided = calls[i].provided
                 /\ calls'[i].imported = IF i = Len(calls) THEN calls[i].imported + 1
                                         ELSE calls[i].imported
           /\ calls'[Len(calls) + 1].ref = r
           /\ calls'[Len(calls) + 1].imported = 0 /\ calls'[Len(calls) + 1].provided = 0
  <1> DEFINE e == [calls[Len(calls)] EXCEPT !.imported = @ + 1]
             c == [calls EXCEPT ![Len(calls)] = e]
             f == Call(r)
  <1>1. calls[Len(calls)] \in Frame
    BY TopFrame
  <1>2. /\ e \in Frame /\ e.ref = calls[Len(calls)].ref
        /\ e.provided = calls[Len(calls)].provided
        /\ e.imported = calls[Len(calls)].imported + 1
    BY <1>1 DEF Frame
  <1>3. f \in Frame /\ f.ref = r /\ f.imported = 0 /\ f.provided = 0
    BY DEF Call, Frame
  <1>4. calls' = Append(c, f)
    OBVIOUS
  <1> HIDE DEF e, f
  <1>5. /\ c \in Seq(Frame) /\ Len(c) = Len(calls)
        /\ \A i \in 1..Len(calls) : c[i] = IF i = Len(calls) THEN e ELSE calls[i]
    <2>1. calls \in Seq(Frame) /\ Len(calls) \in 1..Len(calls)
      BY TopFrame DEF TypeOK
    <2>2. QED
      BY <1>2, <2>1, ExceptSeq
  <1> HIDE DEF c
  <1>6. /\ calls' \in Seq(Frame) /\ Len(calls') = Len(calls) + 1
        /\ \A i \in 1..Len(calls) : calls'[i] = c[i]
        /\ calls'[Len(calls) + 1] = f
    <2>1. Len(calls) \in Nat
      BY TopFrame
    <2>2. /\ Append(c, f) \in Seq(Frame) /\ Len(Append(c, f)) = Len(c) + 1
          /\ \A i \in 1..Len(c) : Append(c, f)[i] = c[i]
          /\ Append(c, f)[Len(c) + 1] = f
      <3>1. f \in Frame /\ c \in Seq(Frame)
        BY <1>3, <1>5
      <3>2. QED
        BY <3>1, AppendProperties
    <2>3. QED
      BY <1>4, <1>5, <2>1, <2>2
  <1>7. QED
    BY <1>2, <1>3, <1>5, <1>6

LEMMA Returns ==
    ASSUME TypeOK, calls # <<>>, calls' = SubSeq(calls, 1, Len(calls) - 1)
    PROVE  /\ calls' \in Seq(Frame) /\ Len(calls') = Len(calls) - 1
           /\ \A i \in 1..(Len(calls) - 1) : calls'[i] = calls[i]
  <1>1. Len(calls) \in Nat \ {0} /\ \A i \in 1..(Len(calls) - 1) : calls[i] \in Frame
    BY TopFrame
  <1>2. \A i \in 1..(Len(calls) - 1) : SubSeq(calls, 1, Len(calls) - 1)[i] = calls[i]
    BY <1>1, SubSeqProperties
  <1>3. /\ SubSeq(calls, 1, Len(calls) - 1) \in Seq(Frame)
        /\ Len(SubSeq(calls, 1, Len(calls) - 1)) = Len(calls) - 1
    <2> DEFINE n == Len(calls) - 1
    <2>1. n \in Nat /\ \A i \in 1..n : calls[i] \in Frame
      BY <1>1
    <2> HIDE DEF n
    <2>2. SubSeq(calls, 1, n) \in Seq(Frame) /\ Len(SubSeq(calls, 1, n)) = n
      BY <2>1, SubSeqProperties
    <2>3. QED
      BY <2>2 DEF n
  <1>4. QED
    BY <1>2, <1>3

\* What the top frame says is what the walk reads.
LEMMA TopIs ==
    ASSUME GraphInv, Walking
    PROVE  /\ calls # <<>> /\ TypeOK /\ FrameOK(Len(calls))
           /\ Top = calls[Len(calls)] /\ This = modules[Top.ref]
           /\ This.imports = ImportsOf(Len(calls)) /\ This.providers = ProvidersOf(Len(calls))
           /\ Imported(Top.ref) \subseteq Refs
           /\ \A k \in 1..Len(ImportsOf(Len(calls))) :
                 ImportsOf(Len(calls))[k] \in Imported(Top.ref)
           /\ Top.ref \in {AppModule} \cup Dependencies(AppModule)
  <1>1. calls # <<>> /\ TypeOK
    BY DEF GraphInv, OutcomeOK, Walking
  <1>2. Len(calls) \in 1..Len(calls) /\ Top.ref \in Refs
    BY <1>1, TopFrame DEF Top
  <1>3. FrameOK(Len(calls))
    BY <1>2 DEF GraphInv, CallsOK
  <1>4. Top.ref \in {AppModule} \cup Dependencies(AppModule)
    <2>1. 1 \in 1..Len(calls) /\ calls[1].ref = AppModule
      BY <1>1, TopFrame DEF GraphInv, CallsOK
    <2>2. CASE Len(calls) = 1
      BY <2>1, <2>2 DEF Top
    <2>3. CASE Len(calls) # 1
      <3>1. Len(calls) \in Nat \ {0}
        BY <1>1, TopFrame
      <3>2. QED
        BY <1>2, <2>1, <2>3, <3>1 DEF Top, GraphInv, CallsOK
    <2>4. QED
      BY <2>2, <2>3
  <1>5. Imported(Top.ref) \subseteq Refs
    BY <1>1, <1>2 DEF TypeOK, Imported, ModuleRef
  <1>6. \A k \in 1..Len(ImportsOf(Len(calls))) :
            ImportsOf(Len(calls))[k] \in Imported(Top.ref)
    BY DEF Imported, ImportsOf, Top
  <1>7. QED
    BY <1>1, <1>3, <1>4, <1>5, <1>6 DEF Top, This, ImportsOf, ProvidersOf

-----------------------------------------------------------------------------
(***************************************************************************)
(* Every step of the walk keeps the invariant.                             *)
(***************************************************************************)

LEMMA GraphStays ==
    ASSUME modules' = modules, overridden' = overridden
    PROVE  /\ \A r : /\ Imported(r)' = Imported(r) /\ Provided(r)' = Provided(r)
                     /\ Dependencies(r)' = Dependencies(r)
           /\ WellFormed' <=> WellFormed
  <1>1. \A r : Imported(r)' = Imported(r) /\ Provided(r)' = Provided(r)
    BY DEF Imported, Provided
  <1>2. \A r : Dependencies(r)' = Dependencies(r)
    BY DependenciesStay
  <1>3. WellFormed' <=> WellFormed
    BY <1>1, <1>2 DEF WellFormed
  <1>4. QED
    BY <1>1, <1>2, <1>3

LEMMA TypesStay == GraphInv /\ [Next]_graphVars => TypeOK'
  <1> SUFFICES ASSUME GraphInv, [Next]_graphVars PROVE TypeOK'
    OBVIOUS
  <1>1. TypeOK
    BY DEF GraphInv
  <1>2. Walking => calls # <<>>
    BY DEF GraphInv, OutcomeOK, Walking
  <1>3. CASE SkipVisited
    <2>1. calls' \in Seq(Frame)
      BY <1>1, <1>2, <1>3, Imports DEF SkipVisited, ImportsLeft
    <2>2. QED
      BY <1>1, <1>3, <2>1 DEF SkipVisited, TypeOK
  <1>4. CASE VisitImport
    <2>1. NextImport \in Refs
      <3>1. ImportsOf(Len(calls)) \in Seq(Refs) /\ calls[Len(calls)].imported \in Nat
        BY <1>1, <1>2, <1>4, TopFrame DEF VisitImport, ImportsLeft
      <3>2. calls[Len(calls)].imported < Len(ImportsOf(Len(calls)))
            /\ NextImport = ImportsOf(Len(calls))[calls[Len(calls)].imported + 1]
        BY <1>4 DEF VisitImport, ImportsLeft, NextImport, This, Top, ImportsOf
      <3>3. QED
        BY <3>1, <3>2
    <2>2. calls' \in Seq(Frame)
      BY <1>1, <1>2, <1>4, <2>1, Visits DEF VisitImport, ImportsLeft
    <2>3. Name[NextImport] \in Names
      BY <2>1, ModuleGraphAssumption
    <2>4. QED
      BY <1>1, <1>4, <2>2, <2>3 DEF VisitImport, TypeOK
  <1>5. CASE RegisterProvider
    <2>1. NextProvider \in Types
      BY <1>1, <1>2, <1>5, TopFrame
      DEF RegisterProvider, ProvidersLeft, Registering, NextProvider, This, Top, ProvidersOf
    <2>2. calls' \in Seq(Frame)
      BY <1>1, <1>2, <1>5, Provides DEF RegisterProvider, ProvidersLeft, Registering
    <2>3. QED
      BY <1>1, <1>5, <2>1, <2>2 DEF RegisterProvider, TypeOK
  <1>6. CASE Finish
    <2>1. calls' \in Seq(Frame)
      BY <1>1, <1>2, <1>6, Returns DEF Finish, Complete, Registering
    <2>2. Top.ref \in Refs
      BY <1>1, <1>2, <1>6, TopFrame DEF Finish, Complete, Registering, Top
    <2>3. Name[Top.ref] \in Names
      BY <2>2, ModuleGraphAssumption
    <2>4. Append(collected, Top.ref) \in Seq(Refs)
      BY <1>1, <2>2, AppendProperties DEF TypeOK
    <2>5. QED
      BY <1>1, <1>6, <2>1, <2>3, <2>4 DEF Finish, TypeOK, Outcomes
  <1>7. ASSUME NEW error \in Outcomes, Fail(error) PROVE TypeOK'
    BY <1>1, <1>7 DEF Fail, TypeOK
  <1>8. CASE DetectCycle \/ ProviderMissesType \/ ProviderRegisteredTwice \/ ProviderFails
               \/ ExportMissing
    BY <1>7, <1>8 DEF DetectCycle, ProviderMissesType, ProviderRegisteredTwice, ProviderFails,
                      ExportMissing, Outcomes
  <1>9. CASE UNCHANGED graphVars
    BY <1>1, <1>9 DEF graphVars, TypeOK
  <1>10. QED
    BY <1>3, <1>4, <1>5, <1>6, <1>8, <1>9 DEF Next

LEMMA SkipVisitedKeeps ==
    ASSUME GraphInv, SkipVisited
    PROVE  CallsOK'
  <1>1. Walking /\ Top.imported < Len(This.imports) /\ Name[NextImport] \in visited
        /\ UNCHANGED <<modules, walk, visiting, visited>>
    BY DEF SkipVisited, ImportsLeft
  <1>2. TypeOK /\ calls # <<>> /\ FrameOK(Len(calls)) /\ CallsOK
    BY <1>1, TopIs DEF GraphInv
  <1>3. /\ Len(calls') = Len(calls)
        /\ \A i \in 1..Len(calls) :
              /\ calls'[i].ref = calls[i].ref /\ calls'[i].provided = calls[i].provided
              /\ calls'[i].imported = IF i = Len(calls) THEN calls[i].imported + 1
                                      ELSE calls[i].imported
    BY <1>2, Imports DEF SkipVisited
  <1>4. Len(calls) \in Nat \ {0}
    BY <1>2, TopFrame
  <1>5. \A i \in 1..Len(calls) : ImportsOf(i)' = ImportsOf(i) /\ ProvidersOf(i)' = ProvidersOf(i)
    BY <1>1, <1>3 DEF ImportsOf, ProvidersOf
  <1>6. \A i \in 1..Len(calls) : FrameOK(i)'
    <2>1. SUFFICES ASSUME NEW i \in 1..Len(calls) PROVE FrameOK(i)'
      OBVIOUS
    <2>2. FrameOK(i) /\ calls[i].imported \in Nat /\ calls[i].provided \in Nat
      BY <1>2, TopFrame DEF CallsOK
    <2>3. CASE i = Len(calls)
      <3>1. calls[i].imported < Len(ImportsOf(i))
            /\ ImportsOf(i)[calls[i].imported + 1] = NextImport
        BY <1>1, <2>3, TopIs DEF GraphInv, NextImport
      <3>2. Len(ImportsOf(i)) \in Nat
        BY <1>2, TopFrame
      <3>3. calls[i].provided = 0
        BY <2>2, <3>1, <3>2 DEF FrameOK
      <3>4. calls'[i].imported = calls[i].imported + 1 /\ calls'[i].provided = 0
        BY <1>3, <2>3, <3>3
      <3>5. \A k \in 1..calls'[i].imported : Name[ImportsOf(i)[k]] \in visited
        BY <1>1, <2>2, <2>3, <3>1, <3>4, <1>4 DEF FrameOK
      <3>6. QED
        BY <1>1, <1>5, <2>2, <3>1, <3>2, <3>4, <3>5 DEF FrameOK
    <2>4. CASE i # Len(calls)
      <3>1. calls'[i].imported = calls[i].imported /\ calls'[i].provided = calls[i].provided
        BY <1>3, <2>4
      <3>2. i + 1 \in 1..Len(calls) /\ i < Len(calls)
        BY <1>4, <2>4
      <3>3. calls'[i + 1].ref = calls[i + 1].ref
        BY <1>3, <3>2
      <3>4. QED
        BY <1>1, <1>3, <1>5, <2>2, <3>1, <3>2, <3>3 DEF FrameOK
    <2>5. QED
      BY <2>3, <2>4
  <1>7. \A r : Dependencies(r)' = Dependencies(r)
    BY <1>1, DependenciesStay
  <1>8. calls'[1].ref = AppModule
    BY <1>2, <1>3, <1>4 DEF CallsOK
  <1>9. (\A i, j \in 1..Len(calls) : i < j => calls[j].ref \in Dependencies(calls[i].ref))'
    BY <1>2, <1>3, <1>7 DEF CallsOK
  <1>10. \A i, j \in 1..Len(calls') : Name[calls'[i].ref] = Name[calls'[j].ref] => i = j
    BY <1>2, <1>3 DEF CallsOK
  <1>11. \A n : n \in visiting' <=> \E i \in 1..Len(calls') : n = Name[calls'[i].ref]
    BY <1>1, <1>2, <1>3 DEF CallsOK
  <1>12. QED
    BY <1>1, <1>2, <1>3, <1>6, <1>8, <1>9, <1>10, <1>11 DEF CallsOK

LEMMA VisitImportKeeps ==
    ASSUME GraphInv, VisitImport
    PROVE  CallsOK'
  <1>0. PICK n : n = Len(calls)
    OBVIOUS
  <1>1. /\ Walking /\ Top.imported < Len(This.imports)
        /\ Name[NextImport] \notin visiting /\ Name[NextImport] \notin visited
        /\ visiting' = visiting \cup {Name[NextImport]}
        /\ UNCHANGED <<modules, walk, visited>>
    BY DEF VisitImport, ImportsLeft
  <1>2. TypeOK /\ calls # <<>> /\ FrameOK(n) /\ CallsOK
    BY <1>0, <1>1, TopIs DEF GraphInv
  <1>3. n \in Nat \ {0} /\ n \in 1..n
    BY <1>0, <1>2, TopFrame
  <1>4. /\ calls[n].imported \in Nat /\ calls[n].provided \in Nat /\ calls[n].ref \in Refs
        /\ ImportsOf(n) \in Seq(Refs) /\ Len(ImportsOf(n)) \in Nat
    BY <1>0, <1>2, <1>3, TopFrame
  <1>5. /\ calls[n].imported < Len(ImportsOf(n))
        /\ NextImport = ImportsOf(n)[calls[n].imported + 1]
    BY <1>0, <1>1, TopIs DEF NextImport
  <1>6. NextImport \in Refs /\ NextImport \in Imported(calls[n].ref)
    <2>1. calls[n].imported + 1 \in 1..Len(ImportsOf(n))
      BY <1>4, <1>5
    <2>2. NextImport \in Refs
      BY <1>4, <1>5, <2>1, ElementOfSeq
    <2>3. NextImport \in Imported(Top.ref)
      BY <1>0, <1>1, <1>5, <2>1, TopIs
    <2>4. QED
      BY <1>0, <2>2, <2>3 DEF Top
  <1>7. /\ Len(calls') = n + 1
        /\ \A i \in 1..n :
              /\ calls'[i].ref = calls[i].ref /\ calls'[i].provided = calls[i].provided
              /\ calls'[i].imported = IF i = n THEN calls[i].imported + 1
                                      ELSE calls[i].imported
        /\ calls'[n + 1].ref = NextImport
        /\ calls'[n + 1].imported = 0 /\ calls'[n + 1].provided = 0
    BY <1>0, <1>2, <1>6, Visits DEF VisitImport
  <1>8. \A i \in 1..n : ImportsOf(i)' = ImportsOf(i) /\ ProvidersOf(i)' = ProvidersOf(i)
    BY <1>1, <1>7 DEF ImportsOf, ProvidersOf
  <1>9. \A i \in 1..n : FrameOK(i)'
    <2>1. SUFFICES ASSUME NEW i \in 1..n PROVE FrameOK(i)'
      OBVIOUS
    <2>2. FrameOK(i) /\ calls[i].imported \in Nat /\ calls[i].provided \in Nat
      BY <1>0, <1>2, TopFrame DEF CallsOK
    <2>3. CASE i = n
      <3>1. calls[i].provided = 0
        BY <1>0, <1>4, <1>5, <2>2, <2>3 DEF FrameOK
      <3>2. calls'[i].imported = calls[i].imported + 1 /\ calls'[i].provided = 0
        BY <1>7, <2>3, <3>1
      <3>3. \A k \in 1..calls'[i].imported :
                Name[ImportsOf(i)[k]] \in visited \/ ImportsOf(i)[k] = calls'[i + 1].ref
        <4>1. \A k \in 1..calls[i].imported : Name[ImportsOf(i)[k]] \in visited
          BY <1>0, <1>3, <2>2, <2>3 DEF FrameOK
        <4>2. ImportsOf(i)[calls[i].imported + 1] = calls'[i + 1].ref
          BY <1>5, <1>7, <2>3
        <4>3. \A k \in 1..calls'[i].imported :
                  k \in 1..calls[i].imported \/ k = calls[i].imported + 1
          BY <2>2, <3>2
        <4>4. QED
          BY <4>1, <4>2, <4>3
      <3>4. i < Len(calls')
        BY <1>3, <1>7, <2>3
      <3>5. calls'[i].imported <= Len(ImportsOf(i)) /\ 0 <= Len(ProvidersOf(i))
        BY <1>0, <1>2, <1>4, <1>5, <2>3, <3>2, TopFrame
      <3>6. ~(0 > 0)
        OBVIOUS
      <3>7. QED
        BY <1>0, <1>1, <1>8, <3>2, <3>3, <3>4, <3>5, <3>6 DEF FrameOK
    <2>4. CASE i # n
      <3>1. calls'[i].imported = calls[i].imported /\ calls'[i].provided = calls[i].provided
        BY <1>7, <2>4
      <3>2. i + 1 \in 1..n /\ i < n /\ i < Len(calls')
        BY <1>3, <1>7, <2>4
      <3>3. calls'[i + 1].ref = calls[i + 1].ref
        BY <1>7, <3>2
      <3>4. ~(calls[i].provided > 0)
        BY <1>0, <1>3, <2>2, <3>2 DEF FrameOK
      <3>5. QED
        BY <1>0, <1>1, <1>8, <2>2, <3>1, <3>2, <3>3, <3>4 DEF FrameOK
    <2>5. QED
      BY <2>3, <2>4
  <1>10. FrameOK(n + 1)'
    <2>1. ImportsOf(n + 1)' = modules[NextImport].imports
          /\ ProvidersOf(n + 1)' = modules[NextImport].providers
      BY <1>1, <1>7 DEF ImportsOf, ProvidersOf
    <2>2. Len(ImportsOf(n + 1)') \in Nat /\ Len(ProvidersOf(n + 1)') \in Nat
      BY <1>2, <1>6, <2>1 DEF TypeOK, ModuleRef
    <2>3. (calls[n + 1].imported = 0 /\ calls[n + 1].provided = 0)'
      BY <1>7
    <2>4. QED
      BY <1>0, <2>2, <2>3 DEF FrameOK
  <1>11. 1..Len(calls') = 1..n \cup {n + 1}
    BY <1>3, <1>7
  <1>12. (\A i \in 1..Len(calls) : FrameOK(i))'
    BY <1>9, <1>10, <1>11
  <1>13. \A i \in 1..n : NextImport \in Dependencies(calls[i].ref)
    <2>1. SUFFICES ASSUME NEW i \in 1..n PROVE NextImport \in Dependencies(calls[i].ref)
      OBVIOUS
    <2>2. modules \in [Refs -> ModuleRef] /\ calls[i].ref \in Refs
      BY <1>0, <1>2, TopFrame DEF TypeOK
    <2>3. CASE i = n
      BY <1>6, <2>2, <2>3, DependenciesAreClosed
    <2>4. CASE i # n
      <3>1. i < n
        BY <1>3, <2>4
      <3>2. calls[n].ref \in Dependencies(calls[i].ref)
        BY <1>0, <1>2, <1>3, <3>1 DEF CallsOK
      <3>3. QED
        BY <1>6, <2>2, <3>2, DependenciesAreClosed
    <2>5. QED
      BY <2>3, <2>4
  <1>14. \A r : Dependencies(r)' = Dependencies(r)
    BY <1>1, DependenciesStay
  <1>15. (\A i, j \in 1..Len(calls) : i < j => calls[j].ref \in Dependencies(calls[i].ref))'
    <2>1. SUFFICES ASSUME NEW i \in 1..Len(calls'), NEW j \in 1..Len(calls'), i < j
                   PROVE  (calls[j].ref \in Dependencies(calls[i].ref))'
      OBVIOUS
    <2>2. i \in 1..n /\ calls'[i].ref = calls[i].ref
      BY <1>3, <1>7, <2>1
    <2>3. CASE j = n + 1
      BY <1>7, <1>13, <1>14, <2>2, <2>3
    <2>4. CASE j \in 1..n
      BY <1>0, <1>2, <1>7, <1>14, <2>1, <2>2, <2>4 DEF CallsOK
    <2>5. QED
      BY <1>11, <2>3, <2>4
  <1>16. (\A i, j \in 1..Len(calls) : Name[calls[i].ref] = Name[calls[j].ref] => i = j)'
    <2>1. \A i \in 1..n : Name[calls[i].ref] # Name[NextImport]
      BY <1>0, <1>1, <1>2 DEF CallsOK
    <2>2. \A i, j \in 1..n : Name[calls[i].ref] = Name[calls[j].ref] => i = j
      BY <1>0, <1>2 DEF CallsOK
    <2>3. QED
      BY <1>7, <1>11, <2>1, <2>2
  <1>17. (\A nm : nm \in visiting <=> \E i \in 1..Len(calls) : nm = Name[calls[i].ref])'
    <2>1. \A nm : nm \in visiting <=> \E i \in 1..n : nm = Name[calls[i].ref]
      BY <1>0, <1>2 DEF CallsOK
    <2>2. QED
      BY <1>1, <1>7, <1>11, <2>1
  <1>18. (calls # <<>> => calls[1].ref = AppModule)'
    BY <1>0, <1>2, <1>3, <1>7 DEF CallsOK
  <1>19. (visiting \cap visited = {})'
    BY <1>0, <1>1, <1>2 DEF CallsOK
  <1>20. QED
    BY <1>0, <1>12, <1>15, <1>16, <1>17, <1>18, <1>19 DEF CallsOK

LEMMA RegisterProviderKeeps ==
    ASSUME GraphInv, RegisterProvider
    PROVE  CallsOK' /\ SingletonsOK'
  <1>0. PICK n : n = Len(calls)
    OBVIOUS
  <1>1. /\ Walking /\ ~(Top.imported < Len(This.imports)) /\ walk = "register"
        /\ Top.provided < Len(This.providers)
        /\ singletons' = singletons \cup {NextProvider}
        /\ UNCHANGED <<modules, walk, visiting, visited, collected, overridden>>
    BY DEF RegisterProvider, ProvidersLeft, Registering, ImportsLeft
  <1>2. TypeOK /\ calls # <<>> /\ FrameOK(n) /\ CallsOK /\ SingletonsOK
    BY <1>0, <1>1, TopIs DEF GraphInv
  <1>3. n \in Nat \ {0} /\ n \in 1..n
    BY <1>0, <1>2, TopFrame
  <1>4. /\ calls[n].imported \in Nat /\ calls[n].provided \in Nat
        /\ Len(ImportsOf(n)) \in Nat /\ Len(ProvidersOf(n)) \in Nat
    BY <1>0, <1>2, <1>3, TopFrame
  <1>5. /\ calls[n].imported = Len(ImportsOf(n)) /\ calls[n].provided < Len(ProvidersOf(n))
        /\ NextProvider = ProvidersOf(n)[calls[n].provided + 1]
    <2>1. ~(calls[n].imported < Len(ImportsOf(n))) /\ calls[n].provided < Len(ProvidersOf(n))
          /\ NextProvider = ProvidersOf(n)[calls[n].provided + 1]
      BY <1>0, <1>1, TopIs DEF NextProvider
    <2>2. calls[n].imported <= Len(ImportsOf(n))
      BY <1>0, <1>2 DEF FrameOK
    <2>3. QED
      BY <1>4, <2>1, <2>2
  <1>6. /\ Len(calls') = n
        /\ \A i \in 1..n :
              /\ calls'[i].ref = calls[i].ref /\ calls'[i].imported = calls[i].imported
              /\ calls'[i].provided = IF i = n THEN calls[i].provided + 1
                                      ELSE calls[i].provided
    BY <1>0, <1>2, Provides DEF RegisterProvider
  <1>7. \A i \in 1..n : ImportsOf(i)' = ImportsOf(i) /\ ProvidersOf(i)' = ProvidersOf(i)
    BY <1>1, <1>6 DEF ImportsOf, ProvidersOf
  <1>8. \A i \in 1..n : FrameOK(i)'
    <2>1. SUFFICES ASSUME NEW i \in 1..n PROVE FrameOK(i)'
      OBVIOUS
    <2>2. FrameOK(i) /\ calls[i].imported \in Nat /\ calls[i].provided \in Nat
      BY <1>0, <1>2, TopFrame DEF CallsOK
    <2>3. \A k \in 1..calls'[i].imported :
              \/ Name[ImportsOf(i)[k]] \in visited
              \/ i < Len(calls') /\ ImportsOf(i)[k] = calls'[i + 1].ref
      <3>1. i < n => calls'[i + 1].ref = calls[i + 1].ref
        BY <1>3, <1>6
      <3>2. QED
        BY <1>0, <1>3, <1>6, <2>2, <3>1 DEF FrameOK
    <2>4. CASE i = n
      <3>1. calls'[i].provided = calls[i].provided + 1 /\ calls'[i].imported = calls[i].imported
        BY <1>6, <2>4
      <3>2. calls'[i].provided <= Len(ProvidersOf(i))
        BY <1>4, <1>5, <2>4, <3>1
      <3>3. QED
        BY <1>0, <1>1, <1>5, <1>6, <1>7, <2>2, <2>3, <2>4, <3>1, <3>2 DEF FrameOK
    <2>5. CASE i # n
      <3>1. calls'[i].provided = calls[i].provided /\ calls'[i].imported = calls[i].imported
        BY <1>6, <2>5
      <3>2. QED
        BY <1>0, <1>1, <1>6, <1>7, <2>2, <2>3, <3>1 DEF FrameOK
    <2>6. QED
      BY <2>4, <2>5
  <1>9. \A r : Dependencies(r)' = Dependencies(r)
    BY <1>1, DependenciesStay
  <1>10. CallsOK'
    <2>1. (calls # <<>> => calls[1].ref = AppModule)'
      BY <1>0, <1>2, <1>3, <1>6 DEF CallsOK
    <2>2. (\A i, j \in 1..Len(calls) : i < j => calls[j].ref \in Dependencies(calls[i].ref))'
      BY <1>0, <1>2, <1>6, <1>9 DEF CallsOK
    <2>3. (\A i, j \in 1..Len(calls) : Name[calls[i].ref] = Name[calls[j].ref] => i = j)'
      BY <1>0, <1>2, <1>6 DEF CallsOK
    <2>4. (\A nm : nm \in visiting <=> \E i \in 1..Len(calls) : nm = Name[calls[i].ref])'
      BY <1>0, <1>1, <1>2, <1>6 DEF CallsOK
    <2>5. (visiting \cap visited = {})'
      BY <1>0, <1>1, <1>2 DEF CallsOK
    <2>6. QED
      BY <1>0, <1>6, <1>8, <2>1, <2>2, <2>3, <2>4, <2>5 DEF CallsOK
  <1>11. SingletonsOK'
    <2>1. \A ty : ProvidedBy(n, ty)' <=> ProvidedBy(n, ty) \/ ty = NextProvider
      <3>1. calls'[n].provided = calls[n].provided + 1 /\ ProvidersOf(n)' = ProvidersOf(n)
        BY <1>3, <1>6, <1>7
      <3>2. 1..(calls[n].provided + 1) = 1..calls[n].provided \cup {calls[n].provided + 1}
        BY <1>4
      <3>3. QED
        BY <1>0, <1>5, <3>1, <3>2 DEF ProvidedBy
    <2>2. \A r : Provided(r)' = Provided(r)
      BY <1>1, GraphStays
    <2>3. calls' # <<>>
      BY <1>3, <1>6, EmptySeq
    <2>4. \A ty : ty \in singletons <=>
              \/ \E i \in 1..Len(collected) : ty \in Provided(collected[i])
              \/ ProvidedBy(n, ty)
      BY <1>0, <1>1, <1>2 DEF SingletonsOK
    <2>5. \A ty : ProvidedBy(Len(calls), ty)' <=> ProvidedBy(n, ty) \/ ty = NextProvider
      BY <1>6, <2>1
    <2>6. QED
      BY <1>0, <1>1, <2>2, <2>3, <2>4, <2>5 DEF SingletonsOK
  <1>12. QED
    BY <1>10, <1>11

\* The call that returns leaves its name behind, and its caller goes on.
LEMMA FinishKeepsCalls ==
    ASSUME GraphInv, Finish
    PROVE  CallsOK'
  <1>0. PICK n : n = Len(calls)
    OBVIOUS
  <1>1. /\ Walking
        /\ visiting' = visiting \ {Name[Top.ref]} /\ visited' = visited \cup {Name[Top.ref]}
        /\ UNCHANGED <<modules, walk>>
    BY DEF Finish, Complete, Registering
  <1>2. TypeOK /\ calls # <<>> /\ CallsOK /\ Top = calls[n]
    BY <1>0, <1>1, TopIs DEF GraphInv
  <1>3. n \in Nat \ {0} /\ n \in 1..n
    BY <1>0, <1>2, TopFrame
  <1>4. Len(calls') = n - 1 /\ \A i \in 1..(n - 1) : calls'[i] = calls[i]
    BY <1>0, <1>2, Returns DEF Finish
  <1>5. \A i \in 1..(n - 1) : ImportsOf(i)' = ImportsOf(i) /\ ProvidersOf(i)' = ProvidersOf(i)
    BY <1>1, <1>4 DEF ImportsOf, ProvidersOf
  <1>6. \A i \in 1..(n - 1) : FrameOK(i)'
    <2>1. SUFFICES ASSUME NEW i \in 1..(n - 1) PROVE FrameOK(i)'
      OBVIOUS
    <2>2. i \in 1..n /\ i < n /\ calls'[i] = calls[i]
      BY <1>3, <1>4
    <2>3. FrameOK(i) /\ calls[i].imported \in Nat /\ calls[i].provided \in Nat
      BY <1>0, <1>2, <2>2, TopFrame DEF CallsOK
    <2>4. ~(calls[i].provided > 0)
      BY <1>0, <2>2, <2>3 DEF FrameOK
    <2>5. ASSUME NEW k \in 1..calls[i].imported
          PROVE  \/ Name[ImportsOf(i)[k]] \in visited'
                 \/ i < Len(calls') /\ ImportsOf(i)[k] = calls'[i + 1].ref
      <3>1. Name[ImportsOf(i)[k]] \in visited \/ ImportsOf(i)[k] = calls[i + 1].ref
        BY <2>3, <2>5 DEF FrameOK
      <3>2. CASE i + 1 = n
        BY <1>1, <1>2, <3>1, <3>2
      <3>3. CASE i + 1 # n
        <4>1. i + 1 \in 1..(n - 1) /\ i < n - 1
          BY <1>3, <2>2, <3>3
        <4>2. calls'[i + 1] = calls[i + 1]
          BY <1>4, <4>1
        <4>3. QED
          BY <1>1, <1>4, <3>1, <4>1, <4>2
      <3>4. QED
        BY <3>2, <3>3
    <2>6. QED
      BY <1>5, <2>2, <2>3, <2>4, <2>5 DEF FrameOK
  <1>7. \A r : Dependencies(r)' = Dependencies(r)
    BY <1>1, DependenciesStay
  <1>8. (calls # <<>> => calls[1].ref = AppModule)'
    <2>1. SUFFICES ASSUME calls' # <<>> PROVE calls'[1].ref = AppModule
      OBVIOUS
    <2>2. calls' \in Seq(Frame)
      BY <1>2, Returns DEF Finish
    <2>3. Len(calls') # 0
      BY <2>1, <2>2, EmptySeq
    <2>4. 1 \in 1..(n - 1)
      BY <1>3, <1>4, <2>3
    <2>5. calls'[1] = calls[1]
      BY <1>4, <2>4
    <2>6. QED
      BY <1>2, <2>5 DEF CallsOK
  <1>9. (\A i, j \in 1..Len(calls) : i < j => calls[j].ref \in Dependencies(calls[i].ref))'
    <2>1. SUFFICES ASSUME NEW i \in 1..(n - 1), NEW j \in 1..(n - 1), i < j
                   PROVE  (calls[j].ref \in Dependencies(calls[i].ref))'
      BY <1>4
    <2>2. i \in 1..n /\ j \in 1..n
      BY <1>3
    <2>3. calls[j].ref \in Dependencies(calls[i].ref)
      BY <1>0, <1>2, <2>1, <2>2 DEF CallsOK
    <2>4. QED
      BY <1>4, <1>7, <2>3
  <1>10. \A i, j \in 1..n : Name[calls[i].ref] = Name[calls[j].ref] => i = j
    BY <1>0, <1>2 DEF CallsOK
  <1>11. (\A i, j \in 1..Len(calls) : Name[calls[i].ref] = Name[calls[j].ref] => i = j)'
    BY <1>3, <1>4, <1>10
  <1>12. (\A nm : nm \in visiting <=> \E i \in 1..Len(calls) : nm = Name[calls[i].ref])'
    <2>1. \A nm : nm \in visiting <=> \E i \in 1..n : nm = Name[calls[i].ref]
      BY <1>0, <1>2 DEF CallsOK
    <2>2. \A i \in 1..n : i \in 1..(n - 1) \/ i = n
      BY <1>3
    <2>3. \A i \in 1..(n - 1) : i \in 1..n /\ i # n
      BY <1>3
    <2>4. \A nm : nm \in visiting' <=> \E i \in 1..(n - 1) : nm = Name[calls[i].ref]
      BY <1>1, <1>2, <1>3, <1>10, <2>1, <2>2, <2>3
    <2>5. QED
      BY <1>4, <2>4
  <1>13. (visiting \cap visited = {})'
    BY <1>1, <1>2 DEF CallsOK
  <1>14. QED
    BY <1>4, <1>6, <1>8, <1>9, <1>11, <1>12, <1>13 DEF CallsOK

\* The module contributes once, after its imports.
LEMMA FinishKeepsCollected ==
    ASSUME GraphInv, Finish
    PROVE  CollectedOK'
  <1>0. PICK n, m, top : n = Len(calls) /\ m = Len(collected) /\ top = Top.ref
    OBVIOUS
  <1>1. /\ Walking /\ ~(Top.imported < Len(This.imports))
        /\ collected' = Append(collected, top)
        /\ visited' = visited \cup {Name[top]}
        /\ UNCHANGED modules
    BY <1>0 DEF Finish, Complete, Registering, ImportsLeft
  <1>2. TypeOK /\ calls # <<>> /\ FrameOK(n) /\ CallsOK /\ CollectedOK /\ top = calls[n].ref
    BY <1>0, <1>1, TopIs DEF GraphInv
  <1>3. n \in Nat \ {0} /\ n \in 1..n /\ top \in Refs
    BY <1>0, <1>2, TopFrame
  <1>4. /\ Len(collected') = m + 1 /\ m \in Nat
        /\ \A i \in 1..m : collected'[i] = collected[i]
        /\ collected'[m + 1] = top
    <2>1. collected \in Seq(Refs)
      BY <1>2 DEF TypeOK
    <2>2. QED
      BY <1>0, <1>1, <1>3, <2>1, AppendProperties
  <1>5. 1..Len(collected') = 1..m \cup {m + 1}
    BY <1>4
  <1>6. \A r : Dependencies(r)' = Dependencies(r) /\ Imported(r)' = Imported(r)
    <2>1. \A r : Imported(r)' = Imported(r)
      BY <1>1 DEF Imported
    <2>2. QED
      BY <1>1, <2>1, DependenciesStay
  <1>7. \A nm : nm \in visited <=> \E i \in 1..m : nm = Name[collected[i]]
    BY <1>0, <1>2 DEF CollectedOK
  <1>8. (\A nm : nm \in visited <=> \E i \in 1..Len(collected) : nm = Name[collected[i]])'
    BY <1>1, <1>4, <1>5, <1>7
  <1>9. (\A i \in 1..Len(collected) : collected[i] \in {AppModule} \cup Dependencies(AppModule))'
    <2>1. top \in {AppModule} \cup Dependencies(AppModule)
      BY <1>0, <1>1, TopIs
    <2>2. \A i \in 1..m : collected[i] \in {AppModule} \cup Dependencies(AppModule)
      BY <1>0, <1>2 DEF CollectedOK
    <2>3. QED
      BY <1>4, <1>5, <1>6, <2>1, <2>2
  <1>10. ImportsFirst'
    <2>1. \A q \in Imported(top) : \E j \in 1..m : Name[collected[j]] = Name[q]
      <3>1. SUFFICES ASSUME NEW q \in Imported(top) PROVE Name[q] \in visited
        BY <1>7
      <3>2. PICK k \in 1..Len(ImportsOf(n)) : q = ImportsOf(n)[k]
        BY <1>2 DEF Imported, ImportsOf
      <3>3. k \in 1..calls[n].imported
        <4>1. ~(calls[n].imported < Len(ImportsOf(n)))
          BY <1>0, <1>1, TopIs
        <4>2. calls[n].imported \in Nat /\ Len(ImportsOf(n)) \in Nat
          BY <1>0, <1>2, <1>3, TopFrame
        <4>3. QED
          BY <4>1, <4>2
      <3>4. QED
        BY <1>0, <1>2, <1>3, <3>2, <3>3 DEF FrameOK
    <2>2. \A i \in 1..m : \A q \in Imported(collected[i]) :
              \E j \in 1..(i - 1) : Name[collected[j]] = Name[q]
      BY <1>0, <1>2 DEF CollectedOK, ImportsFirst
    <2>3. (\A i \in 1..Len(collected) : \A q \in Imported(collected[i]) :
               \E j \in 1..(i - 1) : Name[collected[j]] = Name[q])'
      <3>1. SUFFICES ASSUME NEW i \in 1..Len(collected'), NEW q \in Imported(collected'[i])
                     PROVE  \E j \in 1..(i - 1) : Name[collected'[j]] = Name[q]
        BY <1>6
      <3>2. \A j \in 1..(i - 1) : collected'[j] = collected[j]
        BY <1>4
      <3>3. CASE i = m + 1
        BY <1>4, <2>1, <3>1, <3>2, <3>3
      <3>4. CASE i \in 1..m
        BY <1>4, <2>2, <3>1, <3>2, <3>4
      <3>5. QED
        BY <1>5, <3>3, <3>4
    <2>4. QED
      BY <2>3 DEF ImportsFirst
  <1>11. ContributesOnce'
    <2>1. Name[top] \notin visited
      BY <1>0, <1>2, <1>3 DEF CallsOK
    <2>2. \A i \in 1..m : Name[collected[i]] # Name[top]
      BY <1>7, <2>1
    <2>3. \A i, j \in 1..m : Name[collected[i]] = Name[collected[j]] => i = j
      BY <1>0, <1>2 DEF CollectedOK, ContributesOnce
    <2>4. (\A i, j \in 1..Len(collected) : Name[collected[i]] = Name[collected[j]] => i = j)'
      BY <1>4, <1>5, <2>2, <2>3
    <2>5. QED
      BY <2>4 DEF ContributesOnce
  <1>12. QED
    BY <1>8, <1>9, <1>10, <1>11 DEF CollectedOK

\* What the module provides is in the container when its call returns.
LEMMA FinishKeepsSingletons ==
    ASSUME GraphInv, Finish
    PROVE  SingletonsOK'
  <1> SUFFICES ASSUME walk = "register"
               PROVE  (\A ty : ty \in singletons <=>
                          \/ \E i \in 1..Len(collected) : ty \in Provided(collected[i])
                          \/ calls # <<>> /\ ProvidedBy(Len(calls), ty))'
    BY DEF SingletonsOK, Finish
  <1>0. PICK n, m, top : n = Len(calls) /\ m = Len(collected) /\ top = Top.ref
    OBVIOUS
  <1>1. /\ Walking /\ ~(Top.provided < Len(This.providers))
        /\ collected' = Append(collected, top)
        /\ UNCHANGED <<modules, singletons, walk, overridden>>
    BY <1>0 DEF Finish, Complete, Registering, ProvidersLeft
  <1>2. /\ TypeOK /\ calls # <<>> /\ FrameOK(n) /\ CallsOK /\ SingletonsOK
        /\ top = calls[n].ref
    BY <1>0, <1>1, TopIs DEF GraphInv
  <1>3. n \in Nat \ {0} /\ n \in 1..n /\ top \in Refs
    BY <1>0, <1>2, TopFrame
  <1>4. /\ Len(collected') = m + 1 /\ m \in Nat
        /\ \A i \in 1..m : collected'[i] = collected[i]
        /\ collected'[m + 1] = top
    <2>1. collected \in Seq(Refs)
      BY <1>2 DEF TypeOK
    <2>2. QED
      BY <1>0, <1>1, <1>3, <2>1, AppendProperties
  <1>5. 1..Len(collected') = 1..m \cup {m + 1}
    BY <1>4
  <1>6. calls[n].provided = Len(ProvidersOf(n))
    <2>1. ~(calls[n].provided < Len(ProvidersOf(n)))
      BY <1>0, <1>1, TopIs
    <2>2. calls[n].provided <= Len(ProvidersOf(n))
      BY <1>2 DEF FrameOK
    <2>3. calls[n].provided \in Nat /\ Len(ProvidersOf(n)) \in Nat
      BY <1>0, <1>2, <1>3, TopFrame
    <2>4. QED
      BY <2>1, <2>2, <2>3
  <1>7. \A ty : ProvidedBy(n, ty) <=> ty \in Provided(top)
    BY <1>2, <1>6 DEF ProvidedBy, Provided, ProvidersOf
  <1>8. \A ty : ty \in singletons <=>
            (\E i \in 1..m : ty \in Provided(collected[i])) \/ ty \in Provided(top)
    BY <1>0, <1>2, <1>7 DEF SingletonsOK
  <1>9. calls' # <<>> => \A ty : ~ProvidedBy(Len(calls), ty)'
    <2>1. SUFFICES ASSUME calls' # <<>> PROVE \A ty : ~ProvidedBy(Len(calls), ty)'
      OBVIOUS
    <2>2. /\ calls' \in Seq(Frame) /\ Len(calls') = n - 1
          /\ \A i \in 1..(n - 1) : calls'[i] = calls[i]
      BY <1>0, <1>2, Returns DEF Finish
    <2>3. Len(calls') # 0
      BY <2>1, <2>2, EmptySeq
    <2>4. n - 1 \in 1..(n - 1) /\ n - 1 \in 1..n /\ n - 1 # n
      BY <1>3, <2>2, <2>3
    <2>5. FrameOK(n - 1) /\ calls[n - 1].provided \in Nat
      BY <1>0, <1>2, <2>4, TopFrame DEF CallsOK
    <2>6. calls[n - 1].provided = 0
      BY <1>0, <2>4, <2>5 DEF FrameOK
    <2>7. calls'[Len(calls')].provided = 0
      BY <2>2, <2>4, <2>6
    <2>8. QED
      BY <2>7 DEF ProvidedBy
  <1>10. \A r : Provided(r)' = Provided(r)
    BY <1>1, GraphStays
  <1>11. (\A ty : (\E i \in 1..Len(collected) : ty \in Provided(collected[i])) <=>
                  ty \in singletons)'
    BY <1>1, <1>4, <1>5, <1>8, <1>10
  <1>12. QED
    BY <1>9, <1>11

LEMMA FinishKeepsOutcome ==
    ASSUME GraphInv, Finish
    PROVE  OutcomeOK'
  <1>0. PICK n, m, top : n = Len(calls) /\ m = Len(collected) /\ top = Top.ref
    OBVIOUS
  <1>1. /\ Walking /\ collected' = Append(collected, top)
        /\ outcome' = IF n = 1 THEN "done" ELSE "walking"
    BY <1>0 DEF Finish, Complete, Registering
  <1>2. TypeOK /\ calls # <<>> /\ CallsOK /\ top = calls[n].ref
    BY <1>0, <1>1, TopIs DEF GraphInv
  <1>3. n \in Nat \ {0} /\ n \in 1..n /\ top \in Refs
    BY <1>0, <1>2, TopFrame
  <1>4. calls' \in Seq(Frame) /\ Len(calls') = n - 1
    BY <1>0, <1>2, Returns DEF Finish
  <1>5. m + 1 \in 1..Len(collected') /\ collected'[m + 1] = top
    <2>1. collected \in Seq(Refs)
      BY <1>2 DEF TypeOK
    <2>2. Len(collected') = m + 1 /\ m \in Nat /\ collected'[m + 1] = top
      BY <1>0, <1>1, <1>3, <2>1, AppendProperties
    <2>3. QED
      BY <2>2
  <1>6. CASE n = 1
    <2>1. calls' = <<>>
      BY <1>4, <1>6, EmptySeq
    <2>2. top = AppModule
      BY <1>2, <1>6 DEF CallsOK
    <2>3. QED
      BY <1>1, <1>5, <1>6, <2>1, <2>2 DEF OutcomeOK, WellFormedStarts
  <1>7. CASE n # 1
    <2>1. calls' # <<>>
      BY <1>3, <1>4, <1>7, EmptySeq
    <2>2. QED
      BY <1>1, <1>7, <2>1 DEF OutcomeOK, WellFormedStarts
  <1>8. QED
    BY <1>6, <1>7

\* Nothing contributes before its call returns.
LEMMA CollectedStays ==
    ASSUME CollectedOK, UNCHANGED <<modules, overridden, visited, collected>>
    PROVE  CollectedOK'
  <1>1. \A r : Dependencies(r)' = Dependencies(r) /\ Imported(r)' = Imported(r)
    BY GraphStays
  <1>2. ImportsFirst' /\ ContributesOnce'
    BY <1>1 DEF CollectedOK, ImportsFirst, ContributesOnce
  <1>3. QED
    BY <1>1, <1>2 DEF CollectedOK

\* Neither does a module that is visited provide anything before its imports.
LEMMA SingletonsStay ==
    ASSUME GraphInv, SkipVisited \/ VisitImport
    PROVE  SingletonsOK'
  <1>0. PICK n : n = Len(calls)
    OBVIOUS
  <1>1. /\ ImportsLeft /\ Walking /\ Top.imported < Len(This.imports)
        /\ UNCHANGED <<modules, singletons, walk, overridden, collected>>
    BY DEF SkipVisited, VisitImport, ImportsLeft
  <1>2. TypeOK /\ calls # <<>> /\ FrameOK(n) /\ SingletonsOK
    BY <1>0, <1>1, TopIs DEF GraphInv
  <1>3. n \in Nat \ {0} /\ n \in 1..n
    BY <1>0, <1>2, TopFrame
  <1>4. calls[n].provided = 0
    <2>1. calls[n].imported < Len(ImportsOf(n))
      BY <1>0, <1>1, TopIs
    <2>2. calls[n].provided \in Nat /\ calls[n].imported \in Nat /\ Len(ImportsOf(n)) \in Nat
      BY <1>0, <1>2, <1>3, TopFrame
    <2>3. QED
      BY <1>2, <2>1, <2>2 DEF FrameOK
  <1>5. calls'[Len(calls')].provided = 0
    <2>1. CASE SkipVisited
      <3>1. calls' = [calls EXCEPT ![Len(calls)].imported = @ + 1]
        BY <2>1 DEF SkipVisited
      <3>2. Len(calls') = n /\ calls'[n].provided = calls[n].provided
        BY <1>0, <1>2, <1>3, <3>1, Imports
      <3>3. QED
        BY <1>4, <3>2
    <2>2. CASE VisitImport
      <3>1. NextImport \in Refs
        <4>1. ImportsOf(n) \in Seq(Refs) /\ calls[n].imported \in Nat
          BY <1>0, <1>2, <1>3, TopFrame
        <4>2. calls[n].imported < Len(ImportsOf(n))
              /\ NextImport = ImportsOf(n)[calls[n].imported + 1]
          BY <1>0, <1>1, TopIs DEF NextImport
        <4>3. QED
          BY <4>1, <4>2
      <3>2. calls' = Append([calls EXCEPT ![Len(calls)].imported = @ + 1], Call(NextImport))
        BY <2>2 DEF VisitImport
      <3>3. Len(calls') = n + 1 /\ calls'[n + 1].provided = 0
        BY <1>0, <1>2, <3>1, <3>2, Visits
      <3>4. QED
        BY <3>3
    <2>3. QED
      BY <2>1, <2>2
  <1>6. \A ty : ~ProvidedBy(n, ty) /\ ~ProvidedBy(Len(calls), ty)'
    BY <1>4, <1>5 DEF ProvidedBy
  <1>7. \A r : Provided(r)' = Provided(r)
    BY <1>1, GraphStays
  <1>8. QED
    BY <1>0, <1>1, <1>2, <1>6, <1>7 DEF SingletonsOK

LEMMA FailKeeps ==
    ASSUME GraphInv, Walking, NEW error \in Outcomes \ {"walking", "done"},
           Fail(error), WellFormed => error = "failed"
    PROVE  GraphInv'
  <1>1. UNCHANGED <<modules, walk, overridden, singletons, calls, visiting, visited, collected>>
        /\ outcome' = error
    BY DEF Fail
  <1>2. TypeOK'
    BY <1>1 DEF GraphInv, TypeOK
  <1>3. \A r : /\ Dependencies(r)' = Dependencies(r) /\ Imported(r)' = Imported(r)
               /\ Provided(r)' = Provided(r)
    BY <1>1, GraphStays
  <1>4. CallsOK'
    <2>1. \A i : FrameOK(i)' <=> FrameOK(i)
      BY <1>1 DEF FrameOK, ImportsOf, ProvidersOf
    <2>2. QED
      BY <1>1, <1>3, <2>1 DEF GraphInv, CallsOK
  <1>5. CollectedOK'
    BY <1>1, CollectedStays DEF GraphInv
  <1>6. SingletonsOK'
    BY <1>1, <1>3 DEF GraphInv, SingletonsOK, ProvidedBy, ProvidersOf
  <1>7. OutcomeOK'
    <2>1. WellFormed' => WellFormed
      BY <1>1, GraphStays
    <2>2. QED
      BY <1>1, <2>1 DEF OutcomeOK, WellFormedStarts
  <1>8. QED
    BY <1>2, <1>4, <1>5, <1>6, <1>7 DEF GraphInv

-----------------------------------------------------------------------------
(***************************************************************************)
(* A well-formed application is walked to the end.                         *)
(***************************************************************************)

\* Meeting a module that is being visited is a cycle.
LEMMA WellFormedHasNoCycle ==
    ASSUME GraphInv, DetectCycle
    PROVE  ~WellFormed
  <1>0. PICK n : n = Len(calls)
    OBVIOUS
  <1> SUFFICES ASSUME WellFormed PROVE FALSE
    OBVIOUS
  <1>1. /\ Walking /\ Top.imported < Len(This.imports)
        /\ Name[NextImport] \in visiting
    BY DEF DetectCycle, ImportsLeft
  <1>2. TypeOK /\ calls # <<>> /\ CallsOK
    BY <1>1, TopIs DEF GraphInv
  <1>3. /\ n \in Nat \ {0} /\ n \in 1..n
        /\ \A i \in 1..n : calls[i].ref \in Refs
        /\ ImportsOf(n) \in Seq(Refs) /\ calls[n].imported \in Nat
    <2>1. n \in Nat \ {0} /\ n \in 1..n /\ \A i \in 1..n : calls[i].ref \in Refs
      BY <1>0, <1>2, TopFrame
    <2>2. ImportsOf(n) \in Seq(Refs) /\ calls[n].imported \in Nat
      BY <1>0, <1>2, <2>1, TopFrame
    <2>3. QED
      BY <2>1, <2>2
  <1>4. NextImport \in Refs /\ NextImport \in Imported(calls[n].ref)
    <2>1. calls[n].imported < Len(ImportsOf(n))
          /\ NextImport = ImportsOf(n)[calls[n].imported + 1]
      BY <1>0, <1>1, TopIs DEF NextImport
    <2>2. calls[n].imported + 1 \in 1..Len(ImportsOf(n))
      BY <1>3, <2>1
    <2>3. QED
      BY <1>3, <2>1, <2>2 DEF ImportsOf, Imported
  <1>5. PICK i \in 1..n : Name[NextImport] = Name[calls[i].ref]
    BY <1>0, <1>1, <1>2 DEF CallsOK
  <1>6. NextImport = calls[i].ref
    BY <1>3, <1>4, <1>5 DEF WellFormed, NamesAreDistinct
  <1>7. modules \in [Refs -> ModuleRef]
    BY <1>2 DEF TypeOK
  <1>8. NextImport \in Dependencies(calls[i].ref)
    <2>1. CASE i = n
      BY <1>3, <1>4, <1>7, <2>1, DependenciesAreClosed
    <2>2. CASE i # n
      <3>1. i < n
        BY <1>3, <2>2
      <3>2. calls[n].ref \in Dependencies(calls[i].ref)
        BY <1>0, <1>2, <1>3, <3>1 DEF CallsOK
      <3>3. QED
        BY <1>3, <1>4, <1>7, <3>2, DependenciesAreClosed
    <2>3. QED
      BY <2>1, <2>2
  <1>9. calls[i].ref \in {AppModule} \cup Dependencies(AppModule)
    <2>1. calls[1].ref = AppModule
      BY <1>2 DEF CallsOK
    <2>2. 1 < i => calls[i].ref \in Dependencies(AppModule)
      BY <1>0, <1>2, <1>3, <2>1 DEF CallsOK
    <2>3. QED
      BY <1>3, <2>1, <2>2
  <1>10. QED
    BY <1>6, <1>8, <1>9 DEF WellFormed

\* What a module provides was not there when its providers are registered ...
LEMMA WellFormedProvidesOnce ==
    ASSUME GraphInv, ProviderRegisteredTwice
    PROVE  ~WellFormed
  <1>0. PICK n, top : n = Len(calls) /\ top = Top.ref
    OBVIOUS
  <1> SUFFICES ASSUME WellFormed PROVE FALSE
    OBVIOUS
  <1>1. /\ Walking /\ walk = "register" /\ Top.provided < Len(This.providers)
        /\ NextProvider \in singletons
    BY DEF ProviderRegisteredTwice, ProvidersLeft, Registering
  <1>2. /\ TypeOK /\ calls # <<>> /\ CallsOK /\ CollectedOK /\ SingletonsOK
        /\ top = calls[n].ref
        /\ top \in {AppModule} \cup Dependencies(AppModule)
    BY <1>0, <1>1, TopIs DEF GraphInv
  <1>3. /\ n \in Nat \ {0} /\ n \in 1..n
        /\ ProvidersOf(n) \in Seq(Types) /\ calls[n].provided \in Nat
    <2>1. n \in Nat \ {0} /\ n \in 1..n
      BY <1>0, <1>2, TopFrame
    <2>2. ProvidersOf(n) \in Seq(Types) /\ calls[n].provided \in Nat
      BY <1>0, <1>2, <2>1, TopFrame
    <2>3. QED
      BY <2>1, <2>2
  <1>4. /\ calls[n].provided + 1 \in 1..Len(ProvidersOf(n))
        /\ NextProvider = ProvidersOf(n)[calls[n].provided + 1]
    <2>1. calls[n].provided < Len(ProvidersOf(n))
          /\ NextProvider = ProvidersOf(n)[calls[n].provided + 1]
      BY <1>0, <1>1, TopIs DEF NextProvider
    <2>2. QED
      BY <1>3, <2>1
  <1>5. NextProvider \in Provided(top)
    BY <1>2, <1>4 DEF Provided, ProvidersOf
  <1>6. ASSUME NEW i \in 1..Len(collected), NextProvider \in Provided(collected[i])
        PROVE  FALSE
    <2>1. collected[i] \in {AppModule} \cup Dependencies(AppModule)
      BY <1>2 DEF CollectedOK
    <2>2. Name[collected[i]] \in visited
      BY <1>2 DEF CollectedOK
    <2>3. Name[top] \in visiting
      BY <1>0, <1>2, <1>3 DEF CallsOK
    <2>4. collected[i] # top
      BY <1>2, <2>2, <2>3 DEF CallsOK
    <2>5. Provided(collected[i]) \cap Provided(top) = {}
      BY <1>2, <2>1, <2>4 DEF WellFormed
    <2>6. QED
      BY <1>5, <1>6, <2>5
  <1>7. PICK k \in 1..calls[n].provided : NextProvider = ProvidersOf(n)[k]
    BY <1>0, <1>1, <1>2, <1>6 DEF SingletonsOK, ProvidedBy
  <1>8. k \in 1..Len(ProvidersOf(n)) /\ k # calls[n].provided + 1
    BY <1>3, <1>4
  <1>9. \A i, j \in 1..Len(ProvidersOf(n)) : ProvidersOf(n)[i] = ProvidersOf(n)[j] => i = j
    BY <1>2 DEF WellFormed, ProvidersOf
  <1>10. QED
    BY <1>4, <1>7, <1>8, <1>9

\* ... and what its dependencies provide is.
LEMMA ImportedTypesAreThere ==
    ASSUME GraphInv, Registering, walk = "register", WellFormed
    PROVE  /\ \A q \in Dependencies(Top.ref) : Provided(q) \subseteq singletons
           /\ \A k \in 1..Top.provided : This.providers[k] \in singletons
  <1>1. Walking /\ ~(Top.imported < Len(This.imports))
    BY DEF Registering, ImportsLeft
  <1>2. /\ TypeOK /\ calls # <<>> /\ FrameOK(Len(calls)) /\ Top = calls[Len(calls)]
        /\ This.imports = ImportsOf(Len(calls)) /\ This.providers = ProvidersOf(Len(calls))
    BY <1>1, TopIs
  <1>3. calls[Len(calls)].imported = Len(ImportsOf(Len(calls)))
    <2>1. Len(calls) \in 1..Len(calls)
      BY <1>2, TopFrame
    <2>2. calls[Len(calls)].imported \in Nat /\ Len(ImportsOf(Len(calls))) \in Nat
      BY <1>2, <2>1, TopFrame
    <2>3. calls[Len(calls)].imported <= Len(ImportsOf(Len(calls)))
      BY <1>2 DEF FrameOK
    <2>4. QED
      BY <1>1, <1>2, <2>2, <2>3
  <1>4. NamesAreDistinct
    BY DEF WellFormed
  <1>5. \A q \in Dependencies(Top.ref) : \E j \in 1..Len(collected) : collected[j] = q
    BY <1>2, <1>3, <1>4, DependenciesAreReady
  <1>6. \A ty : ty \in singletons <=>
            \/ \E i \in 1..Len(collected) : ty \in Provided(collected[i])
            \/ ProvidedBy(Len(calls), ty)
    BY <1>2 DEF GraphInv, SingletonsOK
  <1>7. \A k \in 1..Top.provided : This.providers[k] \in singletons
    BY <1>2, <1>6 DEF ProvidedBy
  <1>8. QED
    BY <1>5, <1>6, <1>7

LEMMA WellFormedMissesNothing ==
    ASSUME GraphInv, ProviderMissesType \/ ExportMissing
    PROVE  ~WellFormed
  <1> SUFFICES ASSUME WellFormed PROVE FALSE
    OBVIOUS
  <1> DEFINE Within == (UNION {Provided(q) : q \in Dependencies(Top.ref)}) \cup overridden
  <1>1. Registering /\ walk = "register" /\ Walking
    BY DEF ProviderMissesType, ExportMissing, ProvidersLeft, Complete, Registering
  <1>2. Top.ref \in {AppModule} \cup Dependencies(AppModule) /\ This = modules[Top.ref]
    BY <1>1, TopIs
  <1>3. \A ty \in Within : Registered(ty)
    BY <1>1, ImportedTypesAreThere DEF Registered
  <1>4. /\ Top.provided \in Nat /\ Len(This.providers) \in Nat
        /\ Top.provided <= Len(This.providers)
    <2>1. /\ TypeOK /\ calls # <<>> /\ FrameOK(Len(calls)) /\ Top = calls[Len(calls)]
          /\ This.providers = ProvidersOf(Len(calls))
      BY <1>1, TopIs
    <2>2. Len(calls) \in 1..Len(calls)
      BY <2>1, TopFrame
    <2>3. QED
      BY <2>1, <2>2, TopFrame DEF FrameOK
  <1>5. CASE ProviderMissesType
    <2>1. /\ Top.provided < Len(This.providers)
          /\ \E ty \in Needs[This.providers[Top.provided + 1]] : ~Registered(ty)
      BY <1>5 DEF ProviderMissesType, ProvidersLeft, NextProvider
    <2>2. Top.provided + 1 \in 1..Len(This.providers)
      BY <1>4, <2>1
    <2>3. Needs[This.providers[Top.provided + 1]] \subseteq
              Within \cup {This.providers[j] : j \in 1..((Top.provided + 1) - 1)}
      BY <1>2, <2>2 DEF WellFormed
    <2>4. (Top.provided + 1) - 1 = Top.provided
      BY <1>4
    <2>5. \A j \in 1..Top.provided : Registered(This.providers[j])
      BY <1>1, ImportedTypesAreThere DEF Registered
    <2> HIDE DEF Within
    <2>6. QED
      BY <1>3, <2>1, <2>3, <2>4, <2>5
  <1>6. CASE ExportMissing
    <2>1. ~(Top.provided < Len(This.providers)) /\ \E ty \in This.exports : ~Registered(ty)
      BY <1>1, <1>6 DEF ExportMissing, Complete, ProvidersLeft
    <2>2. Top.provided = Len(This.providers)
      BY <1>4, <2>1
    <2>3. This.exports \subseteq Within \cup Provided(Top.ref)
      BY <1>2 DEF WellFormed
    <2>4. \A ty \in Provided(Top.ref) : \E j \in 1..Top.provided : ty = This.providers[j]
      BY <1>2, <2>2 DEF Provided
    <2>5. \A ty \in Provided(Top.ref) : Registered(ty)
      BY <1>1, <2>4, ImportedTypesAreThere DEF Registered
    <2> HIDE DEF Within
    <2>6. QED
      BY <1>3, <2>1, <2>3, <2>5
  <1>7. QED
    BY <1>5, <1>6

-----------------------------------------------------------------------------
LEMMA InitWalk == Init => GraphInv
  <1> SUFFICES ASSUME Init PROVE GraphInv
    OBVIOUS
  <1> DEFINE f == Call(AppModule)
  <1>1. f \in Frame /\ f.ref = AppModule /\ f.imported = 0 /\ f.provided = 0
    BY ModuleGraphAssumption DEF Call, Frame
  <1>2. calls = <<f>>
    BY DEF Init
  <1> HIDE DEF f
  <1>3. calls \in Seq(Frame) /\ Len(calls) = 1 /\ calls[1] = f /\ calls # <<>>
    BY <1>1, <1>2
  <1>4. TypeOK
    BY <1>3, ModuleGraphAssumption DEF Init, TypeOK, Outcomes
  <1>5. CallsOK
    <2>1. 1 \in 1..Len(calls)
      BY <1>3
    <2>2. Len(ImportsOf(1)) \in Nat /\ Len(ProvidersOf(1)) \in Nat
      BY <1>3, <1>4, <2>1, TopFrame
    <2>3. FrameOK(1)
      BY <1>1, <1>3, <2>2 DEF FrameOK
    <2>4. \A i \in 1..Len(calls) : i = 1
      BY <1>3
    <2>5. visiting = {Name[AppModule]} /\ visited = {}
      BY DEF Init
    <2>6. QED
      BY <1>1, <1>3, <2>1, <2>3, <2>4, <2>5 DEF CallsOK
  <1>6. CollectedOK
    BY DEF Init, CollectedOK, ImportsFirst, ContributesOnce
  <1>7. SingletonsOK
    BY <1>1, <1>3 DEF Init, SingletonsOK, ProvidedBy
  <1>8. OutcomeOK
    BY <1>3 DEF Init, OutcomeOK, WellFormedStarts
  <1>9. QED
    BY <1>4, <1>5, <1>6, <1>7, <1>8 DEF GraphInv

LEMMA NextWalk == GraphInv /\ [Next]_graphVars => GraphInv'
  <1> SUFFICES ASSUME GraphInv, [Next]_graphVars PROVE GraphInv'
    OBVIOUS
  <1>1. TypeOK'
    BY TypesStay
  <1>2. /\ TypeOK /\ CallsOK /\ CollectedOK /\ SingletonsOK /\ OutcomeOK
        /\ Walking => calls # <<>>
    BY DEF GraphInv, OutcomeOK, Walking
  <1>3. ASSUME calls' # <<>>, UNCHANGED <<modules, overridden, outcome>>, outcome = "walking"
        PROVE  OutcomeOK'
    BY <1>3 DEF OutcomeOK, WellFormedStarts
  <1>4. CASE SkipVisited
    <2>1. calls' # <<>>
      <3>1. Len(calls') = Len(calls) /\ calls # <<>>
        BY <1>2, <1>4, Imports DEF SkipVisited, ImportsLeft
      <3>2. QED
        BY <1>1, <1>2, <3>1, EmptySeq DEF TypeOK
    <2>2. OutcomeOK'
      BY <1>3, <1>4, <2>1 DEF SkipVisited, ImportsLeft, Walking
    <2>3. CollectedOK'
      BY <1>2, <1>4, CollectedStays DEF SkipVisited
    <2>4. QED
      BY <1>1, <1>4, <2>2, <2>3, SkipVisitedKeeps, SingletonsStay DEF GraphInv
  <1>5. CASE VisitImport
    <2>1. calls' # <<>>
      BY <1>5 DEF VisitImport
    <2>2. OutcomeOK'
      BY <1>3, <1>5, <2>1 DEF VisitImport, ImportsLeft, Walking
    <2>3. CollectedOK'
      BY <1>2, <1>5, CollectedStays DEF VisitImport
    <2>4. QED
      BY <1>1, <1>5, <2>2, <2>3, VisitImportKeeps, SingletonsStay DEF GraphInv
  <1>6. CASE RegisterProvider
    <2>1. calls' # <<>>
      <3>1. Len(calls') = Len(calls) /\ calls # <<>>
        BY <1>2, <1>6, Provides DEF RegisterProvider, ProvidersLeft, Registering
      <3>2. QED
        BY <1>1, <1>2, <3>1, EmptySeq DEF TypeOK
    <2>2. OutcomeOK'
      BY <1>3, <1>6, <2>1 DEF RegisterProvider, ProvidersLeft, Registering, Walking
    <2>3. CollectedOK'
      BY <1>2, <1>6, CollectedStays DEF RegisterProvider
    <2>4. QED
      BY <1>1, <1>6, <2>2, <2>3, RegisterProviderKeeps DEF GraphInv
  <1>7. CASE Finish
    BY <1>1, <1>7, FinishKeepsCalls, FinishKeepsCollected, FinishKeepsSingletons,
       FinishKeepsOutcome DEF GraphInv
  <1>8. CASE DetectCycle
    <2>1. Walking /\ Fail("cycle") /\ "cycle" \in Outcomes \ {"walking", "done"}
      BY <1>8 DEF DetectCycle, ImportsLeft, Outcomes
    <2>2. QED
      BY <1>8, <2>1, WellFormedHasNoCycle, FailKeeps
  <1>9. CASE ProviderMissesType
    <2>1. Walking /\ Fail("missing") /\ "missing" \in Outcomes \ {"walking", "done"}
      BY <1>9 DEF ProviderMissesType, ProvidersLeft, Registering, Outcomes
    <2>2. QED
      BY <1>9, <2>1, WellFormedMissesNothing, FailKeeps
  <1>10. CASE ProviderRegisteredTwice
    <2>1. Walking /\ Fail("duplicate") /\ "duplicate" \in Outcomes \ {"walking", "done"}
      BY <1>10 DEF ProviderRegisteredTwice, ProvidersLeft, Registering, Outcomes
    <2>2. QED
      BY <1>10, <2>1, WellFormedProvidesOnce, FailKeeps
  <1>11. CASE ProviderFails
    <2>1. Walking /\ Fail("failed") /\ "failed" \in Outcomes \ {"walking", "done"}
      BY <1>11 DEF ProviderFails, ProvidersLeft, Registering, Outcomes
    <2>2. QED
      BY <2>1, FailKeeps
  <1>12. CASE ExportMissing
    <2>1. Walking /\ Fail("export") /\ "export" \in Outcomes \ {"walking", "done"}
      BY <1>12 DEF ExportMissing, Complete, Registering, Outcomes
    <2>2. QED
      BY <1>12, <2>1, WellFormedMissesNothing, FailKeeps
  <1>13. CASE UNCHANGED graphVars
    <2>1. UNCHANGED <<modules, walk, overridden, singletons, calls, visiting, visited, collected>>
          /\ outcome' = outcome
      BY <1>13 DEF graphVars
    <2>2. \A r : /\ Dependencies(r)' = Dependencies(r) /\ Provided(r)' = Provided(r)
      BY <2>1, GraphStays
    <2>3. \A i : FrameOK(i)' <=> FrameOK(i)
      BY <2>1 DEF FrameOK, ImportsOf, ProvidersOf
    <2>4. CallsOK'
      BY <1>2, <2>1, <2>2, <2>3 DEF CallsOK
    <2>5. CollectedOK'
      BY <1>2, <2>1, CollectedStays
    <2>6. SingletonsOK'
      BY <1>2, <2>1, <2>2 DEF SingletonsOK, ProvidedBy, ProvidersOf
    <2>7. WellFormed' => WellFormed
      BY <2>1, GraphStays
    <2>8. OutcomeOK'
      BY <1>2, <2>1, <2>7 DEF OutcomeOK, WellFormedStarts
    <2>9. QED
      BY <1>1, <2>4, <2>5, <2>6, <2>8 DEF GraphInv
  <1>14. QED
    BY <1>4, <1>5, <1>6, <1>7, <1>8, <1>9, <1>10, <1>11, <1>12, <1>13 DEF Next

-----------------------------------------------------------------------------
LEMMA InvariantMakesWalkSound == GraphInv => WalkIsSound
  <1> SUFFICES ASSUME GraphInv PROVE WalkIsSound
    OBVIOUS
  <1>1. ASSUME outcome = "done", NamesAreDistinct
        PROVE  LET all == {collected[i] : i \in 1..Len(collected)} IN
               /\ all = {AppModule} \cup Dependencies(AppModule)
               /\ \A r \in all : r \notin Dependencies(r)
    <2> DEFINE all == {collected[i] : i \in 1..Len(collected)}
    <2>1. /\ ImportsFirst /\ ContributesOnce /\ TypeOK
          /\ \A i \in 1..Len(collected) : collected[i] \in {AppModule} \cup Dependencies(AppModule)
      BY DEF GraphInv, CollectedOK
    <2>2. PICK m \in 1..Len(collected) : collected[m] = AppModule
      BY <1>1 DEF GraphInv, OutcomeOK
    <2>3. \A i \in 1..Len(collected) :
              \A q \in Dependencies(collected[i]) : \E j \in 1..(i - 1) : collected[j] = q
      BY <1>1, <2>1, DependenciesContributed
    <2>4. \A q \in Dependencies(AppModule) : q \in all
      <3>1. \A j \in 1..(m - 1) : j \in 1..Len(collected)
        OBVIOUS
      <3>2. QED
        BY <2>2, <2>3, <3>1
    <2>5. ASSUME NEW i \in 1..Len(collected) PROVE collected[i] \notin Dependencies(collected[i])
      <3>1. SUFFICES ASSUME NEW j \in 1..(i - 1), collected[j] = collected[i] PROVE FALSE
        BY <2>3
      <3>2. j \in 1..Len(collected) /\ j # i
        OBVIOUS
      <3>3. QED
        BY <2>1, <3>1, <3>2 DEF ContributesOnce
    <2>6. QED
      BY <2>1, <2>2, <2>4, <2>5
  <1>2. ImportsFirst /\ ContributesOnce /\ WellFormedStarts
    BY DEF GraphInv, CollectedOK, OutcomeOK
  <1>3. DoneIsComplete
    BY <1>1 DEF DoneIsComplete
  <1>4. QED
    BY <1>2, <1>3 DEF WalkIsSound

\* An application does with the graph what the walk does, and nothing else.
LEMMA AppSpecWalks == AppSpec => []GraphInv
  <1>1. AppInit => GraphInv
    BY InitWalk DEF AppInit
  <1>2. GraphInv /\ [AppNext]_appVars => GraphInv'
    <2>1. [AppNext]_appVars => [Next]_graphVars
      BY DEF AppNext, Proceed, appVars, walked, Walk, WalkFailed, Described, RunModuleInit,
             RunHook, HookFails, RunApplicationBootstrap, Created, Listen, ServeReturns,
             ServeFails, Interrupt, Shutdown, RunApplicationShutdown, Stopped
    <2>2. QED
      BY <2>1, NextWalk
  <1>3. QED
    BY <1>1, <1>2, PTL DEF AppSpec

\* Whatever the graph of imports, cycles included, whatever the providers need
\* and whichever of them fails: the walk takes in every import first and every
\* module once; a walk that ends well has taken in the whole application, which
\* has no cycle; and one that is well formed starts (visit_module).
THEOREM WalksAreSound == AppSpec => []WalkIsSound
  <1>1. GraphInv => WalkIsSound
    BY InvariantMakesWalkSound
  <1>2. QED
    BY <1>1, AppSpecWalks, PTL

-----------------------------------------------------------------------------
(***************************************************************************)
(* The lists of hooks: every hook of every module that contributed, once   *)
(* and in the order in which the modules did.                              *)
(***************************************************************************)

HooksOK ==
    \A p \in Phases :
        /\ \A m \in 1..Len(hooks[p]) : \E i \in 1..Len(collected) :
               \E k \in 1..HookCount[collected[i]][p] : hooks[p][m] = <<collected[i], k>>
        /\ \A i \in 1..Len(collected) : \A k \in 1..HookCount[collected[i]][p] :
               \E m \in 1..Len(hooks[p]) : hooks[p][m] = <<collected[i], k>>
        /\ \A m, n \in 1..Len(hooks[p]) : m < n =>
               \A i, j \in 1..Len(collected) :
                   hooks[p][m][1] = collected[i] /\ hooks[p][n][1] = collected[j] =>
                       i < j \/ (i = j /\ hooks[p][m][2] < hooks[p][n][2])

Full(p) == Len(ran[p]) = Len(HookList(p))
Up == {"ready", "serving", "destroy", "shutdown", "stopped"}

\* What has run is the beginning of the list, and what is left its end; a stage
\* that comes after a list is reached when all of it has run.
RunningOK ==
    /\ stage = "walking" => todo = <<>> /\ \A p \in Phases : ran[p] = <<>>
    /\ \A p \in Phases :
          /\ Len(ran[p]) <= Len(HookList(p))
          /\ \A i \in 1..Len(ran[p]) : ran[p][i] = HookList(p)[i]
    /\ stage \in Phases =>
          /\ Len(ran[stage]) + Len(todo) = Len(HookList(stage))
          /\ \A i \in 1..Len(todo) : todo[i] = HookList(stage)[Len(ran[stage]) + i]
    /\ stage \in Up \cup {"bootstrap"} => Full("init")
    /\ stage \in Up => Full("bootstrap")
    /\ stage \in {"shutdown", "stopped"} => Full("destroy")
    /\ stage = "stopped" => Full("shutdown")

AppInv == GraphInv /\ AppTypeOK /\ HooksOK /\ RunningOK

LEMMA Reversed ==
    ASSUME NEW s \in Seq(Hook)
    PROVE  /\ Reverse(s) \in Seq(Hook) /\ Len(Reverse(s)) = Len(s) /\ Len(s) \in Nat
           /\ \A i \in 1..Len(s) : Reverse(s)[i] = s[(Len(s) - i) + 1]
  <1> DEFINE n == Len(s)
             f == Reverse(s)
  <1>1. n \in Nat
    OBVIOUS
  <1>2. f = [i \in 1..n |-> s[(n - i) + 1]]
    BY DEF Reverse
  <1>3. \A i \in 1..n : s[(n - i) + 1] \in Hook
    BY <1>1, ElementOfSeq
  <1>4. f \in [1..n -> Hook]
    BY <1>2, <1>3
  <1>5. f \in Seq(Hook) /\ Len(f) = n
    <2> HIDE DEF f, n
    <2>1. f \in Seq(Hook)
      BY <1>1, <1>4, SeqDef
    <2>2. DOMAIN f = 1..n /\ DOMAIN f = 1..Len(f) /\ Len(f) \in Nat
      BY <1>4, <2>1, LenProperties
    <2>3. QED
      BY <1>1, <2>1, <2>2
  <1>6. QED
    BY <1>1, <1>2, <1>5

LEMMA HookLists ==
    ASSUME NEW p \in Phases, hooks \in [Phases -> Seq(Hook)]
    PROVE  /\ HookList(p) \in Seq(Hook) /\ Len(HookList(p)) = Len(hooks[p])
           /\ Len(hooks[p]) \in Nat
           /\ \A i \in 1..Len(hooks[p]) :
                 HookList(p)[i] = IF p \in {"destroy", "shutdown"}
                                  THEN hooks[p][(Len(hooks[p]) - i) + 1] ELSE hooks[p][i]
  <1>1. hooks[p] \in Seq(Hook)
    OBVIOUS
  <1>2. QED
    BY <1>1, Reversed DEF HookList

LEMMA ModuleHooksAre ==
    ASSUME NEW r \in Refs, NEW p \in Phases
    PROVE  /\ ModuleHooks(r, p) \in Seq(Hook) /\ Len(ModuleHooks(r, p)) = HookCount[r][p]
           /\ HookCount[r][p] \in Nat
           /\ \A k \in 1..HookCount[r][p] : ModuleHooks(r, p)[k] = <<r, k>>
  <1> DEFINE n == HookCount[r][p]
             f == ModuleHooks(r, p)
  <1>1. n \in Nat
    BY ApplicationAssumption
  <1>2. f = [k \in 1..n |-> <<r, k>>]
    BY DEF ModuleHooks
  <1>3. \A k \in 1..n : <<r, k>> \in Hook
    BY <1>1 DEF Hook
  <1>4. f \in [1..n -> Hook]
    BY <1>2, <1>3
  <1>5. f \in Seq(Hook) /\ Len(f) = n
    <2> HIDE DEF f, n
    <2>1. f \in Seq(Hook)
      BY <1>1, <1>4, SeqDef
    <2>2. DOMAIN f = 1..n /\ DOMAIN f = 1..Len(f) /\ Len(f) \in Nat
      BY <1>4, <2>1, LenProperties
    <2>3. QED
      BY <1>1, <2>1, <2>2
  <1>6. QED
    BY <1>1, <1>2, <1>5

\* A module contributes when its call returns, and only then.
LEMMA OnlyFinishCollects ==
    ASSUME Next, collected' # collected
    PROVE  Finish
  BY DEF Next, SkipVisited, VisitImport, RegisterProvider, DetectCycle, ProviderMissesType,
         ProviderRegisteredTwice, ProviderFails, ExportMissing, Fail

LEMMA WalkKeepsHooks ==
    ASSUME GraphInv, GraphInv', hooks \in [Phases -> Seq(Hook)], HooksOK, Walk
    PROVE  HooksOK' /\ hooks' \in [Phases -> Seq(Hook)]
  <1>1. CASE collected' = collected
    <2>1. hooks' = hooks
      BY <1>1 DEF Walk
    <2>2. HooksOK' <=> HooksOK
      BY <1>1, <2>1 DEF HooksOK
    <2>3. QED
      BY <2>1, <2>2
  <1>2. CASE collected' # collected
    <2>0. PICK m, top : m = Len(collected) /\ top = Top.ref
      OBVIOUS
    <2>1. Finish
      BY <1>2, OnlyFinishCollects DEF Walk
    <2>2. /\ top \in Refs /\ collected \in Seq(Refs)
          /\ collected' = Append(collected, top)
      <3>1. Walking /\ calls # <<>> /\ TypeOK
        BY <2>1, TopIs DEF Finish, Complete, Registering
      <3>2. QED
        BY <2>0, <2>1, <3>1, TopFrame DEF Top, Finish, TypeOK
    <2>3. /\ Len(collected') = m + 1 /\ m \in Nat
          /\ \A i \in 1..m : collected'[i] = collected[i]
          /\ collected'[m + 1] = top
      BY <2>0, <2>2, AppendProperties
    <2>4. 1..Len(collected') = 1..m \cup {m + 1}
      BY <2>3
    <2>5. \A i \in 1..m : collected[i] # top
      <3>1. ContributesOnce'
        BY DEF GraphInv, CollectedOK
      <3>2. \A i \in 1..m : i # m + 1
        BY <2>3
      <3>3. QED
        BY <2>3, <2>4, <3>1, <3>2 DEF ContributesOnce
    <2>6. hooks' = [p \in Phases |-> hooks[p] \o ModuleHooks(top, p)]
      BY <1>2, <2>0 DEF Walk
    <2>7. ASSUME NEW p \in Phases
          PROVE  /\ hooks'[p] \in Seq(Hook)
                 /\ \A x \in 1..Len(hooks'[p]) : \E i \in 1..Len(collected') :
                        \E k \in 1..HookCount[collected'[i]][p] : hooks'[p][x] = <<collected'[i], k>>
                 /\ \A i \in 1..Len(collected') : \A k \in 1..HookCount[collected'[i]][p] :
                        \E x \in 1..Len(hooks'[p]) : hooks'[p][x] = <<collected'[i], k>>
                 /\ \A x, y \in 1..Len(hooks'[p]) : x < y =>
                        \A i, j \in 1..Len(collected') :
                            hooks'[p][x][1] = collected'[i] /\ hooks'[p][y][1] = collected'[j] =>
                                i < j \/ (i = j /\ hooks'[p][x][2] < hooks'[p][y][2])
      <3>0. PICK old, own, l, c : /\ old = hooks[p] /\ own = ModuleHooks(top, p)
                                  /\ l = Len(old) /\ c = HookCount[top][p]
        OBVIOUS
      <3>1. /\ own \in Seq(Hook) /\ Len(own) = c /\ c \in Nat
            /\ \A k \in 1..c : own[k] = <<top, k>>
        BY <2>2, <3>0, ModuleHooksAre
      <3>2. old \in Seq(Hook) /\ l \in Nat /\ hooks'[p] = old \o own
        BY <2>6, <3>0
      <3>3. /\ hooks'[p] \in Seq(Hook) /\ Len(hooks'[p]) = l + c
            /\ \A x \in 1..(l + c) : hooks'[p][x] = IF x <= l THEN old[x] ELSE own[x - l]
        BY <3>0, <3>1, <3>2, ConcatProperties
      <3>4. \A x \in 1..l : x \in 1..(l + c) /\ hooks'[p][x] = old[x]
        BY <3>1, <3>2, <3>3
      <3>5. \A x \in (l + 1)..(l + c) : /\ x - l \in 1..c /\ x \in 1..(l + c)
                                        /\ hooks'[p][x] = <<top, x - l>>
        BY <3>1, <3>2, <3>3
      <3>6. \A k \in 1..c : l + k \in (l + 1)..(l + c) /\ (l + k) - l = k
        BY <3>1, <3>2
      <3>7. \A x \in 1..(l + c) : x \in 1..l \/ x \in (l + 1)..(l + c)
        BY <3>1, <3>2
      <3>8. /\ \A x \in 1..l : \E i \in 1..m : \E k \in 1..HookCount[collected[i]][p] :
                   old[x] = <<collected[i], k>>
            /\ \A i \in 1..m : \A k \in 1..HookCount[collected[i]][p] :
                   \E x \in 1..l : old[x] = <<collected[i], k>>
            /\ \A x, y \in 1..l : x < y =>
                   \A i, j \in 1..m : old[x][1] = collected[i] /\ old[y][1] = collected[j] =>
                       i < j \/ (i = j /\ old[x][2] < old[y][2])
        <4>1. \A x \in 1..l : \E i \in 1..m : \E k \in 1..HookCount[collected[i]][p] :
                  old[x] = <<collected[i], k>>
          BY <2>0, <3>0 DEF HooksOK
        <4>2. \A i \in 1..m : \A k \in 1..HookCount[collected[i]][p] :
                  \E x \in 1..l : old[x] = <<collected[i], k>>
          <5>1. \A i \in 1..Len(collected) : \A k \in 1..HookCount[collected[i]][p] :
                    \E x \in 1..Len(hooks[p]) : hooks[p][x] = <<collected[i], k>>
            BY DEF HooksOK
          <5>2. QED
            BY <2>0, <3>0, <5>1
        <4>3. \A x, y \in 1..l : x < y =>
                  \A i, j \in 1..m : old[x][1] = collected[i] /\ old[y][1] = collected[j] =>
                      i < j \/ (i = j /\ old[x][2] < old[y][2])
          <5>1. \A x, y \in 1..Len(hooks[p]) : x < y =>
                    \A i, j \in 1..Len(collected) :
                        hooks[p][x][1] = collected[i] /\ hooks[p][y][1] = collected[j] =>
                            i < j \/ (i = j /\ hooks[p][x][2] < hooks[p][y][2])
            BY DEF HooksOK
          <5>2. l = Len(hooks[p]) /\ m = Len(collected) /\ old = hooks[p]
            BY <2>0, <3>0
          <5>3. SUFFICES ASSUME NEW x \in 1..l, NEW y \in 1..l, x < y,
                                NEW i \in 1..m, NEW j \in 1..m,
                                old[x][1] = collected[i], old[y][1] = collected[j]
                         PROVE  i < j \/ (i = j /\ old[x][2] < old[y][2])
            OBVIOUS
          <5>4. /\ x \in 1..Len(hooks[p]) /\ y \in 1..Len(hooks[p]) /\ x < y
                /\ i \in 1..Len(collected) /\ j \in 1..Len(collected)
                /\ hooks[p][x][1] = collected[i] /\ hooks[p][y][1] = collected[j]
            BY <5>2, <5>3
          <5>5. i < j \/ (i = j /\ hooks[p][x][2] < hooks[p][y][2])
            BY <5>1, <5>4
          <5>6. QED
            BY <5>2, <5>5
        <4>4. QED
          BY <4>1, <4>2, <4>3
      <3>9. \A x \in 1..Len(hooks'[p]) : \E i \in 1..Len(collected') :
                \E k \in 1..HookCount[collected'[i]][p] : hooks'[p][x] = <<collected'[i], k>>
        <4>1. SUFFICES ASSUME NEW x \in 1..(l + c)
                       PROVE  \E i \in 1..Len(collected') :
                                  \E k \in 1..HookCount[collected'[i]][p] :
                                      hooks'[p][x] = <<collected'[i], k>>
          BY <3>3
        <4>2. CASE x \in 1..l
          <5>1. PICK i \in 1..m : \E k \in 1..HookCount[collected[i]][p] : old[x] = <<collected[i], k>>
            BY <3>8, <4>2
          <5>2. i \in 1..Len(collected') /\ collected'[i] = collected[i]
            BY <2>3, <2>4
          <5>3. QED
            BY <3>4, <4>2, <5>1, <5>2
        <4>3. CASE x \in (l + 1)..(l + c)
          <5>1. m + 1 \in 1..Len(collected') /\ collected'[m + 1] = top
            BY <2>3, <2>4
          <5>2. QED
            BY <3>0, <3>5, <4>3, <5>1
        <4>4. QED
          BY <3>7, <4>2, <4>3
      <3>10. \A i \in 1..Len(collected') : \A k \in 1..HookCount[collected'[i]][p] :
                 \E x \in 1..Len(hooks'[p]) : hooks'[p][x] = <<collected'[i], k>>
        <4>1. SUFFICES ASSUME NEW i \in 1..Len(collected'), NEW k \in 1..HookCount[collected'[i]][p]
                       PROVE  \E x \in 1..(l + c) : hooks'[p][x] = <<collected'[i], k>>
          BY <3>3
        <4>2. CASE i \in 1..m
          <5>1. collected'[i] = collected[i]
            BY <2>3, <4>2
          <5>2. PICK x \in 1..l : old[x] = <<collected[i], k>>
            BY <3>8, <4>1, <4>2, <5>1
          <5>3. QED
            BY <3>4, <5>1, <5>2
        <4>3. CASE i = m + 1
          <5>1. k \in 1..c /\ collected'[i] = top
            BY <2>3, <3>0, <4>1, <4>3
          <5>2. l + k \in (l + 1)..(l + c) /\ (l + k) - l = k
            BY <3>6, <5>1
          <5>3. l + k \in 1..(l + c) /\ hooks'[p][l + k] = <<top, (l + k) - l>>
            BY <3>5, <5>2
          <5>4. QED
            BY <5>1, <5>2, <5>3
        <4>4. QED
          BY <2>4, <4>2, <4>3
      <3>11. \A x, y \in 1..Len(hooks'[p]) : x < y =>
                 \A i, j \in 1..Len(collected') :
                     hooks'[p][x][1] = collected'[i] /\ hooks'[p][y][1] = collected'[j] =>
                         i < j \/ (i = j /\ hooks'[p][x][2] < hooks'[p][y][2])
        <4>1. SUFFICES ASSUME NEW x \in 1..(l + c), NEW y \in 1..(l + c), x < y,
                              NEW i \in 1..Len(collected'), NEW j \in 1..Len(collected'),
                              hooks'[p][x][1] = collected'[i], hooks'[p][y][1] = collected'[j]
                       PROVE  i < j \/ (i = j /\ hooks'[p][x][2] < hooks'[p][y][2])
          BY <3>3
        <4>2. \A z \in 1..l : \A h \in 1..Len(collected') :
                  hooks'[p][z][1] = collected'[h] => h \in 1..m
          <5>1. SUFFICES ASSUME NEW z \in 1..l, hooks'[p][z][1] = top PROVE FALSE
            BY <2>3, <2>4
          <5>2. \E h \in 1..m : hooks'[p][z][1] = collected[h]
            BY <3>4, <3>8
          <5>3. QED
            BY <2>5, <5>1, <5>2
        <4>3. \A z \in (l + 1)..(l + c) : \A h \in 1..Len(collected') :
                  hooks'[p][z][1] = collected'[h] => h = m + 1
          <5>1. SUFFICES ASSUME NEW z \in (l + 1)..(l + c), NEW h \in 1..m,
                                hooks'[p][z][1] = collected[h]
                         PROVE  FALSE
            BY <2>3, <2>4
          <5>2. hooks'[p][z][1] = top
            BY <3>5
          <5>3. QED
            BY <2>5, <5>1, <5>2
        <4>4. CASE y \in 1..l
          <5>1. x \in 1..l
            BY <3>1, <3>2, <4>1, <4>4
          <5>2. i \in 1..m /\ j \in 1..m
            BY <4>1, <4>2, <4>4, <5>1
          <5>3. old[x][1] = collected[i] /\ old[y][1] = collected[j]
            BY <2>3, <3>4, <4>1, <4>4, <5>1, <5>2
          <5>4. i < j \/ (i = j /\ old[x][2] < old[y][2])
            BY <3>8, <4>1, <4>4, <5>1, <5>2, <5>3
          <5>5. QED
            BY <3>4, <4>4, <5>1, <5>4
        <4>5. CASE y \in (l + 1)..(l + c) /\ x \in 1..l
          <5>1. j = m + 1 /\ i \in 1..m
            BY <4>1, <4>2, <4>3, <4>5
          <5>2. QED
            BY <2>3, <5>1
        <4>6. CASE y \in (l + 1)..(l + c) /\ x \in (l + 1)..(l + c)
          <5>1. i = m + 1 /\ j = m + 1
            BY <4>1, <4>3, <4>6
          <5>2. hooks'[p][x][2] = x - l /\ hooks'[p][y][2] = y - l
            BY <3>5, <4>6
          <5>3. QED
            BY <3>2, <4>1, <5>1, <5>2
        <4>7. QED
          BY <3>7, <4>4, <4>5, <4>6
      <3>12. QED
        BY <3>3, <3>9, <3>10, <3>11
    <2>8. hooks' \in [Phases -> Seq(Hook)]
      BY <2>6, <2>7
    <2>9. QED
      BY <2>7, <2>8 DEF HooksOK
  <1>3. QED
    BY <1>1, <1>2

-----------------------------------------------------------------------------
(***************************************************************************)
(* The life of the application, step by step.                              *)
(***************************************************************************)

LEMMA HookListsStay ==
    ASSUME hooks' = hooks
    PROVE  \A p : HookList(p)' = HookList(p)
  BY DEF HookList, Reverse

\* A list has run in full when nothing of it is left.
LEMMA NothingLeft ==
    ASSUME AppInv, NEW p \in Phases, stage = p, todo = <<>>
    PROVE  Full(p)
  <1>1. Len(todo) = 0 /\ Len(ran[p]) \in Nat
    BY DEF AppInv, AppTypeOK
  <1>2. Len(ran[p]) + Len(todo) = Len(HookList(p))
    BY DEF AppInv, RunningOK
  <1>3. QED
    BY <1>1, <1>2 DEF Full

LEMMA RunKeeps ==
    ASSUME AppInv, NEW p \in Phases, Run(p), UNCHANGED <<walked, entry>>,
           shutdowns' \in 0..MaxShutdowns,
           p # "init" => Full("init"),
           p \in {"destroy", "shutdown"} => Full("bootstrap"),
           p = "shutdown" => Full("destroy")
    PROVE  AppTypeOK' /\ RunningOK'
  <1>1. /\ hooks' = hooks /\ stage' = p /\ todo' = HookList(p)
        /\ ran \in [Phases -> Seq(Hook)] /\ hooks \in [Phases -> Seq(Hook)]
        /\ ran' \in [Phases -> Seq(Hook)]
        /\ ran'[p] = <<>> /\ \A q \in Phases \ {p} : ran'[q] = ran[q]
    BY DEF AppInv, AppTypeOK, Run, walked
  <1>2. \A q : HookList(q)' = HookList(q)
    BY <1>1, HookListsStay
  <1>3. HookList(p) \in Seq(Hook) /\ Len(HookList(p)) \in Nat
    BY <1>1, HookLists
  <1>4. AppTypeOK'
    <2>1. TypeOK'
      BY DEF AppInv, AppTypeOK, TypeOK, walked, graphVars
    <2>2. QED
      BY <1>1, <1>3, <2>1 DEF AppInv, AppTypeOK, Stages
  <1>5. RunningOK'
    <2>1. \A q \in Phases : /\ Len(ran'[q]) <= Len(HookList(q))
                            /\ \A j \in 1..Len(ran'[q]) : ran'[q][j] = HookList(q)[j]
      <3>1. SUFFICES ASSUME NEW q \in Phases
                     PROVE  /\ Len(ran'[q]) <= Len(HookList(q))
                            /\ \A j \in 1..Len(ran'[q]) : ran'[q][j] = HookList(q)[j]
        OBVIOUS
      <3>2. CASE q = p
        <4>1. Len(ran'[q]) = 0
          BY <1>1, <3>2
        <4>2. QED
          BY <1>3, <3>2, <4>1
      <3>3. CASE q # p
        BY <1>1, <3>3 DEF AppInv, RunningOK
      <3>4. QED
        BY <3>2, <3>3
    <2>2. /\ Len(ran'[p]) + Len(todo') = Len(HookList(p))
          /\ \A j \in 1..Len(todo') : todo'[j] = HookList(p)[Len(ran'[p]) + j]
      <3>1. Len(ran'[p]) = 0
        BY <1>1
      <3>2. QED
        BY <1>1, <1>3, <3>1
    <2>3. \A q \in Phases \ {p} : Full(q)' <=> Full(q)
      BY <1>1, <1>2 DEF Full
    <2>4. /\ stage' \in Up \cup {"bootstrap"} => Full("init")'
          /\ stage' \in Up => Full("bootstrap")'
          /\ stage' \in {"shutdown", "stopped"} => Full("destroy")'
          /\ stage' # "walking" /\ stage' # "stopped"
      BY <1>1, <2>3 DEF Up, Phases
    <2>5. QED
      BY <1>1, <1>2, <2>1, <2>2, <2>4 DEF RunningOK
  <1>6. QED
    BY <1>4, <1>5

\* A step that only moves on.
LEMMA MovesOn ==
    ASSUME AppInv, UNCHANGED <<walked, entry, ran, shutdowns>>, todo' = <<>>,
           stage' \in Stages \ (Phases \cup {"walking"}),
           stage' \in Up => Full("init") /\ Full("bootstrap"),
           stage' = "stopped" => Full("destroy") /\ Full("shutdown")
    PROVE  AppTypeOK' /\ RunningOK'
  <1>1. hooks' = hooks
    BY DEF walked
  <1>2. \A q : (HookList(q)' = HookList(q)) /\ (Full(q)' <=> Full(q))
    <2>1. \A q : HookList(q)' = HookList(q)
      BY <1>1, HookListsStay
    <2>2. QED
      BY <2>1 DEF Full
  <1>3. AppTypeOK'
    <2>1. TypeOK'
      BY DEF AppInv, AppTypeOK, TypeOK, walked, graphVars
    <2>2. QED
      BY <1>1, <2>1 DEF AppInv, AppTypeOK, Stages
  <1>4. RunningOK'
    <2>1. /\ stage' # "walking" /\ stage' \notin Phases /\ stage' # "bootstrap"
          /\ stage' # "shutdown"
      BY DEF Phases
    <2>2. QED
      BY <1>2, <2>1 DEF AppInv, RunningOK
  <1>5. QED
    BY <1>3, <1>4

LEMMA RunHookKeeps ==
    ASSUME AppInv, RunHook
    PROVE  AppTypeOK' /\ RunningOK'
  <1>0. PICK p \in Phases : p = stage
    BY DEF RunHook
  <1>1. /\ hooks' = hooks /\ stage' = p /\ todo # <<>> /\ todo' = Tail(todo)
        /\ todo \in Seq(Hook) /\ hooks \in [Phases -> Seq(Hook)]
        /\ ran \in [Phases -> Seq(Hook)]
        /\ ran' = [ran EXCEPT ![p] = Append(ran[p], Head(todo))]
        /\ UNCHANGED <<graphVars, entry, shutdowns>>
    BY <1>0 DEF AppInv, AppTypeOK, RunHook, walked
  <1>2. /\ Head(todo) \in Hook /\ Head(todo) = todo[1] /\ Tail(todo) \in Seq(Hook)
        /\ Len(todo) \in Nat \ {0} /\ Len(Tail(todo)) = Len(todo) - 1
        /\ \A j \in 1..(Len(todo) - 1) : Tail(todo)[j] = todo[j + 1]
    <2>1. Len(todo) \in Nat \ {0}
      BY <1>1, EmptySeq
    <2>2. /\ Head(todo) \in Hook /\ Tail(todo) \in Seq(Hook) /\ Len(Tail(todo)) = Len(todo) - 1
          /\ \A j \in 1..Len(Tail(todo)) : Tail(todo)[j] = todo[j + 1]
      BY <1>1, HeadTailProperties
    <2>3. Head(todo) = todo[1]
      BY <1>1
    <2>4. QED
      BY <2>1, <2>2, <2>3
  <1>3. /\ ran'[p] \in Seq(Hook) /\ Len(ran'[p]) = Len(ran[p]) + 1 /\ Len(ran[p]) \in Nat
        /\ \A j \in 1..Len(ran[p]) : ran'[p][j] = ran[p][j]
        /\ ran'[p][Len(ran[p]) + 1] = Head(todo)
        /\ \A q \in Phases \ {p} : ran'[q] = ran[q]
    <2>1. ran[p] \in Seq(Hook) /\ Len(ran[p]) \in Nat
      BY <1>1
    <2>2. ran'[p] = Append(ran[p], Head(todo)) /\ \A q \in Phases \ {p} : ran'[q] = ran[q]
      BY <1>1
    <2>3. QED
      BY <1>2, <2>1, <2>2, AppendProperties
  <1>4. ran' \in [Phases -> Seq(Hook)]
    BY <1>1, <1>3
  <1>5. \A q : HookList(q)' = HookList(q)
    BY <1>1, HookListsStay
  <1>6. AppTypeOK'
    <2>1. TypeOK'
      BY <1>1 DEF AppInv, AppTypeOK, TypeOK, graphVars
    <2>2. QED
      BY <1>1, <1>2, <1>4, <2>1 DEF AppInv, AppTypeOK, Stages
  <1>7. /\ Len(ran[p]) + Len(todo) = Len(HookList(p))
        /\ \A j \in 1..Len(todo) : todo[j] = HookList(p)[Len(ran[p]) + j]
    BY <1>0 DEF AppInv, RunningOK
  <1>8. ran'[p][Len(ran[p]) + 1] = HookList(p)[Len(ran[p]) + 1]
    BY <1>2, <1>3, <1>7
  <1>9. \A q \in Phases : /\ Len(ran'[q]) <= Len(HookList(q))
                          /\ \A j \in 1..Len(ran'[q]) : ran'[q][j] = HookList(q)[j]
    <2>1. SUFFICES ASSUME NEW q \in Phases
                   PROVE  /\ Len(ran'[q]) <= Len(HookList(q))
                          /\ \A j \in 1..Len(ran'[q]) : ran'[q][j] = HookList(q)[j]
      OBVIOUS
    <2>2. /\ Len(ran[q]) <= Len(HookList(q))
          /\ \A j \in 1..Len(ran[q]) : ran[q][j] = HookList(q)[j]
      BY DEF AppInv, RunningOK
    <2>3. CASE q = p
      <3>1. Len(ran'[q]) <= Len(HookList(q))
        BY <1>2, <1>3, <1>7, <2>3
      <3>2. \A j \in 1..Len(ran'[q]) : j \in 1..Len(ran[p]) \/ j = Len(ran[p]) + 1
        BY <1>3, <2>3
      <3>3. QED
        BY <1>3, <1>8, <2>2, <2>3, <3>1, <3>2
    <2>4. CASE q # p
      BY <1>3, <2>2, <2>4
    <2>5. QED
      BY <2>3, <2>4
  <1>10. Len(ran'[p]) + Len(todo') = Len(HookList(p))
    BY <1>1, <1>2, <1>3, <1>7
  <1>11. \A j \in 1..Len(todo') : todo'[j] = HookList(p)[Len(ran'[p]) + j]
    <2>1. SUFFICES ASSUME NEW j \in 1..(Len(todo) - 1)
                   PROVE  todo'[j] = HookList(p)[Len(ran'[p]) + j]
      BY <1>1, <1>2
    <2>2. j + 1 \in 1..Len(todo) /\ Len(ran'[p]) + j = Len(ran[p]) + (j + 1)
      <3>1. PICK left \in Nat, done \in Nat :
                left = Len(todo) /\ done = Len(ran[p]) /\ Len(ran'[p]) = done + 1
        BY <1>2, <1>3
      <3>2. j \in 1..(left - 1)
        BY <3>1
      <3>3. j + 1 \in 1..left /\ (done + 1) + j = done + (j + 1)
        BY <3>2
      <3>4. QED
        BY <3>1, <3>3
    <2>3. todo[j + 1] = HookList(p)[Len(ran[p]) + (j + 1)]
      BY <1>7, <2>2
    <2>4. QED
      BY <1>1, <1>2, <2>2, <2>3
  \* the list that runs is not one that a stage has to have behind it
  <1>12. /\ stage' \in Up \cup {"bootstrap"} => Full("init")'
         /\ stage' \in Up => Full("bootstrap")'
         /\ stage' \in {"shutdown", "stopped"} => Full("destroy")'
    <2>1. \A q \in Phases \ {p} : Full(q)' <=> Full(q)
      BY <1>3, <1>5 DEF Full
    <2>2. /\ p \in Up \cup {"bootstrap"} => Full("init")
          /\ p \in Up => Full("bootstrap")
          /\ p \in {"shutdown", "stopped"} => Full("destroy")
      BY <1>0 DEF AppInv, RunningOK
    <2>3. {"init", "bootstrap", "destroy"} \subseteq Phases
      BY DEF Phases
    <2>4. p = "init" => p \notin Up \cup {"bootstrap"}
      BY DEF Up
    <2>5. p = "bootstrap" => p \notin Up
      BY DEF Up
    <2>6. QED
      BY <1>1, <2>1, <2>2, <2>3, <2>4, <2>5
  <1>13. stage' # "walking" /\ stage' # "stopped"
    BY <1>1 DEF Phases
  <1>14. RunningOK'
    BY <1>1, <1>5, <1>9, <1>10, <1>11, <1>12, <1>13 DEF RunningOK
  <1>15. QED
    BY <1>6, <1>14

LEMMA WalkKeeps ==
    ASSUME AppInv, GraphInv', Walk
    PROVE  AppInv'
  <1>1. HooksOK' /\ hooks' \in [Phases -> Seq(Hook)]
    BY WalkKeepsHooks DEF AppInv, AppTypeOK
  <1>2. UNCHANGED hostVars /\ stage = "walking"
    BY DEF Walk
  <1>3. AppTypeOK'
    BY <1>1, <1>2 DEF AppInv, AppTypeOK, GraphInv, hostVars
  <1>4. \A p \in Phases : ran'[p] = <<>> /\ todo' = <<>> /\ stage' = "walking"
    BY <1>2 DEF AppInv, RunningOK, hostVars
  <1>5. \A p \in Phases : 0 <= Len(HookList(p)') /\ Len(ran'[p]) = 0
    <2>1. \A p \in Phases : Len(HookList(p)') \in Nat
      <3>1. SUFFICES ASSUME NEW p \in Phases PROVE Len(HookList(p)') \in Nat
        OBVIOUS
      <3>2. hooks'[p] \in Seq(Hook)
        BY <1>1
      <3>3. HookList(p)' = Reverse(hooks'[p]) \/ HookList(p)' = hooks'[p]
        BY DEF HookList
      <3>4. QED
        BY <3>2, <3>3, Reversed
    <2>2. QED
      BY <1>4, <2>1
  <1>6. RunningOK'
    BY <1>2, <1>4, <1>5 DEF RunningOK, hostVars, Up, Phases
  <1>7. QED
    BY <1>1, <1>3, <1>6 DEF AppInv

LEMMA InitApp == AppInit => AppInv
  <1> SUFFICES ASSUME AppInit PROVE AppInv
    OBVIOUS
  <1>1. GraphInv
    BY InitWalk DEF AppInit
  <1>2. /\ hooks = [p \in Phases |-> <<>>] /\ ran = [p \in Phases |-> <<>>]
        /\ stage = "walking" /\ todo = <<>> /\ shutdowns = 0
        /\ entry \in {"server", "testing", "docs"} /\ collected = <<>>
    BY DEF AppInit, Init
  <1>3. <<>> \in Seq(Hook) /\ Len(<<>>) = 0
    BY EmptySeq
  <1>4. hooks \in [Phases -> Seq(Hook)] /\ ran \in [Phases -> Seq(Hook)]
    BY <1>2, <1>3
  <1>5. AppTypeOK
    <2>1. 0 \in 0..MaxShutdowns
      BY ApplicationAssumption
    <2>2. "walking" \in Stages
      BY DEF Stages
    <2>3. QED
      BY <1>1, <1>2, <1>3, <1>4, <2>1, <2>2 DEF AppTypeOK, GraphInv
  <1>6. \A p \in Phases : hooks[p] = <<>> /\ ran[p] = <<>>
    BY <1>2
  <1>7. HooksOK
    BY <1>2, <1>3, <1>6 DEF HooksOK
  <1>8. RunningOK
    <2>1. \A p \in Phases : Len(HookList(p)) \in Nat /\ Len(ran[p]) = 0
      BY <1>3, <1>4, <1>6, HookLists
    <2>2. QED
      BY <1>2, <1>6, <2>1 DEF RunningOK, Up, Phases
  <1>9. QED
    BY <1>1, <1>5, <1>7, <1>8 DEF AppInv

LEMMA NextApp == AppInv /\ [AppNext]_appVars => AppInv'
  <1> SUFFICES ASSUME AppInv, [AppNext]_appVars PROVE AppInv'
    OBVIOUS
  <1>1. [Next]_graphVars
    BY DEF AppNext, Proceed, appVars, walked, Walk, WalkFailed, Described, RunModuleInit,
           RunHook, HookFails, RunApplicationBootstrap, Created, Listen, ServeReturns,
           ServeFails, Interrupt, Shutdown, RunApplicationShutdown, Stopped
  <1>2. GraphInv'
    BY <1>1, NextWalk DEF AppInv
  <1>3. CASE Walk
    BY <1>2, <1>3, WalkKeeps
  <1>4. /\ "init" \in Phases /\ "bootstrap" \in Phases
        /\ "destroy" \in Phases /\ "shutdown" \in Phases
        /\ MaxShutdowns \in Nat /\ shutdowns \in 0..MaxShutdowns
    BY ApplicationAssumption DEF Phases, AppInv, AppTypeOK
  <1>5. /\ stage \in Up \cup {"bootstrap"} => Full("init")
        /\ stage \in Up => Full("bootstrap")
        /\ stage \in {"shutdown", "stopped"} => Full("destroy")
        /\ todo # <<>> => stage \in Phases
    BY DEF AppInv, RunningOK, AppTypeOK
  <1>6. ASSUME UNCHANGED walked, AppTypeOK' /\ RunningOK' PROVE AppInv'
    <2>1. hooks' = hooks /\ collected' = collected
      BY <1>6 DEF walked, graphVars
    <2>2. HooksOK' <=> HooksOK
      BY <2>1 DEF HooksOK
    <2>3. QED
      BY <1>2, <1>6, <2>2 DEF AppInv
  <1>7. CASE RunHook
    BY <1>6, <1>7, RunHookKeeps DEF RunHook
  <1>8. CASE \/ RunModuleInit \/ RunApplicationBootstrap \/ ServeReturns \/ Shutdown
             \/ RunApplicationShutdown
    <2>1. CASE RunModuleInit
      BY <1>4, <1>6, <2>1, RunKeeps DEF RunModuleInit
    <2>2. CASE RunApplicationBootstrap
      <3>1. Full("init")
        BY <1>4, <2>2, NothingLeft DEF RunApplicationBootstrap
      <3>2. QED
        BY <1>4, <1>6, <2>2, <3>1, RunKeeps DEF RunApplicationBootstrap
    <2>3. CASE ServeReturns
      BY <1>4, <1>5, <1>6, <2>3, RunKeeps DEF ServeReturns, Up
    <2>4. CASE Shutdown
      <3>1. shutdowns' \in 0..MaxShutdowns
        BY <1>4, <2>4 DEF Shutdown
      <3>2. QED
        BY <1>4, <1>5, <1>6, <2>4, <3>1, RunKeeps DEF Shutdown, Up
    <2>5. CASE RunApplicationShutdown
      <3>1. Full("destroy")
        BY <1>4, <2>5, NothingLeft DEF RunApplicationShutdown
      <3>2. QED
        BY <1>4, <1>5, <1>6, <2>5, <3>1, RunKeeps DEF RunApplicationShutdown, Up
    <2>6. QED
      BY <1>8, <2>1, <2>2, <2>3, <2>4, <2>5
  <1>9. CASE \/ WalkFailed \/ Described \/ HookFails \/ Created \/ Listen \/ ServeFails
             \/ Interrupt \/ Stopped
    <2>1. UNCHANGED <<walked, entry, ran, shutdowns>>
      BY <1>9 DEF WalkFailed, Described, HookFails, Created, Listen, ServeFails, Interrupt, Stopped
    <2>2. todo' = <<>>
      <3>1. stage \notin Phases => todo = <<>>
        BY <1>5
      <3>2. QED
        BY <1>9, <3>1 DEF WalkFailed, Described, HookFails, Created, Listen, ServeFails,
           Interrupt, Stopped, Phases
    <2>3. stage' \in Stages \ (Phases \cup {"walking"})
      BY <1>9 DEF WalkFailed, Described, HookFails, Created, Listen, ServeFails,
         Interrupt, Stopped, Stages, Phases
    <2>4. stage' \in Up => Full("init") /\ Full("bootstrap")
      <3>1. CASE Created
        BY <1>4, <1>5, <3>1, NothingLeft DEF Created, Up
      <3>2. CASE ~Created
        BY <1>5, <1>9, <3>2 DEF WalkFailed, Described, HookFails, Listen, ServeFails,
           Interrupt, Stopped, Up
      <3>3. QED
        BY <3>1, <3>2
    <2>5. stage' = "stopped" => Full("destroy") /\ Full("shutdown")
      <3>1. CASE Stopped
        BY <1>4, <1>5, <3>1, NothingLeft DEF Stopped, Up
      <3>2. CASE ~Stopped
        BY <1>9, <3>2 DEF WalkFailed, Described, HookFails, Created, Listen, ServeFails, Interrupt
      <3>3. QED
        BY <3>1, <3>2
    <2>6. QED
      BY <1>6, <2>1, <2>2, <2>3, <2>4, <2>5, MovesOn
  <1>10. CASE UNCHANGED appVars
    <2>1. UNCHANGED <<walked, entry, stage, todo, ran, shutdowns>> /\ UNCHANGED hooks
      BY <1>10 DEF appVars, hostVars, walked
    <2>2. \A q : (HookList(q)' = HookList(q)) /\ (Full(q)' <=> Full(q))
      <3>1. \A q : HookList(q)' = HookList(q)
        BY <2>1, HookListsStay
      <3>2. QED
        BY <2>1, <3>1 DEF Full
    <2>3. AppTypeOK'
      BY <1>2, <2>1 DEF AppInv, AppTypeOK, GraphInv
    <2>4. RunningOK'
      BY <2>1, <2>2 DEF AppInv, RunningOK
    <2>5. QED
      BY <1>6, <2>1, <2>3, <2>4
  <1>11. QED
    BY <1>3, <1>7, <1>8, <1>9, <1>10 DEF AppNext, Proceed

LEMMA AlwaysAppInv == AppSpec => []AppInv
  BY InitApp, NextApp, PTL DEF AppSpec

-----------------------------------------------------------------------------
(***************************************************************************)
(* What the order of the lists means for the modules.                      *)
(***************************************************************************)

\* A module that contributed has one place in the order, and what it depends
\* on an earlier one.
LEMMA PlacesOfDependencies ==
    ASSUME GraphInv, NamesAreDistinct, NEW i \in 1..Len(collected), NEW j \in 1..Len(collected)
    PROVE  /\ collected[i] = collected[j] => i = j
           /\ collected[j] \in Dependencies(collected[i]) => j < i
           /\ \A q \in Dependencies(collected[i]) : \E k \in 1..Len(collected) : collected[k] = q
  <1>1. TypeOK /\ ImportsFirst /\ ContributesOnce
    BY DEF GraphInv, CollectedOK
  <1>2. \A a, b \in 1..Len(collected) : collected[a] = collected[b] => a = b
    BY <1>1 DEF ContributesOnce
  <1>3. \A q \in Dependencies(collected[i]) : \E k \in 1..(i - 1) : collected[k] = q
    BY <1>1, DependenciesContributed
  <1>4. \A k \in 1..(i - 1) : k \in 1..Len(collected) /\ k < i
    OBVIOUS
  <1>5. QED
    BY <1>2, <1>3, <1>4

LEMMA StartsAreOrdered == AppInv /\ NamesAreDistinct => StartsInOrder
  <1> SUFFICES ASSUME AppInv, NamesAreDistinct,
                      NEW p \in {"init", "bootstrap"}, NEW x \in 1..Len(ran[p])
               PROVE  /\ \A q \in Dependencies(ran[p][x][1]) : AllRan(p, q)
                      /\ \A k \in 1..(ran[p][x][2] - 1) : HasRun(p, <<ran[p][x][1], k>>)
    BY DEF StartsInOrder
  <1>0. PICK l, m, n : l = Len(hooks[p]) /\ m = Len(collected) /\ n = Len(ran[p])
    OBVIOUS
  <1>1. /\ p \in Phases /\ hooks \in [Phases -> Seq(Hook)] /\ ran \in [Phases -> Seq(Hook)]
        /\ GraphInv
    BY DEF Phases, AppInv, AppTypeOK
  <1>2. /\ l \in Nat /\ n \in Nat /\ n <= l
        /\ \A i \in 1..n : ran[p][i] = hooks[p][i]
    <2>1. /\ Len(HookList(p)) = l /\ l \in Nat /\ HookList(p) = hooks[p]
      BY <1>0, <1>1, HookLists DEF HookList
    <2>2. Len(ran[p]) <= Len(HookList(p)) /\ \A i \in 1..Len(ran[p]) : ran[p][i] = HookList(p)[i]
      BY <1>1 DEF AppInv, RunningOK
    <2>3. n \in Nat
      BY <1>0, <1>1
    <2>4. QED
      BY <1>0, <2>1, <2>2, <2>3
  <1>3. PICK i \in 1..m : \E k \in 1..HookCount[collected[i]][p] : ran[p][x] = <<collected[i], k>>
    <2>1. x \in 1..Len(hooks[p]) /\ ran[p][x] = hooks[p][x]
      BY <1>0, <1>2
    <2>2. \A y \in 1..Len(hooks[p]) : \E i \in 1..Len(collected) :
              \E k \in 1..HookCount[collected[i]][p] : hooks[p][y] = <<collected[i], k>>
      BY <1>1 DEF AppInv, HooksOK
    <2>3. QED
      BY <1>0, <2>1, <2>2
  <1>4. PICK k \in 1..HookCount[collected[i]][p] : ran[p][x] = <<collected[i], k>>
    BY <1>3
  \* a hook whose place is before that of the x-th has run
  <1>5. ASSUME NEW j \in 1..m, NEW c \in 1..HookCount[collected[j]][p],
               j < i \/ (j = i /\ c < k)
        PROVE  HasRun(p, <<collected[j], c>>)
    <2>1. PICK y \in 1..l : hooks[p][y] = <<collected[j], c>>
      BY <1>0, <1>1 DEF AppInv, HooksOK
    <2>2. ~(x <= y)
      <3>1. SUFFICES ASSUME x <= y PROVE FALSE
        OBVIOUS
      <3>2. x \in 1..l /\ hooks[p][x] = <<collected[i], k>>
        BY <1>0, <1>2, <1>4
      <3>3. /\ hooks[p][x][1] = collected[i] /\ hooks[p][x][2] = k
            /\ hooks[p][y][1] = collected[j] /\ hooks[p][y][2] = c
        BY <2>1, <3>2
      <3>4. i \in Nat /\ j \in Nat /\ k \in Int /\ c \in Int
        BY <1>0, <1>1
      <3>5. CASE x = y
        <4>1. collected[i] = collected[j] /\ k = c
          BY <3>3, <3>5
        <4>2. i = j
          BY <1>0, <1>1, <4>1, PlacesOfDependencies
        <4>3. QED
          BY <1>5, <3>4, <4>1, <4>2
      <3>6. CASE x # y
        <4>1. x < y
          BY <1>2, <3>1, <3>2, <3>6
        <4>2. i < j \/ (i = j /\ hooks[p][x][2] < hooks[p][y][2])
          BY <1>0, <1>1, <3>2, <3>3, <4>1 DEF AppInv, HooksOK
        <4>3. QED
          BY <1>5, <3>3, <3>4, <4>2
      <3>7. QED
        BY <3>5, <3>6
    <2>3. y \in 1..n /\ ran[p][y] = <<collected[j], c>>
      <3>1. y \in 1..n
        BY <1>0, <1>2, <2>2
      <3>2. QED
        BY <1>2, <2>1, <3>1
    <2>4. QED
      BY <1>0, <2>3 DEF HasRun
  <1>6. \A q \in Dependencies(ran[p][x][1]) : AllRan(p, q)
    <2>1. SUFFICES ASSUME NEW q \in Dependencies(collected[i]),
                          NEW c \in 1..HookCount[q][p]
                   PROVE  HasRun(p, <<q, c>>)
      BY <1>4 DEF AllRan, HooksOf
    <2>2. PICK j \in 1..m : collected[j] = q
      BY <1>0, <1>1, PlacesOfDependencies
    <2>3. j < i
      BY <1>0, <1>1, <2>1, <2>2, PlacesOfDependencies
    <2>4. QED
      BY <1>5, <2>1, <2>2, <2>3
  <1>7. \A c \in 1..(ran[p][x][2] - 1) : HasRun(p, <<ran[p][x][1], c>>)
    <2>1. SUFFICES ASSUME NEW c \in 1..(k - 1) PROVE HasRun(p, <<collected[i], c>>)
      BY <1>4
    <2>2. collected[i] \in Refs
      BY <1>0, <1>1 DEF GraphInv, TypeOK
    <2>3. HookCount[collected[i]][p] \in Nat
      BY <1>1, <2>2, ApplicationAssumption
    <2>4. c \in 1..HookCount[collected[i]][p] /\ c < k
      BY <2>3
    <2>5. QED
      BY <1>5, <2>4
  <1>8. QED
    BY <1>6, <1>7

LEMMA StopsAreReversed == AppInv /\ NamesAreDistinct => StopsInReverse
  <1> SUFFICES ASSUME AppInv, NamesAreDistinct,
                      NEW p \in {"destroy", "shutdown"}, NEW x \in 1..Len(ran[p]),
                      NEW q \in Collected, ran[p][x][1] \in Dependencies(q)
               PROVE  AllRan(p, q)
    BY DEF StopsInReverse
  <1>0. PICK l, m, n : l = Len(hooks[p]) /\ m = Len(collected) /\ n = Len(ran[p])
    OBVIOUS
  <1>1. /\ p \in Phases /\ hooks \in [Phases -> Seq(Hook)] /\ ran \in [Phases -> Seq(Hook)]
        /\ GraphInv
    BY DEF Phases, AppInv, AppTypeOK
  <1>2. /\ l \in Nat /\ n \in Nat /\ n <= l
        /\ \A i \in 1..n : ran[p][i] = hooks[p][(l - i) + 1]
    <2>1. /\ Len(HookList(p)) = l /\ l \in Nat
          /\ \A i \in 1..l : HookList(p)[i] = hooks[p][(l - i) + 1]
      BY <1>0, <1>1, HookLists
    <2>2. Len(ran[p]) <= Len(HookList(p)) /\ \A i \in 1..Len(ran[p]) : ran[p][i] = HookList(p)[i]
      BY <1>1 DEF AppInv, RunningOK
    <2>3. n \in Nat /\ n <= l
      BY <1>0, <1>1, <2>1, <2>2
    <2>4. SUFFICES ASSUME NEW i \in 1..n
                   PROVE  ran[p][i] = hooks[p][(l - i) + 1]
      BY <2>1, <2>3
    <2>5. i \in 1..l
      BY <2>1, <2>3
    <2>6. QED
      BY <1>0, <2>1, <2>2, <2>5
  <1>3. PICK z \in 1..l : z = (l - x) + 1 /\ ran[p][x] = hooks[p][z]
    <2>1. x \in 1..n /\ ran[p][x] = hooks[p][(l - x) + 1]
      BY <1>0, <1>2
    <2>2. (l - x) + 1 \in 1..l
      BY <1>2, <2>1
    <2>3. QED
      BY <2>1, <2>2
  <1>4. PICK i \in 1..m, k \in Nat : hooks[p][z] = <<collected[i], k>>
    <2>1. PICK i \in 1..m : \E k \in 1..HookCount[collected[i]][p] : hooks[p][z] = <<collected[i], k>>
      BY <1>0, <1>1, <1>3 DEF AppInv, HooksOK
    <2>2. QED
      BY <2>1
  <1>5. PICK j \in 1..m : q = collected[j]
    BY <1>0 DEF Collected
  <1>6. i < j
    <2>1. collected[i] \in Dependencies(collected[j])
      BY <1>3, <1>4, <1>5
    <2>2. QED
      BY <1>0, <1>1, <2>1, PlacesOfDependencies
  <1>7. SUFFICES ASSUME NEW c \in 1..HookCount[q][p] PROVE HasRun(p, <<q, c>>)
    BY DEF AllRan, HooksOf
  <1>8. PICK y \in 1..l : hooks[p][y] = <<collected[j], c>>
    BY <1>0, <1>1, <1>5, <1>7 DEF AppInv, HooksOK
  <1>9. /\ hooks[p][z][1] = collected[i] /\ hooks[p][y][1] = collected[j]
        /\ i \in Nat /\ j \in Nat
    BY <1>0, <1>4, <1>8
  <1>10. ~(y <= z)
    <2>1. SUFFICES ASSUME y <= z PROVE FALSE
      OBVIOUS
    <2>2. CASE y = z
      <3>1. collected[i] = collected[j]
        BY <1>9, <2>2
      <3>2. i = j
        BY <1>0, <1>1, <3>1, PlacesOfDependencies
      <3>3. QED
        BY <1>6, <1>9, <3>2
    <2>3. CASE y # z
      <3>1. y < z
        BY <2>1, <2>3
      <3>2. j < i \/ (j = i /\ hooks[p][y][2] < hooks[p][z][2])
        BY <1>0, <1>1, <1>9, <3>1 DEF AppInv, HooksOK
      <3>3. QED
        BY <1>6, <1>9, <3>2
    <2>4. QED
      BY <2>2, <2>3
  <1>11. PICK w \in 1..n : (l - w) + 1 = y
    <2>1. z = (l - x) + 1 /\ x \in 1..n /\ z < y
      BY <1>0, <1>3, <1>10
    <2>2. (l - y) + 1 \in 1..n /\ (l - ((l - y) + 1)) + 1 = y
      BY <1>2, <2>1
    <2>3. QED
      BY <2>2
  <1>12. ran[p][w] = <<q, c>>
    BY <1>2, <1>5, <1>8, <1>11
  <1>13. QED
    BY <1>0, <1>12 DEF HasRun

LEMMA ListsAreComplete == AppInv => ListsComplete
  <1> SUFFICES ASSUME AppInv PROVE ListsComplete
    OBVIOUS
  <1>1. ASSUME NEW p \in Phases, Full(p), NEW r \in Collected
        PROVE  AllRan(p, r)
    <2>0. PICK l, m : l = Len(hooks[p]) /\ m = Len(collected)
      OBVIOUS
    <2>1. PICK i \in 1..m : r = collected[i]
      BY <2>0 DEF Collected
    <2>2. SUFFICES ASSUME NEW k \in 1..HookCount[r][p] PROVE HasRun(p, <<r, k>>)
      BY DEF AllRan, HooksOf
    <2>3. PICK x \in 1..l : hooks[p][x] = <<r, k>>
      <3>1. \A j \in 1..Len(collected) : \A c \in 1..HookCount[collected[j]][p] :
                \E x \in 1..Len(hooks[p]) : hooks[p][x] = <<collected[j], c>>
        BY DEF AppInv, HooksOK
      <3>2. QED
        BY <2>0, <2>1, <2>2, <3>1
    <2>4. /\ Len(HookList(p)) = l /\ l \in Nat
          /\ \A j \in 1..l : HookList(p)[j] = IF p \in {"destroy", "shutdown"}
                                              THEN hooks[p][(l - j) + 1] ELSE hooks[p][j]
      BY <2>0, HookLists DEF AppInv, AppTypeOK
    <2>5. \A j \in 1..l : ran[p][j] = HookList(p)[j]
      BY <1>1, <2>4 DEF AppInv, RunningOK, Full
    <2>6. (l - x) + 1 \in 1..l /\ (l - ((l - x) + 1)) + 1 = x
      BY <2>4
    <2>7. \E j \in 1..l : HookList(p)[j] = <<r, k>>
      <3>1. CASE p \in {"destroy", "shutdown"}
        BY <2>3, <2>4, <2>6, <3>1
      <3>2. CASE p \notin {"destroy", "shutdown"}
        BY <2>3, <2>4, <3>2
      <3>3. QED
        BY <3>1, <3>2
    <2>8. Len(ran[p]) = l
      BY <1>1, <2>4 DEF Full
    <2>9. QED
      BY <2>5, <2>7, <2>8 DEF HasRun
  <1>2. \A p \in Phases : Full(p) => \A r \in Collected : AllRan(p, r)
    BY <1>1
  <1>3. /\ stage \in Up \cup {"bootstrap"} => Full("init")
        /\ stage \in Up => Full("bootstrap")
        /\ stage \in {"shutdown", "stopped"} => Full("destroy")
        /\ stage = "stopped" => Full("shutdown")
    BY DEF AppInv, RunningOK
  <1>4. QED
    BY <1>2, <1>3 DEF ListsComplete, Up, Phases

\* Whichever provider or hook fails and however often a testing module is shut
\* down: a module's hooks run after those of every module it depends on, and in
\* teardown before them; and each stage is reached over lists that ran to their
\* end (initialize_module_runtime, run_lifecycle_hooks).
THEOREM HooksRunInOrder == AppSpec => []HooksAreOrdered
  <1>1. AppInv => HooksAreOrdered
    BY StartsAreOrdered, StopsAreReversed, ListsAreComplete DEF HooksAreOrdered, AppInv
  <1>2. QED
    BY <1>1, AlwaysAppInv, PTL

=============================================================================
