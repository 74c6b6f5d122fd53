------------------------------ MODULE CliProofs ------------------------------
(***************************************************************************)
(* Theorems about the command line tool, for every value of the constants. *)
(*                                                                         *)
(* CommandLine: any pages, any way in which queries match them, any set of *)
(* command lines.  Migrations: whatever fails, is killed or overlaps, what *)
(* the applied file says is true; and invocations that neither overlap nor *)
(* are cut off run every migration once, in the order of the names.  The   *)
(* two share neither state nor steps: each has its own part below, and no  *)
(* fact of one is used in the other.                                       *)
(***************************************************************************)
EXTENDS CommandLine, Migrations, FiniteSetTheorems, FunctionTheorems, SequenceTheorems,
        WellFoundedInduction, TLAPS

-----------------------------------------------------------------------------
(***************************************************************************)
(* Least and greatest numbers.                                             *)
(***************************************************************************)

\* A non-empty set of numbers has a least one.
LEMMA LeastNumber ==
    ASSUME NEW S \in SUBSET Nat, S # {}
    PROVE  \E x \in S : \A y \in S : x <= y
  <1> DEFINE R == {ss \in Nat \X Nat : ss[1] < ss[2]}
  <1>1. R = OpToRel(<, Nat)
    BY DEF OpToRel
  <1>2. IsWellFoundedOn(R, Nat)
    BY <1>1, NatLessThanWellFounded
  <1> HIDE DEF R
  <1>3. PICK x \in S : \A y \in S : ~(<<y, x>> \in R)
    BY <1>2, WFMin
  <1>4. \A y \in S : ~(y < x)
    BY <1>3 DEF R
  <1>5. QED
    BY <1>4

\* One that has a bound has a greatest one.
LEMMA GreatestNumber ==
    ASSUME NEW b \in Nat, NEW S \in SUBSET (0..b), S # {}
    PROVE  \E x \in S : \A y \in S : y <= x
  <1> DEFINE T == {b - x : x \in S}
  <1>1. T \in SUBSET Nat /\ T # {}
    <2>1. \A x \in S : b - x \in Nat
      OBVIOUS
    <2>2. QED
      BY <2>1
  <1>2. PICK m \in T : \A t \in T : m <= t
    BY <1>1, LeastNumber
  <1>3. PICK x \in S : m = b - x
    BY <1>2
  <1>4. \A y \in S : b - x <= b - y
    BY <1>2, <1>3
  <1>5. x \in 0..b /\ \A y \in S : y \in 0..b
    OBVIOUS
  <1>6. QED
    BY <1>4, <1>5

(***************************************************************************)
(* I. The wizards and the documentation browser                            *)
(***************************************************************************)

-----------------------------------------------------------------------------
(***************************************************************************)
(* The screens, as a whole.                                                *)
(***************************************************************************)

NewType == [name : Texts, transport : Members(Transports),
            focus : Members(Fields), error : {"none", "name"}]
NewOK(w) == /\ w \in NewType
            /\ w.error = "name" => w.name = "blank"

GenerateType == [kind : Members(KindList), name : Texts, inModule : BOOLEAN,
                 module : Texts, flat : BOOLEAN, noPrompt : BOOLEAN, step : StepNames,
                 error : {"none", "name", "module"}]
GenerateOK(w) == /\ w \in GenerateType
                 /\ w.step = "ModuleName" => w.inModule
                 /\ w.error = "name" => w.name = "blank"
                 /\ w.error = "module" => w.inModule /\ w.module = "blank"

\* Without an entry in the list the first page is selected.
DocsType == [selected : Pages, scroll : 0..MaxScroll, query : Queries, search : BOOLEAN]
DocsOK(b) == /\ b \in DocsType
             /\ b.selected \in Matches(b.query) \/ (Matches(b.query) = {} /\ b.selected = 1)

ScreenOK == /\ args.command = "new" => NewOK(screen)
            /\ args.command = "generate" => GenerateOK(screen)
            /\ args.command = "docs" => DocsOK(screen)

\* The terminal is only taken with the screen, and given back with it.
ScreenInv ==
    /\ args \in NewArgs \cup GenerateArgs \cup DocsArgs
    /\ tty \in BOOLEAN /\ raw \in BOOLEAN /\ alternate \in BOOLEAN
    /\ at \in {"start", "screen", "prompt", "fields", "done", "failed", "cancelled"}
    /\ at = "start" => screen = None
    /\ at = "screen" \/ screen # None => ScreenOK
    /\ TerminalIsGivenBack
    /\ fields \in Seq(FieldNames \cup {"name"}) /\ IsInjective(fields)

-----------------------------------------------------------------------------
(***************************************************************************)
(* Numbers and lists.                                                      *)
(***************************************************************************)

\* The least and the greatest page of a list are in it.
LEMMA LeastIsIn ==
    ASSUME NEW b \in Nat, NEW S \in SUBSET (1..b), S # {}
    PROVE  Min(S) \in S
  <1>1. S \in SUBSET Nat
    OBVIOUS
  <1>2. \E m \in S : \A y \in S : m <= y
    BY <1>1, LeastNumber
  <1>3. QED
    BY <1>2 DEF Min

LEMMA GreatestIsIn ==
    ASSUME NEW b \in Nat, NEW S \in SUBSET (1..b), S # {}
    PROVE  Max(S) \in S
  <1>1. S \in SUBSET (0..b)
    OBVIOUS
  <1>2. \E m \in S : \A y \in S : y <= m
    BY <1>1, GreatestNumber
  <1>3. \A x, y \in S : y <= x <=> x >= y
    OBVIOUS
  <1>4. QED
    BY <1>2, <1>3 DEF Max

\* The position on the page saturates at both ends.
LEMMA Saturates ==
    ASSUME NEW x \in Int
    PROVE  Max({0, Min({MaxScroll, x})}) \in 0..MaxScroll
  <1> DEFINE m == Min({MaxScroll, x})
  <1>1. MaxScroll \in Nat
    BY CommandLineAssumption
  <1>2. \E y \in {MaxScroll, x} : \A z \in {MaxScroll, x} : y =< z
    BY <1>1
  <1>3. m \in {MaxScroll, x} /\ \A z \in {MaxScroll, x} : m =< z
    BY <1>2 DEF Min
  <1>4. m \in Int /\ m <= MaxScroll
    BY <1>1, <1>3
  <1> HIDE DEF m
  <1>5. \E y \in {0, m} : \A z \in {0, m} : y >= z
    BY <1>4
  <1>6. Max({0, m}) \in {0, m} /\ \A z \in {0, m} : Max({0, m}) >= z
    BY <1>5 DEF Max
  <1>7. QED
    BY <1>1, <1>4, <1>6 DEF m

\* A list that is walked in circles is never left.
LEMMA Circles ==
    ASSUME NEW list, Len(list) \in Nat, DOMAIN list = 1..Len(list), NEW x \in Members(list)
    PROVE  Following(list, x) \in Members(list) /\ Preceding(list, x) \in Members(list)
  <1> DEFINE n == Len(list)
             p == Position(list, x)
  <1>1. n \in Nat /\ DOMAIN list = 1..n
    OBVIOUS
  <1>2. p \in 1..n
    BY <1>1 DEF Members, Position
  <1> HIDE DEF n, p
  <1>3. \A k \in Nat : (k % n) + 1 \in 1..n
    BY <1>1, <1>2
  <1>4. (p % n) + 1 \in 1..n /\ ((p + n - 2) % n) + 1 \in 1..n
    <2>1. p \in Nat /\ p + n - 2 \in Nat
      BY <1>1, <1>2
    <2>2. QED
      BY <1>3, <2>1
  <1>5. \A i \in 1..n : list[i] \in Members(list)
    BY <1>1 DEF Members
  <1>6. QED
    BY <1>4, <1>5 DEF Following, Preceding, n, p

LEMMA ListMembers ==
    /\ Len(Transports) = 5 /\ DOMAIN Transports = 1..5
    /\ Len(KindList) = 14 /\ DOMAIN KindList = 1..14
    /\ Len(Fields) = 3 /\ DOMAIN Fields = 1..3
    /\ "Http" \in Members(Transports) /\ "Resource" \in Members(KindList)
    /\ "Name" \in Members(Fields)
  <1>1. 1 \in DOMAIN Transports /\ 1 \in DOMAIN KindList /\ 1 \in DOMAIN Fields
    BY DEF Transports, KindList, Fields
  <1>2. Transports[1] = "Http" /\ KindList[1] = "Resource" /\ Fields[1] = "Name"
    BY DEF Transports, KindList, Fields
  <1>3. Len(Transports) = 5 /\ DOMAIN Transports = 1..5 /\ Len(Fields) = 3 /\ DOMAIN Fields = 1..3
    BY DEF Transports, Fields
  <1>4. Len(KindList) = 14 /\ DOMAIN KindList = 1..14
    BY DEF KindList
  <1>5. QED
    BY <1>1, <1>2, <1>3, <1>4 DEF Members

\* A query is a text of letters that is not too long.
LEMMA QueriesAre ==
    ASSUME NEW q
    PROVE  q \in Queries <=> q \in Seq(Letters) /\ Len(q) <= MaxQuery
  <1>1. MaxQuery \in Nat
    BY CommandLineAssumption
  <1>2. ASSUME q \in Queries PROVE q \in Seq(Letters) /\ Len(q) <= MaxQuery
    <2>1. PICK n \in 0..MaxQuery : q \in [1..n -> Letters]
      BY <1>2 DEF Queries
    <2>2. n \in Nat /\ n <= MaxQuery
      BY <1>1, <2>1
    <2>3. QED
      BY <2>1, <2>2
  <1>3. ASSUME q \in Seq(Letters), Len(q) <= MaxQuery PROVE q \in Queries
    <2>1. Len(q) \in 0..MaxQuery /\ q \in [1..Len(q) -> Letters]
      BY <1>1, <1>3
    <2>2. QED
      BY <2>1 DEF Queries
  <1>4. QED
    BY <1>2, <1>3

LEMMA QueriesChange ==
    ASSUME NEW q \in Queries
    PROVE  /\ \A key \in Letters : Len(q) < MaxQuery => Append(q, key) \in Queries
           /\ q # <<>> => Front(q) \in Queries
  <1>1. q \in Seq(Letters) /\ Len(q) <= MaxQuery /\ Len(q) \in Nat /\ MaxQuery \in Nat
    BY QueriesAre, CommandLineAssumption
  <1>2. ASSUME NEW key \in Letters, Len(q) < MaxQuery PROVE Append(q, key) \in Queries
    <2>1. Append(q, key) \in Seq(Letters) /\ Len(Append(q, key)) = Len(q) + 1
      BY <1>1, AppendProperties
    <2>2. Len(Append(q, key)) <= MaxQuery
      BY <1>1, <1>2, <2>1
    <2>3. QED
      BY <2>1, <2>2, QueriesAre
  <1>3. ASSUME q # <<>> PROVE Front(q) \in Queries
    <2>1. Len(q) # 0
      BY <1>1, <1>3
    <2>2. Front(q) = [i \in 1..(Len(q) - 1) |-> q[i]]
      BY <1>1, <2>1 DEF Front
    <2>3. Len(q) - 1 \in 0..MaxQuery /\ Front(q) \in [1..(Len(q) - 1) -> Letters]
      BY <1>1, <2>1, <2>2
    <2>4. QED
      BY <2>3 DEF Queries
  <1>4. QED
    BY <1>2, <1>3
LEMMA ListsAreCircles ==
    /\ \A x \in Members(Transports) : /\ Following(Transports, x) \in Members(Transports)
                                      /\ Preceding(Transports, x) \in Members(Transports)
    /\ \A x \in Members(KindList) : /\ Following(KindList, x) \in Members(KindList)
                                    /\ Preceding(KindList, x) \in Members(KindList)
    /\ \A x \in Members(Fields) : /\ Following(Fields, x) \in Members(Fields)
                                  /\ Preceding(Fields, x) \in Members(Fields)
  BY ListMembers, Circles

-----------------------------------------------------------------------------
(***************************************************************************)
(* The wizard of nestforge new.                                            *)
(***************************************************************************)

LEMMA MoveNewKeeps ==
    ASSUME NEW w, NewOK(w), NEW key \in Keys, ~NewDone(w, key), NEW moved \in MoveNew(w, key)
    PROVE  NewOK(ClearError(moved, key))
  <1>1. w \in NewType /\ (w.error = "name" => w.name = "blank")
    BY DEF NewOK
  <1>2. \A v \in NewType : /\ [v EXCEPT !.error = "none"] \in NewType
                           /\ [v EXCEPT !.error = "none"].error = "none"
    BY DEF NewType
  <1>3. moved \in NewType
    <2>1. CASE \E f \in Members(Fields) : moved = [w EXCEPT !.focus = f]
      BY <1>1, <2>1 DEF NewType
    <2>2. CASE \E t \in Members(Transports) : moved = [w EXCEPT !.transport = t]
      BY <1>1, <2>2 DEF NewType
    <2>3. CASE \E text \in Texts : moved = [w EXCEPT !.name = text]
      BY <1>1, <2>3 DEF NewType
    <2>4. CASE moved = [w EXCEPT !.error = "name"] \/ moved = w
      BY <1>1, <2>4 DEF NewType
    <2>5. /\ w.name \in Texts /\ w.focus \in Members(Fields) /\ w.transport \in Members(Transports)
          /\ AfterText(w.name, key) \subseteq Texts
      BY <1>1 DEF NewType, AfterText, Texts
    <2>6. QED
      BY <2>1, <2>2, <2>3, <2>4, <2>5, ListsAreCircles DEF MoveNew
  <1>4. CASE key # "Enter"
    BY <1>2, <1>3, <1>4 DEF ClearError, NewOK
  <1>5. CASE key = "Enter"
    <2>1. CASE w.focus = "Submit"
      <3>1. w.name = "blank" /\ moved = [w EXCEPT !.error = "name"]
        BY <1>5, <2>1 DEF NewDone, MoveNew, Characters
      <3>2. QED
        BY <1>1, <1>3, <1>5, <3>1 DEF ClearError, NewOK, NewType
    <2>2. CASE w.focus # "Submit"
      <3>1. moved = [w EXCEPT !.focus = Following(Fields, w.focus)]
        BY <1>5, <2>2 DEF MoveNew, Characters
      <3>2. moved.error = w.error /\ moved.name = w.name
        BY <1>1, <3>1 DEF NewType
      <3>3. QED
        BY <1>1, <1>3, <1>5, <3>2 DEF ClearError, NewOK
    <2>3. QED
      BY <2>1, <2>2
  <1>6. QED
    BY <1>4, <1>5
-----------------------------------------------------------------------------
(***************************************************************************)
(* The wizard of nestforge generate.                                       *)
(***************************************************************************)

LEMMA StepsGoOn ==
    ASSUME NEW w \in GenerateType
    PROVE  /\ NextStep(w) \in StepNames /\ PreviousStep(w) \in StepNames
           /\ NextStep(w) = "ModuleName" => w.inModule
           /\ PreviousStep(w) = "ModuleName" => w.inModule
  BY DEF GenerateType, StepNames, NextStep, PreviousStep

\* The way through the steps can be walked back.
LEMMA StepsInvert ==
    ASSUME NEW w, GenerateOK(w)
    PROVE  LET next == [w EXCEPT !.step = NextStep(w)] IN
           /\ StepNumber(w) \in 1..TotalSteps(w)
           /\ w.step # "Review" => /\ StepNumber(next) = StepNumber(w) + 1
                                   /\ PreviousStep(next) = w.step
  <1> DEFINE next == [w EXCEPT !.step = NextStep(w)]
  <1>1. w \in GenerateType /\ w.step \in StepNames /\ w.inModule \in BOOLEAN
        /\ (w.step = "ModuleName" => w.inModule)
    BY DEF GenerateOK, GenerateType
  <1>2. next.step = NextStep(w) /\ next.inModule = w.inModule
    BY <1>1 DEF GenerateType
  <1> HIDE DEF next
  <1>3. StepNumber(w) \in 1..TotalSteps(w)
    BY <1>1 DEF StepNames, StepNumber, TotalSteps
  <1>4. ASSUME w.step # "Review" PROVE PreviousStep(next) = w.step
    BY <1>1, <1>2, <1>4 DEF StepNames, NextStep, PreviousStep
  <1>5. ASSUME w.step # "Review" PROVE StepNumber(next) = StepNumber(w) + 1
    BY <1>1, <1>2, <1>5 DEF StepNames, NextStep, StepNumber, TotalSteps
  <1>6. QED
    BY <1>3, <1>4, <1>5 DEF next

\* The name of a module is only asked for inside one, whatever key is pressed:
\* the choice is changed at its own step.
LEMMA MoveGenerateKeeps ==
    ASSUME NEW w, GenerateOK(w), NEW key \in Keys, ~GenerateDone(w, key),
           NEW moved \in MoveGenerate(w, key)
    PROVE  GenerateOK(ClearError(moved, key))
  <1>1. /\ w \in GenerateType /\ (w.step = "ModuleName" => w.inModule)
        /\ (w.error = "name" => w.name = "blank")
        /\ (w.error = "module" => w.inModule /\ w.module = "blank")
    BY DEF GenerateOK
  <1>2. \A v \in GenerateType : LET e == [v EXCEPT !.error = "none"] IN
           e \in GenerateType /\ e.error = "none" /\ e.step = v.step /\ e.inModule = v.inModule
    BY DEF GenerateType
  <1>3. SUFFICES /\ moved \in GenerateType /\ (moved.step = "ModuleName" => moved.inModule)
                 /\ key = "Enter" =>
                      /\ moved.error = "name" => moved.name = "blank"
                      /\ moved.error = "module" => moved.inModule /\ moved.module = "blank"
    BY <1>2 DEF GenerateOK, ClearError
  <1> DEFINE Kept == /\ moved \in GenerateType
                     /\ moved.step = "ModuleName" => moved.inModule
  <1>4. ASSUME NEW kind \in Members(KindList), moved = [w EXCEPT !.kind = kind] PROVE Kept
    BY <1>1, <1>4 DEF GenerateType
  <1>5. ASSUME NEW text \in Texts,
               moved = [w EXCEPT !.name = text] \/ moved = [w EXCEPT !.module = text]
        PROVE  Kept
    BY <1>1, <1>5 DEF GenerateType
  <1>6. ASSUME NEW yes \in BOOLEAN,
               \/ w.step = "InModule" /\ moved = [w EXCEPT !.inModule = yes]
               \/ moved = [w EXCEPT !.flat = yes] \/ moved = [w EXCEPT !.noPrompt = yes]
        PROVE  Kept
    BY <1>1, <1>6 DEF GenerateType
  <1>7. ASSUME moved = [w EXCEPT !.step = NextStep(w)] \/ moved = [w EXCEPT !.step = PreviousStep(w)]
        PROVE  Kept
    BY <1>1, <1>7, StepsGoOn DEF GenerateType
  <1>8. ASSUME moved = w \/ \E e \in {"name", "module"} : moved = [w EXCEPT !.error = e]
        PROVE  Kept
    BY <1>1, <1>8 DEF GenerateType
  <1> HIDE DEF Kept
  <1>9. ASSUME NEW yes \in BOOLEAN, w.step \in DOMAIN ChoiceOf,
               moved = [w EXCEPT ![ChoiceOf[w.step]] = yes]
        PROVE  Kept
    <2>1. \/ w.step = "InModule" /\ ChoiceOf[w.step] = "inModule"
          \/ ChoiceOf[w.step] = "flat" \/ ChoiceOf[w.step] = "noPrompt"
      BY <1>9 DEF ChoiceOf
    <2>2. QED
      BY <1>6, <1>9, <2>1
  <1>10. CASE key \in Back \cup Forth
    <2>1. key # "Enter" /\ w.kind \in Members(KindList)
      BY <1>1, <1>10 DEF Back, Forth, GenerateType
    <2>2. CASE w.step = "Kind"
      <3>1. \E kind \in Members(KindList) : moved = [w EXCEPT !.kind = kind]
        BY <1>10, <2>1, <2>2, ListsAreCircles DEF MoveGenerate
      <3>2. QED
        BY <1>4, <2>1, <3>1 DEF Kept
    <2>3. CASE w.step # "Kind" /\ w.step \in DOMAIN ChoiceOf
      <3>1. \E yes \in BOOLEAN : moved = [w EXCEPT ![ChoiceOf[w.step]] = yes]
        <4>1. moved = [w EXCEPT ![ChoiceOf[w.step]] = (key \in Forth)]
          BY <1>10, <2>3 DEF MoveGenerate
        <4>2. (key \in Forth) \in BOOLEAN
          OBVIOUS
        <4>3. QED
          BY <4>1, <4>2, Zenon
      <3>2. QED
        BY <1>9, <2>1, <2>3, <3>1 DEF Kept
    <2>4. CASE w.step # "Kind" /\ w.step \notin DOMAIN ChoiceOf
      <3>1. moved = [w EXCEPT !.step = NextStep(w)] \/ moved = [w EXCEPT !.step = PreviousStep(w)]
        BY <1>10, <2>4 DEF MoveGenerate
      <3>2. QED
        BY <1>7, <2>1, <3>1 DEF Kept
    <2>5. QED
      BY <2>2, <2>3, <2>4
  <1>11. CASE key \notin Back \cup Forth /\ key # "Enter"
    <2>1. CASE w.step \in DOMAIN TextOf /\ key \in Characters \cup {"Backspace"}
      <3>1. TextOf[w.step] = "name" \/ TextOf[w.step] = "module"
        BY <2>1 DEF TextOf
      <3>2. w[TextOf[w.step]] \in Texts
        BY <1>1, <3>1 DEF GenerateType
      <3>3. \E text \in Texts : moved = [w EXCEPT ![TextOf[w.step]] = text]
        BY <1>11, <2>1, <3>2 DEF MoveGenerate, AfterText, Texts
      <3>4. QED
        BY <1>5, <1>11, <3>1, <3>3 DEF Kept
    <2>2. CASE ~(w.step \in DOMAIN TextOf /\ key \in Characters \cup {"Backspace"})
      <3>1. \/ moved = w
            \/ /\ w.step \in DOMAIN ChoiceOf
               /\ \E yes \in BOOLEAN : moved = [w EXCEPT ![ChoiceOf[w.step]] = yes]
        <4>1. \/ moved = w
              \/ w.step \in DOMAIN ChoiceOf /\ moved = [w EXCEPT ![ChoiceOf[w.step]] = ~@]
              \/ /\ w.step \in DOMAIN ChoiceOf
                 /\ moved = [w EXCEPT ![ChoiceOf[w.step]] = (key \in SecondItem[w.step])]
          BY <1>11, <2>2, Zenon DEF MoveGenerate
        <4>2. /\ (~w[ChoiceOf[w.step]]) \in BOOLEAN
              /\ (key \in SecondItem[w.step]) \in BOOLEAN
          OBVIOUS
        <4>3. QED
          BY <4>1, <4>2, Zenon
      <3>2. QED
        BY <1>8, <1>9, <1>11, <3>1 DEF Kept
    <2>3. QED
      BY <2>1, <2>2
  <1>12. CASE key = "Enter"
    <2>1. moved = IF Missing(w) = "none" THEN [w EXCEPT !.step = NextStep(w)]
                                         ELSE [w EXCEPT !.error = Missing(w)]
      BY <1>12 DEF MoveGenerate, Back, Forth, Characters, FirstItem, SecondItem, ChoiceOf
    <2>2. CASE Missing(w) = "none"
      <3>1. moved = [w EXCEPT !.step = NextStep(w)]
        BY <2>1, <2>2
      <3>2. /\ moved.error = w.error /\ moved.name = w.name
            /\ moved.inModule = w.inModule /\ moved.module = w.module
        BY <1>1, <3>1 DEF GenerateType
      <3>3. QED
        BY <1>1, <1>7, <3>1, <3>2 DEF Kept
    <2>3. CASE Missing(w) # "none"
      <3>1. moved = [w EXCEPT !.error = Missing(w)] /\ Missing(w) \in {"name", "module"}
        BY <2>1, <2>3 DEF Missing
      <3>2. /\ moved.error = Missing(w) /\ moved.name = w.name
            /\ moved.inModule = w.inModule /\ moved.module = w.module
        BY <1>1, <3>1 DEF GenerateType
      <3>3. /\ Missing(w) = "name" => w.name = "blank"
            /\ Missing(w) = "module" => w.inModule /\ w.module = "blank"
        BY <1>1 DEF Missing
      <3>4. QED
        BY <1>8, <3>1, <3>2, <3>3 DEF Kept
    <2>4. QED
      BY <2>2, <2>3
  <1>13. QED
    BY <1>10, <1>11, <1>12
-----------------------------------------------------------------------------
(***************************************************************************)
(* The documentation browser: every key leaves a page selected that is     *)
(* listed, and shows another page from its top.                           *)
(***************************************************************************)

\* From screen b to screen e.
DocsStep(b, e) == DocsOK(e) /\ (e.selected # b.selected => e.scroll = 0)

LEMMA MatchesArePages ==
    ASSUME NEW q \in Queries
    PROVE  /\ Matches(q) \in SUBSET (1..PageCount)
           /\ Matches(q) # {} => Min(Matches(q)) \in Matches(q) /\ Max(Matches(q)) \in Matches(q)
  <1>1. Matches(q) \in SUBSET (1..PageCount) /\ PageCount \in Nat
    BY InvocationAssumption, CommandLineAssumption DEF Pages
  <1>2. QED
    BY <1>1, LeastIsIn, GreatestIsIn

LEMMA FirstPage == 1 \in Pages /\ 0 \in 0..MaxScroll /\ <<>> \in Queries
                   /\ Matches(<<>>) = 1..PageCount /\ 1 \in Matches(<<>>)
  <1>1. PageCount \in Nat \ {0} /\ MaxScroll \in Nat /\ MaxQuery \in Nat
        /\ Matches(<<>>) = 1..PageCount
    BY CommandLineAssumption
  <1>2. <<>> \in Queries
    <2>1. <<>> \in Seq(Letters) /\ Len(<<>>) <= MaxQuery
      BY <1>1
    <2>2. QED
      BY <2>1, QueriesAre
  <1>3. QED
    BY <1>1, <1>2 DEF Pages

\* With another query, or after it was typed.
LEMMA EnsureVisibleSelects ==
    ASSUME NEW b \in DocsType
    PROVE  DocsStep(b, EnsureVisible(b))
  <1>1. b.query \in Queries /\ b.selected \in Pages
    BY DEF DocsType
  <1>2. CASE b.selected \in Matches(b.query)
    BY <1>2 DEF EnsureVisible, DocsStep, DocsOK
  <1>3. CASE b.selected \notin Matches(b.query)
    <2> DEFINE page == IF Matches(b.query) = {} THEN 1 ELSE Min(Matches(b.query))
               e == [b EXCEPT !.selected = page, !.scroll = 0]
    <2>1. /\ page \in Pages
          /\ page \in Matches(b.query) \/ (Matches(b.query) = {} /\ page = 1)
      BY <1>1, MatchesArePages, FirstPage DEF Pages
    <2> HIDE DEF page
    <2>2. e \in DocsType /\ e.selected = page /\ e.scroll = 0 /\ e.query = b.query
      BY <2>1, FirstPage DEF DocsType
    <2>3. EnsureVisible(b) = e
      BY <1>3 DEF EnsureVisible, page
    <2> HIDE DEF e
    <2>4. QED
      BY <2>1, <2>2, <2>3 DEF DocsStep, DocsOK
  <1>4. QED
    BY <1>2, <1>3

LEMMA SearchKeeps ==
    ASSUME NEW b, DocsOK(b), NEW key
    PROVE  DocsStep(b, Search(b, key))
  <1>1. b \in DocsType /\ b.query \in Queries
    BY DEF DocsOK, DocsType
  <1>2. ASSUME NEW v \in DocsType, v.selected = b.selected PROVE DocsStep(b, EnsureVisible(v))
    BY <1>2, EnsureVisibleSelects DEF DocsStep
  <1>3. [b EXCEPT !.search = FALSE] \in DocsType /\ [b EXCEPT !.search = FALSE].selected = b.selected
    BY <1>1 DEF DocsType
  <1>4. ASSUME NEW q \in Queries
        PROVE  /\ [b EXCEPT !.query = q] \in DocsType
               /\ [b EXCEPT !.query = q].selected = b.selected
    BY <1>1 DEF DocsType
  <1>5. (IF b.query = <<>> THEN b.query ELSE Front(b.query)) \in Queries
    BY <1>1, QueriesChange
  <1>6. DocsStep(b, b)
    BY DEF DocsStep
  <1>7. CASE key \in {"Esc", "Enter"}
    <2>1. Search(b, key) = EnsureVisible([b EXCEPT !.search = FALSE])
      BY <1>7, InvocationAssumption DEF Search
    <2>2. QED
      BY <1>2, <1>3, <2>1
  <1>8. CASE key \notin {"Esc", "Enter"} /\ key = "Backspace"
    <2>1. Search(b, key) = EnsureVisible([b EXCEPT !.query =
                                            IF b.query = <<>> THEN b.query ELSE Front(b.query)])
      BY <1>8, InvocationAssumption DEF Search
    <2>2. QED
      BY <1>2, <1>4, <1>5, <2>1
  <1>9. CASE key \notin {"Esc", "Enter", "Backspace"} /\ key \in Letters /\ Len(b.query) < MaxQuery
    <2>1. Search(b, key) = EnsureVisible([b EXCEPT !.query = Append(b.query, key)])
      BY <1>9 DEF Search
    <2>2. Append(b.query, key) \in Queries
      BY <1>1, <1>9, QueriesChange
    <2>3. QED
      BY <1>2, <1>4, <2>1, <2>2
  <1>10. CASE key \notin {"Esc", "Enter", "Backspace"} /\ ~(key \in Letters /\ Len(b.query) < MaxQuery)
    BY <1>6, <1>10 DEF Search
  <1>11. QED
    BY <1>7, <1>8, <1>9, <1>10

LEMMA SelectKeeps ==
    ASSUME NEW b, DocsOK(b), NEW page \in Matches(b.query)
    PROVE  DocsStep(b, Select(b, page))
  <1>1. b \in DocsType /\ b.query \in Queries /\ page \in Pages
    BY MatchesArePages DEF DocsOK, DocsType, Pages
  <1>2. /\ Select(b, page) \in DocsType /\ Select(b, page).selected = page
        /\ Select(b, page).scroll = 0 /\ Select(b, page).query = b.query
    BY <1>1, FirstPage DEF Select, DocsType
  <1>3. QED
    BY <1>2 DEF DocsStep, DocsOK

LEMMA MoveSelectionKeeps ==
    ASSUME NEW b, DocsOK(b), NEW forward \in BOOLEAN
    PROVE  DocsStep(b, MoveSelection(b, forward))
  <1> DEFINE found == Matches(b.query)
             current == IF b.selected \in found THEN b.selected ELSE Min(found)
             beyond == {p \in found : IF forward THEN p > current ELSE p < current}
  <1>1. b.query \in Queries
    BY DEF DocsOK, DocsType
  <1>2. CASE found = {}
    <2>1. MoveSelection(b, forward) = b
      BY <1>2 DEF MoveSelection
    <2>2. QED
      BY <2>1 DEF DocsStep
  <1>3. CASE found # {}
    <2>1. current \in found
      BY <1>1, <1>3, MatchesArePages
    <2>2. beyond \in SUBSET (1..PageCount) /\ beyond \subseteq found /\ PageCount \in Nat
      BY <1>1, MatchesArePages, CommandLineAssumption
    <2>3. beyond # {} => Min(beyond) \in found /\ Max(beyond) \in found
      <3> HIDE DEF beyond
      <3>1. QED
        BY <2>2, LeastIsIn, GreatestIsIn
    <2>4. \E page \in found : MoveSelection(b, forward) = Select(b, page)
      <3>1. MoveSelection(b, forward) =
               IF beyond = {} THEN Select(b, current)
               ELSE Select(b, IF forward THEN Min(beyond) ELSE Max(beyond))
        BY <1>3 DEF MoveSelection
      <3> HIDE DEF beyond, current, found
      <3>2. QED
        BY <2>1, <2>3, <3>1
    <2>5. QED
      BY <2>4, SelectKeeps
  <1>4. QED
    BY <1>2, <1>3

LEMMA ScrollKeeps ==
    ASSUME NEW b, DocsOK(b), NEW distance \in Int
    PROVE  DocsStep(b, Scroll(b, distance))
  <1>1. b \in DocsType /\ b.scroll + distance \in Int
    BY CommandLineAssumption DEF DocsOK, DocsType
  <1> DEFINE pos == Max({0, Min({MaxScroll, b.scroll + distance})})
  <1>2. pos \in 0..MaxScroll
    BY <1>1, Saturates
  <1>3. Scroll(b, distance) = [b EXCEPT !.scroll = pos]
    BY DEF Scroll
  <1> HIDE DEF pos
  <1>4. /\ Scroll(b, distance) \in DocsType /\ Scroll(b, distance).selected = b.selected
        /\ Scroll(b, distance).query = b.query
    BY <1>1, <1>2, <1>3 DEF DocsType
  <1>5. QED
    BY <1>4 DEF DocsStep, DocsOK

LEMMA BrowseKeeps ==
    ASSUME NEW b, DocsOK(b), NEW key
    PROVE  DocsStep(b, Browse(b, key))
  <1>1. b \in DocsType /\ b.query \in Queries
    BY DEF DocsOK, DocsType
  <1>2. HalfPage \in Int /\ -HalfPage \in Int /\ FullPage \in Int /\ -FullPage \in Int
    BY CommandLineAssumption
  <1>3. DocsStep(b, b)
    BY DEF DocsStep
  <1>4. DocsStep(b, [b EXCEPT !.search = TRUE])
    BY <1>1 DEF DocsStep, DocsOK, DocsType
  <1>5. /\ DocsStep(b, MoveSelection(b, TRUE)) /\ DocsStep(b, MoveSelection(b, FALSE))
    BY MoveSelectionKeeps
  <1>6. /\ DocsStep(b, Scroll(b, HalfPage)) /\ DocsStep(b, Scroll(b, -HalfPage))
        /\ DocsStep(b, Scroll(b, FullPage)) /\ DocsStep(b, Scroll(b, -FullPage))
    BY <1>2, ScrollKeeps
  <1>7. Matches(b.query) # {} => /\ DocsStep(b, Select(b, Min(Matches(b.query))))
                                 /\ DocsStep(b, Select(b, Max(Matches(b.query))))
    BY <1>1, MatchesArePages, SelectKeeps
  <1>8. CASE key \in {"g", "G"}
    BY <1>3, <1>7, <1>8 DEF Browse
  <1>9. CASE key \notin {"g", "G"}
    BY <1>3, <1>4, <1>5, <1>6, <1>9 DEF Browse
  <1>10. QED
    BY <1>8, <1>9

LEMMA DocsScreenOK ==
    ASSUME NEW topic \in Queries \cup {None}
    PROVE  DocsOK(DocsScreen(topic))
  <1> DEFINE page == IF topic = None \/ Matches(topic) = {} THEN 1 ELSE Min(Matches(topic))
  <1>1. page \in 1..PageCount
    BY MatchesArePages, FirstPage DEF Pages
  <1> HIDE DEF page
  <1>2. DocsScreen(topic) = [selected |-> page, scroll |-> 0, query |-> <<>>, search |-> FALSE]
    BY DEF DocsScreen, page
  <1>3. DocsScreen(topic) \in DocsType
    BY <1>1, <1>2, FirstPage DEF DocsType, Pages
  <1>4. /\ DocsScreen(topic).selected = page /\ DocsScreen(topic).query = <<>>
    BY <1>2
  <1>5. page \in Matches(<<>>)
    BY <1>1, FirstPage
  <1>6. QED
    BY <1>3, <1>4, <1>5 DEF DocsOK
-----------------------------------------------------------------------------
(***************************************************************************)
(* The steps of the program, first those of the full-screen mode.          *)
(***************************************************************************)

LEMMA Commands ==
    ASSUME args \in NewArgs \cup GenerateArgs \cup DocsArgs
    PROVE  /\ args.command \in {"new", "generate", "docs"}
           /\ args.command = "docs" => args.topic \in Queries \cup {None}
  BY DEF NewArgs, GenerateArgs, DocsArgs

LEMMA InitScreen == Init => ScreenInv
  <1> SUFFICES ASSUME Init PROVE ScreenInv
    OBVIOUS
  <1>1. args \in NewArgs \cup GenerateArgs \cup DocsArgs
    BY InvocationAssumption DEF Init
  <1>2. fields \in Seq(FieldNames \cup {"name"}) /\ IsInjective(fields)
    BY DEF Init, IsInjective
  <1>3. QED
    BY <1>1, <1>2 DEF Init, ScreenInv, TerminalIsGivenBack

LEMMA OpenScreenKeeps ==
    ASSUME ScreenInv, OpenScreen
    PROVE  ScreenInv'
  <1>1. /\ args \in NewArgs \cup GenerateArgs \cup DocsArgs
        /\ raw' = TRUE /\ alternate' = TRUE /\ at' = "screen"
        /\ UNCHANGED <<args, tty, draft, result, fields>>
    BY DEF ScreenInv, OpenScreen
  <1>2. NewOK(NewScreen)
    BY ListMembers DEF NewOK, NewType, NewScreen, Texts
  <1>3. GenerateOK(GenerateScreen)
    BY ListMembers DEF GenerateOK, GenerateType, GenerateScreen, Texts, StepNames
  <1>4. args.command = "docs" => DocsOK(DocsScreen(args.topic))
    BY <1>1, Commands, DocsScreenOK
  <1>5. /\ args.command = "new" => screen' = NewScreen
        /\ args.command = "generate" => screen' = GenerateScreen
        /\ args.command = "docs" => screen' = DocsScreen(args.topic)
    BY <1>1, Commands DEF OpenScreen
  <1>6. ScreenOK'
    BY <1>1, <1>2, <1>3, <1>4, <1>5 DEF ScreenOK
  <1>7. QED
    BY <1>1, <1>6 DEF ScreenInv, TerminalIsGivenBack

LEMMA OpenFailsKeeps ==
    ASSUME ScreenInv, OpenFails
    PROVE  ScreenInv'
  <1>1. /\ screen = None /\ screen' = None /\ at' = "prompt"
        /\ UNCHANGED <<args, tty, result, fields>>
    BY DEF OpenFails, ToPrompts, ScreenInv
  <1>2. raw' \in BOOLEAN /\ alternate' \in BOOLEAN
    <2>1. PICK done \in 0..2 : raw' = (done >= 1) /\ alternate' = (done = 2)
      BY DEF OpenFails
    <2>2. (done >= 1) \in BOOLEAN /\ (done = 2) \in BOOLEAN
      OBVIOUS
    <2>3. QED
      BY <2>1, <2>2, Zenon
  <1>3. QED
    BY <1>1, <1>2 DEF ScreenInv, TerminalIsGivenBack

\* Whichever way the screen is left, the terminal is given back with it.
LEMMA ScreenClosed ==
    ASSUME ScreenInv, at = "screen", CloseScreen, UNCHANGED <<args, tty, screen, fields>>,
           at' \in {"prompt", "fields", "done", "failed", "cancelled"}
    PROVE  ScreenInv'
  <1>1. ScreenOK'
    BY DEF ScreenInv, ScreenOK
  <1>2. QED
    BY <1>1 DEF ScreenInv, CloseScreen, TerminalIsGivenBack

LEMMA ScreenMoves ==
    ASSUME ScreenInv, at = "screen", ScreenOK',
           UNCHANGED <<args, tty, terminal, at, fields>>
    PROVE  ScreenInv'
  BY DEF ScreenInv, terminal, TerminalIsGivenBack

LEMMA PressKeyKeeps ==
    ASSUME ScreenInv, NEW key \in Keys, PressKey(key)
    PROVE  ScreenInv'
  <1>1. at = "screen" /\ args.command # "docs" /\ UNCHANGED <<args, tty, draft, fields>> /\ ScreenOK
    BY DEF PressKey, ScreenInv
  <1>2. CASE /\ CloseScreen /\ UNCHANGED screen
             /\ at' = "cancelled" \/ (\E r : Deliver(r))
    BY <1>1, <1>2, ScreenClosed DEF Deliver
  <1>3. CASE /\ screen' \in AfterKey(screen, key) /\ UNCHANGED <<terminal, at, result>>
             /\ ~(args.command = "new" /\ NewDone(screen, key))
             /\ ~(args.command = "generate" /\ GenerateDone(screen, key))
    <2>1. PICK moved \in IF args.command = "new" THEN MoveNew(screen, key)
                         ELSE MoveGenerate(screen, key) : screen' = ClearError(moved, key)
      BY <1>3 DEF AfterKey
    <2>2. CASE args.command = "new"
      <3>1. NewOK(screen')
        BY <1>1, <1>3, <2>1, <2>2, MoveNewKeeps DEF ScreenOK
      <3>2. ScreenOK'
        BY <1>1, <2>2, <3>1 DEF ScreenOK
      <3>3. QED
        BY <1>1, <1>3, <3>2, ScreenMoves
    <2>3. CASE args.command = "generate"
      <3>1. GenerateOK(screen')
        BY <1>1, <1>3, <2>1, <2>3, MoveGenerateKeeps DEF ScreenOK
      <3>2. ScreenOK'
        BY <1>1, <2>3, <3>1 DEF ScreenOK
      <3>3. QED
        BY <1>1, <1>3, <3>2, ScreenMoves
    <2>4. QED
      BY <1>1, <2>2, <2>3, Commands DEF ScreenInv
  <1>4. QED
    BY <1>2, <1>3 DEF PressKey

LEMMA PressDocKeyKeeps ==
    ASSUME ScreenInv, NEW key, PressDocKey(key)
    PROVE  ScreenInv' /\ (screen' # screen => DocsStep(screen, screen'))
  <1>1. /\ at = "screen" /\ args.command = "docs" /\ UNCHANGED <<args, tty, draft, result, fields>>
        /\ DocsOK(screen)
    BY DEF PressDocKey, ScreenInv, ScreenOK
  <1>2. CASE CloseScreen /\ at' = "done" /\ UNCHANGED screen
    BY <1>1, <1>2, ScreenClosed
  <1>3. CASE /\ UNCHANGED <<terminal, at>>
             /\ screen' = IF screen.search THEN Search(screen, key) ELSE Browse(screen, key)
    <2>1. DocsStep(screen, screen')
      BY <1>1, <1>3, SearchKeeps, BrowseKeeps
    <2>2. ScreenOK'
      BY <1>1, <2>1 DEF ScreenOK, DocsStep
    <2>3. QED
      BY <1>1, <1>3, <2>1, <2>2, ScreenMoves
  <1>4. QED
    BY <1>2, <1>3 DEF PressDocKey

\* The prompts and the fields never touch the terminal or the screen.
LEMMA PromptsKeep ==
    ASSUME ScreenInv, at \notin {"start", "screen"}, UNCHANGED <<args, tty, terminal, screen>>,
           at' \in {"prompt", "fields", "done", "failed", "cancelled"},
           fields' \in Seq(FieldNames \cup {"name"}), IsInjective(fields')
    PROVE  ScreenInv'
  <1>1. screen # None => ScreenOK'
    BY DEF ScreenInv, ScreenOK
  <1>2. QED
    BY <1>1 DEF ScreenInv, terminal, TerminalIsGivenBack

\* A field is asked for until it has a name of its own.
LEMMA FieldsKeep ==
    ASSUME ScreenInv, EnterField \/ DefaultFields \/ FinishFields
    PROVE  ScreenInv'
  <1>1. fields \in Seq(FieldNames \cup {"name"}) /\ IsInjective(fields)
    BY DEF ScreenInv
  <1>2. fields' \in Seq(FieldNames \cup {"name"}) /\ IsInjective(fields')
    <2>1. CASE \E name \in FieldNames : CollectField(name)
      <3>1. PICK name \in FieldNames : name \notin Members(fields) /\ fields' = Append(fields, name)
        BY <2>1 DEF CollectField
      <3>2. /\ fields' \in Seq(FieldNames \cup {"name"}) /\ Len(fields') = Len(fields) + 1
            /\ \A i \in 1..Len(fields) : fields'[i] = fields[i]
            /\ fields'[Len(fields) + 1] = name
        BY <1>1, <3>1, AppendProperties
      <3>3. /\ Len(fields) \in Nat /\ DOMAIN fields = 1..Len(fields)
            /\ DOMAIN fields' = 1..(Len(fields) + 1)
        BY <1>1, <3>2
      <3>4. \A i \in DOMAIN fields' : i \in DOMAIN fields \/ i = Len(fields) + 1
        BY <3>3
      <3>5. \A i \in DOMAIN fields : fields'[i] = fields[i] /\ fields'[i] # name
        BY <3>1, <3>2, <3>3 DEF Members
      <3>6. IsInjective(fields')
        BY <1>1, <3>2, <3>4, <3>5 DEF IsInjective
      <3>7. QED
        BY <3>2, <3>6
    <2>2. CASE fields' = <<"name">>
      BY <2>2 DEF IsInjective
    <2>3. CASE UNCHANGED fields
      BY <1>1, <2>3
    <2>4. QED
      BY <2>1, <2>2, <2>3 DEF EnterField, DefaultFields, FinishFields
  <1>3. QED
    BY <1>2, PromptsKeep DEF EnterField, DefaultFields, FinishFields
LEMMA NextScreen == ScreenInv /\ [Next]_vars => ScreenInv'
  <1> SUFFICES ASSUME ScreenInv, [Next]_vars PROVE ScreenInv'
    OBVIOUS
  <1>1. CASE UNCHANGED vars \/ Over
    BY <1>1 DEF vars, Over, ScreenInv, ScreenOK, TerminalIsGivenBack
  <1>2. CASE SkipScreen
    BY <1>2 DEF SkipScreen, ToPrompts, terminal, ScreenInv, TerminalIsGivenBack
  <1>3. CASE ScreenFails
    BY <1>3, ScreenClosed DEF ScreenFails, ToPrompts
  <1>4. CASE AnswerText \/ AnswerNumber \/ AnswerInside \/ Refuse
             \/ FinishNew \/ FinishGenerate \/ PrintPages
    <2>1. /\ at = "prompt" /\ UNCHANGED <<args, tty, terminal, screen, fields>>
          /\ at' \in {"prompt", "fields", "done", "failed", "cancelled"}
      BY <1>4 DEF AnswerText, AnswerNumber, AnswerInside, Refuse, FinishNew, FinishGenerate,
                  PrintPages, Answer, Deliver
    <2>2. fields' \in Seq(FieldNames \cup {"name"}) /\ IsInjective(fields')
      BY <2>1 DEF ScreenInv
    <2>3. QED
      BY <2>1, <2>2, PromptsKeep
  <1>5. QED
    BY <1>1, <1>2, <1>3, <1>4, OpenScreenKeeps, OpenFailsKeeps, PressKeyKeeps, PressDocKeyKeeps,
       FieldsKeep DEF Next

LEMMA AlwaysScreenInv == Spec => []ScreenInv
  BY InitScreen, NextScreen, PTL DEF Spec

-----------------------------------------------------------------------------
\* Whatever keys are pressed, in whatever order: an error that is shown is
\* true, the steps of the generate wizard are counted within their number and
\* can be walked back, and while the list of the browser has entries the
\* selected page is one of them (NewWizardState::handle_key,
\* GenerateWizardState::handle_key, next_step, previous_step, step_number,
\* filtered_selected_position).
THEOREM ScreensStayConsistent == Spec => []ScreensAreConsistent
  <1>1. ScreenInv => ScreensAreConsistent
    <2> SUFFICES ASSUME ScreenInv PROVE ScreensAreConsistent
      OBVIOUS
    <2>1. OnScreen("new") => NewOK(screen)
      BY DEF ScreenInv, ScreenOK, OnScreen
    <2>2. OnScreen("generate") => GenerateOK(screen)
      BY DEF ScreenInv, ScreenOK, OnScreen
    <2>3. OnScreen("docs") => DocsOK(screen)
      BY DEF ScreenInv, ScreenOK, OnScreen
    <2>4. CommandTypeOK
      BY <2>1, <2>2, <2>3 DEF ScreenInv, CommandTypeOK, NewOK, NewType, GenerateOK, GenerateType,
                              DocsOK, DocsType
    <2>5. ErrorIsCurrent
      <3>1. NewOK(screen) => screen.error # "module"
        BY DEF NewOK, NewType
      <3>2. QED
        BY <2>1, <2>2, <3>1 DEF ErrorIsCurrent, NewOK, GenerateOK
    <2>6. StepsAreInvertible
      BY <2>2, StepsInvert DEF StepsAreInvertible, GenerateOK
    <2>7. SelectionIsListed
      BY <2>3 DEF SelectionIsListed, DocsOK
    <2>8. QED
      BY <2>4, <2>5, <2>6, <2>7 DEF ScreensAreConsistent
  <1>2. QED
    BY <1>1, AlwaysScreenInv, PTL

\* Once the full-screen mode has run, raw mode and the alternate screen are
\* given up on every way out of it (Drop for TerminalSession).
THEOREM TerminalComesBack == Spec => []TerminalIsGivenBack
  <1>1. ScreenInv => TerminalIsGivenBack
    BY DEF ScreenInv
  <1>2. QED
    BY <1>1, AlwaysScreenInv, PTL

\* Whatever is searched for and in whatever order the pages are walked through,
\* the browser shows another page from its top (ensure_selection_visible,
\* move_selection).
THEOREM PagesStartAtTheTop == Spec => PageStartsAtTop
  <1>1. ASSUME ScreenInv, [Next]_vars, OnScreen("docs"), CurrentPage(screen') # CurrentPage(screen)
        PROVE  screen'.scroll = 0
    <2>1. \A b : DocsOK(b) => CurrentPage(b) = b.selected
      BY DEF DocsOK, CurrentPage
    <2>2. DocsOK(screen) /\ screen # None /\ args.command = "docs" /\ screen' # screen
      BY <1>1 DEF ScreenInv, ScreenOK, OnScreen
    <2>3. \E key \in DocKeys : PressDocKey(key)
      <3>1. ~OpenScreen
        BY <1>1, <2>2 DEF OpenScreen, ScreenInv
      <3>2. \A key \in Keys : ~PressKey(key)
        BY <2>2 DEF PressKey
      <3>3. QED
        BY <1>1, <2>2, <3>1, <3>2 DEF Next, vars, SkipScreen, OpenFails, ScreenFails, AnswerText,
             AnswerNumber, AnswerInside, Answer, Refuse, FinishNew, FinishGenerate, PrintPages,
             DefaultFields, EnterField, FinishFields, Over
    <2>4. DocsStep(screen, screen')
      BY <1>1, <2>2, <2>3, PressDocKeyKeeps
    <2>5. QED
      BY <1>1, <2>1, <2>2, <2>4 DEF DocsStep
  <1>2. ScreenInv /\ [Next]_vars =>
           ((OnScreen("docs") /\ CurrentPage(screen') # CurrentPage(screen)) => screen'.scroll = 0)
    BY <1>1
  <1>3. QED
    BY <1>2, AlwaysScreenInv, PTL DEF Spec, PageStartsAtTop

\* What the generate wizard hands over was confirmed on its last page, with a
\* name, and with a module exactly if one was asked for; a resource gets one
\* field at least, and none twice (run_generate_wizard, module_name,
\* collect_dto_fields).
THEOREM ResultsAreComplete == Spec => ResultIsComplete
  <1>1. ASSUME ScreenInv, [Next]_vars, at = "screen", result' # result
        PROVE  /\ result'.name # "blank"
               /\ args.command = "generate" =>
                    screen.step = "Review" /\ (result'.module # None <=> screen.inModule)
    <2>1. PICK key \in Keys : PressKey(key)
      BY <1>1 DEF Next, vars, SkipScreen, OpenScreen, OpenFails, ScreenFails, PressDocKey, AnswerText,
             AnswerNumber, AnswerInside, Answer, Refuse, FinishNew, FinishGenerate, PrintPages,
             DefaultFields, EnterField, FinishFields, Over
    <2>2. CASE /\ args.command = "new" /\ NewDone(screen, key)
               /\ result' = NewResult(screen)
      BY <2>2 DEF NewDone, NewResult
    <2>3. CASE /\ args.command = "generate" /\ GenerateDone(screen, key)
               /\ result' = GenerateResult(screen)
      <3>1. GenerateOK(screen)
        BY <1>1, <2>3 DEF ScreenInv, ScreenOK
      <3>2. screen.step = "Review" /\ Missing(screen) = "none"
        BY <2>3 DEF GenerateDone
      <3>3. /\ screen.name # "blank" /\ (screen.inModule => screen.module # "blank")
            /\ screen.module \in Texts
        BY <3>1, <3>2 DEF Missing, GenerateOK, GenerateType
      <3>4. screen.module # None
        BY <3>3, InvocationAssumption
      <3>5. result'.name = screen.name /\ result'.module = ModuleName(screen)
        BY <2>3 DEF GenerateResult
      <3>6. ModuleName(screen) # None <=> screen.inModule
        BY <3>3, <3>4 DEF ModuleName
      <3>7. QED
        BY <2>3, <3>2, <3>3, <3>5, <3>6
    <2>4. QED
      BY <1>1, <2>1, <2>2, <2>3 DEF PressKey, Deliver
  <1>2. ASSUME ScreenInv, ScreenInv', [Next]_vars, at = "fields", at' = "done"
        PROVE  fields' # <<>> /\ IsInjective(fields')
    <2>1. IsInjective(fields')
      BY <1>2 DEF ScreenInv
    <2>2. DefaultFields \/ FinishFields
      BY <1>2 DEF Next, vars, SkipScreen, OpenScreen, OpenFails, ScreenFails, PressKey, PressDocKey,
             AnswerText, AnswerNumber, AnswerInside, Refuse, FinishNew, FinishGenerate, PrintPages,
             EnterField, Over
    <2>3. fields' # <<>>
      BY <2>2 DEF DefaultFields, FinishFields
    <2>4. QED
      BY <2>1, <2>3
  <1>3. ScreenInv /\ ScreenInv' /\ [Next]_vars =>
           /\ (at = "screen" /\ result' # result) =>
                /\ result'.name # "blank"
                /\ args.command = "generate" =>
                     screen.step = "Review" /\ (result'.module # None <=> screen.inModule)
           /\ (at = "fields" /\ at' = "done") => fields' # <<>> /\ IsInjective(fields')
    BY <1>1, <1>2
  <1>4. QED
    BY <1>3, AlwaysScreenInv, PTL DEF Spec, ResultIsComplete

(***************************************************************************)
(* II. The migration commands                                              *)
(***************************************************************************)

-----------------------------------------------------------------------------
(***************************************************************************)
(* The order of the names.                                                 *)
(***************************************************************************)

Below(S, x) == {y \in S : y <= x}

\* A name has its place in a directory: the number of names up to it.
LEMMA Rank ==
    ASSUME NEW S \in SUBSET Nat, IsFiniteSet(S)
    PROVE  /\ Cardinality(S) \in Nat
           /\ \A x \in S : Cardinality(Below(S, x)) \in 1..Cardinality(S)
           /\ \A x, y \in S : x < y => Cardinality(Below(S, x)) < Cardinality(Below(S, y))
  <1>1. Cardinality(S) \in Nat
    BY FS_CardinalityType
  <1>2. ASSUME NEW x \in S
        PROVE  /\ IsFiniteSet(Below(S, x)) /\ Cardinality(Below(S, x)) \in 1..Cardinality(S)
    <2>1. Below(S, x) \in SUBSET S /\ x \in Below(S, x)
      BY DEF Below
    <2>2. IsFiniteSet(Below(S, x)) /\ Cardinality(Below(S, x)) <= Cardinality(S)
      BY <2>1, FS_Subset
    <2>3. Cardinality(Below(S, x)) \in Nat /\ Cardinality(Below(S, x)) # 0
      BY <2>1, <2>2, FS_CardinalityType, FS_EmptySet
    <2>4. QED
      BY <1>1, <2>2, <2>3
  <1>3. ASSUME NEW x \in S, NEW y \in S, x < y
        PROVE  Cardinality(Below(S, x)) < Cardinality(Below(S, y))
    <2>1. Below(S, x) \in SUBSET Below(S, y) /\ Below(S, x) # Below(S, y)
      <3>1. y \in Below(S, y) /\ y \notin Below(S, x)
        BY <1>3 DEF Below
      <3>2. \A z \in S : z <= x => z <= y
        BY <1>3
      <3>3. QED
        BY <3>1, <3>2 DEF Below
    <2>2. /\ Cardinality(Below(S, x)) <= Cardinality(Below(S, y))
          /\ Cardinality(Below(S, y)) # Cardinality(Below(S, x))
      BY <1>2, <2>1, FS_Subset
    <2>3. Cardinality(Below(S, x)) \in Nat /\ Cardinality(Below(S, y)) \in Nat
      BY <1>1, <1>2
    <2>4. QED
      BY <2>2, <2>3
  <1>4. QED
    BY <1>1, <1>2, <1>3

\* The names of a directory can be put in ascending order.
LEMMA OrderExists ==
    ASSUME NEW S \in SUBSET Nat, IsFiniteSet(S)
    PROVE  \E s \in [1..Cardinality(S) -> S] :
               \A i, j \in DOMAIN s : i < j => s[i] < s[j]
  <1> DEFINE n == Cardinality(S)
             rank == [x \in S |-> Cardinality(Below(S, x))]
  <1>1. n \in Nat /\ IsFiniteSet(1..n) /\ Cardinality(1..n) = n
    BY Rank, FS_Interval
  <1>2. rank \in [S -> 1..n] /\ \A x, y \in S : x < y => rank[x] < rank[y]
    BY Rank
  <1> HIDE DEF rank
  <1>3. \A x, y \in S : rank[x] = rank[y] => x = y
    <2>1. \A x \in S : x \in Nat /\ rank[x] \in Nat
      BY <1>1, <1>2
    <2>2. QED
      BY <1>2, <2>1
  <1>4. rank \in Surjection(S, 1..n)
    BY <1>1, <1>2, <1>3, Fun_IsInj, FS_Injection
  <1>5. \A i \in 1..n : \E x \in S : rank[x] = i
    BY <1>4, Fun_SurjectionProperties
  <1> DEFINE s == [i \in 1..n |-> CHOOSE x \in S : rank[x] = i]
  <1>6. s \in [1..n -> S] /\ \A i \in 1..n : rank[s[i]] = i
    BY <1>5
  <1> HIDE DEF s, n
  <1>7. ASSUME NEW i \in 1..n, NEW j \in 1..n, i < j PROVE s[i] < s[j]
    <2>1. s[i] \in S /\ s[j] \in S /\ s[i] \in Nat /\ s[j] \in Nat
      BY <1>6
    <2>2. ~(s[j] < s[i]) /\ s[i] # s[j]
      BY <1>1, <1>2, <1>6, <1>7, <2>1
    <2>3. QED
      BY <2>1, <2>2
  <1>8. QED
    BY <1>6, <1>7 DEF n

\* What list_migration_files returns: each name it found, in ascending order.
LEMMA SortedNames ==
    ASSUME NEW S \in SUBSET Files
    PROVE  /\ Sorted(S) \in Seq(S)
           /\ S # {} => Sorted(S) # <<>>
           /\ \A i, j \in DOMAIN Sorted(S) : i < j => Sorted(S)[i] < Sorted(S)[j]
           /\ \A f \in S : \E i \in DOMAIN Sorted(S) : Sorted(S)[i] = f
  <1> DEFINE n == Cardinality(S)
  <1>1. S \in SUBSET Nat /\ IsFiniteSet(S)
    BY FS_Subset, MigrationsAssumption
  <1>2. n \in Nat /\ IsFiniteSet(1..n) /\ Cardinality(1..n) = n
    BY <1>1, Rank, FS_Interval
  <1>3. /\ Sorted(S) \in [1..n -> S]
        /\ \A i, j \in DOMAIN Sorted(S) : i < j => Sorted(S)[i] < Sorted(S)[j]
    BY <1>1, OrderExists DEF Sorted
  <1> HIDE DEF n
  <1>4. Sorted(S) \in Seq(S) /\ DOMAIN Sorted(S) = 1..n
    BY <1>2, <1>3
  <1>5. \A i, j \in 1..n : Sorted(S)[i] = Sorted(S)[j] => i = j
    <2>1. ASSUME NEW i \in 1..n PROVE i \in Nat /\ Sorted(S)[i] \in Nat
      <3>1. i \in Nat /\ Sorted(S)[i] \in S
        BY <1>2, <1>3
      <3>2. QED
        BY <1>1, <3>1
    <2>2. QED
      BY <1>3, <1>4, <2>1
  <1>6. Sorted(S) \in Surjection(1..n, S)
    BY <1>1, <1>2, <1>3, <1>5, Fun_IsInj, FS_Injection DEF n
  <1>7. \A f \in S : \E i \in 1..n : Sorted(S)[i] = f
    BY <1>6 DEF Surjection
  <1>8. S # {} => Sorted(S) # <<>>
    <2>1. S # {} => n # 0
      BY <1>1, FS_EmptySet DEF n
    <2>2. Len(Sorted(S)) = n /\ Len(<<>>) = 0
      BY <1>2, <1>4
    <2>3. QED
      BY <2>1, <2>2
  <1>9. QED
    BY <1>3, <1>4, <1>7, <1>8

-----------------------------------------------------------------------------
(***************************************************************************)
(* Reading a line.                                                         *)
(***************************************************************************)

Token == [kind: {"name", "bar", "hash"}, is: Files \cup {0} \cup Contents]

\* What is written to a line is told apart by its kind.
LEMMA Tokens ==
    /\ \A f \in Files : Name(f) \in Token /\ Name(f) # Bar
    /\ Bar \in Token
    /\ \A c \in Contents : Hash(c) \in Token /\ Hash(c) # Bar
    /\ \A f, g : Name(f) = Name(g) => f = g
    /\ \A c, d : Hash(c) = Hash(d) => c = d
    /\ \A f, c : Name(f) # Hash(c)
  BY DEF Name, Bar, Hash, Token

\* split_once finds the first bar, if there is one.
LEMMA FirstBar ==
    ASSUME NEW line \in Seq(Token)
    PROVE  \/ BarIn(line) = 0 /\ \A i \in 1..Len(line) : line[i] # Bar
           \/ /\ BarIn(line) \in 1..Len(line) /\ line[BarIn(line)] = Bar
              /\ \A i \in 1..Len(line) : line[i] = Bar => BarIn(line) <= i
  <1> DEFINE I == {i \in 1..Len(line) : line[i] = Bar}
  <1>1. BarIn(line) = IF I # {} THEN Min(I) ELSE 0
    BY DEF BarIn, SelectInSeq
  <1>2. CASE I = {}
    BY <1>1, <1>2
  <1>3. CASE I # {}
    <2>1. \E x \in I : \A y \in I : x <= y
      <3>1. I \in SUBSET Nat
        OBVIOUS
      <3> HIDE DEF I
      <3>2. QED
        BY <1>3, <3>1, LeastNumber
    <2>2. Min(I) \in I /\ \A y \in I : Min(I) <= y
      BY <2>1 DEF Min
    <2>3. QED
      BY <1>1, <1>3, <2>2
  <1>4. QED
    BY <1>2, <1>3

\* What is known of a sequence that is equal to one of one element.
LEMMA OneElement ==
    ASSUME NEW s, NEW x, s = <<x>>
    PROVE  Len(s) = 1 /\ s[1] = x
  <1>1. Len(<<x>>) = 1 /\ <<x>>[1] = x
    OBVIOUS
  <1>2. QED
    BY <1>1, Zenon

\* A line whose name is f begins with it.
LEMMA NameComesFirst ==
    ASSUME NEW line \in Seq(Token), NEW f, NameOf(line) = <<Name(f)>>
    PROVE  /\ 1 \in DOMAIN line /\ line[1] = Name(f)
           /\ BarIn(line) \in {0, 2}
  <1>1. Len(line) \in Nat /\ BarIn(line) \in 0..Len(line)
    BY FirstBar
  <1>2. CASE BarIn(line) = 0
    BY <1>1, <1>2 DEF NameOf
  <1>3. CASE BarIn(line) # 0
    <2>1. SubSeq(line, 1, BarIn(line) - 1) = <<Name(f)>>
      BY <1>3 DEF NameOf
    <2>2. /\ Len(SubSeq(line, 1, BarIn(line) - 1)) = BarIn(line) - 1
          /\ \A i \in 1..(BarIn(line) - 1) :
                SubSeq(line, 1, BarIn(line) - 1)[i] = line[i]
      BY <1>1, <1>3
    <2>3. /\ Len(SubSeq(line, 1, BarIn(line) - 1)) = 1
          /\ SubSeq(line, 1, BarIn(line) - 1)[1] = Name(f)
      BY <2>1, OneElement, Zenon
    <2>4. BarIn(line) = 2
      BY <1>1, <2>2, <2>3
    <2>5. Name(f) = line[1]
      BY <2>2, <2>3, <2>4
    <2>6. 1 \in DOMAIN line
      BY <1>1, <2>4
    <2>7. QED
      BY <2>4, <2>5, <2>6
  <1>4. QED
    BY <1>2, <1>3

\* A line whose name is f and whose hash is that of c holds nothing else.
LEMMA WholeLine ==
    ASSUME NEW line \in Seq(Token), NEW f, NEW c,
           NameOf(line) = <<Name(f)>>, HashOf(line) = <<Hash(c)>>
    PROVE  line = <<Name(f), Bar, Hash(c)>>
  <1>1. Len(line) \in Nat /\ line[1] = Name(f) /\ BarIn(line) = 2
    BY NameComesFirst DEF HashOf
  <1>2. 2 \in 1..Len(line) /\ line[2] = Bar
    BY <1>1, FirstBar
  <1>3. SubSeq(line, 3, Len(line)) = <<Hash(c)>>
    BY <1>1 DEF HashOf
  <1>4. Len(line) = 3 /\ line[3] = Hash(c)
    <2>1. /\ Len(SubSeq(line, 3, Len(line))) = Len(line) - 2
          /\ \A i \in 1..(Len(line) - 2) : SubSeq(line, 3, Len(line))[i] = line[i + 2]
      <3>1. \A i \in 3..Len(line) : line[i] \in Token
        BY <1>1
      <3>2. /\ Len(SubSeq(line, 3, Len(line))) =
                  IF 3 <= Len(line) THEN Len(line) - 3 + 1 ELSE 0
            /\ \A i \in 1..(Len(line) - 3 + 1) :
                  SubSeq(line, 3, Len(line))[i] = line[3 + i - 1]
        BY <1>1, <3>1, SubSeqProperties
      <3>3. 2 <= Len(line)
        BY <1>2
      <3>4. Len(SubSeq(line, 3, Len(line))) = Len(line) - 2
        <4>1. \A n \in Nat : 2 <= n => (IF 3 <= n THEN n - 3 + 1 ELSE 0) = n - 2
          OBVIOUS
        <4>2. QED
          BY <1>1, <3>2, <3>3, <4>1
      <3>5. ASSUME NEW i \in 1..(Len(line) - 2)
            PROVE  SubSeq(line, 3, Len(line))[i] = line[i + 2]
        <4>1. i \in 1..(Len(line) - 3 + 1) /\ 3 + i - 1 = i + 2
          BY <1>1
        <4>2. QED
          BY <3>2, <4>1
      <3>6. QED
        BY <3>4, <3>5
    <2>2. /\ Len(SubSeq(line, 3, Len(line))) = 1
          /\ SubSeq(line, 3, Len(line))[1] = Hash(c)
      BY <1>3, OneElement, Zenon
    <2>3. Len(line) - 2 = 1
      BY <2>1, <2>2
    <2>4. SubSeq(line, 3, Len(line))[1] = line[3]
      BY <2>1, <2>3
    <2>5. Len(line) = 3
      BY <1>1, <2>3
    <2>6. QED
      BY <2>2, <2>4, <2>5
  <1>5. QED
    BY <1>1, <1>2, <1>4

\* The name of a line as it is being written.
LEMMA NameAsWritten ==
    ASSUME NEW f \in Files, NEW c \in Contents
    PROVE  /\ NameOf(<<>>) = <<>>
           /\ NameOf(<<Name(f)>>) = <<Name(f)>>
           /\ NameOf(<<Name(f), Bar>>) = <<Name(f)>>
           /\ NameOf(<<Name(f), Bar, Hash(c)>>) = <<Name(f)>>
  <1>1. /\ Name(f) \in Token /\ Bar \in Token /\ Hash(c) \in Token
        /\ Name(f) # Bar
    BY Tokens
  <1>2. NameOf(<<>>) = <<>>
    <2>1. ASSUME NEW line \in Seq(Token), Len(line) = 0 PROVE BarIn(line) = 0
      <3>1. BarIn(line) = 0 \/ BarIn(line) \in 1..Len(line)
        BY FirstBar
      <3>2. QED
        BY <2>1, <3>1
    <2>2. <<>> \in Seq(Token) /\ Len(<<>>) = 0
      OBVIOUS
    <2>3. BarIn(<<>>) = 0
      BY <2>1, <2>2, Zenon
    <2>4. QED
      BY <2>3 DEF NameOf
  <1>3. NameOf(<<Name(f)>>) = <<Name(f)>>
    <2> DEFINE line == <<Name(f)>>
    <2>1. line \in Seq(Token) /\ \A i \in 1..Len(line) : line[i] # Bar
      BY <1>1
    <2> HIDE DEF line
    <2>2. BarIn(line) = 0
      BY <2>1, FirstBar
    <2>3. QED
      BY <2>2 DEF NameOf, line
  <1>4. ASSUME NEW line \in Seq(Token), Len(line) \in {2, 3},
               line[1] = Name(f), line[2] = Bar
        PROVE  NameOf(line) = <<Name(f)>>
    <2>1. BarIn(line) = 2
      BY <1>1, <1>4, FirstBar
    <2>2. SubSeq(line, 1, 1) = <<line[1]>>
      <3>1. \A i \in 1..1 : line[i] \in Token
        BY <1>1, <1>4
      <3>2. /\ SubSeq(line, 1, 1) \in Seq(Token) /\ Len(SubSeq(line, 1, 1)) = 1
            /\ SubSeq(line, 1, 1)[1] = line[1]
        BY <3>1, SubSeqProperties
      <3>3. \A s \in Seq(Token) : Len(s) = 1 => s = <<s[1]>>
        OBVIOUS
      <3>4. QED
        BY <3>2, <3>3
    <2>3. QED
      BY <1>4, <2>1, <2>2 DEF NameOf
  <1>5. /\ <<Name(f), Bar>> \in Seq(Token) /\ Len(<<Name(f), Bar>>) = 2
        /\ <<Name(f), Bar>>[1] = Name(f) /\ <<Name(f), Bar>>[2] = Bar
    BY <1>1
  <1>6. /\ <<Name(f), Bar, Hash(c)>> \in Seq(Token) /\ Len(<<Name(f), Bar, Hash(c)>>) = 3
        /\ <<Name(f), Bar, Hash(c)>>[1] = Name(f) /\ <<Name(f), Bar, Hash(c)>>[2] = Bar
    BY <1>1
  <1>7. QED
    BY <1>2, <1>3, <1>4, <1>5, <1>6

-----------------------------------------------------------------------------
(***************************************************************************)
(* The inductive invariant.  RecordsAreTrue is about what the file says,   *)
(* in the end; the invariant says of every invocation that is at work what *)
(* it has put into the last line so far, and what entitled it to.          *)
(***************************************************************************)

Writing == {"name", "bar", "hash", "newline"}
Working == {"read", "commit"} \cup Writing

\* The migration that r is at, and the line that is written next.
Current(r) == Head(todo[r])
LastLine == lines[Len(lines)]

Applied(f) == f \in skipped \/ \E c \in Scripts : Ran(f, c)

\* An invocation goes through what it found in the order of the names, and
\* comes to the applied file only once a migration was committed or had no SQL.
WorkInOrder(r) ==
    /\ phase[r] \in Working =>
          \A i \in DOMAIN todo[r] :
              /\ todo[r][i] \in listed[r]
              /\ \A j \in DOMAIN todo[r] : i < j => todo[r][i] < todo[r][j]
    /\ phase[r] = "commit" => sql[r] \in Scripts
    /\ phase[r] \in Writing =>
          \/ sql[r] = Template /\ Current(r) \in skipped
          \/ sql[r] \in Scripts /\ Ran(Current(r), sql[r])

\* What it found and was not applied it has yet to come to.
NoneLeftOut(r) ==
    phase[r] \in Working =>
        \A f \in listed[r] : Applied(f) \/ \E i \in DOMAIN todo[r] : todo[r][i] = f

\* Nothing goes to the applied file before it is made.
NothingBefore ==
    ~made => /\ lines = <<<<>>>>
             /\ \A r \in Runs : phase[r] \in {"idle", "create", "stopped"}

\* Every name in the file, wherever in a line it was written, is that of a
\* migration that was committed or had no SQL.
NamesAreTrue ==
    \A i \in DOMAIN lines : \A k \in DOMAIN lines[i] : \A f \in Files :
        lines[i][k] = Name(f) => Applied(f)

\* As long as invocations wait for one another.
OneAtATime ==
    /\ \A r, s \in Runs : Active(r) /\ Active(s) => r = s
    /\ \A r \in Runs : phase[r] = "create" => ~made

\* A name is followed by the hash of the same migration, though the line may
\* begin with what an interrupted invocation left of its own.
HashFollows(r) ==
    /\ phase[r] = "bar" =>
          LastLine # <<>> /\ LastLine[Len(LastLine)] = Name(Current(r))
    /\ phase[r] = "hash" =>
          Len(LastLine) >= 2 /\ LastLine[Len(LastLine) - 1] = Name(Current(r))

HashesAreTrue ==
    \A i \in DOMAIN lines : \A f \in Files, c \in Scripts :
        lines[i] = <<Name(f), Bar, Hash(c)>> => Ran(f, c)

\* As long as none ended in the middle either: the last line holds what the
\* invocation at work has written of it, ...
LineIsWhole ==
    /\ \A r \in Runs :
          /\ phase[r] = "bar" => LastLine = <<Name(Current(r))>>
          /\ phase[r] = "hash" => LastLine = <<Name(Current(r)), Bar>>
          /\ phase[r] = "newline" => LastLine = <<Name(Current(r)), Bar, Hash(sql[r])>>
    /\ (\A r \in Runs : phase[r] \notin {"bar", "hash", "newline"}) => LastLine = <<>>

\* ... what was committed is on record, but for the migration that the
\* invocation at work is about to record, ...
CommittedIsRecorded ==
    \A i \in DOMAIN committed :
        \/ Recorded(committed[i].name)
        \/ \E r \in Runs : phase[r] = "name" /\ Current(r) = committed[i].name

\* ... and an invocation has yet to run what it found and is not on record.
TodoIsTheRest(r) ==
    /\ phase[r] \in Working =>
          /\ \A i \in DOMAIN todo[r] :
                Recorded(todo[r][i]) => i = 1 /\ phase[r] \in {"bar", "hash", "newline"}
          /\ \A f \in listed[r] : Recorded(f) \/ \E i \in DOMAIN todo[r] : todo[r][i] = f
    /\ phase[r] = "done" => \A f \in listed[r] : Recorded(f)

NoneTwice ==
    \A i, j \in DOMAIN committed : committed[i].name = committed[j].name => i = j

Alone == /\ OneAtATime
         /\ \A r \in Runs : HashFollows(r)
         /\ HashesAreTrue

Orderly == /\ LineIsWhole
           /\ CommittedIsRecorded
           /\ \A r \in Runs : TodoIsTheRest(r)
           /\ NoneTwice

MigInv ==
    /\ TypeOK
    /\ \A r \in Runs : WorkInOrder(r) /\ NoneLeftOut(r)
    /\ NothingBefore
    /\ NamesAreTrue
    /\ ~overlapped => Alone
    /\ Undisturbed => Orderly

-----------------------------------------------------------------------------
(***************************************************************************)
(* What a step does to where the invocations are, to the lines and to what *)
(* was committed.                                                          *)
(***************************************************************************)

\* An invocation that goes on moves itself and no other.
LEMMA GoMoves ==
    ASSUME TypeOK, NEW r \in Runs, NEW place, Go(r, place)
    PROVE  phase'[r] = place /\ \A s \in Runs : s # r => phase'[s] = phase[s]
  BY DEF Go, TypeOK

\* An invocation at work is at the first migration it has yet to run.
LEMMA AtWork ==
    ASSUME TypeOK, NEW r \in Runs, phase[r] \in Working
    PROVE  /\ todo[r] \in Seq(Files) /\ Len(todo[r]) \in Nat \ {0}
           /\ DOMAIN todo[r] = 1..Len(todo[r]) /\ 1 \in DOMAIN todo[r]
           /\ Current(r) \in Files /\ Current(r) = todo[r][1]
           /\ Active(r)
  <1>1. Active(r) /\ phase[r] \notin {"create", "list", "pending"}
    BY DEF Active, Ended, Working, Writing
  <1>2. todo[r] \in Seq(Files) /\ todo[r] # <<>>
    BY <1>1 DEF TypeOK
  <1>3. QED
    BY <1>1, <1>2 DEF Current

\* One more token in the last line.
LEMMA WriteAppends ==
    ASSUME TypeOK, NEW x \in Token, WriteToLine(x)
    PROVE  /\ lines' \in Seq(Seq(Token)) /\ Len(lines') = Len(lines)
           /\ Len(lines) \in Nat \ {0} /\ DOMAIN lines' = DOMAIN lines
           /\ LastLine \in Seq(Token) /\ LastLine' = Append(LastLine, x)
           /\ \A i \in DOMAIN lines : i # Len(lines) => lines'[i] = lines[i]
  <1>1. lines \in Seq(Seq(Token)) /\ Len(lines) \in Nat \ {0}
    BY DEF TypeOK, Token
  <1>2. LastLine \in Seq(Token) /\ Len(lines) \in DOMAIN lines
    BY <1>1 DEF LastLine
  <1>3. Append(LastLine, x) \in Seq(Token)
    BY <1>2
  <1>4. lines' = [lines EXCEPT ![Len(lines)] = Append(LastLine, x)]
    BY DEF WriteToLine, LastLine
  <1>5. /\ lines' \in Seq(Seq(Token)) /\ Len(lines') = Len(lines)
        /\ DOMAIN lines' = DOMAIN lines
        /\ lines'[Len(lines)] = Append(LastLine, x)
        /\ \A i \in DOMAIN lines : i # Len(lines) => lines'[i] = lines[i]
    BY <1>1, <1>2, <1>3, <1>4
  <1>6. LastLine' = Append(LastLine, x)
    BY <1>5 DEF LastLine
  <1>7. QED
    BY <1>1, <1>2, <1>5, <1>6

\* One more line.
LEMMA NewLine ==
    ASSUME TypeOK, lines' = Append(lines, <<>>)
    PROVE  /\ lines' \in Seq(Seq(Token)) /\ lines' # <<>>
           /\ Len(lines) \in Nat \ {0} /\ LastLine' = <<>>
           /\ DOMAIN lines' = DOMAIN lines \cup {Len(lines) + 1}
           /\ lines'[Len(lines) + 1] = <<>>
           /\ \A i \in DOMAIN lines : lines'[i] = lines[i]
  <1>1. lines \in Seq(Seq(Token)) /\ Len(lines) \in Nat \ {0} /\ <<>> \in Seq(Token)
    BY DEF TypeOK, Token
  <1>2. /\ lines' \in Seq(Seq(Token)) /\ Len(lines') = Len(lines) + 1
        /\ lines'[Len(lines) + 1] = <<>>
        /\ \A i \in DOMAIN lines : lines'[i] = lines[i]
    BY <1>1
  <1>3. DOMAIN lines' = DOMAIN lines \cup {Len(lines) + 1}
    BY <1>1, <1>2
  <1>4. LastLine' = <<>>
    BY <1>2 DEF LastLine
  <1>5. QED
    BY <1>1, <1>2, <1>3, <1>4

\* What was committed stays so.
LEMMA RanStays ==
    ASSUME committed' = committed, skipped \subseteq skipped'
    PROVE  /\ \A f, c : Ran(f, c)' <=> Ran(f, c)
           /\ \A f : Applied(f) => Applied(f)'
  BY DEF Ran, Applied

\* A commit adds its migration to what was committed, and does nothing else to it.
LEMMA CommitAdds ==
    ASSUME TypeOK, NEW r \in Runs, sql[r] \in Scripts, todo[r] # <<>>, Commit(r)
    PROVE  /\ committed' \in Seq([name: Files, script: Scripts, by: Runs])
           /\ DOMAIN committed' = DOMAIN committed \cup {Len(committed) + 1}
           /\ Len(committed) + 1 \notin DOMAIN committed
           /\ \A i \in DOMAIN committed : committed'[i] = committed[i]
           /\ committed'[Len(committed) + 1].name = Current(r)
           /\ \A f, c : Ran(f, c) => Ran(f, c)'
           /\ \A f : Applied(f) => Applied(f)'
           /\ Ran(Current(r), sql[r])'
           /\ Current(r) \in Files
  <1> DEFINE entry == [name |-> Current(r), script |-> sql[r], by |-> r]
             Entries == [name: Files, script: Scripts, by: Runs]
  <1>1. Current(r) \in Files
    BY DEF TypeOK, Current
  <1>2. /\ entry \in Entries /\ entry.name = Current(r) /\ entry.script = sql[r]
        /\ committed \in Seq(Entries) /\ Len(committed) \in Nat
    BY <1>1 DEF TypeOK
  <1>3. committed' = Append(committed, entry) /\ skipped' = skipped
    BY DEF Commit, Current
  <1> HIDE DEF entry, Entries
  <1>4. /\ committed' \in Seq(Entries) /\ Len(committed') = Len(committed) + 1
        /\ \A i \in DOMAIN committed : committed'[i] = committed[i]
        /\ committed'[Len(committed) + 1] = entry
    BY <1>2, <1>3
  <1>5. /\ DOMAIN committed' = DOMAIN committed \cup {Len(committed) + 1}
        /\ Len(committed) + 1 \notin DOMAIN committed
    BY <1>2, <1>4
  <1>6. \A f, c : Ran(f, c) => Ran(f, c)'
    BY <1>4, <1>5 DEF Ran
  <1>7. Ran(Current(r), sql[r])'
    <2>1. Current(r)' = Current(r) /\ sql'[r] = sql[r]
      BY DEF Commit, work, Current
    <2>2. Len(committed) + 1 \in DOMAIN committed' /\ committed'[Len(committed) + 1] = entry
      BY <1>4, <1>5
    <2>3. QED
      BY <1>2, <2>1, <2>2 DEF Ran
  <1>8. \A f : Applied(f) => Applied(f)'
    BY <1>3, <1>6 DEF Applied
  <1>9. QED
    BY <1>1, <1>2, <1>4, <1>5, <1>6, <1>7, <1>8 DEF Entries

-----------------------------------------------------------------------------
(***************************************************************************)
(* Types.                                                                  *)
(***************************************************************************)

\* Every step keeps the type invariant.
LEMMA NextType == MigInv /\ [MigrationsNext]_migrationVars => TypeOK'
  <1> SUFFICES ASSUME MigInv, [MigrationsNext]_migrationVars PROVE TypeOK'
    OBVIOUS
  <1> USE DEF MigInv, files, applied, outcome, work, faults
  <1>1. ASSUME NEW f \in Files, Generate(f) PROVE TypeOK'
    BY <1>1, MigrationsAssumption DEF Generate, TypeOK, Contents, Active, Ended
  <1>2. ASSUME NEW f \in Files, NEW c \in Scripts \cup {Absent}, Edit(f, c) PROVE TypeOK'
    BY <1>2, MigrationsAssumption DEF Edit, TypeOK, Contents, Active, Ended
  <1>3. ASSUME NEW r \in Runs, Start(r) PROVE TypeOK'
    BY <1>3 DEF Start, Go, TypeOK, Active, Ended
  <1>4. ASSUME NEW r \in Runs, CreateApplied(r) PROVE TypeOK'
    BY <1>4 DEF CreateApplied, Go, TypeOK, Active, Ended
  <1>5. ASSUME NEW r \in Runs, List(r) PROVE TypeOK'
    BY <1>5 DEF List, Go, TypeOK, Active, Ended
  <1>6. ASSUME NEW r \in Runs, ReadApplied(r) PROVE TypeOK'
    <2> DEFINE pending == {f \in listed[r] : ~Recorded(f)}
    <2>1. pending \in SUBSET Files
      BY DEF TypeOK
    <2>2. Sorted(pending) \in Seq(pending) /\ (pending # {} => Sorted(pending) # <<>>)
      BY <2>1, SortedNames
    <2>3. /\ todo' = [todo EXCEPT ![r] = Sorted(pending)]
          /\ phase' = [phase EXCEPT ![r] = IF pending = {} THEN "done" ELSE "read"]
          /\ UNCHANGED <<files, applied, outcome, sql, listed, faults>>
      BY <1>6 DEF ReadApplied, Go
    <2> HIDE DEF pending
    <2>4. Sorted(pending) \in Seq(Files)
      BY <2>1, <2>2
    <2>5. QED
      BY <2>2, <2>3, <2>4 DEF TypeOK, Active, Ended
  <1>7. ASSUME NEW r \in Runs, Read(r) PROVE TypeOK'
    <2>1. todo[r] \in Seq(Files) /\ todo[r] # <<>> /\ Head(todo[r]) \in Files
      BY <1>7, AtWork DEF Read, Working, Current
    <2>2. QED
      BY <1>7, <2>1 DEF Read, Go, TypeOK, Active, Ended
  <1>8. ASSUME NEW r \in Runs, Commit(r) PROVE TypeOK'
    <2>1. sql[r] \in Scripts /\ todo[r] # <<>>
      BY <1>8 DEF Commit, WorkInOrder, TypeOK, Active, Ended
    <2>2. committed' \in Seq([name: Files, script: Scripts, by: Runs])
      BY <1>8, <2>1, CommitAdds
    <2>3. QED
      BY <1>8, <2>1, <2>2 DEF Commit, Go, TypeOK, Active, Ended
  <1>9. ASSUME NEW r \in Runs, WriteName(r) \/ WriteBar(r) \/ WriteHash(r) PROVE TypeOK'
    <2>1. /\ phase[r] \in {"name", "bar", "hash"}
          /\ todo[r] # <<>> /\ Current(r) \in Files /\ sql[r] \in Contents
      <3>1. phase[r] \in Writing /\ phase[r] \in Working /\ phase[r] \in {"name", "bar", "hash"}
        BY <1>9 DEF WriteName, WriteBar, WriteHash, Writing, Working
      <3>2. sql[r] \in Contents
        BY <3>1 DEF WorkInOrder, Contents
      <3>3. QED
        BY <3>1, <3>2, AtWork
    <2>2. PICK x \in Token : WriteToLine(x)
      BY <1>9, <2>1, Tokens DEF WriteName, WriteBar, WriteHash, Current
    <2>3. lines' \in Seq(Seq(Token)) /\ lines' # <<>>
      BY <2>2, WriteAppends
    <2>4. \E place \in {"bar", "hash", "newline"} : phase' = [phase EXCEPT ![r] = place]
      BY <1>9 DEF WriteName, WriteBar, WriteHash, Go
    <2>5. UNCHANGED <<files, made, outcome, todo, sql, listed, faults>>
      BY <1>9 DEF WriteName, WriteBar, WriteHash
    <2>6. QED
      BY <2>1, <2>3, <2>4, <2>5 DEF TypeOK, Token, Active, Ended
  <1>10. ASSUME NEW r \in Runs, EndLine(r) PROVE TypeOK'
    <2>1. /\ todo[r] \in Seq(Files) /\ todo[r] # <<>>
          /\ Tail(todo[r]) \in Seq(Files) /\ (Len(todo[r]) # 1 => Tail(todo[r]) # <<>>)
      <3>1. todo[r] \in Seq(Files) /\ Len(todo[r]) \in Nat \ {0}
        BY <1>10, AtWork DEF EndLine, Working, Writing
      <3>2. Tail(todo[r]) \in Seq(Files) /\ Len(Tail(todo[r])) = Len(todo[r]) - 1
        BY <3>1
      <3>3. \A s \in Seq(Files) : s = <<>> => Len(s) = 0
        OBVIOUS
      <3>4. Len(todo[r]) # 0 /\ (Len(todo[r]) # 1 => Len(Tail(todo[r])) # 0)
        BY <3>1, <3>2
      <3>5. QED
        BY <3>1, <3>2, <3>3, <3>4
    <2>2. lines' \in Seq(Seq(Token)) /\ lines' # <<>>
      BY <1>10, NewLine DEF EndLine
    <2>3. /\ todo' = [todo EXCEPT ![r] = Tail(todo[r])]
          /\ phase' = [phase EXCEPT ![r] = IF Len(todo[r]) = 1 THEN "done" ELSE "read"]
          /\ UNCHANGED <<files, made, outcome, sql, listed, faults>>
      BY <1>10 DEF EndLine, Go
    <2>4. QED
      BY <2>1, <2>2, <2>3 DEF TypeOK, Token, Active, Ended
  <1>11. ASSUME NEW r \in Runs, Stop(r) PROVE TypeOK'
    BY <1>11 DEF Stop, Go, TypeOK, Active, Ended
  <1>12. CASE UNCHANGED migrationVars
    BY <1>12 DEF migrationVars, TypeOK, Active, Ended
  <1>13. QED
    BY <1>1, <1>2, <1>3, <1>4, <1>5, <1>6, <1>7, <1>8, <1>9, <1>10, <1>11, <1>12 DEF MigrationsNext

-----------------------------------------------------------------------------
(***************************************************************************)
(* What any step leaves as it is.                                          *)
(***************************************************************************)

RunStep(r) == \/ Start(r) \/ CreateApplied(r) \/ List(r) \/ ReadApplied(r)
              \/ Read(r) \/ Commit(r)
              \/ WriteName(r) \/ WriteBar(r) \/ WriteHash(r) \/ EndLine(r)
              \/ Stop(r)

\* A step of the developer, or none: the invocations see it when they read.
FileStep == UNCHANGED <<applied, outcome, work, faults>>

\* A step changes the files, or is one of an invocation, or changes nothing.
LEMMA NextIs ==
    ASSUME [MigrationsNext]_migrationVars
    PROVE  FileStep \/ \E r \in Runs : RunStep(r)
  BY DEF MigrationsNext, RunStep, FileStep, Generate, Edit, migrationVars

\* A step of an invocation moves it alone.
LEMMA OthersStay ==
    ASSUME TypeOK, NEW r \in Runs, RunStep(r), NEW s \in Runs, s # r
    PROVE  phase'[s] = phase[s] /\ todo'[s] = todo[s] /\ sql'[s] = sql[s] /\ listed'[s] = listed[s]
  <1> USE DEF TypeOK, Go, work
  <1>1. CASE Start(r) \/ CreateApplied(r) \/ List(r) \/ ReadApplied(r) \/ Stop(r)
    BY <1>1 DEF Start, CreateApplied, List, ReadApplied, Stop
  <1>2. CASE Read(r) \/ Commit(r)
    BY <1>2 DEF Read, Commit
  <1>3. CASE WriteName(r) \/ WriteBar(r) \/ WriteHash(r) \/ EndLine(r)
    BY <1>3 DEF WriteName, WriteBar, WriteHash, EndLine
  <1>4. QED
    BY <1>1, <1>2, <1>3 DEF RunStep

\* What the database committed it keeps.
LEMMA NothingIsUndone ==
    ASSUME MigInv, [MigrationsNext]_migrationVars
    PROVE  /\ \A f, c : Ran(f, c) => Ran(f, c)'
           /\ \A f : Applied(f) => Applied(f)'
           /\ skipped \subseteq skipped'
  <1> USE DEF MigInv, outcome
  <1>1. CASE FileStep
    BY <1>1, RanStays DEF FileStep
  <1>2. ASSUME NEW r \in Runs, Commit(r)
        PROVE  /\ \A f, c : Ran(f, c) => Ran(f, c)'
               /\ \A f : Applied(f) => Applied(f)'
               /\ skipped \subseteq skipped'
    <2>1. phase[r] = "commit" /\ skipped' = skipped
      BY <1>2 DEF Commit
    <2>2. sql[r] \in Scripts /\ todo[r] # <<>>
      BY <2>1 DEF WorkInOrder, TypeOK, Active, Ended
    <2>3. QED
      BY <1>2, <2>1, <2>2, CommitAdds
  <1>3. ASSUME NEW r \in Runs, RunStep(r), ~Commit(r)
        PROVE  committed' = committed /\ skipped \subseteq skipped'
    BY <1>3 DEF RunStep, Start, CreateApplied, List, ReadApplied, Read,
                WriteName, WriteBar, WriteHash, EndLine, Stop
  <1>4. QED
    BY <1>1, <1>2, <1>3, NextIs, RanStays

-----------------------------------------------------------------------------
(***************************************************************************)
(* An invocation works in the order of the names.                          *)
(***************************************************************************)

\* WorkInOrder depends on an invocation's own state and on what ran before.
LEMMA WorkStays ==
    ASSUME NEW r \in Runs, WorkInOrder(r),
           phase'[r] = phase[r], todo'[r] = todo[r], sql'[r] = sql[r], listed'[r] = listed[r],
           \A f, c : Ran(f, c) => Ran(f, c)', skipped \subseteq skipped'
    PROVE  WorkInOrder(r)'
  BY DEF WorkInOrder, Current

\* Every step keeps each invocation in the order of the names.
LEMMA NextWork ==
    ASSUME MigInv, [MigrationsNext]_migrationVars, NEW s \in Runs
    PROVE  WorkInOrder(s)'
  <1> USE DEF MigInv
  <1>1. /\ \A f, c : Ran(f, c) => Ran(f, c)'
        /\ skipped \subseteq skipped'
    BY NothingIsUndone
  <1>2. CASE FileStep
    BY <1>1, <1>2, WorkStays DEF FileStep, work
  <1>3. ASSUME NEW r \in Runs, RunStep(r), r # s PROVE WorkInOrder(s)'
    BY <1>1, <1>3, OthersStay, WorkStays
  <1>4. CASE Start(s) \/ CreateApplied(s) \/ List(s) \/ Stop(s)
    <2>1. phase'[s] \in {"create", "list", "pending", "stopped"}
      BY <1>4 DEF Start, CreateApplied, List, Stop, Go, TypeOK
    <2>2. QED
      BY <2>1 DEF WorkInOrder, Working, Writing
  <1>5. CASE ReadApplied(s)
    <2> DEFINE pending == {f \in listed[s] : ~Recorded(f)}
    <2>1. pending \in SUBSET Files /\ pending \subseteq listed[s]
      BY DEF TypeOK
    <2>2. /\ Sorted(pending) \in Seq(pending)
          /\ \A i, j \in DOMAIN Sorted(pending) :
                i < j => Sorted(pending)[i] < Sorted(pending)[j]
      BY <2>1, SortedNames
    <2>3. /\ todo'[s] = Sorted(pending) /\ phase'[s] \in {"done", "read"}
          /\ listed'[s] = listed[s]
      BY <1>5 DEF ReadApplied, Go, TypeOK
    <2> HIDE DEF pending
    <2>4. \A i \in DOMAIN Sorted(pending) : Sorted(pending)[i] \in listed[s]
      BY <2>1, <2>2
    <2>5. QED
      BY <2>2, <2>3, <2>4 DEF WorkInOrder, Working, Writing
  <1>6. CASE Read(s)
    <2>1. /\ phase[s] = "read" /\ phase[s] \in Working
          /\ todo'[s] = todo[s] /\ listed'[s] = listed[s]
      BY <1>6 DEF Read, Working
    <2>2. file[Current(s)] \in Contents
      BY <1>6, <2>1, AtWork DEF Read, TypeOK, Current
    <2>3. \/ /\ phase'[s] = "name" /\ sql'[s] = Template
             /\ Current(s) \in skipped'
          \/ phase'[s] = "commit" /\ sql'[s] \in Scripts
      BY <1>6, <2>2 DEF Read, Go, TypeOK, Current, Contents
    <2>4. QED
      BY <2>1, <2>3 DEF WorkInOrder, Working, Writing, Current
  <1>7. CASE Commit(s)
    <2>1. /\ phase[s] = "commit" /\ phase[s] \in Working /\ phase'[s] = "name"
          /\ todo'[s] = todo[s] /\ listed'[s] = listed[s] /\ sql' = sql
      BY <1>7 DEF Commit, Working, Go, TypeOK
    <2>2. sql[s] \in Scripts /\ todo[s] # <<>>
      BY <2>1 DEF WorkInOrder, TypeOK, Active, Ended
    <2>3. Ran(Current(s), sql[s])'
      BY <1>7, <2>2, CommitAdds
    <2>4. QED
      BY <2>1, <2>2, <2>3 DEF WorkInOrder, Working, Writing
  <1>8. CASE WriteName(s) \/ WriteBar(s) \/ WriteHash(s)
    <2>1. /\ phase[s] \in Writing /\ phase'[s] \in Writing
          /\ todo' = todo /\ listed' = listed /\ sql' = sql
      BY <1>8 DEF WriteName, WriteBar, WriteHash, Writing, Go, TypeOK
    <2>2. phase[s] \in Working /\ phase'[s] # "commit"
      BY <2>1 DEF Working, Writing
    <2>3. QED
      BY <1>1, <2>1, <2>2 DEF WorkInOrder, Current
  <1>9. CASE EndLine(s)
    <2>1. /\ phase[s] = "newline" /\ phase[s] \in Working
          /\ phase'[s] \in {"done", "read"}
          /\ todo'[s] = Tail(todo[s]) /\ listed' = listed
      BY <1>9 DEF EndLine, Working, Writing, Go, TypeOK
    <2>2. todo[s] \in Seq(Files) /\ Len(todo[s]) \in Nat \ {0}
      BY <2>1, AtWork
    <2>3. /\ DOMAIN Tail(todo[s]) = 1..(Len(todo[s]) - 1)
          /\ \A i \in 1..(Len(todo[s]) - 1) : Tail(todo[s])[i] = todo[s][i + 1]
      BY <2>2
    <2>4. \A i \in 1..(Len(todo[s]) - 1) : i + 1 \in DOMAIN todo[s]
      BY <2>2
    <2>5. \A i, j \in 1..(Len(todo[s]) - 1) : i < j => i + 1 < j + 1
      BY <2>2
    <2>6. \A i \in DOMAIN Tail(todo[s]) :
              /\ Tail(todo[s])[i] \in listed[s]
              /\ \A j \in DOMAIN Tail(todo[s]) : i < j => Tail(todo[s])[i] < Tail(todo[s])[j]
      BY <2>1, <2>3, <2>4, <2>5 DEF WorkInOrder
    <2>7. QED
      BY <2>1, <2>6 DEF WorkInOrder, Writing
  <1>10. QED
    BY <1>2, <1>3, <1>4, <1>5, <1>6, <1>7, <1>8, <1>9, NextIs DEF RunStep

-----------------------------------------------------------------------------
(***************************************************************************)
(* The file is made before anything is written to it, and what is written  *)
(* to it are names of migrations that were applied.                        *)
(***************************************************************************)

\* Every step keeps the applied file untouched until it is made.
LEMMA NextBefore == MigInv /\ [MigrationsNext]_migrationVars => NothingBefore'
  <1> SUFFICES ASSUME MigInv, [MigrationsNext]_migrationVars, ~made' PROVE NothingBefore'
    BY DEF NothingBefore
  <1> USE DEF MigInv, NothingBefore, applied, work
  <1>1. CASE FileStep
    BY <1>1 DEF FileStep
  <1>2. ASSUME NEW r \in Runs, RunStep(r)
        PROVE  NothingBefore'
    <2>1. ~made
      BY <1>2 DEF RunStep, Start, CreateApplied, List, ReadApplied, Read, Commit,
                  WriteName, WriteBar, WriteHash, EndLine, Stop
    <2>2. phase[r] \in {"idle", "create", "stopped"}
      BY <2>1
    <2>3. Start(r) \/ Stop(r)
      BY <1>2, <2>2 DEF RunStep, CreateApplied, List, ReadApplied, Read, Commit,
                  WriteName, WriteBar, WriteHash, EndLine
    <2>4. lines' = lines /\ phase'[r] \in {"create", "stopped"}
      BY <2>1, <2>3 DEF Start, Stop, Go, TypeOK
    <2>5. QED
      BY <1>2, <2>1, <2>4, OthersStay
  <1>3. QED
    BY <1>1, <1>2, NextIs

\* Every step keeps the names true: only WriteName puts one there, and it is
\* that of what the invocation committed or skipped.
LEMMA NextNames == MigInv /\ [MigrationsNext]_migrationVars => NamesAreTrue'
  <1> SUFFICES ASSUME MigInv, [MigrationsNext]_migrationVars PROVE NamesAreTrue'
    OBVIOUS
  <1> USE DEF MigInv, applied
  <1>1. \A f : Applied(f) => Applied(f)'
    BY NothingIsUndone
  <1>2. CASE UNCHANGED lines
    BY <1>1, <1>2 DEF NamesAreTrue
  <1>3. ASSUME NEW r \in Runs, CreateApplied(r) PROVE NamesAreTrue'
    <2>1. lines' = <<<<>>>>
      BY <1>3 DEF CreateApplied
    <2>2. \A i \in DOMAIN lines' : DOMAIN lines'[i] = {}
      BY <2>1
    <2>3. QED
      BY <2>2 DEF NamesAreTrue
  <1>4. ASSUME NEW x \in Token, WriteToLine(x),
               \A f \in Files : x = Name(f) => Applied(f)
        PROVE  NamesAreTrue'
    <2>1. /\ LastLine \in Seq(Token) /\ LastLine' = Append(LastLine, x)
          /\ DOMAIN lines' = DOMAIN lines
          /\ \A i \in DOMAIN lines : i # Len(lines) => lines'[i] = lines[i]
          /\ Len(lines) \in DOMAIN lines /\ Len(lines') = Len(lines)
      BY <1>4, WriteAppends DEF TypeOK
    <2>2. \A k \in DOMAIN LastLine : \A f \in Files : LastLine[k] = Name(f) => Applied(f)
      BY <2>1 DEF NamesAreTrue, LastLine
    <2>3. \A k \in DOMAIN Append(LastLine, x) :
              \/ k \in DOMAIN LastLine /\ Append(LastLine, x)[k] = LastLine[k]
              \/ Append(LastLine, x)[k] = x
      BY <2>1
    <2>4. \A k \in DOMAIN LastLine' : \A f \in Files : LastLine'[k] = Name(f) => Applied(f)
      BY <1>4, <2>1, <2>2, <2>3
    <2>5. lines'[Len(lines)] = LastLine'
      BY <2>1 DEF LastLine
    <2>6. QED
      BY <1>1, <2>1, <2>4, <2>5 DEF NamesAreTrue
  <1>5. ASSUME NEW r \in Runs, WriteName(r) \/ WriteBar(r) \/ WriteHash(r) PROVE NamesAreTrue'
    <2>1. /\ phase[r] \in Working /\ phase[r] \in Writing
          /\ Current(r) \in Files /\ sql[r] \in Contents /\ Applied(Current(r))
      <3>1. phase[r] \in Working /\ phase[r] \in Writing
        BY <1>5 DEF WriteName, WriteBar, WriteHash, Working, Writing
      <3>2. QED
        BY <3>1, AtWork DEF WorkInOrder, Applied, Contents
    <2>2. \/ WriteToLine(Name(Current(r)))
          \/ WriteToLine(Bar)
          \/ WriteToLine(Hash(sql[r]))
      BY <1>5 DEF WriteName, WriteBar, WriteHash, Current
    <2>3. /\ \A f \in Files : Name(Current(r)) = Name(f) => Applied(f)
          /\ \A f \in Files : Bar # Name(f) /\ Hash(sql[r]) # Name(f)
      BY <2>1, Tokens
    <2>4. Name(Current(r)) \in Token /\ Bar \in Token /\ Hash(sql[r]) \in Token
      BY <2>1, Tokens
    <2>5. QED
      BY <1>4, <2>2, <2>3, <2>4
  <1>6. ASSUME NEW r \in Runs, EndLine(r) PROVE NamesAreTrue'
    <2>1. /\ DOMAIN lines' = DOMAIN lines \cup {Len(lines) + 1}
          /\ lines'[Len(lines) + 1] = <<>>
          /\ \A i \in DOMAIN lines : lines'[i] = lines[i]
      BY <1>6, NewLine DEF EndLine
    <2>2. QED
      BY <1>1, <2>1 DEF NamesAreTrue
  <1>7. ASSUME NEW r \in Runs,
               Start(r) \/ List(r) \/ ReadApplied(r) \/ Read(r) \/ Commit(r) \/ Stop(r)
        PROVE  UNCHANGED lines
    BY <1>7 DEF Start, List, ReadApplied, Read, Commit, Stop
  <1>8. QED
    BY <1>2, <1>3, <1>5, <1>6, <1>7, NextIs DEF RunStep, FileStep

\* Of the lines of a name there is a last one, and its hash is the stored one.
LEMMA StoredIsThere ==
    ASSUME TypeOK, NEW f, Recorded(f)
    PROVE  \E i \in DOMAIN lines :
               NameOf(lines[i]) = <<Name(f)>> /\ StoredHash(f) = HashOf(lines[i])
  <1>1. LinesOf(f) \in SUBSET (0..Len(lines)) /\ Len(lines) \in Nat /\ LinesOf(f) # {}
    BY DEF TypeOK, LinesOf, Recorded
  <1>2. \E i \in LinesOf(f) : \A j \in LinesOf(f) : j <= i
    BY <1>1, GreatestNumber
  <1> DEFINE last == CHOOSE i \in LinesOf(f) : \A j \in LinesOf(f) : j <= i
  <1>3. last \in LinesOf(f)
    BY <1>2
  <1>4. StoredHash(f) = HashOf(lines[last])
    BY DEF StoredHash
  <1> HIDE DEF last
  <1>5. last \in DOMAIN lines /\ NameOf(lines[last]) = <<Name(f)>>
    BY <1>3 DEF LinesOf, TypeOK
  <1>6. QED
    BY <1>4, <1>5

\* A name that is on record is that of a migration that was applied.
LEMMA RecordedWasApplied ==
    ASSUME TypeOK, NamesAreTrue, NEW f \in Files, Recorded(f)
    PROVE  Applied(f)
  <1>1. PICK i \in DOMAIN lines :
           NameOf(lines[i]) = <<Name(f)>> /\ StoredHash(f) = HashOf(lines[i])
    BY StoredIsThere
  <1>2. lines[i] \in Seq(Token)
    BY DEF TypeOK, Token
  <1>3. 1 \in DOMAIN lines[i] /\ lines[i][1] = Name(f)
    BY <1>1, <1>2, NameComesFirst
  <1>4. QED
    BY <1>3 DEF NamesAreTrue

-----------------------------------------------------------------------------
(***************************************************************************)
(* An invocation passes over no migration that was not applied.            *)
(***************************************************************************)

\* NoneLeftOut depends on an invocation's own state and on what ran before.
LEMMA LeftOutStays ==
    ASSUME NEW r \in Runs, NoneLeftOut(r), phase'[r] \in Working => phase[r] \in Working,
           todo'[r] = todo[r], listed'[r] = listed[r], \A f : Applied(f) => Applied(f)'
    PROVE  NoneLeftOut(r)'
  BY DEF NoneLeftOut

\* Every step keeps each invocation from leaving one out.
LEMMA NextLeftOut ==
    ASSUME MigInv, [MigrationsNext]_migrationVars, NEW s \in Runs
    PROVE  NoneLeftOut(s)'
  <1>1. TypeOK /\ WorkInOrder(s) /\ NoneLeftOut(s) /\ NamesAreTrue
    BY DEF MigInv
  <1>2. \A f : Applied(f) => Applied(f)'
    BY NothingIsUndone
  <1>3. CASE FileStep
    BY <1>1, <1>2, <1>3, LeftOutStays DEF FileStep, work
  <1>4. ASSUME NEW r \in Runs, RunStep(r), r # s PROVE NoneLeftOut(s)'
    BY <1>1, <1>2, <1>4, OthersStay, LeftOutStays
  <1>5. CASE Start(s) \/ CreateApplied(s) \/ List(s) \/ Stop(s)
    <2>1. phase'[s] \in {"create", "list", "pending", "stopped"}
      BY <1>1, <1>5 DEF Start, CreateApplied, List, Stop, Go, TypeOK
    <2>2. QED
      BY <2>1 DEF NoneLeftOut, Working, Writing
  <1>6. CASE ReadApplied(s)
    <2> DEFINE pending == {f \in listed[s] : ~Recorded(f)}
    <2>1. listed[s] \in SUBSET Files /\ pending \in SUBSET Files
      BY <1>1 DEF TypeOK
    <2>2. \A f \in pending : \E i \in DOMAIN Sorted(pending) : Sorted(pending)[i] = f
      BY <2>1, SortedNames
    <2>3. todo'[s] = Sorted(pending) /\ listed'[s] = listed[s]
      BY <1>1, <1>6 DEF ReadApplied, TypeOK
    <2>4. \A f \in listed[s] : Recorded(f) => Applied(f)
      BY <1>1, <2>1, RecordedWasApplied
    <2>5. \A f \in listed[s] : Applied(f) \/ f \in pending
      BY <2>4
    <2> HIDE DEF pending
    <2>6. QED
      BY <1>2, <2>2, <2>3, <2>5 DEF NoneLeftOut
  <1>7. CASE Read(s) \/ Commit(s) \/ WriteName(s) \/ WriteBar(s) \/ WriteHash(s)
    <2>1. phase[s] \in Working /\ todo' = todo /\ listed' = listed
      BY <1>7 DEF Read, Commit, WriteName, WriteBar, WriteHash, Working, Writing
    <2>2. QED
      BY <1>1, <1>2, <2>1, LeftOutStays
  <1>8. CASE EndLine(s)
    <2>1. /\ phase[s] \in Working /\ phase[s] \in Writing
          /\ todo'[s] = Tail(todo[s]) /\ listed' = listed
      BY <1>1, <1>8 DEF EndLine, Working, Writing, TypeOK
    <2>2. /\ todo[s] \in Seq(Files) /\ Len(todo[s]) \in Nat \ {0}
          /\ Current(s) = todo[s][1] /\ DOMAIN todo[s] = 1..Len(todo[s])
      BY <1>1, <2>1, AtWork
    <2>3. Applied(Current(s))
      BY <1>1, <2>1 DEF WorkInOrder, Applied
    <2>4. /\ DOMAIN Tail(todo[s]) = 1..(Len(todo[s]) - 1)
          /\ \A i \in 1..(Len(todo[s]) - 1) : Tail(todo[s])[i] = todo[s][i + 1]
      BY <2>2
    <2>5. ASSUME NEW f \in listed[s], ~Applied(f)
          PROVE  \E i \in DOMAIN Tail(todo[s]) : Tail(todo[s])[i] = f
      <3>1. PICK j \in 1..Len(todo[s]) : todo[s][j] = f
        BY <1>1, <2>1, <2>2, <2>5 DEF NoneLeftOut
      <3>2. j # 1
        BY <2>2, <2>3, <2>5, <3>1
      <3>3. j - 1 \in 1..(Len(todo[s]) - 1) /\ todo[s][(j - 1) + 1] = f
        BY <2>2, <3>1, <3>2
      <3>4. QED
        BY <2>4, <3>3
    <2>6. QED
      BY <1>2, <2>1, <2>5 DEF NoneLeftOut
  <1>9. QED
    BY <1>3, <1>4, <1>5, <1>6, <1>7, <1>8, NextIs DEF RunStep

-----------------------------------------------------------------------------
(***************************************************************************)
(* While invocations wait for one another.                                 *)
(***************************************************************************)

\* What a run does it does as the only one, and only its start makes it one.
LEMMA StepIsActive ==
    ASSUME TypeOK, NEW r \in Runs, RunStep(r), ~Start(r)
    PROVE  /\ Active(r) /\ phase'[r] \notin {"idle", "create"}
           /\ overlapped' = overlapped
           /\ CreateApplied(r) \/ made' = made
  <1> USE DEF TypeOK, Go, Active, Ended, faults, applied
  <1>1. CASE CreateApplied(r) \/ List(r) \/ ReadApplied(r)
    BY <1>1 DEF CreateApplied, List, ReadApplied
  <1>2. CASE Read(r) \/ Commit(r) \/ Stop(r)
    BY <1>2 DEF Read, Commit, Stop
  <1>3. CASE WriteName(r) \/ WriteBar(r) \/ WriteHash(r) \/ EndLine(r)
    BY <1>3 DEF WriteName, WriteBar, WriteHash, EndLine
  <1>4. QED
    BY <1>1, <1>2, <1>3 DEF RunStep

\* Invocations that did not overlap after a step did not before it.
LEMMA ApartBefore ==
    ASSUME MigInv, [MigrationsNext]_migrationVars, ~overlapped'
    PROVE  ~overlapped /\ Alone
  <1>1. CASE FileStep
    BY <1>1 DEF FileStep, faults, MigInv
  <1>2. ASSUME NEW r \in Runs, RunStep(r) PROVE ~overlapped
    BY <1>2, StepIsActive DEF MigInv, Start
  <1>3. QED
    BY <1>1, <1>2, NextIs DEF MigInv

\* Beside the one whose step it is, none is at work.
LEMMA OthersRest ==
    ASSUME TypeOK, OneAtATime, NEW r \in Runs, RunStep(r), ~overlapped',
           NEW s \in Runs, s # r
    PROVE  ~Active(s) /\ ~Active(s)'
  <1>1. ~Active(s)
    <2>1. CASE Start(r)
      BY <2>1 DEF Start
    <2>2. CASE ~Start(r)
      BY <2>2, StepIsActive DEF OneAtATime
    <2>3. QED
      BY <2>1, <2>2
  <1>2. phase'[s] = phase[s]
    BY OthersStay
  <1>3. QED
    BY <1>1, <1>2 DEF Active, Ended

\* Every step keeps at most one invocation at work.
LEMMA NextOne ==
    ASSUME MigInv, [MigrationsNext]_migrationVars, ~overlapped'
    PROVE  OneAtATime'
  <1>1. TypeOK /\ ~overlapped /\ OneAtATime
    BY ApartBefore DEF MigInv, Alone
  <1>2. CASE FileStep
    BY <1>1, <1>2 DEF FileStep, work, applied, OneAtATime, Active, Ended
  <1>3. ASSUME NEW r \in Runs, RunStep(r) PROVE OneAtATime'
    <2>1. \A s \in Runs : s # r => ~Active(s)'
      BY <1>1, <1>3, OthersRest
    <2>2. \A s \in Runs : s # r => phase'[s] # "create"
      BY <2>1 DEF Active, Ended
    <2>3. phase'[r] = "create" => ~made'
      <3>1. CASE Start(r)
        BY <1>1, <3>1 DEF Start, Go, TypeOK, applied
      <3>2. CASE ~Start(r)
        BY <1>1, <1>3, <3>2, StepIsActive
      <3>3. QED
        BY <3>1, <3>2
    <2>4. QED
      BY <2>1, <2>2, <2>3 DEF OneAtATime
  <1>4. QED
    BY <1>2, <1>3, NextIs

\* The writes of one line, in their order.
LEMMA NextFollows ==
    ASSUME MigInv, [MigrationsNext]_migrationVars, ~overlapped', NEW s \in Runs
    PROVE  HashFollows(s)'
  <1>1. TypeOK /\ ~overlapped /\ Alone
    BY ApartBefore DEF MigInv
  <1>2. CASE FileStep
    BY <1>1, <1>2 DEF FileStep, work, applied, Alone, HashFollows, LastLine, Current
  <1>3. ASSUME NEW r \in Runs, RunStep(r), r # s PROVE HashFollows(s)'
    <2>1. ~Active(s)'
      BY <1>1, <1>3, OthersRest DEF Alone
    <2>2. QED
      BY <2>1 DEF HashFollows, Active, Ended
  <1>4. CASE WriteName(s)
    <2>1. /\ phase'[s] = "bar" /\ Current(s)' = Current(s)
          /\ WriteToLine(Name(Current(s))) /\ Current(s) \in Files
      BY <1>1, <1>4, GoMoves, AtWork DEF WriteName, Current, Working, Writing
    <2>2. /\ LastLine \in Seq(Token) /\ Name(Current(s)) \in Token
          /\ LastLine' = Append(LastLine, Name(Current(s)))
      BY <1>1, <2>1, Tokens, WriteAppends
    <2>3. LastLine' # <<>> /\ LastLine'[Len(LastLine')] = Name(Current(s))
      BY <2>2
    <2>4. QED
      BY <2>1, <2>3 DEF HashFollows
  <1>5. CASE WriteBar(s)
    <2>1. /\ phase'[s] = "hash" /\ Current(s)' = Current(s) /\ WriteToLine(Bar)
          /\ LastLine # <<>> /\ LastLine[Len(LastLine)] = Name(Current(s))
      BY <1>1, <1>5, GoMoves DEF WriteBar, Current, Alone, HashFollows
    <2>2. /\ LastLine \in Seq(Token) /\ LastLine' = Append(LastLine, Bar)
          /\ Bar \in Token
      BY <1>1, <2>1, Tokens, WriteAppends
    <2>3. /\ Len(LastLine) \in Nat \ {0} /\ Len(LastLine') = Len(LastLine) + 1
          /\ LastLine'[Len(LastLine)] = LastLine[Len(LastLine)]
      BY <2>1, <2>2
    <2>4. Len(LastLine') >= 2 /\ Len(LastLine') - 1 = Len(LastLine)
      BY <2>3
    <2>5. QED
      BY <2>1, <2>3, <2>4 DEF HashFollows
  <1>6. ASSUME RunStep(s), ~WriteName(s), ~WriteBar(s) PROVE HashFollows(s)'
    <2>1. phase'[s] \notin {"bar", "hash"}
      BY <1>1, <1>6 DEF RunStep, Start, CreateApplied, List, ReadApplied, Read, Commit,
                        WriteHash, EndLine, Stop, Go, TypeOK
    <2>2. QED
      BY <2>1 DEF HashFollows
  <1>7. QED
    BY <1>2, <1>3, <1>4, <1>5, <1>6, NextIs

\* What is known of a line that one write makes one of three elements.
LEMMA ThreeElements ==
    ASSUME NEW s \in Seq(Token), NEW x \in Token, NEW a, NEW b, NEW c
    PROVE  Append(s, x) = <<a, b, c>> => Len(s) = 2 /\ s[1] = a /\ x = c
  <1>1. /\ Len(Append(s, x)) = Len(s) + 1 /\ Len(s) \in Nat
        /\ Append(s, x)[Len(s) + 1] = x
        /\ 1 <= Len(s) => Append(s, x)[1] = s[1]
    OBVIOUS
  <1>2. ASSUME Len(Append(s, x)) = 3, Append(s, x)[1] = a, Append(s, x)[3] = c
        PROVE  Len(s) = 2 /\ s[1] = a /\ x = c
    <2>1. \A n \in Nat : n + 1 = 3 => n = 2 /\ 1 <= n
      OBVIOUS
    <2>2. Len(s) + 1 = 3 /\ Len(s) \in Nat
      BY <1>1, <1>2, Zenon
    <2>3. Len(s) = 2 /\ 1 <= Len(s)
      BY <2>1, <2>2, Zenon
    <2>4. QED
      BY <1>1, <1>2, <2>2, <2>3, Zenon
  <1>3. Len(<<a, b, c>>) = 3 /\ <<a, b, c>>[1] = a /\ <<a, b, c>>[3] = c
    OBVIOUS
  <1>4. ASSUME Append(s, x) = <<a, b, c>>
        PROVE  Len(Append(s, x)) = 3 /\ Append(s, x)[1] = a /\ Append(s, x)[3] = c
    BY <1>3, <1>4, Zenon
  <1>5. QED
    BY <1>2, <1>4, Zenon

\* Every step keeps the hashes true: what completes a line is the hash of the
\* script that was run under its name.
LEMMA NextHashes ==
    ASSUME MigInv, [MigrationsNext]_migrationVars, ~overlapped'
    PROVE  HashesAreTrue'
  <1>1. /\ TypeOK /\ ~overlapped /\ HashesAreTrue
        /\ \A r \in Runs : WorkInOrder(r) /\ HashFollows(r)
    BY ApartBefore DEF MigInv, Alone
  <1>2. \A f, c : Ran(f, c) => Ran(f, c)'
    BY NothingIsUndone
  <1>3. \A f, c : <<>> # <<Name(f), Bar, Hash(c)>>
    OBVIOUS
  <1>4. CASE UNCHANGED lines
    BY <1>1, <1>2, <1>4 DEF HashesAreTrue
  <1>5. ASSUME NEW r \in Runs, CreateApplied(r) PROVE HashesAreTrue'
    <2>1. \A i \in DOMAIN lines' : lines'[i] = <<>>
      BY <1>5 DEF CreateApplied
    <2>2. QED
      BY <1>3, <2>1 DEF HashesAreTrue
  <1>6. ASSUME NEW r \in Runs, EndLine(r) PROVE HashesAreTrue'
    <2>1. /\ DOMAIN lines' = DOMAIN lines \cup {Len(lines) + 1}
          /\ lines'[Len(lines) + 1] = <<>>
          /\ \A i \in DOMAIN lines : lines'[i] = lines[i]
      BY <1>1, <1>6, NewLine DEF EndLine
    <2>2. QED
      BY <1>1, <1>2, <1>3, <2>1 DEF HashesAreTrue
  <1>7. ASSUME NEW r \in Runs, WriteName(r) \/ WriteBar(r) \/ WriteHash(r)
        PROVE  HashesAreTrue'
    <2>1. /\ phase[r] \in Writing /\ phase[r] \in Working
          /\ WriteHash(r) => phase[r] = "hash"
      BY <1>7 DEF WriteName, WriteBar, WriteHash, Working, Writing
    <2>2. Current(r) \in Files /\ sql[r] \in Contents
      BY <1>1, <2>1, AtWork DEF WorkInOrder, Contents
    <2>3. PICK x \in Token :
             /\ WriteToLine(x)
             /\ \A c : x = Hash(c) => WriteHash(r) /\ c = sql[r]
      <3>1. CASE WriteName(r)
        BY <2>2, <3>1, Tokens DEF WriteName, Current
      <3>2. CASE WriteBar(r)
        <4>1. \A c : Bar # Hash(c)
          BY DEF Bar, Hash
        <4>2. QED
          BY <3>2, <4>1, Tokens DEF WriteBar
      <3>3. CASE WriteHash(r)
        BY <2>2, <3>3, Tokens DEF WriteHash
      <3>4. QED
        BY <1>7, <3>1, <3>2, <3>3
    <2>4. /\ LastLine \in Seq(Token) /\ LastLine' = Append(LastLine, x)
          /\ Len(lines) \in DOMAIN lines /\ DOMAIN lines' = DOMAIN lines
          /\ Len(lines') = Len(lines)
          /\ \A i \in DOMAIN lines : i # Len(lines) => lines'[i] = lines[i]
      BY <1>1, <2>3, WriteAppends DEF TypeOK
    <2>5. lines'[Len(lines)] = Append(LastLine, x)
      BY <2>4 DEF LastLine
    <2>6. ASSUME NEW f \in Files, NEW c \in Scripts,
                 Append(LastLine, x) = <<Name(f), Bar, Hash(c)>>
          PROVE  Ran(f, c)
      <3>1. Len(LastLine) = 2 /\ LastLine[1] = Name(f) /\ x = Hash(c)
        BY <2>4, <2>6, ThreeElements
      <3>2. WriteHash(r) /\ c = sql[r]
        BY <2>3, <3>1
      <3>3. LastLine[1] = Name(Current(r))
        BY <1>1, <2>1, <3>1, <3>2 DEF HashFollows
      <3>4. f = Current(r)
        BY <3>1, <3>3, Tokens
      <3>5. QED
        BY <1>1, <2>1, <3>2, <3>4, MigrationsAssumption DEF WorkInOrder
    <2>7. QED
      BY <1>1, <1>2, <2>4, <2>5, <2>6 DEF HashesAreTrue
  <1>8. ASSUME NEW r \in Runs,
               Start(r) \/ List(r) \/ ReadApplied(r) \/ Read(r) \/ Commit(r) \/ Stop(r)
        PROVE  UNCHANGED lines
    BY <1>8 DEF Start, List, ReadApplied, Read, Commit, Stop, applied
  <1>9. QED
    BY <1>4, <1>5, <1>6, <1>7, <1>8, NextIs DEF RunStep, FileStep, applied

-----------------------------------------------------------------------------
(***************************************************************************)
(* While none ends in the middle of its work either.                       *)
(***************************************************************************)

\* What was not disturbed after a step was not before it, and the step was
\* not one that disturbs.
LEMMA UndisturbedBefore ==
    ASSUME MigInv, [MigrationsNext]_migrationVars, Undisturbed'
    PROVE  /\ Undisturbed /\ ~overlapped' /\ Alone /\ Orderly
           /\ \A r \in Runs : Stop(r) => phase[r] \notin Writing
  <1>1. ~overlapped' /\ ~interrupted' /\ ~overlapped /\ Alone
    BY ApartBefore DEF Undisturbed
  <1>2. interrupted' = interrupted \/ \E r \in Runs : Stop(r)
    BY NextIs DEF FileStep, faults, RunStep, Start, CreateApplied, List, ReadApplied, Read,
                  Commit, WriteName, WriteBar, WriteHash, EndLine
  <1>3. \A r \in Runs : Stop(r) => ~interrupted /\ phase[r] \notin Writing
    BY <1>1 DEF Stop, Writing
  <1>4. ~interrupted
    BY <1>1, <1>2, <1>3
  <1>5. QED
    BY <1>1, <1>3, <1>4 DEF Undisturbed, MigInv

\* A name is on record in a line that ended or in the last one.
LEMMA RecordedIs ==
    ASSUME TypeOK, NEW f
    PROVE  Recorded(f) <=> \/ \E i \in DOMAIN lines :
                                  i # Len(lines) /\ NameOf(lines[i]) = <<Name(f)>>
                           \/ NameOf(LastLine) = <<Name(f)>>
  <1>1. DOMAIN lines = 1..Len(lines) /\ Len(lines) \in DOMAIN lines
    BY DEF TypeOK
  <1>2. QED
    BY <1>1 DEF Recorded, LinesOf, LastLine

\* Only the name of the last line makes a difference when it is written to.
LEMMA WriteRecords ==
    ASSUME TypeOK, NEW x \in Token, WriteToLine(x), NEW f
    PROVE  Recorded(f)' <=> \/ \E i \in DOMAIN lines :
                                   i # Len(lines) /\ NameOf(lines[i]) = <<Name(f)>>
                            \/ NameOf(LastLine') = <<Name(f)>>
  <1>1. /\ DOMAIN lines' = DOMAIN lines /\ Len(lines') = Len(lines)
        /\ DOMAIN lines = 1..Len(lines) /\ Len(lines) \in DOMAIN lines
        /\ \A i \in DOMAIN lines : i # Len(lines) => lines'[i] = lines[i]
    BY WriteAppends DEF TypeOK
  <1>2. Recorded(f)' <=> \E i \in DOMAIN lines' : NameOf(lines'[i]) = <<Name(f)>>
    BY <1>1 DEF Recorded, LinesOf
  <1>3. lines'[Len(lines)] = LastLine'
    BY <1>1 DEF LastLine
  <1>4. QED
    BY <1>1, <1>2, <1>3

\* The invocation whose turn it is finds the last line as it should be.
LEMMA LineAtHand ==
    ASSUME MigInv, Undisturbed, NEW r \in Runs,
           \A s \in Runs : s # r => ~Active(s)
    PROVE  /\ phase[r] = "bar" => LastLine = <<Name(Current(r))>>
           /\ phase[r] = "hash" => LastLine = <<Name(Current(r)), Bar>>
           /\ phase[r] = "newline" => LastLine = <<Name(Current(r)), Bar, Hash(sql[r])>>
           /\ phase[r] \notin {"bar", "hash", "newline"} => LastLine = <<>>
  BY DEF MigInv, Orderly, LineIsWhole, Active, Ended

\* A migration is on record from the first write of its line on, and nothing
\* that is on record is lost.
LEMMA StepRecords ==
    ASSUME MigInv, NEW r \in Runs, RunStep(r), Undisturbed, ~overlapped', Alone
    PROVE  /\ LastLine' = IF WriteName(r) THEN <<Name(Current(r))>>
                          ELSE IF WriteBar(r) THEN <<Name(Current(r)), Bar>>
                          ELSE IF WriteHash(r) THEN <<Name(Current(r)), Bar, Hash(sql[r])>>
                          ELSE IF EndLine(r) THEN <<>>
                          ELSE LastLine
           /\ \A f \in Files :
                 Recorded(f)' <=> Recorded(f) \/ (WriteName(r) /\ f = Current(r))
  <1>1. TypeOK /\ WorkInOrder(r) /\ NothingBefore /\ Alone
    BY DEF MigInv
  <1>2. \A s \in Runs : s # r => ~Active(s)
    BY <1>1, OthersRest DEF Alone
  <1>3. \A f, g : <<>> # <<Name(f)>> /\ (<<Name(f)>> = <<Name(g)>> <=> f = g)
    BY Tokens
  <1>4. CASE WriteName(r)
    <2>1. /\ phase[r] = "name" /\ Current(r) \in Files /\ Name(Current(r)) \in Token
          /\ WriteToLine(Name(Current(r)))
      BY <1>1, <1>4, AtWork, Tokens DEF WriteName, Working, Writing, Current
    <2>2. LastLine = <<>>
      BY <1>2, <2>1, LineAtHand
    <2>3. LastLine' = <<Name(Current(r))>>
      BY <1>1, <2>1, <2>2, WriteAppends
    <2>4. \E c : c \in Contents
      BY DEF Contents
    <2>5. NameOf(LastLine) = <<>> /\ NameOf(LastLine') = <<Name(Current(r))>>
      BY <2>1, <2>2, <2>3, <2>4, NameAsWritten
    <2>6. \A f \in Files : Recorded(f)' <=> Recorded(f) \/ f = Current(r)
      BY <1>1, <1>3, <2>1, <2>5, RecordedIs, WriteRecords
    <2>7. QED
      BY <1>4, <2>3, <2>6
  <1>5. CASE WriteBar(r)
    <2>1. /\ phase[r] = "bar" /\ Current(r) \in Files /\ Bar \in Token /\ WriteToLine(Bar)
          /\ Name(Current(r)) \in Token
      BY <1>1, <1>5, AtWork, Tokens DEF WriteBar, Working, Writing
    <2>2. LastLine = <<Name(Current(r))>>
      BY <1>2, <2>1, LineAtHand
    <2>3. LastLine' = <<Name(Current(r)), Bar>>
      BY <1>1, <2>1, <2>2, WriteAppends
    <2>4. \E c : c \in Contents
      BY DEF Contents
    <2>5. NameOf(LastLine') = NameOf(LastLine)
      BY <2>1, <2>2, <2>3, <2>4, NameAsWritten
    <2>6. \A f \in Files : Recorded(f)' <=> Recorded(f)
      BY <1>1, <2>1, <2>5, RecordedIs, WriteRecords
    <2>7. ~WriteName(r)
      BY <2>1 DEF WriteName
    <2>8. QED
      BY <1>5, <2>3, <2>6, <2>7
  <1>6. CASE WriteHash(r)
    <2>1. /\ phase[r] = "hash" /\ Current(r) \in Files /\ sql[r] \in Contents
          /\ Name(Current(r)) \in Token /\ Bar \in Token /\ Hash(sql[r]) \in Token
          /\ WriteToLine(Hash(sql[r]))
      <3>1. phase[r] = "hash" /\ phase[r] \in Working /\ phase[r] \in Writing
        BY <1>6 DEF WriteHash, Working, Writing
      <3>2. sql[r] \in Contents
        BY <1>1, <3>1 DEF WorkInOrder, Contents
      <3>3. QED
        BY <1>1, <1>6, <3>1, <3>2, AtWork, Tokens DEF WriteHash
    <2>2. LastLine = <<Name(Current(r)), Bar>>
      BY <1>2, <2>1, LineAtHand
    <2>3. LastLine' = <<Name(Current(r)), Bar, Hash(sql[r])>>
      <3>1. LastLine' = Append(LastLine, Hash(sql[r]))
        BY <1>1, <2>1, WriteAppends
      <3>2. ASSUME NEW a \in Token, NEW b \in Token, NEW c \in Token
            PROVE  Append(<<a, b>>, c) = <<a, b, c>>
        <4> DEFINE u == Append(<<a, b>>, c)
        <4>1. <<a, b>> \in Seq(Token) /\ Len(<<a, b>>) = 2 /\ <<a, b, c>> \in Seq(Token)
              /\ Len(<<a, b, c>>) = 3
          OBVIOUS
        <4>2. u \in Seq(Token) /\ Len(u) = 3 /\ u[1] = a /\ u[2] = b /\ u[3] = c
          BY <4>1
        <4> HIDE DEF u
        <4>3. \A i \in 1..3 : u[i] = <<a, b, c>>[i]
          BY <4>2
        <4>4. u = <<a, b, c>>
          BY <4>1, <4>2, <4>3
        <4>5. QED
          BY <4>4 DEF u
      <3>3. Append(<<Name(Current(r)), Bar>>, Hash(sql[r])) = <<Name(Current(r)), Bar, Hash(sql[r])>>
        BY <2>1, <3>2, Zenon
      <3>4. QED
        BY <2>2, <3>1, <3>3, Zenon
    <2>4. NameOf(LastLine') = NameOf(LastLine)
      BY <2>1, <2>2, <2>3, NameAsWritten
    <2>5. \A f \in Files : Recorded(f)' <=> Recorded(f)
      BY <1>1, <2>1, <2>4, RecordedIs, WriteRecords
    <2>6. ~WriteName(r) /\ ~WriteBar(r)
      BY <2>1 DEF WriteName, WriteBar
    <2>7. QED
      BY <1>6, <2>3, <2>5, <2>6
  <1>7. CASE EndLine(r)
    <2>1. phase[r] = "newline" /\ lines' = Append(lines, <<>>)
      BY <1>7 DEF EndLine
    <2>2. /\ LastLine' = <<>>
          /\ DOMAIN lines' = DOMAIN lines \cup {Len(lines) + 1}
          /\ lines'[Len(lines) + 1] = <<>>
          /\ \A i \in DOMAIN lines : lines'[i] = lines[i]
      BY <1>1, <2>1, NewLine
    <2>3. NameOf(<<>>) = <<>>
      <3>1. Template \in Contents
        BY DEF Contents
      <3>2. Current(r) \in Files
        BY <1>1, <2>1, AtWork DEF Working, Writing
      <3>3. QED
        BY <3>1, <3>2, NameAsWritten
    <2>4. \A f \in Files : Recorded(f)' <=> \E i \in DOMAIN lines' : NameOf(lines'[i]) = <<Name(f)>>
      <3>1. DOMAIN lines' = 1..Len(lines')
        BY <1>1, <2>1, NewLine
      <3>2. QED
        BY <3>1 DEF Recorded, LinesOf
    <2>5. \A f \in Files : Recorded(f) <=> \E i \in DOMAIN lines : NameOf(lines[i]) = <<Name(f)>>
      <3>1. DOMAIN lines = 1..Len(lines)
        BY <1>1 DEF TypeOK
      <3>2. QED
        BY <3>1 DEF Recorded, LinesOf
    <2>6. \A f \in Files : Recorded(f)' <=> Recorded(f)
      BY <1>3, <2>2, <2>3, <2>4, <2>5
    <2>7. ~WriteName(r) /\ ~WriteBar(r) /\ ~WriteHash(r)
      BY <2>1 DEF WriteName, WriteBar, WriteHash
    <2>8. QED
      BY <1>7, <2>2, <2>6, <2>7
  <1>8. CASE ~WriteName(r) /\ ~WriteBar(r) /\ ~WriteHash(r) /\ ~EndLine(r)
    <2>1. lines' = lines
      <3>1. CASE CreateApplied(r)
        \* the file was not there yet
        BY <1>1, <3>1 DEF CreateApplied, Alone, OneAtATime, NothingBefore
      <3>2. CASE ~CreateApplied(r)
        BY <1>8, <3>2 DEF RunStep, Start, List, ReadApplied, Read, Commit, Stop, applied
      <3>3. QED
        BY <3>1, <3>2
    <2>2. LastLine' = LastLine /\ \A f \in Files : Recorded(f)' <=> Recorded(f)
      BY <2>1 DEF LastLine, Recorded, LinesOf
    <2>3. QED
      BY <1>8, <2>2
  <1>9. QED
    BY <1>4, <1>5, <1>6, <1>7, <1>8

\* Every step keeps the last line to what the invocation at work wrote.
LEMMA NextWhole ==
    ASSUME MigInv, [MigrationsNext]_migrationVars, Undisturbed'
    PROVE  LineIsWhole'
  <1>1. /\ TypeOK /\ Undisturbed /\ ~overlapped' /\ Alone /\ LineIsWhole
        /\ \A r \in Runs : Stop(r) => phase[r] \notin Writing
    BY UndisturbedBefore DEF MigInv, Orderly
  <1>2. CASE FileStep
    BY <1>1, <1>2 DEF FileStep, work, applied, LineIsWhole, LastLine, Current
  <1>3. ASSUME NEW r \in Runs, RunStep(r) PROVE LineIsWhole'
    <2>1. \A s \in Runs : s # r => ~Active(s) /\ ~Active(s)'
      BY <1>1, <1>3, OthersRest DEF Alone
    <2>2. \A s \in Runs : s # r => phase'[s] \notin {"bar", "hash", "newline"}
      BY <2>1 DEF Active, Ended
    <2>3. LastLine' = IF WriteName(r) THEN <<Name(Current(r))>>
                      ELSE IF WriteBar(r) THEN <<Name(Current(r)), Bar>>
                      ELSE IF WriteHash(r) THEN <<Name(Current(r)), Bar, Hash(sql[r])>>
                      ELSE IF EndLine(r) THEN <<>>
                      ELSE LastLine
      BY <1>1, <1>3, StepRecords
    <2>4. CASE WriteName(r)
      <3>1. phase'[r] = "bar" /\ Current(r)' = Current(r)
        BY <1>1, <2>4 DEF WriteName, Go, TypeOK, Current
      <3>2. QED
        BY <2>2, <2>3, <2>4, <3>1 DEF LineIsWhole
    <2>5. CASE WriteBar(r)
      <3>1. phase'[r] = "hash" /\ Current(r)' = Current(r) /\ ~WriteName(r)
        BY <1>1, <2>5 DEF WriteBar, WriteName, Go, TypeOK, Current
      <3>2. QED
        BY <2>2, <2>3, <2>5, <3>1 DEF LineIsWhole
    <2>6. CASE WriteHash(r)
      <3>1. /\ phase'[r] = "newline" /\ Current(r)' = Current(r) /\ sql' = sql
            /\ ~WriteName(r) /\ ~WriteBar(r)
        BY <1>1, <2>6 DEF WriteHash, WriteBar, WriteName, Go, TypeOK, Current
      <3>2. QED
        BY <2>2, <2>3, <2>6, <3>1 DEF LineIsWhole
    <2>7. CASE EndLine(r)
      <3>1. /\ phase'[r] \notin {"bar", "hash", "newline"}
            /\ ~WriteName(r) /\ ~WriteBar(r) /\ ~WriteHash(r)
        BY <1>1, <2>7 DEF EndLine, WriteHash, WriteBar, WriteName, Go, TypeOK
      <3>2. QED
        BY <2>2, <2>3, <2>7, <3>1 DEF LineIsWhole
    <2>8. CASE ~WriteName(r) /\ ~WriteBar(r) /\ ~WriteHash(r) /\ ~EndLine(r)
      <3>1. phase[r] \notin {"bar", "hash", "newline"} /\ phase'[r] \notin {"bar", "hash", "newline"}
        BY <1>1, <1>3, <2>8 DEF RunStep, Start, CreateApplied, List, ReadApplied, Read,
                                Commit, Stop, Go, TypeOK, Writing
      <3>2. LastLine = <<>>
        BY <1>1, <2>1, <3>1, LineAtHand
      <3>3. QED
        BY <2>2, <2>3, <2>8, <3>1, <3>2 DEF LineIsWhole
    <2>9. QED
      BY <2>4, <2>5, <2>6, <2>7, <2>8
  <1>4. QED
    BY <1>2, <1>3, NextIs

\* Every step keeps what was committed on record, or about to be.
LEMMA NextRecorded ==
    ASSUME MigInv, [MigrationsNext]_migrationVars, Undisturbed'
    PROVE  CommittedIsRecorded'
  <1>1. /\ TypeOK /\ Undisturbed /\ ~overlapped' /\ Alone /\ CommittedIsRecorded
        /\ \A r \in Runs : WorkInOrder(r)
        /\ \A r \in Runs : Stop(r) => phase[r] \notin Writing
    BY UndisturbedBefore DEF MigInv, Orderly
  <1>2. CASE FileStep
    BY <1>1, <1>2
    DEF FileStep, work, applied, outcome, CommittedIsRecorded, Recorded, LinesOf, Current
  <1>3. ASSUME NEW r \in Runs, RunStep(r) PROVE CommittedIsRecorded'
    <2>1. \A s \in Runs : s # r => ~Active(s)
      BY <1>1, <1>3, OthersRest DEF Alone
    <2>2. \A f \in Files : Recorded(f)' <=> Recorded(f) \/ (WriteName(r) /\ f = Current(r))
      BY <1>1, <1>3, StepRecords
    <2>3. \A s \in Runs : phase[s] = "name" => s = r
      BY <2>1 DEF Active, Ended
    <2>4. \A i \in DOMAIN committed : committed[i].name \in Files
      <3> DEFINE Entries == [name: Files, script: Scripts, by: Runs]
      <3>1. committed \in Seq(Entries)
        BY <1>1 DEF TypeOK
      <3>2. \A e \in Entries : e.name \in Files
        OBVIOUS
      <3> HIDE DEF Entries
      <3>3. \A i \in DOMAIN committed : committed[i] \in Entries
        BY <3>1
      <3>4. QED
        BY <3>2, <3>3
    <2>5. phase[r] = "name" => WriteName(r)
      BY <1>1, <1>3 DEF RunStep, Start, CreateApplied, List, ReadApplied, Read, Commit,
                        WriteBar, WriteHash, EndLine, Stop, Writing
    <2>6. \A i \in DOMAIN committed : Recorded(committed[i].name)
                                        \/ (WriteName(r) /\ committed[i].name = Current(r))
      BY <1>1, <2>3, <2>5 DEF CommittedIsRecorded
    <2>7. \A f \in Files : Recorded(f) \/ (WriteName(r) /\ f = Current(r)) => Recorded(f)'
      BY <2>2
    <2>8. CASE committed' = committed
      <3>1. ASSUME NEW i \in DOMAIN committed PROVE Recorded(committed[i].name)'
        <4>1. committed[i].name \in Files /\ committed'[i].name = committed[i].name
          BY <2>4, <2>8
        <4>2. PICK f \in Files : f = committed[i].name
          BY <4>1
        <4>3. Recorded(f)'
          BY <2>6, <2>7, <4>2
        <4>4. QED
          BY <4>1, <4>2, <4>3 DEF Recorded, LinesOf
      <3>2. QED
        BY <2>8, <3>1 DEF CommittedIsRecorded
    <2>9. CASE Commit(r)
      <3>1. phase[r] = "commit" /\ ~WriteName(r)
        BY <2>9 DEF Commit, WriteName
      <3>2. sql[r] \in Scripts /\ todo[r] # <<>>
        BY <1>1, <3>1 DEF WorkInOrder, TypeOK, Active, Ended
      <3>3. /\ DOMAIN committed' = DOMAIN committed \cup {Len(committed) + 1}
            /\ \A i \in DOMAIN committed : committed'[i] = committed[i]
            /\ committed'[Len(committed) + 1].name = Current(r)
        BY <1>1, <2>9, <3>2, CommitAdds
      <3>4. phase'[r] = "name" /\ Current(r)' = Current(r)
        BY <1>1, <2>9 DEF Commit, Go, TypeOK, Current
      <3>5. ASSUME NEW i \in DOMAIN committed'
            PROVE  \/ Recorded(committed[i].name)'
                   \/ \E s \in Runs : phase'[s] = "name" /\ Current(s)' = committed'[i].name
        <4>1. CASE i \in DOMAIN committed
          <5>1. committed[i].name \in Files /\ committed'[i].name = committed[i].name
            BY <2>4, <3>3, <4>1
          <5>2. PICK f \in Files : f = committed[i].name
            BY <5>1
          <5>3. Recorded(f)'
            BY <2>6, <2>7, <3>1, <4>1, <5>2
          <5>4. QED
            BY <5>1, <5>2, <5>3 DEF Recorded, LinesOf
        <4>2. CASE i = Len(committed) + 1
          BY <3>3, <3>4, <4>2
        <4>3. QED
          BY <3>3, <4>1, <4>2
      <3>6. QED
        BY <3>5 DEF CommittedIsRecorded
    <2>10. QED
      BY <1>3, <2>8, <2>9 DEF RunStep, Start, CreateApplied, List, ReadApplied, Read,
                              WriteName, WriteBar, WriteHash, EndLine, Stop, outcome
  <1>4. QED
    BY <1>2, <1>3, NextIs

\* No step commits what was committed before: it would be on record.
LEMMA NextTwice ==
    ASSUME MigInv, [MigrationsNext]_migrationVars, Undisturbed'
    PROVE  NoneTwice'
  <1>1. /\ TypeOK /\ Undisturbed /\ ~overlapped' /\ Alone /\ CommittedIsRecorded /\ NoneTwice
        /\ \A r \in Runs : WorkInOrder(r) /\ TodoIsTheRest(r)
    BY UndisturbedBefore DEF MigInv, Orderly
  <1>2. ASSUME NEW r \in Runs, Commit(r) PROVE NoneTwice'
    <2>1. phase[r] = "commit" /\ phase[r] \in Working
      BY <1>2 DEF Commit, Working
    <2>2. sql[r] \in Scripts /\ todo[r] # <<>>
      BY <1>1, <2>1 DEF WorkInOrder, TypeOK, Active, Ended
    <2>3. /\ DOMAIN committed' = DOMAIN committed \cup {Len(committed) + 1}
          /\ Len(committed) + 1 \notin DOMAIN committed
          /\ \A i \in DOMAIN committed : committed'[i] = committed[i]
          /\ committed'[Len(committed) + 1].name = Current(r)
      BY <1>1, <1>2, <2>2, CommitAdds
    <2>4. ~Recorded(Current(r))
      BY <1>1, <2>1, AtWork DEF TodoIsTheRest
    <2>5. \A s \in Runs : phase[s] # "name"
      <3>1. \A s \in Runs : s # r => ~Active(s)
        BY <1>1, <1>2, OthersRest DEF Alone, RunStep
      <3>2. QED
        BY <2>1, <3>1 DEF Active, Ended
    <2>6. \A i \in DOMAIN committed : committed[i].name # Current(r)
      BY <1>1, <2>4, <2>5 DEF CommittedIsRecorded
    <2>7. QED
      BY <1>1, <2>3, <2>6 DEF NoneTwice
  <1>3. CASE committed' = committed
    BY <1>1, <1>3 DEF NoneTwice
  <1>4. QED
    BY <1>2, <1>3, NextIs
    DEF FileStep, RunStep, Start, CreateApplied, List, ReadApplied, Read, WriteName, WriteBar,
        WriteHash, EndLine, Stop, outcome

\* Every step keeps todo to what was found and is not on record.
LEMMA NextTodo ==
    ASSUME MigInv, [MigrationsNext]_migrationVars, Undisturbed', NEW s \in Runs
    PROVE  TodoIsTheRest(s)'
  <1>1. /\ TypeOK /\ Undisturbed /\ ~overlapped' /\ Alone /\ TodoIsTheRest(s)
        /\ WorkInOrder(s)
    BY UndisturbedBefore DEF MigInv, Orderly
  <1>2. CASE FileStep
    BY <1>1, <1>2 DEF FileStep, work, applied, TodoIsTheRest, Recorded, LinesOf
  <1>3. ASSUME NEW r \in Runs, RunStep(r), r # s PROVE TodoIsTheRest(s)'
    <2>1. ~Active(s)' /\ phase'[s] \notin Working
      BY <1>1, <1>3, OthersRest DEF Alone, Active, Ended, Working, Writing
    <2>2. phase'[s] = phase[s] /\ listed'[s] = listed[s] /\ listed[s] \subseteq Files
      BY <1>1, <1>3, OthersStay DEF TypeOK
    <2>3. \A f \in Files : Recorded(f) => Recorded(f)'
      BY <1>1, <1>3, StepRecords
    <2>4. phase'[s] = "done" => \A f \in listed[s] : Recorded(f)'
      BY <1>1, <2>2, <2>3 DEF TodoIsTheRest
    <2>5. QED
      BY <2>1, <2>2, <2>4 DEF TodoIsTheRest, Recorded, LinesOf
  <1>4. ASSUME RunStep(s) PROVE TodoIsTheRest(s)'
    <2>1. \A f \in Files : Recorded(f)' <=> Recorded(f) \/ (WriteName(s) /\ f = Current(s))
      BY <1>1, <1>4, StepRecords
    <2>2. listed[s] \in SUBSET Files /\ todo[s] \in Seq(Files)
      BY <1>1 DEF TypeOK
    <2>3. CASE Start(s) \/ CreateApplied(s) \/ List(s) \/ Stop(s)
      <3>1. phase'[s] \in {"create", "list", "pending", "stopped"}
        BY <1>1, <2>3 DEF Start, CreateApplied, List, Stop, Go, TypeOK
      <3>2. QED
        BY <3>1 DEF TodoIsTheRest, Working, Writing
    <2>4. CASE ReadApplied(s)
      <3> DEFINE pending == {f \in listed[s] : ~Recorded(f)}
      <3>1. pending \in SUBSET Files
        BY <2>2
      <3>2. /\ Sorted(pending) \in Seq(pending)
            /\ \A f \in pending : \E i \in DOMAIN Sorted(pending) : Sorted(pending)[i] = f
        BY <3>1, SortedNames
      <3>3. /\ todo'[s] = Sorted(pending) /\ listed' = listed /\ lines' = lines
            /\ phase'[s] = IF pending = {} THEN "done" ELSE "read"
        BY <1>1, <2>4 DEF ReadApplied, Go, TypeOK, applied
      <3>4. \A f : Recorded(f)' <=> Recorded(f)
        BY <3>3 DEF Recorded, LinesOf
      <3>5. \A f \in listed[s] : Recorded(f) \/ f \in pending
        OBVIOUS
      <3>6. \A f \in pending : ~Recorded(f)
        OBVIOUS
      <3> HIDE DEF pending
      <3>7. \A i \in DOMAIN Sorted(pending) : ~Recorded(Sorted(pending)[i])
        BY <3>2, <3>6
      <3>8. \A i \in DOMAIN todo'[s] : ~Recorded(todo[s][i])'
        BY <3>3, <3>7 DEF Recorded, LinesOf
      <3>9. \A f \in listed'[s] : Recorded(f)' \/ \E i \in DOMAIN todo'[s] : todo'[s][i] = f
        BY <3>2, <3>3, <3>4, <3>5
      <3>10. phase'[s] = "done" => \A f \in listed'[s] : Recorded(f)'
        BY <3>3, <3>4, <3>5
      <3>11. QED
        BY <3>8, <3>9, <3>10 DEF TodoIsTheRest
    <2>5. CASE Read(s) \/ Commit(s)
      <3>1. /\ phase[s] \in {"read", "commit"} /\ phase'[s] \in {"name", "commit"}
            /\ todo' = todo /\ listed' = listed /\ lines' = lines
        BY <1>1, <2>5 DEF Read, Commit, Go, TypeOK, applied
      <3>2. phase[s] \in Working /\ phase[s] \notin {"bar", "hash", "newline"} /\ phase'[s] # "done"
        BY <3>1 DEF Working
      <3>3. QED
        BY <1>1, <3>1, <3>2 DEF TodoIsTheRest, Recorded, LinesOf
    <2>6. CASE WriteName(s) \/ WriteBar(s) \/ WriteHash(s)
      <3>1. /\ phase[s] \in Working /\ phase'[s] \in {"bar", "hash", "newline"}
            /\ WriteName(s) => phase[s] = "name"
            /\ todo' = todo /\ listed' = listed
        BY <1>1, <2>6 DEF WriteName, WriteBar, WriteHash, Go, TypeOK, Working, Writing
      <3>2. /\ \A i \in DOMAIN todo[s] : todo[s][i] \in Files /\ i \in Nat
            /\ 1 \in DOMAIN todo[s] /\ Current(s) = todo[s][1] /\ Files \subseteq Nat
            /\ \A i \in DOMAIN todo[s] : i # 1 => 1 < i
        BY <1>1, <3>1, AtWork, MigrationsAssumption
      <3>3. \A i \in DOMAIN todo[s] : todo[s][i] = Current(s) => i = 1
        <4>1. SUFFICES ASSUME NEW i \in DOMAIN todo[s], i # 1
                       PROVE  todo[s][i] # todo[s][1]
          BY <3>2
        <4>2. todo[s][1] < todo[s][i]
          BY <1>1, <3>1, <3>2, <4>1 DEF WorkInOrder
        <4>3. \A m \in Nat : ~(m < m)
          OBVIOUS
        <4>4. QED
          BY <3>2, <4>2, <4>3
      <3>4. \A i \in DOMAIN todo[s] : Recorded(todo[s][i]) => i = 1
        BY <1>1, <3>1 DEF TodoIsTheRest
      <3>5. \A i \in DOMAIN todo[s] : \A f \in Files : f = todo[s][i] /\ Recorded(f)' => i = 1
        BY <2>1, <3>3, <3>4
      <3>6. \A i \in DOMAIN todo'[s] : Recorded(todo[s][i])' => i = 1
        BY <3>1, <3>2, <3>5 DEF Recorded, LinesOf
      <3>7. \A f \in listed'[s] : Recorded(f)' \/ \E i \in DOMAIN todo'[s] : todo'[s][i] = f
        BY <1>1, <2>1, <2>2, <3>1 DEF TodoIsTheRest
      <3>8. phase'[s] # "done"
        BY <3>1
      <3>9. QED
        BY <3>1, <3>6, <3>7, <3>8 DEF TodoIsTheRest
    <2>7. CASE EndLine(s)
      <3>1. /\ phase[s] = "newline" /\ phase[s] \in Working
            /\ todo'[s] = Tail(todo[s]) /\ listed' = listed
            /\ phase'[s] = IF Len(todo[s]) = 1 THEN "done" ELSE "read"
            /\ ~WriteName(s)
        BY <1>1, <2>7 DEF EndLine, WriteName, Working, Writing, Go, TypeOK
      <3>2. /\ Len(todo[s]) \in Nat \ {0} /\ DOMAIN todo[s] = 1..Len(todo[s])
            /\ Current(s) = todo[s][1] /\ Current(s) \in Files
            /\ \A i \in DOMAIN todo[s] : todo[s][i] \in Files
        BY <1>1, <3>1, AtWork
      <3>3. /\ DOMAIN Tail(todo[s]) = 1..(Len(todo[s]) - 1)
            /\ \A i \in 1..(Len(todo[s]) - 1) : Tail(todo[s])[i] = todo[s][i + 1]
        BY <2>2, <3>2
      <3>4. \A f \in Files : Recorded(f)' <=> Recorded(f)
        BY <2>1, <3>1
      <3>5. Recorded(Current(s))
        <4>1. \A q \in Runs : q # s => ~Active(q)
          BY <1>1, <1>4, OthersRest DEF Alone
        <4>2. LastLine = <<Name(Current(s)), Bar, Hash(sql[s])>>
          BY <1>1, <3>1, <4>1, LineAtHand
        <4>3. sql[s] \in Contents
          BY <1>1, <3>1 DEF WorkInOrder, Writing, Contents
        <4>4. NameOf(LastLine) = <<Name(Current(s))>>
          BY <3>2, <4>2, <4>3, NameAsWritten
        <4>5. QED
          BY <1>1, <4>4, RecordedIs
      <3>6. \A i \in DOMAIN Tail(todo[s]) : ~Recorded(Tail(todo[s])[i])
        <4>1. ASSUME NEW i \in 1..(Len(todo[s]) - 1)
              PROVE  i + 1 \in DOMAIN todo[s] /\ i + 1 # 1
          BY <3>2
        <4>2. QED
          BY <1>1, <3>1, <3>3, <4>1 DEF TodoIsTheRest
      <3>7. \A f \in listed[s] : Recorded(f) \/ \E i \in DOMAIN Tail(todo[s]) : Tail(todo[s])[i] = f
        <4>1. SUFFICES ASSUME NEW f \in listed[s], ~Recorded(f)
                       PROVE  \E i \in DOMAIN Tail(todo[s]) : Tail(todo[s])[i] = f
          OBVIOUS
        <4>2. PICK i \in DOMAIN todo[s] : todo[s][i] = f
          BY <1>1, <3>1, <4>1 DEF TodoIsTheRest
        <4>3. i # 1
          BY <3>2, <3>5, <4>1, <4>2
        <4>4. i - 1 \in 1..(Len(todo[s]) - 1) /\ (i - 1) + 1 = i
          BY <3>2, <4>3
        <4>5. QED
          BY <3>3, <4>2, <4>4
      <3>8. \A i \in DOMAIN todo'[s] : ~Recorded(todo[s][i])'
        <4>1. \A i \in DOMAIN Tail(todo[s]) : Tail(todo[s])[i] \in Files
          BY <2>2, <3>2, <3>3
        <4>2. \A i \in DOMAIN Tail(todo[s]) : \A f \in Files : f = Tail(todo[s])[i] => ~Recorded(f)'
          BY <3>4, <3>6
        <4>3. QED
          BY <3>1, <4>1, <4>2 DEF Recorded, LinesOf
      <3>9. \A f \in listed'[s] : Recorded(f)' \/ \E i \in DOMAIN todo'[s] : todo'[s][i] = f
        BY <2>2, <3>1, <3>4, <3>7
      <3>10. phase'[s] = "done" => DOMAIN todo'[s] = {}
        <4>1. SUFFICES ASSUME phase'[s] = "done" PROVE DOMAIN todo'[s] = {}
          OBVIOUS
        <4>2. Len(todo[s]) = 1
          BY <3>1, <4>1
        <4>3. 1..(1 - 1) = {}
          OBVIOUS
        <4>4. QED
          BY <3>1, <3>3, <4>2, <4>3
      <3>11. QED
        BY <3>8, <3>9, <3>10 DEF TodoIsTheRest
    <2>8. QED
      BY <1>4, <2>3, <2>4, <2>5, <2>6, <2>7 DEF RunStep
  <1>5. QED
    BY <1>2, <1>3, <1>4, NextIs

-----------------------------------------------------------------------------
(***************************************************************************)
(* The theorems.                                                           *)
(***************************************************************************)

\* The invariant holds at first ...
LEMMA InitMig == MigrationsInit => MigInv
  <1> SUFFICES ASSUME MigrationsInit PROVE MigInv
    OBVIOUS
  <1> USE DEF MigrationsInit
  <1>1. \A r \in Runs : phase[r] = "idle" /\ ~Active(r) /\ phase[r] \notin Working /\ phase[r] \notin Writing
    BY DEF Active, Ended, Working, Writing
  <1>2. TypeOK
    <2>1. file \in [Files -> Contents \cup {Absent}] /\ sql \in [Runs -> Contents \cup {Absent}]
      OBVIOUS
    <2>2. /\ lines \in Seq(Seq([kind: {"name", "bar", "hash"}, is: Files \cup {0} \cup Contents]))
          /\ lines # <<>>
      <3> DEFINE T == [kind: {"name", "bar", "hash"}, is: Files \cup {0} \cup Contents]
      <3> HIDE DEF T
      <3>1. <<>> \in Seq(T)
        OBVIOUS
      <3>2. <<<<>>>> \in Seq(Seq(T)) /\ <<<<>>>> # <<>>
        BY <3>1
      <3>3. QED
        BY <3>2 DEF T
    <2>3. committed \in Seq([name: Files, script: Scripts, by: Runs])
      OBVIOUS
    <2>4. todo \in [Runs -> Seq(Files)] /\ listed \in [Runs -> SUBSET Files]
      OBVIOUS
    <2>5. edits \in 0..MaxEdits
      BY MigrationsAssumption
    <2>6. QED
      BY <1>1, <2>1, <2>2, <2>3, <2>4, <2>5 DEF TypeOK
  <1>3. \A r \in Runs : WorkInOrder(r) /\ NoneLeftOut(r)
    BY <1>1 DEF WorkInOrder, NoneLeftOut
  <1>4. NothingBefore
    BY <1>1 DEF NothingBefore
  <1>5. LastLine = <<>> /\ \A i \in DOMAIN lines : lines[i] = <<>>
    BY DEF LastLine
  <1>6. NamesAreTrue
    <2>1. DOMAIN <<>> = {}
      OBVIOUS
    <2>2. QED
      BY <1>5, <2>1 DEF NamesAreTrue
  <1>7. Alone
    <2>1. \A f, c : <<>> # <<Name(f), Bar, Hash(c)>>
      OBVIOUS
    <2>2. QED
      BY <1>1, <1>5, <2>1 DEF Alone, OneAtATime, HashFollows, HashesAreTrue
  <1>8. Orderly
    BY <1>1, <1>5 DEF Orderly, LineIsWhole, CommittedIsRecorded, TodoIsTheRest, NoneTwice
  <1>9. QED
    BY <1>2, <1>3, <1>4, <1>6, <1>7, <1>8 DEF MigInv

\* ... and every step keeps it.
LEMMA NextMig == MigInv /\ [MigrationsNext]_migrationVars => MigInv'
  <1> SUFFICES ASSUME MigInv, [MigrationsNext]_migrationVars PROVE MigInv'
    OBVIOUS
  <1>1. TypeOK' /\ NothingBefore' /\ NamesAreTrue'
    BY NextType, NextBefore, NextNames
  <1>2. \A r \in Runs : WorkInOrder(r)' /\ NoneLeftOut(r)'
    BY NextWork, NextLeftOut
  <1>3. (~overlapped => Alone)'
    BY NextOne, NextFollows, NextHashes DEF Alone
  <1>4. (Undisturbed => Orderly)'
    BY NextWhole, NextRecorded, NextTwice, NextTodo DEF Orderly
  <1>5. QED
    BY <1>1, <1>2, <1>3, <1>4 DEF MigInv

\* Whatever fails, is killed or is edited meanwhile, and however invocations
\* mix their writes, a name on record is that of a migration that was committed
\* or had no SQL; and the hash on record is that of a script that was committed
\* for it, as long as invocations wait for one another (db_migrate appends after
\* the commit and hashes the text it ran; read_applied_migrations).
THEOREM WhatIsRecordedRan == MigrationsSpec => []RecordsAreTrue
  <1>1. ASSUME MigInv, NEW f \in Files, Recorded(f)
        PROVE  /\ f \in skipped \/ \E c \in Scripts : Ran(f, c)
               /\ \A c \in Scripts : ~overlapped /\ StoredHash(f) = <<Hash(c)>> => Ran(f, c)
    <2>1. TypeOK /\ NamesAreTrue /\ (~overlapped => HashesAreTrue)
      BY <1>1 DEF MigInv, Alone
    <2>2. PICK i \in DOMAIN lines :
             NameOf(lines[i]) = <<Name(f)>> /\ StoredHash(f) = HashOf(lines[i])
      BY <1>1, <2>1, StoredIsThere
    <2>3. lines[i] \in Seq(Token)
      BY <2>1 DEF TypeOK, Token
    <2>4. Applied(f)
      BY <1>1, <2>1, RecordedWasApplied
    <2>5. ASSUME NEW c \in Scripts, ~overlapped, StoredHash(f) = <<Hash(c)>>
          PROVE  Ran(f, c)
      <3>1. lines[i] = <<Name(f), Bar, Hash(c)>>
        BY <2>2, <2>3, <2>5, WholeLine
      <3>2. QED
        BY <2>1, <2>5, <3>1 DEF HashesAreTrue
    <2>6. QED
      BY <2>4, <2>5 DEF Applied
  <1>2. MigInv => RecordsAreTrue
    BY <1>1 DEF RecordsAreTrue, MigInv
  <1>3. QED
    BY <1>2, InitMig, NextMig, PTL DEF MigrationsSpec

\* Of any number of invocations over any number of migrations, as long as none
\* is cut off between a commit and the end of its line and no two overlap, no
\* migration is run twice, and one that completes leaves nothing it found
\* pending (db_migrate).
THEOREM EachRunsOnce == MigrationsSpec => []OnceUnlessDisturbed
  <1>1. MigInv => OnceUnlessDisturbed
    BY DEF MigInv, Orderly, NoneTwice, TodoIsTheRest, OnceUnlessDisturbed
  <1>2. QED
    BY <1>1, InitMig, NextMig, PTL DEF MigrationsSpec

\* Whatever fails, is killed or runs beside it: when an invocation commits a
\* script, what it found before it was committed or had no SQL; and that is on
\* record, as long as none was interrupted and no two overlapped.  The first
\* migration that fails ends the invocation (db_migrate, list_migration_files).
THEOREM EarlierOnesFirst == MigrationsSpec => EarlierFirst
  <1>1. ASSUME MigInv, NEW r \in Runs, phase[r] = "commit",
               NEW f \in listed[r], f < Head(todo[r])
        PROVE  /\ f \in skipped \/ \E c \in Scripts : Ran(f, c)
               /\ Undisturbed => Recorded(f)
    <2>1. /\ TypeOK /\ WorkInOrder(r) /\ NoneLeftOut(r) /\ phase[r] \in Working
          /\ Undisturbed => TodoIsTheRest(r)
      BY <1>1 DEF MigInv, Orderly, Working
    <2>2. /\ Current(r) = todo[r][1] /\ 1 \in DOMAIN todo[r]
          /\ \A i \in DOMAIN todo[r] : (i = 1 \/ 1 < i) /\ todo[r][i] \in Nat
      <3>1. /\ todo[r] \in Seq(Files) /\ DOMAIN todo[r] = 1..Len(todo[r])
            /\ Current(r) = todo[r][1] /\ 1 \in DOMAIN todo[r]
        BY <2>1, AtWork
      <3>2. \A i \in DOMAIN todo[r] : todo[r][i] \in Files /\ (i = 1 \/ 1 < i)
        BY <3>1
      <3>3. QED
        BY <3>1, <3>2, MigrationsAssumption
    <2>3. \A i \in DOMAIN todo[r] : ~(todo[r][i] < Current(r))
      BY <2>1, <2>2 DEF WorkInOrder
    <2>4. ~\E i \in DOMAIN todo[r] : todo[r][i] = f
      BY <1>1, <2>3 DEF Current
    <2>5. Applied(f)
      BY <2>1, <2>4 DEF NoneLeftOut
    <2>6. Undisturbed => Recorded(f)
      BY <2>1, <2>4 DEF TodoIsTheRest
    <2>7. QED
      BY <2>5, <2>6 DEF Applied
  <1>2. MigInv /\ [MigrationsNext]_migrationVars =>
            [\A r \in Runs : phase[r] = "commit" /\ phase'[r] = "name" =>
                 \A f \in listed[r] : f < Head(todo[r]) =>
                     /\ f \in skipped \/ \E c \in Scripts : Ran(f, c)
                     /\ Undisturbed => Recorded(f)]_migrationVars
    BY <1>1
  <1>3. QED
    BY <1>2, InitMig, NextMig, PTL DEF MigrationsSpec, EarlierFirst
=============================================================================
