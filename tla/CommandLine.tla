---------------------------- MODULE CommandLine ----------------------------
(***************************************************************************)
(* One invocation of nestforge new, generate or docs up to the moment at   *)
(* which it is known what to do (nestforge-cli/src/main.rs): the screens   *)
(* of the full-screen mode (nestforge-cli/src/tui.rs), and the prompts     *)
(* that take over where there is none (ui.rs).                             *)
(*                                                                         *)
(* A text that somebody types is blank or it is typed; one from the        *)
(* command line is given.  The documentation browser searches pages by     *)
(* number, and which page a query matches is a parameter.                  *)
(***************************************************************************)
EXTENDS Integers, Sequences, FiniteSets, FiniteSetsExt, SequencesExt

CONSTANTS
    Invocations,     \* the command lines considered
    None,            \* an argument that was not given
    Letters,         \* what can be typed into the search of the browser
    PageCount,       \* pages of the browser
    Matches(_),      \* the pages whose slug, title or text has a query
    Titled(_),       \* the pages whose slug or title has it
    MaxQuery,        \* bound on the length of a query
    FieldNames,      \* names of the fields of a DTO
    MaxFields,       \* bound on their number
    MaxScroll,       \* where the scroll position saturates
    HalfPage, FullPage

ASSUME CommandLineAssumption ==
    /\ PageCount \in Nat \ {0} /\ MaxQuery \in Nat /\ MaxFields \in Nat
    /\ MaxScroll \in Nat /\ HalfPage \in Nat /\ FullPage \in Nat
    /\ Matches(<<>>) = 1..PageCount

Transports == <<"Http", "Graphql", "Grpc", "Microservices", "Websockets">>
KindList == <<"Resource", "Controller", "Service", "Module", "Guard", "Decorator",
              "Filter", "Middleware", "Interceptor", "Serializer", "Graphql",
              "Grpc", "Gateway", "Microservice">>
Pages == 1..PageCount
Members(list) == {list[i] : i \in DOMAIN list}

Texts == {"blank", "typed"}
Given == {"blank", "given"}

NewArgs == [command : {"new"}, name : Given \cup {None},
            transport : Members(Transports) \cup {None},
            openapi : BOOLEAN, noTui : BOOLEAN]
GenerateArgs == [command : {"generate"}, kind : Members(KindList) \cup {None},
                 name : Given \cup {None}, module : {"given", None},
                 flat : BOOLEAN, noPrompt : BOOLEAN, noTui : BOOLEAN]
Queries == UNION {[1..n -> Letters] : n \in 0..MaxQuery}
DocsArgs == [command : {"docs"}, topic : Queries \cup {None}, noTui : BOOLEAN]

ASSUME InvocationAssumption ==
    /\ Invocations \subseteq NewArgs \cup GenerateArgs \cup DocsArgs
    /\ \A query \in Queries : Matches(query) \subseteq Pages
    /\ None \notin Texts \cup Given
    /\ Letters \cap {"Esc", "Enter", "Backspace"} = {}

VARIABLES
    args,      \* the command line
    tty,       \* standard input and output are a terminal
    raw,       \* the terminal is in raw mode,
    alternate, \* ... and shows the alternate screen
    at,        \* where the invocation is
    screen,    \* the state of the full-screen mode, None without one
    draft,     \* what the prompts still have to complete
    fields,    \* the fields of the DTOs of a resource
    result     \* what the command is going to do

vars == <<args, tty, raw, alternate, at, screen, draft, fields, result>>
terminal == <<raw, alternate>>

Init == /\ args \in Invocations
        /\ tty \in BOOLEAN
        /\ raw = FALSE /\ alternate = FALSE
        /\ at = "start"
        /\ screen = None /\ draft = None /\ fields = <<>> /\ result = None

-----------------------------------------------------------------------------
(* Lists that are walked in circles *)

Position(list, x) == CHOOSE i \in DOMAIN list : list[i] = x
Following(list, x) == list[(Position(list, x) % Len(list)) + 1]

\* stops one short of the first
PrecedingShort(list, x) == list[Max({Position(list, x) - 1, 2})]

Preceding(list, x) == list[((Position(list, x) + Len(list) - 2) % Len(list)) + 1]

-----------------------------------------------------------------------------
(* The wizard of nestforge new *)

Back == {"Up", "Left"}
Forth == {"Down", "Right"}
Characters == {"Space", "Letter", "1", "2", "y", "n", "f", "e", "d"}
Keys == Back \cup Forth \cup Characters \cup {"Esc", "Tab", "Enter", "Backspace"}

\* Space leaves a blank text blank, and so may the removal of a character.
AfterText(text, key) ==
    CASE key = "Backspace" -> {"blank", text}
      [] key = "Space" -> {text}
      [] OTHER -> {"typed"}

NewScreen == [name |-> "blank", transport |-> "Http", focus |-> "Name", error |-> "none"]

Fields == <<"Name", "Transport", "Submit">>

MoveNew(w, key) ==
    CASE key = "Up" -> {[w EXCEPT !.focus = Preceding(Fields, w.focus)]}
      [] key \in {"Down", "Tab"} -> {[w EXCEPT !.focus = Following(Fields, w.focus)]}
      [] key = "Left" /\ w.focus = "Transport" ->
            {[w EXCEPT !.transport = Preceding(Transports, w.transport)]}
      [] key = "Right" /\ w.focus = "Transport" ->
            {[w EXCEPT !.transport = Following(Transports, w.transport)]}
      [] key \in Characters \cup {"Backspace"} /\ w.focus = "Name" ->
            {[w EXCEPT !.name = text] : text \in AfterText(w.name, key)}
      [] key = "Enter" /\ w.focus = "Submit" -> {[w EXCEPT !.error = "name"]}
      [] key = "Enter" /\ w.focus # "Submit" -> {[w EXCEPT !.focus = Following(Fields, w.focus)]}
      [] OTHER -> {w}

\* Enter on the button with a name ends the wizard.
NewDone(w, key) == key = "Enter" /\ w.focus = "Submit" /\ w.name # "blank"

-----------------------------------------------------------------------------
(* The wizard of nestforge generate *)

GenerateScreen == [kind |-> "Resource", name |-> "blank", inModule |-> FALSE,
                   module |-> "blank", flat |-> FALSE, noPrompt |-> FALSE,
                   step |-> "Kind", error |-> "none"]

\* the steps, and the field that a choice sets
StepNames == {"Kind", "Name", "InModule", "ModuleName", "Layout", "Prompt", "Review"}
ChoiceOf == [InModule |-> "inModule", Layout |-> "flat", Prompt |-> "noPrompt"]
TextOf == [Name |-> "name", ModuleName |-> "module"]

\* what answers a choice with the first and with the second item
FirstItem == [InModule |-> {"1", "n"}, Layout |-> {"1", "n"}, Prompt |-> {"1", "e"}]
SecondItem == [InModule |-> {"2", "y"}, Layout |-> {"2", "f"}, Prompt |-> {"2", "d"}]

NextStep(w) ==
    CASE w.step = "Kind" -> "Name"
      [] w.step = "Name" -> "InModule"
      [] w.step = "InModule" -> IF w.inModule THEN "ModuleName" ELSE "Layout"
      [] w.step = "ModuleName" -> "Layout"
      [] w.step = "Layout" -> "Prompt"
      [] OTHER -> "Review"

\* back from the layout, past the name of the module
PreviousPast(w) ==
    CASE w.step \in {"InModule", "ModuleName", "Layout"} ->
            IF w.step = "InModule" THEN "Name" ELSE "InModule"
      [] w.step = "Prompt" -> "Layout"
      [] w.step = "Review" -> "Prompt"
      [] OTHER -> "Kind"

PreviousStep(w) ==
    CASE w.step = "InModule" -> "Name"
      [] w.step = "ModuleName" -> "InModule"
      [] w.step = "Layout" -> IF w.inModule THEN "ModuleName" ELSE "InModule"
      [] w.step = "Prompt" -> "Layout"
      [] w.step = "Review" -> "Prompt"
      [] OTHER -> "Kind"

TotalSteps(w) == IF w.inModule THEN 7 ELSE 6

StepNumber(w) ==
    CASE w.step = "Kind" -> 1
      [] w.step = "Name" -> 2
      [] w.step = "InModule" -> 3
      [] w.step = "ModuleName" -> 4
      [] w.step = "Layout" -> IF w.inModule THEN 5 ELSE 4
      [] w.step = "Prompt" -> IF w.inModule THEN 6 ELSE 5
      [] OTHER -> TotalSteps(w)

\* Review is left without a look at the module
MissingName(w) ==
    IF w.step \in {"Name", "Review"} /\ w.name = "blank" THEN "name"
    ELSE IF w.step = "ModuleName" /\ w.module = "blank" THEN "module" ELSE "none"

\* what Enter finds missing
Missing(w) ==
    IF w.step \in {"Name", "Review"} /\ w.name = "blank" THEN "name"
    ELSE IF (w.step = "ModuleName" \/ (w.step = "Review" /\ w.inModule)) /\ w.module = "blank"
    THEN "module" ELSE "none"

GenerateDone(w, key) == key = "Enter" /\ w.step = "Review" /\ Missing(w) = "none"

\* The arrows change a choice, and move between the steps elsewhere.
MoveGenerate(w, key) ==
    LET s == w.step IN
    IF key \in Back \cup Forth THEN
        IF s = "Kind"
        THEN {[w EXCEPT !.kind = IF key \in Back THEN Preceding(KindList, w.kind)
                                                 ELSE Following(KindList, w.kind)]}
        ELSE IF s \in DOMAIN ChoiceOf THEN {[w EXCEPT ![ChoiceOf[s]] = key \in Forth]}
        ELSE {[w EXCEPT !.step = IF key \in Back THEN PreviousStep(w) ELSE NextStep(w)]}
    ELSE IF s \in DOMAIN TextOf /\ key \in Characters \cup {"Backspace"} THEN
        {[w EXCEPT ![TextOf[s]] = text] : text \in AfterText(w[TextOf[s]], key)}
    ELSE IF s \in DOMAIN ChoiceOf /\ key = "Space" THEN {[w EXCEPT ![ChoiceOf[s]] = ~@]}
    ELSE IF s \in DOMAIN ChoiceOf /\ key \in FirstItem[s] \cup SecondItem[s] THEN
        {[w EXCEPT ![ChoiceOf[s]] = key \in SecondItem[s]]}
    ELSE IF key = "Enter" THEN
        {IF Missing(w) = "none" THEN [w EXCEPT !.step = NextStep(w)]
                                ELSE [w EXCEPT !.error = Missing(w)]}
    ELSE {w}

ModuleName(w) == IF w.inModule /\ w.module # "blank" THEN w.module ELSE None

\* the error stays, whatever is typed
KeepError(w, key) == w

\* both wizards keep an error until another key than Enter
ClearError(w, key) == IF key = "Enter" THEN w ELSE [w EXCEPT !.error = "none"]

AfterKey(w, key) == {ClearError(moved, key) :
    moved \in IF args.command = "new" THEN MoveNew(w, key) ELSE MoveGenerate(w, key)}

-----------------------------------------------------------------------------
(* The documentation browser *)

DocKeys == {"j", "k", "G", "g", "Ctrl-d", "Ctrl-u", "PageDown", "PageUp", "/", "q",
            "Esc", "Enter", "Backspace"} \cup Letters

DocsScreen(topic) ==
    [selected |-> IF topic = None \/ Matches(topic) = {} THEN 1 ELSE Min(Matches(topic)),
     scroll |-> 0, query |-> <<>>, search |-> FALSE]

\* only the selection follows the list
SelectVisible(b) ==
    LET listed == Matches(b.query) IN
    IF b.selected \in listed THEN b
    ELSE [b EXCEPT !.selected = IF listed = {} THEN 1 ELSE Min(listed)]

EnsureVisible(b) ==
    LET listed == Matches(b.query) IN
    IF b.selected \in listed THEN b
    ELSE [b EXCEPT !.selected = IF listed = {} THEN 1 ELSE Min(listed), !.scroll = 0]

Select(b, page) == [b EXCEPT !.selected = page, !.scroll = 0]

\* one page on or back in the list, which stops at both ends
MoveSelection(b, forward) ==
    LET listed == Matches(b.query)
        current == IF b.selected \in listed THEN b.selected ELSE Min(listed)
        beyond == {p \in listed : IF forward THEN p > current ELSE p < current}
    IN IF listed = {} THEN b
       ELSE IF beyond = {} THEN Select(b, current)
       ELSE Select(b, IF forward THEN Min(beyond) ELSE Max(beyond))

CurrentPage(b) ==
    LET listed == Matches(b.query) IN
    IF b.selected \in listed THEN b.selected ELSE IF listed = {} THEN 1 ELSE Min(listed)

\* a character narrows the list and leaves the selection
TypeOnly(b, key) ==
    CASE key \in {"Esc", "Enter"} -> EnsureVisible([b EXCEPT !.search = FALSE])
      [] key \in Letters /\ Len(b.query) < MaxQuery -> [b EXCEPT !.query = Append(@, key)]
      [] OTHER -> b

Search(b, key) ==
    CASE key \in {"Esc", "Enter"} -> EnsureVisible([b EXCEPT !.search = FALSE])
      [] key = "Backspace" ->
            EnsureVisible([b EXCEPT !.query = IF @ = <<>> THEN @ ELSE Front(@)])
      [] key \in Letters /\ Len(b.query) < MaxQuery ->
            EnsureVisible([b EXCEPT !.query = Append(@, key)])
      [] OTHER -> b

Scroll(b, lines) == [b EXCEPT !.scroll = Max({0, Min({MaxScroll, @ + lines})})]

Browse(b, key) ==
    LET listed == Matches(b.query) IN
    CASE key = "/" -> [b EXCEPT !.search = TRUE]
      [] key = "j" -> MoveSelection(b, TRUE)
      [] key = "k" -> MoveSelection(b, FALSE)
      [] key = "g" -> IF listed = {} THEN b ELSE Select(b, Min(listed))
      [] key = "G" -> IF listed = {} THEN b ELSE Select(b, Max(listed))
      [] key = "Ctrl-d" -> Scroll(b, HalfPage)
      [] key = "Ctrl-u" -> Scroll(b, -HalfPage)
      [] key = "PageDown" -> Scroll(b, FullPage)
      [] key = "PageUp" -> Scroll(b, -FullPage)
      [] OTHER -> b

-----------------------------------------------------------------------------
(* The full-screen mode *)

WantsScreen ==
    /\ tty /\ ~args.noTui
    /\ CASE args.command = "new" -> None \in {args.name, args.transport}
         [] args.command = "generate" -> None \in {args.kind, args.name}
         [] OTHER -> TRUE

\* what the prompts start from; `asked`: the question about a module was answered
Draft ==
    CASE args.command = "new" -> [name |-> args.name, transport |-> args.transport]
      [] args.command = "generate" ->
            [kind |-> args.kind, name |-> args.name, module |-> args.module,
             asked |-> args.module # None, inside |-> args.module # None]
      [] OTHER -> None

ToPrompts == at' = "prompt" /\ draft' = Draft

SkipScreen == /\ at = "start" /\ ~WantsScreen
              /\ ToPrompts
              /\ UNCHANGED <<args, tty, terminal, screen, result, fields>>

OpenScreen ==
    /\ at = "start" /\ WantsScreen
    /\ raw' = TRUE /\ alternate' = TRUE
    /\ at' = "screen"
    /\ screen' = CASE args.command = "new" -> NewScreen
                   [] args.command = "generate" -> GenerateScreen
                   [] OTHER -> DocsScreen(args.topic)
    /\ UNCHANGED <<args, tty, draft, result, fields>>

\* Each step of the start may fail: raw mode, the alternate screen, the
\* backend.  The session that would undo them does not exist yet.
OpenFails ==
    /\ at = "start" /\ WantsScreen
    /\ \E done \in 0..2 : raw' = (done >= 1) /\ alternate' = (done = 2)
    /\ ToPrompts
    /\ UNCHANGED <<args, tty, screen, result, fields>>

\* only raw mode is left
LeaveRaw == raw' = FALSE /\ UNCHANGED alternate

CloseScreen == raw' = FALSE /\ alternate' = FALSE

\* Drawing or reading a key fails: some of these errors make way for the prompts.
ScreenFails ==
    /\ at = "screen"
    /\ CloseScreen
    /\ \/ ToPrompts
       \/ at' = "failed" /\ UNCHANGED draft
    /\ UNCHANGED <<args, tty, screen, result, fields>>

\* A resource goes on with the fields of its DTOs.
Deliver(r) == /\ at' = IF args.command = "generate" /\ r.kind = "Resource" THEN "fields" ELSE "done"
              /\ result' = r

NewResult(w) == [name |-> w.name, transport |-> w.transport, openapi |-> args.openapi]
GenerateResult(w) == [kind |-> w.kind, name |-> w.name, module |-> ModuleName(w),
                      flat |-> w.flat, noPrompt |-> w.noPrompt]

PressKey(key) ==
    /\ at = "screen" /\ args.command # "docs"
    /\ IF key = "Esc" THEN CloseScreen /\ at' = "cancelled" /\ UNCHANGED <<screen, result>>
       ELSE IF args.command = "new" /\ NewDone(screen, key) THEN
           CloseScreen /\ Deliver(NewResult(screen)) /\ UNCHANGED screen
       ELSE IF args.command = "generate" /\ GenerateDone(screen, key) THEN
           CloseScreen /\ Deliver(GenerateResult(screen)) /\ UNCHANGED screen
       ELSE screen' \in AfterKey(screen, key) /\ UNCHANGED <<terminal, at, result>>
    /\ UNCHANGED <<args, tty, draft, fields>>

PressDocKey(key) ==
    /\ at = "screen" /\ args.command = "docs"
    /\ IF key \in {"q", "Esc"} /\ ~screen.search
       THEN CloseScreen /\ at' = "done" /\ UNCHANGED screen
       ELSE /\ screen' = IF screen.search THEN Search(screen, key) ELSE Browse(screen, key)
            /\ UNCHANGED <<terminal, at>>
    /\ UNCHANGED <<args, tty, draft, result, fields>>

-----------------------------------------------------------------------------
(* The prompts *)

\* The number of an item; zero stands for the first one too.
Chosen(list, n) == list[Max({n, 1})]

Answer(field, value) == /\ draft' = [draft EXCEPT ![field] = value]
                        /\ UNCHANGED <<args, tty, terminal, at, screen, result, fields>>

\* the field that is asked for next
Asked == CASE args.command = "new" ->
                IF draft.name = None THEN "name"
                ELSE IF draft.transport = None /\ tty THEN "transport" ELSE None
           [] args.command = "generate" ->
                IF draft.kind = None THEN "kind"
                ELSE IF draft.name = None THEN "name"
                ELSE IF ~draft.asked /\ tty /\ draft.kind \in {"Resource", "Controller", "Service"}
                THEN "inside"
                ELSE IF draft.inside /\ draft.module = None THEN "module" ELSE None
           [] OTHER -> None

\* A blank answer and a number outside the list are asked for again.
AnswerText == /\ at = "prompt" /\ tty /\ Asked \in {"name", "module"}
              /\ Answer(Asked, "typed")
AnswerNumber ==
    /\ at = "prompt" /\ tty /\ Asked \in {"kind", "transport"}
    /\ LET list == IF Asked = "kind" THEN KindList ELSE Transports IN
       \E n \in 0..Len(list) : Answer(Asked, Chosen(list, n))
AnswerInside ==
    /\ at = "prompt" /\ tty /\ Asked = "inside"
    /\ \E yes \in BOOLEAN : draft' = [draft EXCEPT !.asked = TRUE, !.inside = yes]
    /\ UNCHANGED <<args, tty, terminal, at, screen, result, fields>>

\* Without a terminal there is nobody to ask.
Refuse == /\ at = "prompt" /\ ~tty /\ Asked # None
          /\ at' = "failed"
          /\ UNCHANGED <<args, tty, terminal, screen, draft, result, fields>>

FinishNew ==
    /\ at = "prompt" /\ args.command = "new" /\ Asked = None
    /\ LET transport == IF draft.transport = None THEN "Http" ELSE draft.transport IN
       IF args.openapi /\ transport \notin {"Http", "Graphql"}
       THEN at' = "failed" /\ UNCHANGED result
       ELSE Deliver([name |-> draft.name, transport |-> transport, openapi |-> args.openapi])
    /\ UNCHANGED <<args, tty, terminal, screen, draft, fields>>

FinishGenerate ==
    /\ at = "prompt" /\ args.command = "generate" /\ Asked = None
    /\ Deliver([kind |-> draft.kind, name |-> draft.name, module |-> draft.module,
                flat |-> args.flat, noPrompt |-> args.noPrompt])
    /\ UNCHANGED <<args, tty, terminal, screen, draft, fields>>

\* the first page with the topic in its slug or title, or else all of them
PrintPages ==
    /\ at = "prompt" /\ args.command = "docs"
    /\ LET named == IF args.topic = None THEN {} ELSE Titled(args.topic) IN
       Deliver([pages |-> IF named = {} THEN Pages ELSE {Min(named)}])
    /\ UNCHANGED <<args, tty, terminal, screen, draft, fields>>

\* an answer of no field at all, or nobody to ask
DefaultFields == /\ at = "fields" /\ fields = <<>>
                 /\ fields' = <<"name">> /\ at' = "done"
                 /\ UNCHANGED <<args, tty, terminal, screen, draft, result>>

\* a field of that name may be there
AppendField(name) == fields' = Append(fields, name)

\* A name that was used is asked for again.
CollectField(name) == name \notin Members(fields) /\ fields' = Append(fields, name)

EnterField == /\ at = "fields" /\ tty /\ ~result.noPrompt /\ Len(fields) < MaxFields
              /\ \E name \in FieldNames : CollectField(name)
              /\ UNCHANGED <<args, tty, terminal, at, screen, draft, result>>

FinishFields == /\ at = "fields" /\ fields # <<>>
                /\ at' = "done"
                /\ UNCHANGED <<args, tty, terminal, screen, draft, fields, result>>

Over == at \in {"done", "failed", "cancelled"} /\ UNCHANGED vars

Next == \/ SkipScreen \/ OpenScreen \/ OpenFails \/ ScreenFails
        \/ \E key \in Keys : PressKey(key)
        \/ \E key \in DocKeys : PressDocKey(key)
        \/ AnswerText \/ AnswerNumber \/ AnswerInside \/ Refuse
        \/ FinishNew \/ FinishGenerate \/ PrintPages
        \/ DefaultFields \/ EnterField \/ FinishFields \/ Over

Spec == Init /\ [][Next]_vars

-----------------------------------------------------------------------------
(* Properties *)

OnScreen(command) == screen # None /\ args.command = command

\* Every variable has its type, and the parts of a screen too.
CommandTypeOK ==
    /\ args \in NewArgs \cup GenerateArgs \cup DocsArgs
    /\ {tty, raw, alternate} \subseteq BOOLEAN
    /\ at \in {"start", "screen", "prompt", "fields", "done", "failed", "cancelled"}
    /\ OnScreen("new") =>
         screen \in [name : Texts, transport : Members(Transports),
                     focus : Members(Fields), error : {"none", "name"}]
    /\ OnScreen("generate") =>
         screen \in [kind : Members(KindList), name : Texts, inModule : BOOLEAN,
                     module : Texts, flat : BOOLEAN, noPrompt : BOOLEAN, step : StepNames,
                     error : {"none", "name", "module"}]
    /\ OnScreen("docs") =>
         screen \in [selected : Pages, scroll : 0..MaxScroll,
                     query : Queries, search : BOOLEAN]

\* An error that is shown is true: what it says is missing still is
\* (NewWizardState::handle_key, GenerateWizardState::handle_key).
ErrorIsCurrent ==
    (OnScreen("new") \/ OnScreen("generate")) =>
        /\ screen.error = "name" => screen.name = "blank"
        /\ screen.error = "module" => screen.inModule /\ screen.module = "blank"

\* Whatever order the steps are visited in, the wizard never counts past its
\* last step, the name of a module is only asked for inside one, and the way
\* back from the next step leads here (next_step, previous_step, step_number).
StepsAreInvertible ==
    OnScreen("generate") =>
        LET next == [screen EXCEPT !.step = NextStep(screen)] IN
        /\ StepNumber(screen) \in 1..TotalSteps(screen)
        /\ screen.step = "ModuleName" => screen.inModule
        /\ screen.step # "Review" =>
             /\ StepNumber(next) = StepNumber(screen) + 1
             /\ PreviousStep(next) = screen.step

\* While the list of the browser has entries, the selected page is one of them,
\* so that the highlighted entry and the shown page agree
\* (filtered_selected_position, current_page).
SelectionIsListed ==
    OnScreen("docs") => Matches(screen.query) = {} \/ screen.selected \in Matches(screen.query)

\* All of this in every state that keys in any order lead to.
ScreensAreConsistent ==
    CommandTypeOK /\ ErrorIsCurrent /\ StepsAreInvertible /\ SelectionIsListed

\* Another page is shown from its top (ensure_selection_visible, move_selection).
PageStartsAtTop ==
    [][ (OnScreen("docs") /\ CurrentPage(screen') # CurrentPage(screen)) => screen'.scroll = 0
      ]_vars

\* What the generate wizard hands over was confirmed on its last page and is
\* complete: it has a name, and a module exactly if one was asked for; and a
\* resource gets one field at least, and none twice
\* (run_generate_wizard, module_name, collect_dto_fields).
ResultIsComplete ==
    [][ /\ (at = "screen" /\ result' # result) =>
             /\ result'.name # "blank"
             /\ args.command = "generate" =>
                  screen.step = "Review" /\ (result'.module # None <=> screen.inModule)
        /\ (at = "fields" /\ at' = "done") => fields' # <<>> /\ IsInjective(fields')
      ]_vars

\* Once the full-screen mode has run, the terminal is given back on every way
\* out of it: an answer, Esc, an error, the prompts (Drop for TerminalSession).
TerminalIsGivenBack == (screen # None /\ at # "screen") => ~raw /\ ~alternate
=============================================================================
