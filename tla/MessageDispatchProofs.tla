------------------------ MODULE MessageDispatchProofs ------------------------
(***************************************************************************)
(* Theorems about MessageDispatch for every value of its constants: any    *)
(* number of connections and calls, patterns, registrations and frames.    *)
(***************************************************************************)
EXTENDS MessageDispatch, FiniteSetTheorems, SequenceTheorems, WellFoundedInduction, TLAPS

-----------------------------------------------------------------------------
(***************************************************************************)
(* The inductive invariant, one session at a time.  It reads the state of  *)
(* that session, the registry and the home of the session, and nothing     *)
(* else: what another session does leaves it alone.                        *)
(***************************************************************************)

Places(s) == IF s \in Connections THEN {"new", "open", "running", "closed"}
             ELSE {"new", "made", "running", "answered", "dropped"}

\* Where the session is, and what there is to see of it by then.
PlaceOK(s) ==
    /\ at[s] \in Places(s)
    /\ at[s] = "new" => /\ sent[s] = <<>> /\ taken[s] = 0
                        /\ runs[s] = <<>> /\ replies[s] = <<>>
    /\ s \in Calls /\ at[s] # "new" =>
          /\ Len(sent[s]) = 1 /\ taken[s] = 1 /\ sent[s][1] \in Request
          /\ context[s] \in Context /\ context[s].request = Home(s)
          /\ at[s] # "answered" => replies[s] = <<>>
          /\ at[s] = "made" => runs[s] = <<>>

\* The handler that runs is one for the frame that was taken last.
RunsOK(s) ==
    /\ \A i \in DOMAIN runs[s] :
          LET run == runs[s][i] IN
          /\ run.frame <= taken[s]
          /\ run.handler \in DOMAIN registered
          /\ registered[run.handler] = sent[s][run.frame]
          /\ \A later \in run.handler + 1 .. Len(registered) :
                registered[later] # registered[run.handler]
          /\ run.context.request = Home(s)
          /\ \A j \in DOMAIN runs[s] : i < j => run.frame < runs[s][j].frame
          /\ run.result = "running" <=> (at[s] = "running" /\ i = Len(runs[s]))
    /\ at[s] = "running" => /\ runs[s] # <<>>
                            /\ runs[s][Len(runs[s])].frame = taken[s]

\* A success that was told has a handler that finished.
RepliesOK(s) ==
    \A i \in DOMAIN replies[s] : replies[s][i].ok =>
        \E j \in DOMAIN runs[s] :
            runs[s][j].frame = replies[s][i].to /\ runs[s][j].result = "ok"

\* The containers of the connections, and who the handlers saw there.
LoginOK(c) ==
    /\ loggedIn[c] = None <=> identity[c] = None
    /\ loggedIn[c] # None => loggedIn[c] <= Len(runs[c])
    /\ \A i \in DOMAIN runs[c] :
          runs[c][i].context.identity =
              IF loggedIn[c] # None /\ i > loggedIn[c] THEN identity[c] ELSE None

SessionOK(s) ==
    /\ sent[s] \in Seq(Frame) /\ taken[s] \in 0..Len(sent[s])
    /\ context[s] \in Context \cup {None}
    /\ runs[s] \in Seq(Run) /\ replies[s] \in Seq(Reply)
    /\ PlaceOK(s) /\ RunsOK(s) /\ RepliesOK(s)

\* The registry is complete before the first session says anything.
SharedOK ==
    /\ registered \in Seq(Request) /\ Len(registered) <= MaxRegistrations
    /\ built \in BOOLEAN
    /\ ~built => \A s \in Sessions : at[s] = "new"
    /\ home \in [Calls -> Containers]
    /\ identity \in [Containers -> Users \cup {None}]
    /\ loggedIn \in [Connections -> Nat \cup {None}]
    /\ badge \in [Connections -> Users \cup {None}]
    /\ at \in [Sessions -> {"new", "open", "made", "running", "answered", "dropped", "closed"}]
    /\ DOMAIN sent = Sessions /\ DOMAIN taken = Sessions /\ DOMAIN context = Sessions
    /\ DOMAIN runs = Sessions /\ DOMAIN replies = Sessions

DispatchInv ==
    /\ SharedOK
    /\ \A s \in Sessions : SessionOK(s)
    /\ \A c \in Connections : LoginOK(c)

-----------------------------------------------------------------------------
(***************************************************************************)
(* The lookup: the candidate that was registered last.                     *)
(***************************************************************************)

LEMMA Greatest ==
    ASSUME NEW b \in Nat, NEW S \in SUBSET (1..b), S # {}
    PROVE  Max(S) \in S /\ \A y \in S : y <= Max(S)
  <1> DEFINE R == {ss \in Nat \X Nat : ss[1] < ss[2]}
             T == {b - x : x \in S}
  <1>1. R = OpToRel(<, Nat)
    BY DEF OpToRel
  <1>2. IsWellFoundedOn(R, Nat)
    BY <1>1, NatLessThanWellFounded
  <1>3. T \subseteq Nat /\ T # {}
    <2>1. \A x \in S : x \in 1..b /\ b - x \in Nat
      OBVIOUS
    <2>2. QED
      BY <2>1
  <1> HIDE DEF R
  <1>4. PICK m \in T : \A y \in T : <<y, m>> \notin R
    <2> HIDE DEF T
    <2>1. QED
      BY <1>2, <1>3, WFMin
  <1>5. \A y \in T : m <= y
    <2>1. \A y \in T : ~(y < m)
      BY <1>3, <1>4 DEF R
    <2>2. QED
      BY <1>3, <2>1
  <1>6. PICK x \in S : m = b - x
    BY <1>4
  <1>7. \A y \in S : x \in 1..b /\ y \in 1..b /\ b - x <= b - y
    BY <1>5, <1>6
  <1>8. \A y \in S : y <= x
    BY <1>7
  <1>9. \E z \in S : \A y \in S : z >= y
    BY <1>7, <1>8
  <1>10. Max(S) \in S /\ \A y \in S : Max(S) >= y
    BY <1>9 DEF Max
  <1>11. \A y \in S : y \in 1..b
    OBVIOUS
  <1>12. QED
    BY <1>10, <1>11

LEMMA HandlerIsLast ==
    ASSUME registered \in Seq(Request), NEW frame, Candidates(frame) # {}
    PROVE  /\ Handler(frame) \in 1..Len(registered)
           /\ registered[Handler(frame)] = frame
           /\ \A later \in Handler(frame) + 1 .. Len(registered) : registered[later] # frame
  <1>1. Len(registered) \in Nat /\ DOMAIN registered = 1..Len(registered)
    OBVIOUS
  <1>2. Candidates(frame) \in SUBSET (1..Len(registered))
    BY <1>1 DEF Candidates
  <1>3. /\ Handler(frame) \in Candidates(frame)
        /\ \A i \in Candidates(frame) : i <= Handler(frame)
    BY <1>1, <1>2, Greatest DEF Handler
  <1>4. /\ Handler(frame) \in 1..Len(registered) /\ registered[Handler(frame)] = frame
        /\ \A i \in 1..Len(registered) : registered[i] = frame => i <= Handler(frame)
    BY <1>1, <1>3 DEF Candidates
  <1> DEFINE h == Handler(frame)
  <1> HIDE DEF h
  <1>5. \A later \in h + 1 .. Len(registered) :
           h \in 1..Len(registered) => later \in 1..Len(registered) /\ ~(later <= h)
    BY <1>1
  <1>6. QED
    BY <1>4, <1>5 DEF h

-----------------------------------------------------------------------------
(***************************************************************************)
(* Steps that leave a session alone.                                       *)
(***************************************************************************)

SessionUnchanged(s) ==
    /\ at'[s] = at[s] /\ sent'[s] = sent[s] /\ taken'[s] = taken[s]
    /\ context'[s] = context[s] /\ runs'[s] = runs[s] /\ replies'[s] = replies[s]

LEMMA SessionStays ==
    ASSUME NEW s, SessionOK(s), SessionUnchanged(s),
           registered' = registered, home' = home
    PROVE  SessionOK(s)'
  BY DEF SessionUnchanged, SessionOK, PlaceOK, Places, RunsOK, RepliesOK, Home

LEMMA LoginStays ==
    ASSUME NEW c \in Connections, LoginOK(c), runs'[c] = runs[c],
           loggedIn'[c] = loggedIn[c], identity'[c] = identity[c]
    PROVE  LoginOK(c)'
  BY DEF LoginOK

\* A step of session s that adds no run, or one that sees who is logged in.
LEMMA LoginsStay ==
    ASSUME DispatchInv, NEW s \in Sessions,
           UNCHANGED <<identity, loggedIn>>,
           \A t \in Sessions : t # s => runs'[t] = runs[t],
           s \in Connections => LoginOK(s)'
    PROVE  \A c \in Connections : LoginOK(c)'
  BY LoginStays DEF DispatchInv, Sessions

LEMMA OthersStay ==
    ASSUME DispatchInv, NEW s \in Sessions,
           UNCHANGED <<registered, home>>,
           \A t \in Sessions : t # s => SessionUnchanged(t),
           SessionOK(s)'
    PROVE  \A t \in Sessions : SessionOK(t)'
  BY SessionStays DEF DispatchInv
-----------------------------------------------------------------------------
(***************************************************************************)
(* What a session is told, and how its runs go on.                         *)
(***************************************************************************)

\* At most one answer, and one that succeeds only for a handler that did.
LEMMA ToldIsOne ==
    ASSUME NEW s, NEW n \in Numbers, NEW ok \in BOOLEAN
    PROVE  \/ Told(s, n, ok) = <<>>
           \/ \E r \in Reply : /\ Told(s, n, ok) = <<r>>
                               /\ r.ok => ok /\ r.to = n
                               /\ s \notin Calls => r \in Fifo!Answer(n)
  <1> DEFINE yes == [to |-> n, ok |-> TRUE]
             no == [to |-> None, ok |-> FALSE]
             any == [to |-> n, ok |-> ok]
  <1>1. yes \in Reply /\ no \in Reply /\ any \in Reply
    BY DEF Reply
  <1>2. /\ yes.ok = TRUE /\ yes.to = n /\ no.ok = FALSE /\ any.ok = ok /\ any.to = n
        /\ yes \in Fifo!Answer(n) /\ no \in Fifo!Answer(n)
    BY DEF Fifo!Answer
  <1>3. Told(s, n, ok) \in {<<>>, <<yes>>, <<no>>, <<any>>}
        /\ (s \in Calls => Told(s, n, ok) = <<any>>)
        /\ (s \notin Calls /\ ~ok => Told(s, n, ok) = <<no>>)
        /\ (s \notin Calls /\ ok => Told(s, n, ok) \in {<<>>, <<yes>>})
    BY DEF Told
  <1> HIDE DEF yes, no, any
  <1>4. CASE s \in Calls
    BY <1>1, <1>2, <1>3, <1>4
  <1>5. CASE s \notin Calls
    BY <1>1, <1>2, <1>3, <1>5
  <1>6. QED
    BY <1>4, <1>5

LEMMA RepliesGrow ==
    ASSUME NEW s, NEW n \in Numbers, NEW ok \in BOOLEAN, replies[s] \in Seq(Reply),
           replies'[s] = replies[s] \o Told(s, n, ok)
    PROVE  /\ replies'[s] \in Seq(Reply)
           /\ \A i \in DOMAIN replies'[s] : replies'[s][i].ok =>
                 \/ i \in DOMAIN replies[s] /\ replies'[s][i] = replies[s][i]
                 \/ ok /\ replies'[s][i].to = n
  <1>1. CASE Told(s, n, ok) = <<>>
    BY <1>1
  <1>2. CASE Told(s, n, ok) # <<>>
    <2>1. PICK r \in Reply : Told(s, n, ok) = <<r>> /\ (r.ok => ok /\ r.to = n)
      BY <1>2, ToldIsOne
    <2>2. replies'[s] = Append(replies[s], r)
      BY <2>1, AppendIsConcat
    <2>3. /\ replies'[s] \in Seq(Reply) /\ Len(replies'[s]) = Len(replies[s]) + 1
          /\ Len(replies[s]) \in Nat
          /\ \A i \in 1..Len(replies[s]) : replies'[s][i] = replies[s][i]
          /\ replies'[s][Len(replies[s]) + 1] = r
      BY <2>2, AppendProperties
    <2>4. \A i \in DOMAIN replies'[s] :
             i \in DOMAIN replies[s] \/ i = Len(replies[s]) + 1
      BY <2>3
    <2>5. \A i \in DOMAIN replies[s] : replies'[s][i] = replies[s][i]
      BY <2>3
    <2>6. QED
      BY <2>1, <2>3, <2>4, <2>5
  <1>3. QED
    BY <1>1, <1>2

LEMMA AnswersGrow ==
    ASSUME NEW s, s \notin Calls, NEW n \in Numbers, NEW ok \in BOOLEAN,
           replies[s] \in Seq(Reply), replies'[s] = replies[s] \o Told(s, n, ok)
    PROVE  \/ replies'[s] = replies[s]
           \/ \E a \in Fifo!Answer(n) : replies'[s] = Append(replies[s], a)
  <1>1. CASE Told(s, n, ok) = <<>>
    BY <1>1
  <1>2. CASE Told(s, n, ok) # <<>>
    <2>1. PICK r \in Reply : Told(s, n, ok) = <<r>> /\ r \in Fifo!Answer(n)
      BY <1>2, ToldIsOne
    <2>2. replies'[s] = Append(replies[s], r)
      BY <2>1, AppendIsConcat
    <2>3. QED
      BY <2>1, <2>2
  <1>3. QED
    BY <1>1, <1>2

LEMMA RunsAreTyped ==
    ASSUME NEW s, runs[s] \in Seq(Run)
    PROVE  \A i \in DOMAIN runs[s] : /\ runs[s][i] \in Run
                                     /\ runs[s][i].frame \in Nat \ {0}
                                     /\ runs[s][i].handler \in 1..MaxRegistrations
                                     /\ runs[s][i].context \in Context
                                     /\ runs[s][i].result \in Results
  <1>1. \A i \in DOMAIN runs[s] : runs[s][i] \in Run
    OBVIOUS
  <1>2. QED
    BY <1>1 DEF Run, Numbers

\* What was sent is not taken back.
SentStays(s) == \A m \in 1..Len(sent[s]) : sent'[s][m] = sent[s][m]

\* All frames that were handled come before frame n.
FramesBelow(s, n) == \A i \in DOMAIN runs[s] : runs[s][i].frame < n

\* A session whose handlers all ended goes on without another run.
LEMMA RunsStay ==
    ASSUME NEW s, SessionOK(s), at[s] # "running", at'[s] # "running",
           runs'[s] = runs[s], UNCHANGED <<registered, home>>,
           taken'[s] \in Nat, taken[s] <= taken'[s], SentStays(s)
    PROVE  RunsOK(s)'
  <1>1. /\ Len(sent[s]) \in Nat /\ taken[s] \in 0..Len(sent[s]) /\ runs[s] \in Seq(Run)
        /\ DOMAIN runs[s] = 1..Len(runs[s])
    BY DEF SessionOK
  <1>2. \A i \in DOMAIN runs[s] : /\ runs[s][i].frame \in Nat \ {0}
                                  /\ runs[s][i].frame <= taken[s]
    BY <1>1, RunsAreTyped DEF SessionOK, RunsOK
  <1>3. \A i \in DOMAIN runs[s] : /\ runs[s][i].frame <= taken'[s]
                                  /\ sent'[s][runs[s][i].frame] = sent[s][runs[s][i].frame]
    <2>1. \A m \in Nat \ {0} : m <= taken[s] => m \in 1..Len(sent[s]) /\ m <= taken'[s]
      BY <1>1
    <2>2. QED
      BY <1>2, <2>1 DEF SentStays
  <1>4. QED
    BY <1>3 DEF SessionOK, RunsOK, Home

\* The run of a handler, as Dispatch makes it.
LEMMA NewRun ==
    ASSUME registered \in Seq(Request), Len(registered) <= MaxRegistrations,
           NEW frame, Candidates(frame) # {},
           NEW n \in Numbers, NEW ctx \in Context
    PROVE  [frame |-> n, handler |-> Handler(frame), context |-> ctx, result |-> "running"] \in Run
  <1>1. Handler(frame) \in 1..Len(registered)
    BY HandlerIsLast
  <1>2. Len(registered) \in Nat
    OBVIOUS
  <1>3. Handler(frame) \in 1..MaxRegistrations
    BY <1>1, <1>2, DispatchAssumption
  <1>4. QED
    BY <1>3 DEF Run, Results

LEMMA Appended ==
    ASSUME NEW S, NEW q \in Seq(S), NEW e \in S
    PROVE  /\ Append(q, e) \in Seq(S) /\ Len(Append(q, e)) = Len(q) + 1
           /\ DOMAIN Append(q, e) = 1..(Len(q) + 1)
           /\ \A i \in 1..Len(q) : Append(q, e)[i] = q[i]
           /\ Append(q, e)[Len(q) + 1] = e /\ Append(q, e) # <<>>
  <1>1. /\ Append(q, e) \in Seq(S) /\ Len(Append(q, e)) = Len(q) + 1
        /\ \A i \in 1..Len(q) : Append(q, e)[i] = q[i]
        /\ Append(q, e)[Len(q) + 1] = e /\ Append(q, e) # <<>>
    BY AppendProperties
  <1>2. QED
    BY <1>1

\* A handler is started for the next frame.
LEMMA RunStarts ==
    ASSUME NEW s, registered \in Seq(Request), SessionOK(s), at[s] # "running",
           NEW frame, Candidates(frame) # {}, NEW run \in Run,
           run.handler = Handler(frame), run.result = "running",
           run.context.request = Home(s),
           UNCHANGED <<registered, home>>, runs'[s] = Append(runs[s], run),
           at'[s] = "running", taken'[s] = run.frame, sent'[s][run.frame] = frame,
           FramesBelow(s, run.frame), SentStays(s)
    PROVE  /\ runs'[s] \in Seq(Run) /\ RunsOK(s)'
           /\ Len(runs'[s]) = Len(runs[s]) + 1
           /\ \A i \in 1..Len(runs[s]) : runs'[s][i] = runs[s][i]
           /\ runs'[s][Len(runs[s]) + 1] = run
  <1> DEFINE n == run.frame
             len == Len(runs[s])
  <1>1. /\ Len(sent[s]) \in Nat /\ taken[s] \in 0..Len(sent[s]) /\ runs[s] \in Seq(Run)
        /\ DOMAIN runs[s] = 1..len /\ len \in Nat /\ n \in Nat
    BY DEF SessionOK, Numbers, Run
  <1>2. /\ Handler(frame) \in 1..Len(registered)
        /\ registered[Handler(frame)] = frame
        /\ \A later \in Handler(frame) + 1 .. Len(registered) : registered[later] # frame
    BY HandlerIsLast
  <1>3. DOMAIN registered = 1..Len(registered)
    OBVIOUS
  <1> HIDE DEF n, len
  <1>4. \A i \in 1..len : /\ runs[s][i].frame \in Nat \ {0}
                          /\ runs[s][i].frame <= taken[s]
                          /\ runs[s][i].result # "running"
    BY <1>1, RunsAreTyped DEF SessionOK, RunsOK
  <1>5. /\ run.frame = n /\ taken'[s] = n /\ sent'[s][n] = frame
        /\ \A i \in 1..len : runs[s][i].frame < n
    BY <1>1 DEF n, FramesBelow
  <1>6. \A i \in 1..len : /\ runs[s][i].frame < n
                          /\ sent'[s][runs[s][i].frame] = sent[s][runs[s][i].frame]
    <2>1. \A m \in Nat \ {0} : m <= taken[s] => m \in 1..Len(sent[s])
      BY <1>1
    <2>2. \A m \in Nat \ {0} : m <= taken[s] => sent'[s][m] = sent[s][m]
      BY <2>1 DEF SentStays
    <2>3. SUFFICES ASSUME NEW i \in 1..len
                   PROVE  sent'[s][runs[s][i].frame] = sent[s][runs[s][i].frame]
      BY <1>5
    <2>4. runs[s][i].frame \in Nat \ {0} /\ runs[s][i].frame <= taken[s]
      BY <1>4, <2>3
    <2>5. QED
      BY <2>2, <2>4
  <1>7. /\ runs'[s] \in Seq(Run) /\ Len(runs'[s]) = len + 1
        /\ DOMAIN runs'[s] = 1..(len + 1)
        /\ \A i \in 1..len : runs'[s][i] = runs[s][i]
        /\ runs'[s][len + 1] = run /\ runs'[s] # <<>>
    BY <1>1, Appended DEF len
  <1>8. \A i \in DOMAIN runs'[s] : i \in 1..len \/ i = len + 1
    BY <1>1, <1>7
  <1>9. ASSUME NEW i \in 1..len
         PROVE  /\ runs'[s][i].frame <= taken'[s]
                /\ runs'[s][i].handler \in DOMAIN registered'
                /\ registered'[runs'[s][i].handler] = sent'[s][runs'[s][i].frame]
                /\ \A later \in runs'[s][i].handler + 1 .. Len(registered') :
                      registered'[later] # registered'[runs'[s][i].handler]
                /\ runs'[s][i].context.request = Home(s)'
                /\ \A j \in DOMAIN runs'[s] : i < j => runs'[s][i].frame < runs'[s][j].frame
                /\ runs'[s][i].result # "running" /\ i # Len(runs'[s])
    <2>1. runs'[s][i] = runs[s][i] /\ i \in DOMAIN runs[s]
      BY <1>1, <1>7
    <2>2. /\ runs[s][i].handler \in DOMAIN registered
          /\ registered[runs[s][i].handler] = sent[s][runs[s][i].frame]
          /\ \A later \in runs[s][i].handler + 1 .. Len(registered) :
                registered[later] # registered[runs[s][i].handler]
          /\ runs[s][i].context.request = Home(s)
          /\ \A j \in 1..len : i < j => runs[s][i].frame < runs[s][j].frame
      BY <1>1, <2>1 DEF SessionOK, RunsOK
    <2>3. \A j \in DOMAIN runs'[s] : i < j => runs'[s][i].frame < runs'[s][j].frame
      BY <1>5, <1>6, <1>7, <1>8, <2>1, <2>2
    <2>4. runs'[s][i].frame <= taken'[s] /\ i # Len(runs'[s])
      <3>1. \A m \in Nat : m < n => m <= n
        BY <1>1
      <3>2. runs'[s][i].frame <= taken'[s]
        BY <1>5, <1>4, <1>6, <2>1, <3>1
      <3>3. QED
        BY <1>1, <1>7, <3>2
    <2>5. Home(s)' = Home(s)
      BY DEF Home
    <2>6. QED
      BY <1>4, <1>6, <2>1, <2>2, <2>3, <2>4, <2>5
  <1>10. ASSUME NEW i \in DOMAIN runs'[s], i = len + 1
         PROVE  /\ runs'[s][i].frame <= taken'[s]
                /\ runs'[s][i].handler \in DOMAIN registered'
                /\ registered'[runs'[s][i].handler] = sent'[s][runs'[s][i].frame]
                /\ \A later \in runs'[s][i].handler + 1 .. Len(registered') :
                      registered'[later] # registered'[runs'[s][i].handler]
                /\ runs'[s][i].context.request = Home(s)'
                /\ \A j \in DOMAIN runs'[s] : ~(i < j)
                /\ runs'[s][i].result = "running" /\ i = Len(runs'[s])
    <2>1. runs'[s][i] = run /\ i = Len(runs'[s])
      BY <1>7, <1>10
    <2>2. \A j \in DOMAIN runs'[s] : ~(i < j)
      BY <1>1, <1>7, <1>10
    <2>3. Home(s)' = Home(s)
      BY DEF Home
    <2>4. n <= n
      BY <1>1
    <2>5. QED
      BY <1>2, <1>3, <1>5, <2>1, <2>2, <2>3, <2>4
  <1>11. runs'[s] # <<>> /\ runs'[s][Len(runs'[s])].frame = taken'[s]
    BY <1>5, <1>7
  <1>12. RunsOK(s)'
    BY <1>8, <1>9, <1>10, <1>11 DEF RunsOK
  <1>13. QED
    BY <1>7, <1>12 DEF len

\* What was told before is still true, and what is told now is.
LEMMA RepliesStay ==
    ASSUME NEW s, SessionOK(s),
           \A j \in DOMAIN runs[s] : runs[s][j].result = "ok" =>
               j \in DOMAIN runs'[s] /\ runs'[s][j] = runs[s][j],
           \A i \in DOMAIN replies'[s] : replies'[s][i].ok =>
               \/ i \in DOMAIN replies[s] /\ replies'[s][i] = replies[s][i]
               \/ \E j \in DOMAIN runs'[s] : /\ runs'[s][j].frame = replies'[s][i].to
                                             /\ runs'[s][j].result = "ok"
    PROVE  RepliesOK(s)'
  <1>1. SUFFICES ASSUME NEW i \in DOMAIN replies'[s], replies'[s][i].ok
                 PROVE  \E j \in DOMAIN runs'[s] : /\ runs'[s][j].frame = replies'[s][i].to
                                                    /\ runs'[s][j].result = "ok"
    BY DEF RepliesOK
  <1>2. CASE i \in DOMAIN replies[s] /\ replies'[s][i] = replies[s][i]
    <2>1. PICK j \in DOMAIN runs[s] : /\ runs[s][j].frame = replies[s][i].to
                                      /\ runs[s][j].result = "ok"
      BY <1>1, <1>2 DEF SessionOK, RepliesOK
    <2>2. j \in DOMAIN runs'[s] /\ runs'[s][j] = runs[s][j]
      BY <2>1
    <2>3. QED
      BY <1>2, <2>1, <2>2
  <1>3. QED
    BY <1>1, <1>2

\* The handler that was started sees who is logged in.
LEMMA LoginGrows ==
    ASSUME NEW c \in Connections, SharedOK, SessionOK(c), LoginOK(c),
           UNCHANGED <<identity, loggedIn>>,
           Len(runs'[c]) = Len(runs[c]) + 1, runs'[c] \in Seq(Run),
           \A i \in 1..Len(runs[c]) : runs'[c][i] = runs[c][i],
           runs'[c][Len(runs[c]) + 1].context.identity = identity[c]
    PROVE  LoginOK(c)'
  <1>1. /\ Len(runs[c]) \in Nat /\ DOMAIN runs[c] = 1..Len(runs[c])
        /\ DOMAIN runs'[c] = 1..Len(runs'[c])
    BY DEF SessionOK
  <1>2. loggedIn[c] \in Nat \cup {None}
    BY DEF SharedOK
  <1>3. loggedIn[c] # None => /\ loggedIn[c] <= Len(runs[c]) + 1
                              /\ Len(runs[c]) + 1 > loggedIn[c]
    BY <1>1, <1>2 DEF LoginOK
  <1>4. \A i \in DOMAIN runs'[c] : i \in 1..Len(runs[c]) \/ i = Len(runs[c]) + 1
    BY <1>1
  <1>5. \A i \in DOMAIN runs'[c] :
           runs'[c][i].context.identity =
               IF loggedIn[c] # None /\ i > loggedIn[c] THEN identity[c] ELSE None
    BY <1>1, <1>3, <1>4 DEF LoginOK
  <1>6. QED
    BY <1>3, <1>5 DEF LoginOK

-----------------------------------------------------------------------------
(***************************************************************************)
(* The registry, and who is logged in.                                     *)
(***************************************************************************)

LEMMA InitKeeps == Init => DispatchInv
  <1> SUFFICES ASSUME Init PROVE DispatchInv
    OBVIOUS
  <1>1. SharedOK
    <2>1. registered \in Seq(Request) /\ Len(registered) <= MaxRegistrations
      BY DispatchAssumption DEF Init
    <2>2. /\ built \in BOOLEAN /\ home \in [Calls -> Containers]
          /\ identity \in [Containers -> Users \cup {None}]
          /\ loggedIn \in [Connections -> Nat \cup {None}]
          /\ badge \in [Connections -> Users \cup {None}]
      BY DEF Init
    <2>3. QED
      BY <2>1, <2>2 DEF Init, SharedOK
  <1>2. ASSUME NEW s \in Sessions PROVE SessionOK(s)
    BY <1>2 DEF Init, SessionOK, PlaceOK, Places, RunsOK, RepliesOK, Sessions
  <1>3. ASSUME NEW c \in Connections PROVE LoginOK(c)
    BY <1>3 DEF Init, LoginOK, Sessions, Containers
  <1>4. QED
    BY <1>1, <1>2, <1>3 DEF DispatchInv

\* No handler has run while handlers are still registered.
LEMMA RegisterKeeps ==
    ASSUME DispatchInv, NEW kind \in Kinds, NEW pattern \in Patterns, Register(kind, pattern)
    PROVE  DispatchInv'
  <1> DEFINE entry == [kind |-> kind, pattern |-> pattern]
  <1>1. entry \in Request
    BY DEF Request
  <1> HIDE DEF entry
  <1>2. /\ registered' = Append(registered, entry) /\ Len(registered) < MaxRegistrations
        /\ UNCHANGED <<built, home, identity, loggedIn, badge, at, sent, taken, context, runs, replies>>
        /\ ~built
    BY DEF Register, entry
  <1>3. registered' \in Seq(Request) /\ Len(registered') = Len(registered) + 1
        /\ Len(registered) \in Nat
    BY <1>1, <1>2, AppendProperties DEF DispatchInv, SharedOK
  <1>4. SharedOK'
    BY <1>2, <1>3, DispatchAssumption DEF DispatchInv, SharedOK
  <1>5. ASSUME NEW s \in Sessions PROVE SessionOK(s)'
    <2>1. at[s] = "new" /\ runs[s] = <<>> /\ SessionOK(s)
      BY <1>2 DEF DispatchInv, SharedOK, SessionOK, PlaceOK
    <2>2. QED
      BY <1>2, <2>1 DEF SessionOK, PlaceOK, Places, RunsOK, RepliesOK, Home
  <1>6. ASSUME NEW c \in Connections PROVE LoginOK(c)'
    BY <1>2, LoginStays DEF DispatchInv
  <1>7. QED
    BY <1>4, <1>5, <1>6 DEF DispatchInv

LEMMA BuildKeeps ==
    ASSUME DispatchInv, Build
    PROVE  DispatchInv'
  <1>1. SharedOK'
    BY DEF Build, DispatchInv, SharedOK
  <1>2. ASSUME NEW s \in Sessions PROVE SessionOK(s)'
    BY SessionStays DEF Build, DispatchInv, SessionUnchanged
  <1>3. ASSUME NEW c \in Connections PROVE LoginOK(c)'
    BY LoginStays DEF Build, DispatchInv
  <1>4. QED
    BY <1>1, <1>2, <1>3 DEF DispatchInv

\* Whoever logs in is a user, and the handlers that ran by then saw nobody.
LEMMA LoginKeeps ==
    ASSUME DispatchInv, NEW c \in Connections, NEW user \in Users, Login(c, user)
    PROVE  DispatchInv'
  <1>1. c \in Sessions /\ c \in Containers /\ user # None
    BY DispatchAssumption DEF Sessions, Containers
  <1>2. /\ runs[c] \in Seq(Run) /\ Len(runs[c]) \in Nat /\ DOMAIN runs[c] = 1..Len(runs[c])
    BY <1>1 DEF DispatchInv, SessionOK
  <1>3. /\ identity' = [identity EXCEPT ![c] = user]
        /\ loggedIn' = [loggedIn EXCEPT ![c] = Len(runs[c])]
        /\ identity[c] = None
        /\ UNCHANGED <<registry, home, badge, at, sent, taken, context, runs, replies>>
    BY DEF Login
  <1>4. SharedOK'
    BY <1>1, <1>2, <1>3 DEF DispatchInv, SharedOK, registry
  <1>5. ASSUME NEW s \in Sessions PROVE SessionOK(s)'
    BY <1>3, SessionStays DEF DispatchInv, SessionUnchanged, registry
  <1>6. LoginOK(c)'
    <2>1. identity'[c] = user /\ loggedIn'[c] = Len(runs[c]) /\ runs'[c] = runs[c]
      BY <1>1, <1>3 DEF DispatchInv, SharedOK
    <2>2. loggedIn'[c] # None /\ loggedIn'[c] <= Len(runs[c])
      BY <1>2, <2>1, DispatchAssumption
    <2>3. \A i \in DOMAIN runs[c] : runs[c][i].context.identity = None /\ ~(i > loggedIn'[c])
      BY <1>2, <1>3, <2>1 DEF DispatchInv, LoginOK
    <2>4. QED
      BY <1>1, <2>1, <2>2, <2>3 DEF LoginOK
  <1>7. ASSUME NEW d \in Connections, d # c PROVE LoginOK(d)'
    <2>1. identity'[d] = identity[d] /\ loggedIn'[d] = loggedIn[d] /\ runs'[d] = runs[d]
      BY <1>3, <1>7 DEF DispatchInv, SharedOK, Containers
    <2>2. QED
      BY <2>1, LoginStays DEF DispatchInv
  <1>8. QED
    BY <1>4, <1>5, <1>6, <1>7 DEF DispatchInv

-----------------------------------------------------------------------------
(***************************************************************************)
(* The connections.                                                        *)
(***************************************************************************)

LEMMA UpgradeKeeps ==
    ASSUME DispatchInv, NEW c \in Connections, Upgrade(c)
    PROVE  DispatchInv'
  <1>1. c \in Sessions /\ c \in Containers /\ c \notin Calls /\ SessionOK(c)
    BY DispatchAssumption DEF Sessions, Containers, DispatchInv
  <1>2. /\ built /\ at[c] = "new" /\ at' = [at EXCEPT ![c] = "open"]
        /\ badge' = [badge EXCEPT ![c] = identity[c]]
        /\ UNCHANGED <<registry, home, identity, loggedIn, sent, taken, context, runs, replies>>
    BY DEF Upgrade, Go
  <1>3. SharedOK'
    BY <1>1, <1>2 DEF DispatchInv, SharedOK, registry
  <1>4. SessionOK(c)'
    BY <1>1, <1>2 DEF DispatchInv, SharedOK, registry, SessionOK, PlaceOK, Places, RunsOK, RepliesOK
  <1>5. \A t \in Sessions : t # c => SessionUnchanged(t)
    BY <1>2 DEF DispatchInv, SharedOK, SessionUnchanged
  <1>6. \A t \in Sessions : SessionOK(t)'
    BY <1>1, <1>2, <1>4, <1>5, OthersStay DEF registry
  <1>7. \A d \in Connections : LoginOK(d)'
    BY <1>2, LoginStays DEF DispatchInv
  <1>8. QED
    BY <1>3, <1>6, <1>7 DEF DispatchInv

LEMMA LoseKeeps ==
    ASSUME DispatchInv, NEW c \in Connections, Lose(c)
    PROVE  DispatchInv'
  <1>1. c \in Sessions /\ c \notin Calls /\ SessionOK(c)
    BY DispatchAssumption DEF Sessions, DispatchInv
  <1>2. /\ at[c] = "open" /\ at' = [at EXCEPT ![c] = "closed"]
        /\ UNCHANGED <<registry, home, identity, loggedIn, badge, sent, taken, context, runs, replies>>
    BY DEF Lose, Go
  <1>3. SharedOK'
    BY <1>1, <1>2 DEF DispatchInv, SharedOK, registry
  <1>4. SessionOK(c)'
    BY <1>1, <1>2 DEF DispatchInv, SharedOK, registry, SessionOK, PlaceOK, Places,
                      RunsOK, RepliesOK, Home
  <1>5. \A t \in Sessions : t # c => SessionUnchanged(t)
    BY <1>2 DEF DispatchInv, SharedOK, SessionUnchanged
  <1>6. \A t \in Sessions : SessionOK(t)'
    BY <1>1, <1>2, <1>4, <1>5, OthersStay DEF registry
  <1>7. \A d \in Connections : LoginOK(d)'
    BY <1>2, LoginStays DEF DispatchInv
  <1>8. QED
    BY <1>3, <1>6, <1>7 DEF DispatchInv

LEMMA SendFrameKeeps ==
    ASSUME DispatchInv, NEW c \in Connections, NEW frame \in Frame, SendFrame(c, frame)
    PROVE  DispatchInv'
  <1>1. c \in Sessions /\ c \notin Calls /\ SessionOK(c)
    BY DispatchAssumption DEF Sessions, DispatchInv
  <1>2. /\ at[c] \in {"open", "running"}
        /\ sent' = [sent EXCEPT ![c] = Append(sent[c], frame)]
        /\ UNCHANGED <<registry, home, identity, loggedIn, badge, at, taken, context, runs, replies>>
    BY DEF SendFrame
  <1>3. SharedOK'
    BY <1>2 DEF DispatchInv, SharedOK, registry
  <1>4. /\ sent[c] \in Seq(Frame) /\ Len(sent[c]) \in Nat /\ taken[c] \in 0..Len(sent[c])
        /\ runs[c] \in Seq(Run)
    BY <1>1 DEF SessionOK
  <1>5. sent'[c] = Append(sent[c], frame)
    BY <1>1, <1>2 DEF DispatchInv, SharedOK
  <1>6. /\ sent'[c] \in Seq(Frame) /\ Len(sent'[c]) = Len(sent[c]) + 1
        /\ \A n \in 1..Len(sent[c]) : sent'[c][n] = sent[c][n]
    BY <1>4, <1>5, AppendProperties
  <1>7. taken'[c] \in 0..Len(sent'[c])
    BY <1>2, <1>4, <1>6
  <1>8. \A i \in DOMAIN runs[c] : sent'[c][runs[c][i].frame] = sent[c][runs[c][i].frame]
    <2>1. \A i \in DOMAIN runs[c] : runs[c][i].frame \in Nat \ {0} /\ runs[c][i].frame <= taken[c]
      BY <1>1, <1>4, RunsAreTyped DEF SessionOK, RunsOK
    <2>2. \A m \in Nat \ {0} : m <= taken[c] => m \in 1..Len(sent[c])
      BY <1>4
    <2>3. \A m \in Nat \ {0} : m <= taken[c] => sent'[c][m] = sent[c][m]
      BY <1>6, <2>2
    <2>4. QED
      BY <2>1, <2>3
  <1>9. RunsOK(c)'
    <2>1. UNCHANGED <<registered, at, taken, runs, Home(c)>>
      BY <1>2 DEF registry, Home
    <2>2. RunsOK(c)
      BY <1>1 DEF SessionOK
    <2>3. QED
      BY <1>8, <2>1, <2>2 DEF RunsOK
  <1>10. SessionOK(c)'
    BY <1>1, <1>2, <1>6, <1>7, <1>9 DEF registry, SessionOK, PlaceOK, Places, RepliesOK
  <1>11. \A t \in Sessions : t # c => SessionUnchanged(t)
    BY <1>2 DEF DispatchInv, SharedOK, SessionUnchanged
  <1>12. \A t \in Sessions : SessionOK(t)'
    BY <1>1, <1>2, <1>10, <1>11, OthersStay DEF registry
  <1>13. \A d \in Connections : LoginOK(d)'
    BY <1>2, LoginStays DEF DispatchInv
  <1>14. QED
    BY <1>3, <1>12, <1>13 DEF DispatchInv
\* The context a session dispatches with has its own container, and who is
\* logged in there.
LEMMA ContextIsOwn ==
    ASSUME SharedOK, NEW s \in Sessions
    PROVE  /\ Home(s) \in Containers /\ ContextOf(s) \in Context
           /\ ContextOf(s).request = Home(s)
           /\ s \in Connections => ContextOf(s).identity = identity[s]
  <1>1. Home(s) \in Containers
    BY DEF SharedOK, Home, Sessions, Containers
  <1>2. QED
    BY <1>1 DEF SharedOK, ContextOf, Context, Home

LEMMA ReceiveKeeps ==
    ASSUME DispatchInv, NEW c \in Connections, Receive(c)
    PROVE  DispatchInv'
  <1> DEFINE n == taken[c] + 1
             frame == sent[c][n]
             ctx == ContextOf(c)
             run == [frame |-> n, handler |-> Handler(frame), context |-> ctx,
                     result |-> "running"]
  <1>1. /\ c \in Sessions /\ c \notin Calls /\ c \in Containers
        /\ SessionOK(c) /\ LoginOK(c) /\ SharedOK
    BY DispatchAssumption DEF Sessions, Containers, DispatchInv
  <1>2. /\ at[c] = "open" /\ n <= Len(sent[c])
        /\ taken' = [taken EXCEPT ![c] = taken[c] + 1]
        /\ UNCHANGED <<registry, home, identity, loggedIn, badge, sent>>
    <2>1. taken[c] < Len(sent[c]) /\ taken[c] \in 0..Len(sent[c]) /\ Len(sent[c]) \in Nat
      BY <1>1 DEF Receive, Listening, Pending, SessionOK
    <2>2. QED
      BY <2>1 DEF Receive, Listening
  <1>3. \/ at' = [at EXCEPT ![c] = "closed"] /\ UNCHANGED <<context, runs, replies>>
        \/ /\ at' = [at EXCEPT ![c] = "open"] /\ UNCHANGED runs
           /\ replies' = [replies EXCEPT ![c] = replies[c] \o Told(c, n, FALSE)]
           /\ UNCHANGED context \/ context' = [context EXCEPT ![c] = ctx]
        \/ /\ at' = [at EXCEPT ![c] = "running"] /\ UNCHANGED replies
           /\ runs' = [runs EXCEPT ![c] = Append(runs[c], run)]
           /\ context' = [context EXCEPT ![c] = ctx]
           /\ Candidates(frame) # {}
    <2>1. at' = [at EXCEPT ![c] = IF c \in Calls THEN "answered" ELSE "open"]
          => at' = [at EXCEPT ![c] = "open"]
      BY <1>1
    <2>2. QED
      BY <2>1 DEF Receive, NextFrame, Settle, Dispatch, Go
  <1>4. /\ sent[c] \in Seq(Frame) /\ Len(sent[c]) \in Nat /\ taken[c] \in 0..Len(sent[c])
        /\ context[c] \in Context \cup {None} /\ runs[c] \in Seq(Run)
        /\ replies[c] \in Seq(Reply) /\ ctx \in Context /\ ctx.request = Home(c)
        /\ ctx.identity = identity[c]
    BY <1>1, ContextIsOwn DEF SessionOK
  <1>5. /\ n \in Numbers /\ n \in Nat /\ taken[c] < n /\ taken[c] <= n /\ n \in 0..Len(sent[c])
        /\ taken'[c] = n /\ sent'[c] = sent[c]
    BY <1>1, <1>2, <1>4 DEF Numbers, SharedOK
  <1>6. SentStays(c)
    BY <1>5 DEF SentStays
  <1> HIDE DEF n, frame, ctx
  <1>7. \A t \in Sessions : t # c => SessionUnchanged(t)
    <2>1. SUFFICES ASSUME NEW t \in Sessions, t # c
                   PROVE  SessionUnchanged(t)
      OBVIOUS
    <2>2. at'[t] = at[t] /\ context'[t] = context[t]
      BY <1>1, <1>3, <2>1 DEF SharedOK
    <2>3. runs'[t] = runs[t] /\ replies'[t] = replies[t]
      BY <1>1, <1>3, <2>1 DEF SharedOK
    <2>4. sent'[t] = sent[t] /\ taken'[t] = taken[t]
      BY <1>1, <1>2, <2>1 DEF SharedOK
    <2>5. QED
      BY <2>2, <2>3, <2>4 DEF SessionUnchanged
  <1>8. SharedOK'
    <2>1. /\ UNCHANGED <<registered, built, home, identity, loggedIn, badge>>
          /\ DOMAIN sent' = Sessions /\ DOMAIN taken' = Sessions
      BY <1>1, <1>2 DEF SharedOK, registry
    <2>2. at' \in [Sessions -> {"new", "open", "made", "running", "answered", "dropped", "closed"}]
      BY <1>1, <1>3 DEF SharedOK
    <2>3. DOMAIN context' = Sessions /\ DOMAIN runs' = Sessions /\ DOMAIN replies' = Sessions
      BY <1>1, <1>3 DEF SharedOK
    <2>4. built
      BY <1>1, <1>2 DEF SharedOK
    <2>5. QED
      BY <1>1, <2>1, <2>2, <2>3, <2>4 DEF SharedOK
  <1>9. /\ context'[c] \in Context \cup {None}
        /\ sent'[c] \in Seq(Frame) /\ taken'[c] \in 0..Len(sent'[c])
    BY <1>1, <1>3, <1>4, <1>5 DEF SharedOK
  <1>10. UNCHANGED <<registered, home>>
    BY <1>2 DEF registry
  <1>11. SessionOK(c)' /\ LoginOK(c)'
    <2>1. CASE at' = [at EXCEPT ![c] = "closed"] /\ UNCHANGED <<context, runs, replies>>
      <3>1. at'[c] = "closed"
        BY <1>1, <2>1 DEF SharedOK
      <3>2. RunsOK(c)'
        BY <1>1, <1>2, <1>5, <1>10, <1>6, <2>1, <3>1, RunsStay
      <3>3. RepliesOK(c)' /\ PlaceOK(c)'
        BY <1>1, <2>1, <3>1 DEF SessionOK, RepliesOK, PlaceOK, Places
      <3>4. LoginOK(c)'
        BY <1>1, <1>2, <2>1, LoginStays
      <3>5. QED
        BY <1>4, <1>9, <2>1, <3>2, <3>3, <3>4 DEF SessionOK
    <2>2. CASE /\ at' = [at EXCEPT ![c] = "open"] /\ UNCHANGED runs
               /\ replies' = [replies EXCEPT ![c] = replies[c] \o Told(c, n, FALSE)]
      <3>1. at'[c] = "open" /\ replies'[c] = replies[c] \o Told(c, n, FALSE)
        BY <1>1, <2>2 DEF SharedOK
      <3>2. RunsOK(c)'
        BY <1>1, <1>2, <1>5, <1>10, <1>6, <2>2, <3>1, RunsStay
      <3>3. /\ replies'[c] \in Seq(Reply)
            /\ \A i \in DOMAIN replies'[c] : replies'[c][i].ok =>
                  i \in DOMAIN replies[c] /\ replies'[c][i] = replies[c][i]
        BY <1>4, <1>5, <3>1, RepliesGrow
      <3>4. RepliesOK(c)'
        <4>1. \A j \in DOMAIN runs[c] : j \in DOMAIN runs'[c] /\ runs'[c][j] = runs[c][j]
          BY <2>2
        <4>2. QED
          BY <1>1, <3>3, <4>1, RepliesStay
      <3>5. PlaceOK(c)'
        BY <1>1, <3>1 DEF PlaceOK, Places
      <3>6. LoginOK(c)'
        BY <1>1, <1>2, <2>2, LoginStays
      <3>7. QED
        BY <1>4, <1>9, <2>2, <3>2, <3>3, <3>4, <3>5, <3>6 DEF SessionOK
    <2>3. CASE /\ at' = [at EXCEPT ![c] = "running"] /\ UNCHANGED replies
               /\ runs' = [runs EXCEPT ![c] = Append(runs[c], run)]
               /\ Candidates(frame) # {}
      <3>1. at'[c] = "running" /\ runs'[c] = Append(runs[c], run)
        BY <1>1, <2>3 DEF SharedOK
      <3>2. sent'[c][n] = frame
        BY <1>5 DEF frame
      <3>3. registered \in Seq(Request) /\ Len(registered) <= MaxRegistrations
        BY <1>1 DEF SharedOK
      <3>4. at[c] # "running"
        BY <1>2
      <3>5. /\ runs'[c] \in Seq(Run) /\ RunsOK(c)'
            /\ Len(runs'[c]) = Len(runs[c]) + 1
            /\ \A i \in 1..Len(runs[c]) : runs'[c][i] = runs[c][i]
            /\ runs'[c][Len(runs[c]) + 1].context = ctx
        <4>1. /\ SessionOK(c) /\ n \in Numbers /\ ctx \in Context /\ ctx.request = Home(c)
              /\ Candidates(frame) # {} /\ taken'[c] = n /\ taken[c] < n
          BY <1>1, <1>4, <1>5, <2>3
        <4>2. run \in Run
          BY <3>3, <4>1, NewRun
        <4>3. /\ run.frame = n /\ run.handler = Handler(frame)
              /\ run.context = ctx /\ run.result = "running"
          OBVIOUS
        <4> HIDE DEF run
        <4>4. /\ run.context.request = Home(c) /\ taken'[c] = run.frame
              /\ sent'[c][run.frame] = frame
          BY <3>2, <4>1, <4>3
        <4>5. FramesBelow(c, run.frame)
          <5>1. \A i \in DOMAIN runs[c] : /\ runs[c][i].frame \in Nat \ {0}
                                          /\ runs[c][i].frame <= taken[c]
            BY <1>1, <1>4, RunsAreTyped DEF SessionOK, RunsOK
          <5>2. \A m \in Nat : m <= taken[c] => m < n
            BY <1>4, <1>5
          <5>3. QED
            BY <4>3, <5>1, <5>2 DEF FramesBelow
        <4>6. /\ runs'[c] \in Seq(Run) /\ RunsOK(c)'
              /\ Len(runs'[c]) = Len(runs[c]) + 1
              /\ \A i \in 1..Len(runs[c]) : runs'[c][i] = runs[c][i]
              /\ runs'[c][Len(runs[c]) + 1] = run
          BY <1>6, <1>10, <3>1, <3>3, <3>4, <4>1, <4>2, <4>3, <4>4, <4>5, RunStarts
        <4>7. QED
          BY <4>3, <4>6
      <3>6. RepliesOK(c)' /\ PlaceOK(c)'
        <4>1. \A j \in DOMAIN runs[c] : j \in DOMAIN runs'[c] /\ runs'[c][j] = runs[c][j]
          <5>1. DOMAIN runs[c] = 1..Len(runs[c]) /\ DOMAIN runs'[c] = 1..(Len(runs[c]) + 1)
                /\ Len(runs[c]) \in Nat
            BY <1>4, <3>5
          <5>2. QED
            BY <3>5, <5>1
        <4>2. QED
          BY <1>1, <2>3, <3>1, <4>1, RepliesStay DEF PlaceOK, Places
      <3>7. LoginOK(c)'
        BY <1>1, <1>2, <1>4, <3>5, LoginGrows
      <3>8. QED
        BY <1>4, <1>9, <2>3, <3>5, <3>6, <3>7 DEF SessionOK
    <2>4. QED
      BY <1>3, <2>1, <2>2, <2>3
  <1>12. \A t \in Sessions : SessionOK(t)'
    BY <1>1, <1>7, <1>10, <1>11, OthersStay
  <1>13. \A d \in Connections : LoginOK(d)'
    <2>1. UNCHANGED <<identity, loggedIn>> /\ \A t \in Sessions : t # c => runs'[t] = runs[t]
      BY <1>2, <1>7 DEF SessionUnchanged
    <2>2. QED
      BY <1>1, <1>11, <2>1, LoginsStay
  <1>14. QED
    BY <1>8, <1>12, <1>13 DEF DispatchInv
-----------------------------------------------------------------------------
(***************************************************************************)
(* The calls.                                                              *)
(***************************************************************************)

\* What a step of call k leaves alone.
StepOfCall(k) ==
    /\ UNCHANGED <<registered, home, identity, loggedIn>>
    /\ \A t \in Sessions : t # k => SessionUnchanged(t)

LEMMA CallKeeps ==
    ASSUME DispatchInv, NEW k \in Calls, SharedOK', StepOfCall(k), SessionOK(k)'
    PROVE  DispatchInv'
  <1>1. k \in Sessions /\ k \notin Connections
    BY DispatchAssumption DEF Sessions
  <1>2. \A t \in Sessions : SessionOK(t)'
    BY <1>1, OthersStay DEF StepOfCall
  <1>3. \A c \in Connections : LoginOK(c)'
    BY <1>1, LoginStays DEF StepOfCall, SessionUnchanged, DispatchInv, Sessions
  <1>4. QED
    BY <1>2, <1>3 DEF DispatchInv

\* A call that nothing was done for yet is dispatched.
LEMMA CallDispatches ==
    ASSUME DispatchInv, NEW k \in Calls, NEW frame \in Request, NEW ctx \in Context,
           ctx.request = Home(k), runs[k] = <<>>, replies[k] = <<>>, at[k] # "running",
           Dispatch(k, 1, frame, ctx), UNCHANGED <<registered, home>>,
           sent'[k] = <<frame>>, taken'[k] = 1, context'[k] = ctx, SentStays(k)
    PROVE  SessionOK(k)'
  <1> DEFINE run == [frame |-> 1, handler |-> Handler(frame), context |-> ctx,
                     result |-> "running"]
  <1>1. k \in Sessions /\ k \notin Connections /\ SessionOK(k) /\ SharedOK
    BY DispatchAssumption DEF Sessions, DispatchInv
  <1>2. /\ sent'[k] \in Seq(Frame) /\ taken'[k] \in 0..Len(sent'[k])
        /\ context'[k] \in Context \cup {None} /\ Len(sent'[k]) = 1 /\ sent'[k][1] = frame
    BY DEF Frame
  <1>3. Home(k)' = Home(k)
    BY DEF Home
  <1>4. CASE Settle(k, 1, FALSE) /\ UNCHANGED runs
    <2>1. at'[k] = "answered" /\ replies'[k] = replies[k] \o Told(k, 1, FALSE) /\ runs'[k] = <<>>
      BY <1>1, <1>4 DEF Settle, Go, SharedOK
    <2>2. /\ replies'[k] \in Seq(Reply)
          /\ \A i \in DOMAIN replies'[k] : replies'[k][i].ok =>
                i \in DOMAIN replies[k] /\ replies'[k][i] = replies[k][i]
      <3>1. 1 \in Numbers /\ replies[k] \in Seq(Reply)
        BY <1>1 DEF SessionOK, Numbers
      <3>2. QED
        BY <2>1, <3>1, RepliesGrow
    <2>3. RunsOK(k)'
      BY <2>1 DEF RunsOK
    <2>4. RepliesOK(k)'
      BY <1>1, <2>1, <2>2, RepliesStay
    <2>5. PlaceOK(k)'
      BY <1>1, <1>2, <1>3, <2>1 DEF PlaceOK, Places
    <2>6. QED
      <3>1. runs'[k] \in Seq(Run)
        BY <2>1
      <3>2. QED
        BY <1>2, <2>2, <2>3, <2>4, <2>5, <3>1 DEF SessionOK
  <1>5. CASE /\ Candidates(frame) # {}
             /\ runs' = [runs EXCEPT ![k] = Append(runs[k], run)]
             /\ Go(k, "running") /\ UNCHANGED replies
    <2>1. /\ at'[k] = "running" /\ runs'[k] = Append(runs[k], run)
          /\ registered \in Seq(Request) /\ Len(registered) <= MaxRegistrations
      BY <1>1, <1>5 DEF SharedOK, Go
    <2>2. run \in Run
      <3>1. 1 \in Numbers
        BY DEF Numbers
      <3>2. QED
        BY <1>5, <2>1, <3>1, NewRun
    <2>3. run.frame = 1 /\ run.handler = Handler(frame) /\ run.context = ctx /\ run.result = "running"
      OBVIOUS
    <2> HIDE DEF run
    <2>4. FramesBelow(k, run.frame)
      BY DEF FramesBelow
    <2>5. /\ runs'[k] \in Seq(Run) /\ RunsOK(k)'
      BY <1>1, <1>2, <1>5, <2>1, <2>2, <2>3, <2>4, RunStarts
    <2>6. RepliesOK(k)'
      BY <1>5 DEF RepliesOK
    <2>7. PlaceOK(k)'
      BY <1>1, <1>2, <1>3, <1>5, <2>1 DEF PlaceOK, Places
    <2>8. QED
      BY <1>1, <1>2, <1>5, <2>5, <2>6, <2>7 DEF SessionOK
  <1>6. QED
    BY <1>4, <1>5 DEF Dispatch

LEMMA GrpcCallKeeps ==
    ASSUME DispatchInv, NEW k \in Calls, NEW frame \in Request, GrpcCall(k, frame)
    PROVE  DispatchInv'
  <1>1. k \in Sessions /\ SessionOK(k) /\ SharedOK
    BY DEF Sessions, DispatchInv
  <1>2. /\ built /\ at[k] = "new" /\ sent' = [sent EXCEPT ![k] = <<frame>>]
        /\ taken' = [taken EXCEPT ![k] = 1]
        /\ context' = [context EXCEPT ![k] = ContextOf(k)]
        /\ Dispatch(k, 1, frame, ContextOf(k))
        /\ UNCHANGED <<registry, home, identity, loggedIn, badge>>
    BY DEF GrpcCall, Ask
  <1>3. /\ at' = [at EXCEPT ![k] = "running"] \/ at' = [at EXCEPT ![k] = "answered"]
        /\ runs' = runs \/ \E x : runs' = [runs EXCEPT ![k] = x]
        /\ replies' = replies \/ \E x : replies' = [replies EXCEPT ![k] = x]
    BY <1>2 DEF Dispatch, Settle, Go
  <1>4. SharedOK'
    BY <1>1, <1>2, <1>3 DEF SharedOK, registry
  <1>5. StepOfCall(k)
    BY <1>1, <1>2, <1>3 DEF SharedOK, registry, StepOfCall, SessionUnchanged
  <1>6. SessionOK(k)'
    <2>1. ContextOf(k) \in Context /\ ContextOf(k).request = Home(k)
      BY <1>1, ContextIsOwn
    <2>2. runs[k] = <<>> /\ replies[k] = <<>> /\ sent[k] = <<>>
      BY <1>1, <1>2 DEF SessionOK, PlaceOK
    <2>3. sent'[k] = <<frame>> /\ taken'[k] = 1 /\ context'[k] = ContextOf(k)
          /\ UNCHANGED <<registered, home>>
      BY <1>1, <1>2 DEF SharedOK, registry
    <2>4. SentStays(k)
      BY <2>2 DEF SentStays
    <2>5. QED
      BY <1>2, <2>1, <2>2, <2>3, <2>4, CallDispatches
  <1>7. QED
    BY <1>4, <1>5, <1>6, CallKeeps

LEMMA ClientCallKeeps ==
    ASSUME DispatchInv, NEW k \in Calls, NEW frame \in Request, ClientCall(k, frame)
    PROVE  DispatchInv'
  <1>1. k \in Sessions /\ k \notin Connections /\ SessionOK(k) /\ SharedOK
    BY DispatchAssumption DEF Sessions, DispatchInv
  <1>2. /\ built /\ at[k] = "new" /\ sent' = [sent EXCEPT ![k] = <<frame>>]
        /\ taken' = [taken EXCEPT ![k] = 1]
        /\ context' = [context EXCEPT ![k] = ContextOf(k)]
        /\ at' = [at EXCEPT ![k] = "made"]
        /\ UNCHANGED <<registry, home, identity, loggedIn, badge, runs, replies>>
    BY DEF ClientCall, Ask, Go
  <1>3. SharedOK'
    BY <1>1, <1>2 DEF SharedOK, registry
  <1>4. StepOfCall(k)
    BY <1>1, <1>2 DEF SharedOK, registry, StepOfCall, SessionUnchanged
  <1>5. /\ sent'[k] = <<frame>> /\ taken'[k] = 1 /\ context'[k] = ContextOf(k)
        /\ at'[k] = "made" /\ runs'[k] = <<>> /\ replies'[k] = <<>>
    BY <1>1, <1>2 DEF SharedOK, SessionOK, PlaceOK
  <1>6. /\ sent'[k] \in Seq(Frame) /\ taken'[k] \in 0..Len(sent'[k])
        /\ Len(sent'[k]) = 1 /\ sent'[k][1] = frame
    BY <1>5 DEF Frame
  <1>7. context'[k] \in Context /\ context'[k].request = Home(k)'
    <2>1. Home(k)' = Home(k)
      BY <1>2 DEF Home
    <2>2. QED
      BY <1>1, <1>5, <2>1, ContextIsOwn
  <1>8. SessionOK(k)'
    BY <1>1, <1>5, <1>6, <1>7 DEF SessionOK, PlaceOK, Places, RunsOK, RepliesOK
  <1>9. QED
    BY <1>3, <1>4, <1>8, CallKeeps

LEMMA PollKeeps ==
    ASSUME DispatchInv, NEW k \in Calls, Poll(k)
    PROVE  DispatchInv'
  <1>1. k \in Sessions /\ SessionOK(k) /\ SharedOK
    BY DEF Sessions, DispatchInv
  <1>2. /\ at[k] = "made" /\ Dispatch(k, 1, sent[k][1], context[k])
        /\ UNCHANGED <<registry, home, identity, loggedIn, badge, sent, taken, context>>
    BY DEF Poll
  <1>3. /\ at' = [at EXCEPT ![k] = "running"] \/ at' = [at EXCEPT ![k] = "answered"]
        /\ runs' = runs \/ \E x : runs' = [runs EXCEPT ![k] = x]
        /\ replies' = replies \/ \E x : replies' = [replies EXCEPT ![k] = x]
    BY <1>2 DEF Dispatch, Settle, Go
  <1>4. SharedOK'
    BY <1>1, <1>2, <1>3 DEF SharedOK, registry
  <1>5. StepOfCall(k)
    BY <1>1, <1>2, <1>3 DEF SharedOK, registry, StepOfCall, SessionUnchanged
  <1>6. SessionOK(k)'
    <2>1. /\ Len(sent[k]) = 1 /\ taken[k] = 1 /\ sent[k][1] \in Request /\ sent[k] \in Seq(Frame)
          /\ context[k] \in Context /\ context[k].request = Home(k)
          /\ runs[k] = <<>> /\ replies[k] = <<>>
      BY <1>1, <1>2 DEF SessionOK, PlaceOK
    <2>2. sent[k] = <<sent[k][1]>>
      BY <2>1
    <2>3. QED
      BY <1>2, <2>1, <2>2, CallDispatches DEF registry, SentStays
  <1>7. QED
    BY <1>4, <1>5, <1>6, CallKeeps

\* Nothing was told yet, and nothing will be.
LEMMA DropKeeps ==
    ASSUME DispatchInv, NEW k \in Calls, Drop(k)
    PROVE  DispatchInv'
  <1> DEFINE dropped == [i \in DOMAIN runs[k] |-> [runs[k][i] EXCEPT !.result = "dropped"]]
  <1>1. k \in Sessions /\ k \notin Connections /\ SessionOK(k) /\ SharedOK
    BY DispatchAssumption DEF Sessions, DispatchInv
  <1>2. /\ at[k] \in {"made", "running"} /\ at' = [at EXCEPT ![k] = "dropped"]
        /\ runs' = [runs EXCEPT ![k] = dropped]
        /\ UNCHANGED <<registry, home, identity, loggedIn, badge, sent, taken, context, replies>>
    BY DEF Drop, Go
  <1>3. SharedOK'
    BY <1>1, <1>2 DEF SharedOK, registry
  <1>4. StepOfCall(k)
    BY <1>1, <1>2 DEF SharedOK, registry, StepOfCall, SessionUnchanged
  <1>5. /\ runs[k] \in Seq(Run) /\ DOMAIN runs[k] = 1..Len(runs[k]) /\ Len(runs[k]) \in Nat
    BY <1>1 DEF SessionOK
  <1>6. \A i \in DOMAIN runs[k] : /\ dropped[i] \in Run /\ dropped[i].result = "dropped"
                                  /\ dropped[i].frame = runs[k][i].frame
                                  /\ dropped[i].handler = runs[k][i].handler
                                  /\ dropped[i].context = runs[k][i].context
    <2>1. \A run \in Run : LET e == [run EXCEPT !.result = "dropped"] IN
             /\ e \in Run /\ e.result = "dropped" /\ e.frame = run.frame
             /\ e.handler = run.handler /\ e.context = run.context
      BY DEF Run, Results
    <2>2. QED
      BY <1>5, <2>1
  <1>7. DOMAIN dropped = DOMAIN runs[k] /\ dropped \in [1..Len(runs[k]) -> Run]
    BY <1>5, <1>6
  <1>8. dropped \in Seq(Run) /\ Len(dropped) = Len(runs[k])
    BY <1>5, <1>7
  <1>9. runs'[k] = dropped /\ at'[k] = "dropped"
    BY <1>1, <1>2 DEF SharedOK
  <1> HIDE DEF dropped
  <1>10. RunsOK(k)'
    <2>1. Home(k)' = Home(k)
      BY <1>2 DEF Home
    <2>2. UNCHANGED <<registered, taken, sent>> /\ DOMAIN runs'[k] = DOMAIN runs[k]
      BY <1>2, <1>7, <1>9 DEF registry
    <2>3. \A i \in DOMAIN runs[k] : /\ runs'[k][i].result = "dropped"
                                    /\ runs'[k][i].frame = runs[k][i].frame
                                    /\ runs'[k][i].handler = runs[k][i].handler
                                    /\ runs'[k][i].context = runs[k][i].context
      BY <1>6, <1>9
    <2>4. RunsOK(k)
      BY <1>1 DEF SessionOK
    <2>5. QED
      BY <1>9, <2>1, <2>2, <2>3, <2>4 DEF RunsOK
  <1>11. RepliesOK(k)' /\ PlaceOK(k)'
    <2>1. replies'[k] = <<>> /\ Home(k)' = Home(k)
      BY <1>1, <1>2 DEF SessionOK, PlaceOK, Home
    <2>2. QED
      BY <1>1, <1>2, <1>9, <2>1 DEF SessionOK, RepliesOK, PlaceOK, Places
  <1>12. SessionOK(k)'
    BY <1>1, <1>2, <1>8, <1>9, <1>10, <1>11 DEF SessionOK
  <1>13. QED
    BY <1>3, <1>4, <1>12, CallKeeps
-----------------------------------------------------------------------------
(***************************************************************************)
(* A handler returns, on a connection or for a call.                       *)
(***************************************************************************)

LEMMA ReturnKeeps ==
    ASSUME DispatchInv, NEW s \in Sessions, NEW result \in {"ok", "failed"}, Return(s, result)
    PROVE  DispatchInv'
  <1> DEFINE last == Len(runs[s])
             n == runs[s][last].frame
             ended == [runs[s][last] EXCEPT !.result = result]
             place == IF s \in Calls THEN "answered" ELSE "open"
  <1>1. SessionOK(s) /\ SharedOK /\ at[s] = "running"
    BY DEF DispatchInv, Return
  <1>2. /\ runs[s] \in Seq(Run) /\ DOMAIN runs[s] = 1..last /\ last \in Nat /\ runs[s] # <<>>
        /\ RunsOK(s) /\ n = taken[s]
    BY <1>1 DEF SessionOK, RunsOK
  <1>3. last \in 1..last /\ last \in DOMAIN runs[s]
    BY <1>2
  <1>4. /\ ended \in Run /\ ended.result = result /\ ended.frame = n
        /\ ended.handler = runs[s][last].handler /\ ended.context = runs[s][last].context
        /\ n \in Numbers
    <2>1. runs[s][last] \in Run
      BY <1>2, <1>3
    <2>2. \A run \in Run : LET e == [run EXCEPT !.result = result] IN
             /\ e \in Run /\ e.result = result /\ e.frame = run.frame /\ e.frame \in Numbers
             /\ e.handler = run.handler /\ e.context = run.context
      BY DEF Run, Results
    <2>3. QED
      BY <2>1, <2>2
  <1>5. PICK ok \in BOOLEAN : /\ ok => result = "ok"
                              /\ replies' = [replies EXCEPT ![s] = replies[s] \o Told(s, n, ok)]
    <2>1. \E ok \in IF result = "failed" THEN {FALSE}
                    ELSE IF sent[s][n].kind = "event" THEN {TRUE} ELSE BOOLEAN : Settle(s, n, ok)
      BY DEF Return
    <2>2. PICK ok \in BOOLEAN : (result = "failed" => ~ok) /\ Settle(s, n, ok)
      BY <2>1
    <2>3. replies' = [replies EXCEPT ![s] = replies[s] \o Told(s, n, ok)]
      BY <2>2 DEF Settle
    <2>4. QED
      BY <2>2, <2>3
  <1>6. /\ at' = [at EXCEPT ![s] = place]
        /\ runs' = [runs EXCEPT ![s] = [runs[s] EXCEPT ![last] = ended]]
        /\ UNCHANGED <<registry, home, identity, loggedIn, badge, sent, taken, context>>
    BY DEF Return, Settle, Go
  <1> HIDE DEF ended, n, last
  <1>7. /\ at'[s] = place /\ runs'[s] = [runs[s] EXCEPT ![last] = ended]
        /\ replies'[s] = replies[s] \o Told(s, n, ok)
    BY <1>1, <1>5, <1>6 DEF SharedOK
  <1>8. /\ runs'[s] \in Seq(Run) /\ DOMAIN runs'[s] = DOMAIN runs[s] /\ Len(runs'[s]) = last
        /\ runs'[s][last] = ended
        /\ \A i \in DOMAIN runs[s] : i # last => runs'[s][i] = runs[s][i]
    BY <1>2, <1>3, <1>4, <1>7
  <1>9. \A i \in DOMAIN runs[s] : /\ runs'[s][i].frame = runs[s][i].frame
                                  /\ runs'[s][i].handler = runs[s][i].handler
                                  /\ runs'[s][i].context = runs[s][i].context
    BY <1>4, <1>8 DEF n
  <1>10. \A i \in DOMAIN runs[s] : runs[s][i].result = "running" <=> i = last
    BY <1>1, <1>2 DEF RunsOK, last
  <1>11. SharedOK'
    BY <1>1, <1>5, <1>6 DEF SharedOK, registry
  <1>12. \A t \in Sessions : t # s => SessionUnchanged(t)
    BY <1>1, <1>5, <1>6 DEF SharedOK, SessionUnchanged
  <1>13. RunsOK(s)'
    <2>1. Home(s)' = Home(s)
      BY <1>6 DEF Home
    <2>2. \A i \in DOMAIN runs[s] : runs'[s][i].result # "running"
      BY <1>4, <1>8, <1>10
    <2>3. at'[s] # "running" /\ UNCHANGED <<registered, sent, taken>>
      BY <1>6, <1>7 DEF registry
    <2>4. QED
      BY <1>2, <1>8, <1>9, <2>1, <2>2, <2>3 DEF RunsOK
  <1>14. replies'[s] \in Seq(Reply) /\ RepliesOK(s)'
    <2>1. /\ replies'[s] \in Seq(Reply)
          /\ \A i \in DOMAIN replies'[s] : replies'[s][i].ok =>
                \/ i \in DOMAIN replies[s] /\ replies'[s][i] = replies[s][i]
                \/ ok /\ replies'[s][i].to = n
      <3>1. n \in Numbers /\ replies[s] \in Seq(Reply)
        BY <1>1, <1>4 DEF SessionOK
      <3>2. replies'[s] = replies[s] \o Told(s, n, ok)
        BY <1>7
      <3>3. CASE ok = TRUE
        <4>1. replies'[s] = replies[s] \o Told(s, n, TRUE)
          BY <3>2, <3>3
        <4>2. /\ replies'[s] \in Seq(Reply)
              /\ \A i \in DOMAIN replies'[s] : replies'[s][i].ok =>
                    \/ i \in DOMAIN replies[s] /\ replies'[s][i] = replies[s][i]
                    \/ replies'[s][i].to = n
          BY <3>1, <4>1, RepliesGrow
        <4>3. QED
          BY <3>3, <4>2
      <3>4. CASE ok = FALSE
        <4>1. replies'[s] = replies[s] \o Told(s, n, FALSE)
          BY <3>2, <3>4
        <4>2. QED
          BY <3>1, <3>4, <4>1, RepliesGrow
      <3>5. QED
        BY <3>3, <3>4
    <2>2. ok => runs'[s][last].frame = n /\ runs'[s][last].result = "ok" /\ last \in DOMAIN runs'[s]
      BY <1>3, <1>4, <1>5, <1>8
    <2>3. \A j \in DOMAIN runs[s] : runs[s][j].result = "ok" =>
             j \in DOMAIN runs'[s] /\ runs'[s][j] = runs[s][j]
      BY <1>8, <1>10
    <2>4. \A i \in DOMAIN replies'[s] : replies'[s][i].ok =>
             \/ i \in DOMAIN replies[s] /\ replies'[s][i] = replies[s][i]
             \/ \E j \in DOMAIN runs'[s] : /\ runs'[s][j].frame = replies'[s][i].to
                                           /\ runs'[s][j].result = "ok"
      BY <2>1, <2>2
    <2>5. QED
      BY <1>1, <2>1, <2>3, <2>4, RepliesStay
  <1>15. PlaceOK(s)'
    <2>1. Home(s)' = Home(s)
      BY <1>6 DEF Home
    <2>2. QED
      BY <1>1, <1>6, <1>7, <2>1, DispatchAssumption DEF SessionOK, PlaceOK, Places, Sessions
  <1>16. SessionOK(s)'
    BY <1>1, <1>6, <1>8, <1>13, <1>14, <1>15 DEF SessionOK
  <1>17. \A t \in Sessions : SessionOK(t)'
    BY <1>6, <1>12, <1>16, OthersStay DEF registry
  <1>18. s \in Connections => LoginOK(s)'
    <2>1. Len(runs[s]) = last
      BY DEF last
    <2>2. s \in Connections => LoginOK(s)
      BY DEF DispatchInv
    <2>3. QED
      BY <1>6, <1>8, <1>9, <2>1, <2>2 DEF LoginOK
  <1>19. \A c \in Connections : LoginOK(c)'
    <2>1. \A t \in Sessions : t # s => runs'[t] = runs[t]
      BY <1>12 DEF SessionUnchanged
    <2>2. QED
      BY <1>6, <1>18, <2>1, LoginsStay
  <1>20. QED
    BY <1>11, <1>17, <1>19 DEF DispatchInv

LEMMA NextKeeps == DispatchInv /\ [Next]_vars => DispatchInv'
  <1> SUFFICES ASSUME DispatchInv, [Next]_vars PROVE DispatchInv'
    OBVIOUS
  <1>1. CASE UNCHANGED vars
    <2>1. SharedOK'
      BY <1>1 DEF vars, registry, DispatchInv, SharedOK
    <2>2. \A s \in Sessions : SessionOK(s)'
      BY <1>1, SessionStays DEF vars, registry, DispatchInv, SessionUnchanged
    <2>3. \A c \in Connections : LoginOK(c)'
      BY <1>1, LoginStays DEF vars, DispatchInv
    <2>4. QED
      BY <2>1, <2>2, <2>3 DEF DispatchInv
  <1>2. ASSUME NEW s \in Sessions, Returns(s) PROVE DispatchInv'
    BY <1>2, ReturnKeeps DEF Returns
  <1>3. QED
    BY <1>1, <1>2, RegisterKeeps, BuildKeeps, LoginKeeps, UpgradeKeeps, ReceiveKeeps, LoseKeeps,
       SendFrameKeeps, GrpcCallKeeps, ClientCallKeeps, PollKeeps, DropKeeps DEF Next

LEMMA AlwaysDispatchInv == Spec => []DispatchInv
  BY InitKeeps, NextKeeps, PTL DEF Spec

-----------------------------------------------------------------------------
(***************************************************************************)
(* What follows from it.                                                   *)
(***************************************************************************)

\* With any number of connections and calls, every frame is handled by the
\* handler registered last for it, in the container of its own session, once,
\* in its order; and who is logged in there is seen from then on, by the
\* handlers of that connection only (MicroserviceRegistryBuilder::message,
\* dispatch_message, MicroserviceContext::new).
THEOREM HandlersServeTheirOwn == Spec => []HandlersAreServed
  <1>1. DispatchInv => HandlersAreServed
    <2> SUFFICES ASSUME DispatchInv PROVE HandlersAreServed
      OBVIOUS
    <2>1. TypeOK
      BY DEF DispatchInv, SharedOK, SessionOK, TypeOK
    <2>2. RunsAreOwn
      BY DEF DispatchInv, SessionOK, RunsOK, RunsAreOwn
    <2>3. LoginIsSeen
      BY DEF DispatchInv, LoginOK, LoginIsSeen
    <2>4. QED
      BY <2>1, <2>2, <2>3 DEF HandlersAreServed
  <1>2. QED
    BY <1>1, AlwaysDispatchInv, PTL

\* A client is told of success only if one handler was started for its frame
\* and finished it (handle_websocket_microservice_message,
\* dispatch_grpc_message, InProcessMicroserviceClient::send and emit).
THEOREM SuccessHasItsHandler == Spec => []SuccessIsReal
  <1>1. DispatchInv => SuccessIsReal
    <2> SUFFICES ASSUME DispatchInv, NEW s \in Sessions,
                        NEW i \in DOMAIN replies[s], replies[s][i].ok
                 PROVE  /\ Cardinality({j \in DOMAIN runs[s] :
                                          runs[s][j].frame = replies[s][i].to}) = 1
                        /\ \A j \in DOMAIN runs[s] :
                              runs[s][j].frame = replies[s][i].to => runs[s][j].result = "ok"
      BY DEF SuccessIsReal
    <2>1. runs[s] \in Seq(Run) /\ DOMAIN runs[s] = 1..Len(runs[s]) /\ Len(runs[s]) \in Nat
          /\ RunsOK(s) /\ RepliesOK(s)
      BY DEF DispatchInv, SessionOK
    <2>2. PICK j \in DOMAIN runs[s] :
             runs[s][j].frame = replies[s][i].to /\ runs[s][j].result = "ok"
      BY <2>1 DEF RepliesOK
    <2>3. \A k \in DOMAIN runs[s] : runs[s][k].frame = runs[s][j].frame => k = j
      <3>1. \A k \in DOMAIN runs[s] : runs[s][k].frame \in Nat
        BY <2>1, RunsAreTyped
      <3>2. \A k, m \in DOMAIN runs[s] : k < m => runs[s][k].frame < runs[s][m].frame
        BY <2>1 DEF RunsOK
      <3>3. \A k, m \in DOMAIN runs[s] : k = m \/ k < m \/ m < k
        BY <2>1
      <3>4. \A k, m \in DOMAIN runs[s] : k < m => runs[s][k].frame # runs[s][m].frame
        BY <3>1, <3>2
      <3>5. QED
        BY <3>3, <3>4
    <2>4. {k \in DOMAIN runs[s] : runs[s][k].frame = replies[s][i].to} = {j}
      BY <2>2, <2>3
    <2>5. QED
      BY <2>2, <2>3, <2>4, FS_Singleton
  <1>2. QED
    BY <1>1, AlwaysDispatchInv, PTL
-----------------------------------------------------------------------------
(***************************************************************************)
(* A connection is a first-in first-out service: each step asks, settles   *)
(* the next frame of one connection, or does nothing that its client could *)
(* tell.                                                                   *)
(***************************************************************************)

\* The step shows the clients nothing.
Unseen ==
    /\ UNCHANGED sent
    /\ \A c \in Connections : Settled(c)' = Settled(c) /\ replies'[c] = replies[c]

\* The step settles the next frame of connection c.
Settles(c) ==
    /\ UNCHANGED sent
    /\ Settled(c) \in Nat /\ Settled(c) < Len(sent[c]) /\ Settled(c)' = Settled(c) + 1
    /\ \/ replies'[c] = replies[c]
       \/ \E a \in Fifo!Answer(Settled(c) + 1) : replies'[c] = Append(replies[c], a)
    /\ \A d \in Connections : d # c => Settled(d)' = Settled(d) /\ replies'[d] = replies[d]

\* One more frame of connection c.
Asks(c) ==
    /\ Len(sent'[c]) = Len(sent[c]) + 1
    /\ \A d \in Connections : d # c => sent'[d] = sent[d]
    /\ \A d \in Connections : Settled(d)' = Settled(d) /\ replies'[d] = replies[d]

LEMMA OthersUnseen ==
    ASSUME NEW s, \A t \in Sessions : t # s => SessionUnchanged(t)
    PROVE  \A d \in Connections : d # s => Settled(d)' = Settled(d) /\ replies'[d] = replies[d]
  BY DEF SessionUnchanged, Sessions, Settled

LEMMA SendFrameAsks ==
    ASSUME DispatchInv, NEW c \in Connections, NEW frame \in Frame, SendFrame(c, frame)
    PROVE  Asks(c)
  <1>1. /\ c \in Sessions /\ SharedOK /\ sent[c] \in Seq(Frame)
        /\ sent' = [sent EXCEPT ![c] = Append(sent[c], frame)] /\ UNCHANGED <<at, taken, replies>>
    BY DEF DispatchInv, SessionOK, Sessions, SendFrame
  <1>2. sent'[c] = Append(sent[c], frame)
        /\ \A d \in Connections : d # c => sent'[d] = sent[d]
    BY <1>1 DEF SharedOK, Sessions
  <1>3. Len(sent'[c]) = Len(sent[c]) + 1
    BY <1>1, <1>2, AppendProperties
  <1>4. QED
    BY <1>1, <1>2, <1>3 DEF Asks, Settled

\* A frame is settled when it is taken, unless a handler is started for it.
LEMMA ReceiveSettles ==
    ASSUME DispatchInv, NEW c \in Connections, Receive(c)
    PROVE  Unseen \/ Settles(c)
  <1> DEFINE n == taken[c] + 1
  <1>1. /\ c \in Sessions /\ c \notin Calls /\ SessionOK(c) /\ SharedOK
    BY DispatchAssumption DEF Sessions, DispatchInv
  <1>2. /\ at[c] = "open" /\ UNCHANGED sent /\ taken' = [taken EXCEPT ![c] = taken[c] + 1]
        /\ taken[c] < Len(sent[c]) /\ taken[c] \in Nat /\ n \in Numbers
    BY <1>1 DEF Receive, Listening, Pending, SessionOK, Numbers
  <1>3. \/ at' = [at EXCEPT ![c] = "closed"] /\ UNCHANGED replies
        \/ /\ at' = [at EXCEPT ![c] = "open"]
           /\ replies' = [replies EXCEPT ![c] = replies[c] \o Told(c, n, FALSE)]
        \/ at' = [at EXCEPT ![c] = "running"] /\ UNCHANGED replies
    <2>1. at' = [at EXCEPT ![c] = IF c \in Calls THEN "answered" ELSE "open"]
          => at' = [at EXCEPT ![c] = "open"]
      BY <1>1
    <2>2. QED
      BY <2>1 DEF Receive, NextFrame, Settle, Dispatch, Go
  <1> HIDE DEF n
  <1>4. \A d \in Connections : d # c => Settled(d)' = Settled(d) /\ replies'[d] = replies[d]
    BY <1>1, <1>2, <1>3 DEF SharedOK, Settled, Sessions
  <1>5. Settled(c) = taken[c] /\ taken'[c] = taken[c] + 1 /\ n = taken[c] + 1
    BY <1>1, <1>2 DEF Settled, SharedOK, n
  <1>6. CASE at' = [at EXCEPT ![c] = "closed"] /\ UNCHANGED replies
    <2>1. Settled(c)' = taken[c] + 1
      BY <1>1, <1>5, <1>6 DEF Settled, SharedOK
    <2>2. QED
      BY <1>2, <1>4, <1>5, <1>6, <2>1 DEF Settles
  <1>7. CASE /\ at' = [at EXCEPT ![c] = "open"]
             /\ replies' = [replies EXCEPT ![c] = replies[c] \o Told(c, n, FALSE)]
    <2>1. Settled(c)' = taken[c] + 1
      BY <1>1, <1>5, <1>7 DEF Settled, SharedOK
    <2>2. replies[c] \in Seq(Reply) /\ replies'[c] = replies[c] \o Told(c, n, FALSE)
      BY <1>1, <1>7 DEF SessionOK, SharedOK
    <2>3. \/ replies'[c] = replies[c]
          \/ \E a \in Fifo!Answer(n) : replies'[c] = Append(replies[c], a)
      BY <1>1, <1>2, <2>2, AnswersGrow
    <2>4. QED
      BY <1>2, <1>4, <1>5, <2>1, <2>3 DEF Settles
  <1>8. CASE at' = [at EXCEPT ![c] = "running"] /\ UNCHANGED replies
    <2>1. at'[c] = "running"
      BY <1>1, <1>8 DEF SharedOK
    <2>2. Settled(c)' = Settled(c)
      BY <1>2, <1>5, <2>1 DEF Settled
    <2>3. QED
      BY <1>2, <1>4, <1>8, <2>2 DEF Unseen
  <1>9. QED
    BY <1>3, <1>6, <1>7, <1>8

\* The frame whose handler returns is the one that was taken last.
LEMMA ReturnSettles ==
    ASSUME DispatchInv, NEW c \in Connections, NEW result \in {"ok", "failed"}, Return(c, result)
    PROVE  Settles(c)
  <1> DEFINE n == runs[c][Len(runs[c])].frame
  <1>1. /\ c \in Sessions /\ c \notin Calls /\ SessionOK(c) /\ SharedOK /\ at[c] = "running"
    BY DispatchAssumption DEF Sessions, DispatchInv, Return
  <1>2. PICK ok \in BOOLEAN : Settle(c, n, ok)
    BY DEF Return
  <1>3. /\ at' = [at EXCEPT ![c] = "open"] /\ UNCHANGED <<sent, taken>>
        /\ replies' = [replies EXCEPT ![c] = replies[c] \o Told(c, n, ok)]
    BY <1>1, <1>2 DEF Return, Settle, Go
  <1>4. n = taken[c] /\ n \in Numbers /\ taken[c] \in 0..Len(sent[c]) /\ Len(sent[c]) \in Nat
    <2>1. /\ n = taken[c] /\ runs[c] \in Seq(Run) /\ runs[c] # <<>>
          /\ taken[c] \in 0..Len(sent[c]) /\ sent[c] \in Seq(Frame)
      BY <1>1 DEF SessionOK, RunsOK
    <2>2. Len(runs[c]) \in DOMAIN runs[c]
      BY <2>1
    <2>3. n \in Numbers
      BY <2>1, <2>2, RunsAreTyped DEF Numbers
    <2>4. QED
      BY <2>1, <2>3
  <1> HIDE DEF n
  <1>5. /\ at'[c] = "open" /\ replies'[c] = replies[c] \o Told(c, n, ok)
        /\ \A d \in Connections : d # c => Settled(d)' = Settled(d) /\ replies'[d] = replies[d]
    BY <1>1, <1>3 DEF SharedOK, Settled, Sessions
  <1>6. \/ replies'[c] = replies[c]
        \/ \E a \in Fifo!Answer(n) : replies'[c] = Append(replies[c], a)
    <2>1. replies[c] \in Seq(Reply)
      BY <1>1 DEF SessionOK
    <2>2. CASE ok = TRUE
      <3>1. replies'[c] = replies[c] \o Told(c, n, TRUE)
        BY <1>5, <2>2
      <3>2. QED
        BY <1>1, <1>4, <2>1, <3>1, AnswersGrow
    <2>3. CASE ok = FALSE
      <3>1. replies'[c] = replies[c] \o Told(c, n, FALSE)
        BY <1>5, <2>3
      <3>2. QED
        BY <1>1, <1>4, <2>1, <3>1, AnswersGrow
    <2>4. QED
      BY <2>2, <2>3
  <1>7. Settled(c) = n - 1 /\ Settled(c)' = n
    BY <1>1, <1>3, <1>4, <1>5 DEF Settled
  <1>8. n - 1 \in Nat /\ n - 1 < Len(sent[c]) /\ n = (n - 1) + 1
    BY <1>4 DEF Numbers
  <1>9. QED
    BY <1>3, <1>5, <1>6, <1>7, <1>8 DEF Settles

\* What a call does and what is registered is not seen by any connection.
LEMMA CallsAreUnseen ==
    ASSUME DispatchInv, NEW k \in Calls,
           \/ \E frame \in Request : GrpcCall(k, frame) \/ ClientCall(k, frame)
           \/ Poll(k) \/ Drop(k) \/ Returns(k)
    PROVE  \A c \in Connections :
              sent'[c] = sent[c] /\ Settled(c)' = Settled(c) /\ replies'[c] = replies[c]
  <1>1. SharedOK /\ k \in Sessions /\ \A c \in Connections : c # k
    BY DispatchAssumption DEF DispatchInv, Sessions
  <1>2. /\ at' = at \/ \E x : at' = [at EXCEPT ![k] = x]
        /\ sent' = sent \/ \E x : sent' = [sent EXCEPT ![k] = x]
        /\ taken' = taken \/ \E x : taken' = [taken EXCEPT ![k] = x]
        /\ replies' = replies \/ \E x : replies' = [replies EXCEPT ![k] = x]
    BY DEF GrpcCall, ClientCall, Poll, Drop, Returns, Return, Ask, Dispatch, Settle, Go
  <1>3. QED
    BY <1>1, <1>2 DEF SharedOK, Sessions, Settled

LEMMA EachStepIsSeen ==
    ASSUME DispatchInv, [Next]_vars
    PROVE  \/ \A c \in Connections :
                 sent'[c] = sent[c] /\ Settled(c)' = Settled(c) /\ replies'[c] = replies[c]
           \/ \E c \in Connections : Asks(c) \/ Settles(c)
  <1>1. ASSUME \/ UNCHANGED vars
               \/ \E kind \in Kinds, pattern \in Patterns : Register(kind, pattern)
               \/ Build
               \/ \E c \in Connections, user \in Users : Login(c, user)
        PROVE  \A c \in Connections :
                  sent'[c] = sent[c] /\ Settled(c)' = Settled(c) /\ replies'[c] = replies[c]
    BY <1>1 DEF vars, Register, Build, Login, Settled
  <1>2. ASSUME NEW c \in Connections, Upgrade(c) \/ Lose(c)
        PROVE  \A d \in Connections :
                  sent'[d] = sent[d] /\ Settled(d)' = Settled(d) /\ replies'[d] = replies[d]
    BY <1>2 DEF Upgrade, Lose, Go, Settled, DispatchInv, SharedOK, Sessions
  <1>3. ASSUME NEW s \in Sessions, Returns(s)
        PROVE  \/ \A c \in Connections :
                     sent'[c] = sent[c] /\ Settled(c)' = Settled(c) /\ replies'[c] = replies[c]
               \/ \E c \in Connections : Settles(c)
    BY <1>3, ReturnSettles, CallsAreUnseen DEF Returns, Sessions
  <1>4. ASSUME NEW c \in Connections, Receive(c)
        PROVE  \/ \A d \in Connections :
                     sent'[d] = sent[d] /\ Settled(d)' = Settled(d) /\ replies'[d] = replies[d]
               \/ Settles(c)
    BY <1>4, ReceiveSettles DEF Unseen
  <1>5. QED
    BY <1>1, <1>2, <1>3, <1>4, SendFrameAsks, CallsAreUnseen DEF Next

\* However its loop, its client and the other sessions interleave, a
\* connection settles its frames in the order in which they came, each once
\* and with one answer at most, and a success names its frame
\* (the gateway's loop, handle_websocket_microservice_message).
THEOREM ConnectionsAnswerInOrder == Spec => AnswersInOrder
  <1>1. DispatchInv /\ Init => Fifo!Init
    BY DEF Init, Fifo!Init, Settled, Sessions
  <1>2. ASSUME DispatchInv, [Next]_vars
        PROVE  [Fifo!Next]_<<[c \in Connections |-> Len(sent[c])],
                             [c \in Connections |-> Settled(c)],
                             [c \in Connections |-> replies[c]]>>
    <2>1. CASE \A c \in Connections :
                  sent'[c] = sent[c] /\ Settled(c)' = Settled(c) /\ replies'[c] = replies[c]
      BY <2>1
    <2>2. ASSUME NEW c \in Connections, Asks(c) PROVE Fifo!Ask(c)
      BY <2>2 DEF Asks, Fifo!Ask
    <2>3. ASSUME NEW c \in Connections, Settles(c) PROVE Fifo!Settle(c)
      BY <2>3 DEF Settles, Fifo!Settle
    <2>4. QED
      BY <1>2, <2>1, <2>2, <2>3, EachStepIsSeen DEF Fifo!Next
  <1>3. QED
    BY <1>1, <1>2, InitKeeps, NextKeeps, PTL DEF Spec, AnswersInOrder, Fifo!Spec

=============================================================================
