------------------------------ MODULE UiClient ------------------------------
(***************************************************************************)
(* The live run as the page sees it (internal/uiserver/static/app.js): the *)
(* Start and Stop buttons, the requests they send, and the EventSource of  *)
(* every run that was answered.  A handler of the page is one step;        *)
(* requests and answers travel on their own, in any order, and may be      *)
(* lost; a stream may break and reconnects by itself.                      *)
(*                                                                         *)
(* Of the server it keeps what Hub shows of it: the map holds the run that *)
(* registered last, also after it ended; the others were cancelled and are *)
(* not found; a run offers its frames, the first of which has the walls,   *)
(* and its stream ends with "end".                                         *)
(***************************************************************************)
EXTENDS Integers, FiniteSets

CONSTANTS
  Clicks,      \* the clicks on Start
  Visitors,    \* the starts of other pages
  FrameCount,  \* bound: the frames of a run before its last one
  MaxDrops,    \* bound: the streams that break
  Patient,     \* the user waits for an answer before clicking Start again
  None

Runs == 1 .. Cardinality(Clicks) + Cardinality(Visitors)

ASSUME UiAssumption ==
  /\ IsFiniteSet(Clicks) /\ IsFiniteSet(Visitors)
  /\ FrameCount \in Nat /\ MaxDrops \in Nat
  /\ Patient \in BOOLEAN
  /\ None \notin Runs

VARIABLES
  currentRun, eventSource,  \* the globals of the page, by the number of the run
  cachedWalls,              \* the run whose walls it draws
  disabled,                 \* the Start button
  post, made,               \* click -> where its POST is, and the run it made
  visitor,                  \* other page -> whether it has started its run
  stops,                    \* the runs with a POST /api/stop under way
  source,                   \* run -> readyState of the EventSource made for it
  drops,                    \* the streams that broke so far
  next, found,              \* hub.next, the run in hub.runs
  cancelled, engine,        \* the runs with a dead context; run -> its goroutine
  offered, taken            \* run -> frames put into, and taken from its channel

pageVars == <<currentRun, eventSource, cachedWalls, disabled>>
sentVars == <<post, made, visitor, stops>>
hubVars == <<next, found, cancelled>>
frameVars == <<engine, offered, taken>>
vars == <<pageVars, sentVars, source, drops, hubVars, frameVars>>

Init ==
  /\ currentRun = None /\ eventSource = None /\ cachedWalls = None /\ disabled = FALSE
  /\ post = [p \in Clicks |-> "new"] /\ made = [p \in Clicks |-> None]
  /\ visitor = [v \in Visitors |-> "new"]
  /\ stops = {}
  /\ source = [r \in Runs |-> "none"] /\ drops = 0
  /\ next = 0 /\ found = None /\ cancelled = {}
  /\ engine = [r \in Runs |-> "none"]
  /\ offered = [r \in Runs |-> 0] /\ taken = [r \in Runs |-> 0]

(***************************************************************************)
(* The page.                                                               *)
(***************************************************************************)
\* closeStream, which leaves of the sources what `left` says of them.  Mutation:
\* the EventSource is forgotten and not closed.
Forgotten(left) == left
Closed(left) ==
  IF eventSource = None THEN left ELSE [left EXCEPT ![eventSource] = "closed"]

CloseStream(left) ==
  /\ source' = Closed(left)
  /\ eventSource' = None /\ currentRun' = None /\ disabled' = FALSE
  /\ UNCHANGED cachedWalls

\* stopRun: the request is sent and not waited for.
StopRun ==
  /\ stops' = IF currentRun = None THEN stops ELSE stops \cup {currentRun}
  /\ CloseStream(source)

ClickStop == StopRun /\ UNCHANGED <<post, made, visitor, drops, hubVars, frameVars>>

\* startRun up to its await.
ClickStart(p) ==
  /\ post[p] = "new" /\ ~disabled
  /\ Patient => \A q \in Clicks : post[q] \notin {"sent", "answering"}
  /\ StopRun
  /\ post' = [post EXCEPT ![p] = "sent"]
  /\ UNCHANGED <<made, visitor, drops, hubVars, frameVars>>

\* startRun after its await.  Mutation: the walls of the run before stay.
WallsKept == cachedWalls
WallsReset == None

Answer(p) ==
  /\ post[p] = "answering"
  /\ post' = [post EXCEPT ![p] = "done"]
  /\ currentRun' = made[p] /\ eventSource' = made[p]
  /\ cachedWalls' = WallsReset
  /\ disabled' = TRUE
  /\ source' = [source EXCEPT ![made[p]] = "connecting"]
  /\ UNCHANGED <<made, visitor, stops, drops, hubVars, frameVars>>

\* The catch of startRun: refused, or the answer did not arrive.
Fail(p) ==
  /\ post[p] \in {"sent", "answering"}
  /\ post' = [post EXCEPT ![p] = "done"]
  /\ UNCHANGED <<pageVars, made, visitor, stops, source, drops, hubVars, frameVars>>

(***************************************************************************)
(* The server.                                                             *)
(***************************************************************************)
StartRun ==
  /\ next' = next + 1
  /\ cancelled' = IF found = None THEN cancelled ELSE cancelled \cup {found}
  /\ found' = next'
  /\ engine' = [engine EXCEPT ![next'] = "running"]
  /\ UNCHANGED <<offered, taken>>

HandleRun(p) ==
  /\ post[p] = "sent"
  /\ StartRun
  /\ post' = [post EXCEPT ![p] = "answering"]
  /\ made' = [made EXCEPT ![p] = next']
  /\ UNCHANGED <<pageVars, visitor, stops, source, drops>>

Visit(v) ==
  /\ visitor[v] = "new"
  /\ StartRun
  /\ visitor' = [visitor EXCEPT ![v] = "started"]
  /\ UNCHANGED <<pageVars, post, made, stops, source, drops>>

\* The stop request arrives, or is lost.
HandleStop(r) ==
  /\ r \in stops
  /\ stops' = stops \ {r}
  /\ cancelled' = IF found = r THEN cancelled \cup {r} ELSE cancelled
  /\ UNCHANGED <<pageVars, post, made, visitor, source, drops, next, found, frameVars>>

LoseStop(r) ==
  /\ r \in stops
  /\ stops' = stops \ {r}
  /\ UNCHANGED <<pageVars, post, made, visitor, source, drops, hubVars, frameVars>>

Tick(r) ==
  /\ engine[r] = "running" /\ r \notin cancelled /\ offered[r] < FrameCount
  /\ offered' = [offered EXCEPT ![r] = @ + 1]
  /\ UNCHANGED <<pageVars, sentVars, source, drops, hubVars, engine, taken>>

Finish(r) ==
  /\ engine[r] = "running" /\ (r \in cancelled \/ offered[r] = FrameCount)
  /\ offered' = [offered EXCEPT ![r] = @ + 1]
  /\ engine' = [engine EXCEPT ![r] = "ended"]
  /\ UNCHANGED <<pageVars, sentVars, source, drops, hubVars, taken>>

(***************************************************************************)
(* The EventSource of run r.                                               *)
(***************************************************************************)
\* The handler of a failed connection looks at the page's EventSource, whichever
\* that is by now.  Mutation: the page has no such handler.
NoHandler(r) == FALSE
OnErrorCloses(r) == eventSource = r

Connect(r) ==
  /\ source[r] = "connecting"
  /\ IF found = r
     THEN source' = [source EXCEPT ![r] = "open"] /\ UNCHANGED pageVars
     ELSE IF OnErrorCloses(r)
     THEN CloseStream([source EXCEPT ![r] = "closed"])
     ELSE source' = [source EXCEPT ![r] = "closed"] /\ UNCHANGED pageVars
  /\ UNCHANGED <<sentVars, drops, hubVars, frameVars>>

\* onmessage: the first frame brings the walls.
Message(r) ==
  /\ source[r] = "open" /\ taken[r] < offered[r]
  /\ taken' = [taken EXCEPT ![r] = @ + 1]
  /\ cachedWalls' = IF taken[r] = 0 THEN r ELSE cachedWalls
  /\ UNCHANGED <<currentRun, eventSource, disabled, sentVars, source, drops, hubVars,
                 engine, offered>>

\* "end": the server closes the connection, the page its EventSource; one that
\* is not the page's any more connects again.
End(r) ==
  /\ source[r] = "open" /\ engine[r] = "ended" /\ taken[r] = offered[r]
  /\ CloseStream([source EXCEPT ![r] = "connecting"])
  /\ UNCHANGED <<sentVars, drops, hubVars, frameVars>>

\* The connection breaks, perhaps with a frame under way.
Break(r) ==
  /\ source[r] = "open" /\ drops < MaxDrops
  /\ drops' = drops + 1
  /\ source' = [source EXCEPT ![r] = "connecting"]
  /\ taken' \in {taken, [taken EXCEPT ![r] = IF @ < offered[r] THEN @ + 1 ELSE @]}
  /\ UNCHANGED <<pageVars, sentVars, hubVars, engine, offered>>

Server(r) == Tick(r) \/ Finish(r)
Browser(r) == Connect(r) \/ Message(r) \/ End(r)

Next ==
  \/ ClickStop
  \/ \E p \in Clicks : ClickStart(p) \/ HandleRun(p) \/ Answer(p) \/ Fail(p)
  \/ \E v \in Visitors : Visit(v)
  \/ \E r \in Runs : HandleStop(r) \/ LoseStop(r) \/ Server(r) \/ Browser(r) \/ Break(r)

\* Engines tick and what a stream has to deliver is delivered; nobody need click
\* and no request need arrive.
Spec ==
  /\ Init /\ [][Next]_vars
  /\ \A r \in Runs : WF_vars(Server(r)) /\ WF_vars(Browser(r))
-----------------------------------------------------------------------------
(***************************************************************************)
(* Properties.                                                             *)
(***************************************************************************)
Unclosed == {r \in Runs : source[r] \in {"connecting", "open"}}

\* "The UI shows one colony" (hub.go 88): whatever stream may still bring a
\* frame to the canvas is the one the page knows and can close.
OneColony == Unclosed \subseteq {eventSource}

\* The walls, which only the first frame of a run brings (app.js 17), are never
\* drawn over the frames of another run: not after a reconnection that lost the
\* first frame, not in the time between an answer and that frame.
WallsOfTheColony ==
  \A r \in Runs : source[r] = "open" => cachedWalls \in {None, r}

\* A started page comes back: Start is enabled again after the run ended, was
\* stopped, or was evicted by another page, whatever requests were lost.
StartComesBack == disabled ~> ~disabled

\* No EventSource stays, neither reconnecting for ever nor open on a dead run.
SourcesClose == \A r \in Runs : source[r] = "connecting" ~> source[r] = "closed"
=============================================================================
