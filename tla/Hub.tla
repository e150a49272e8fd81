-------------------------------- MODULE Hub --------------------------------
(***************************************************************************)
(* The live runs of the web interface (internal/uiserver/hub.go) and the   *)
(* handlers that start, stop and stream them (server.go).  Every POST      *)
(* /api/run, every /api/stop and every /api/stream is a goroutine of its   *)
(* own, and so is the engine of every run.  A section under hub.mu or      *)
(* run.mu is one step; everything else interleaves.                        *)
(*                                                                         *)
(* A run is known by the number its starter drew from hub.next.  Of the    *)
(* engine the model keeps the loop of Run: the context is looked at        *)
(* between two ticks, a frame is offered after a tick that is due, and one *)
(* last frame when the loop is left.                                       *)
(***************************************************************************)
EXTENDS Integers, Sequences, FiniteSets, Functions

CONSTANTS
  Starters, Stoppers, Viewers,  \* the requests of each kind
  Ticks, Interval,              \* Config.Ticks, streamObserver.every
  Cap,                          \* the capacity of streamObserver.ch: 256
  Unlimited,                    \* Server.DisableLimits: no runTimeout
  None                          \* no run

Runs == 1 .. Cardinality(Starters)

ASSUME HubAssumption ==
  /\ IsFiniteSet(Starters)
  /\ Ticks \in Nat /\ Interval \in Nat \ {0} /\ Cap \in Nat \ {0}
  /\ Unlimited \in BOOLEAN
  /\ None \notin Runs

VARIABLES
  next,              \* hub.next
  runs,              \* the keys of hub.runs
  starter, idOf,     \* where each start is, and its run
  stopper, target,   \* where each stop is, and the run it looked up
  dead,              \* run -> its context is done
  engine,            \* run -> where its goroutine is
  t,                 \* run -> ticks completed
  buf,               \* run -> the frames in streamObserver.ch
  dropped,           \* run -> streamObserver.dropped
  stored,            \* run -> run.res, the ticks it reports, None until run.done
  viewer, watched,   \* where each stream handler is, and its run
  held, seen,        \* the frame it holds, the frames it has written
  lost,              \* the frames it could not write
  report             \* what its "end" event said

hubVars == <<next, runs>>
startVars == <<starter, idOf>>
stopVars == <<stopper, target>>
runVars == <<engine, t, buf, dropped, stored>>
viewVars == <<viewer, watched, held, seen, lost, report>>
vars == <<hubVars, startVars, stopVars, dead, runVars, viewVars>>

\* A frame is named by its tick; the last one by the ticks completed.
Frames == 0 .. Ticks
NoFrame == -1
NoReport == [result |-> None, dropped |-> 0]

Init ==
  /\ next = 0 /\ runs = {}
  /\ starter = [s \in Starters |-> "new"] /\ idOf = [s \in Starters |-> None]
  /\ stopper = [x \in Stoppers |-> "new"] /\ target = [x \in Stoppers |-> None]
  /\ dead = [r \in Runs |-> FALSE]
  /\ engine = [r \in Runs |-> "none"]
  /\ t = [r \in Runs |-> 0]
  /\ buf = [r \in Runs |-> <<>>]
  /\ dropped = [r \in Runs |-> 0]
  /\ stored = [r \in Runs |-> None]
  /\ viewer = [v \in Viewers |-> "new"] /\ watched = [v \in Viewers |-> None]
  /\ held = [v \in Viewers |-> NoFrame]
  /\ seen = [v \in Viewers |-> <<>>]
  /\ lost = [v \in Viewers |-> 0]
  /\ report = [v \in Viewers |-> NoReport]

(***************************************************************************)
(* hub.start                                                               *)
(***************************************************************************)
\* The context is made and its timeout runs, then the number is drawn; the
\* lock is not held yet.
Alloc(s) ==
  /\ starter[s] = "new"
  /\ starter' = [starter EXCEPT ![s] = "allocated"]
  /\ next' = next + 1
  /\ idOf' = [idOf EXCEPT ![s] = next']
  /\ UNCHANGED <<runs, stopVars, dead, runVars, viewVars>>

\* Under hub.mu: every run of the map is cancelled and forgotten.  Mutation:
\* it is only forgotten.
EvictedSilently == {}
Evicted == runs

Register(s) ==
  /\ starter[s] = "allocated"
  /\ dead' = [r \in Runs |-> dead[r] \/ r \in Evicted]
  /\ runs' = {idOf[s]}
  /\ starter' = [starter EXCEPT ![s] = "registered"]
  /\ UNCHANGED <<next, idOf, stopVars, runVars, viewVars>>

\* go func() { eng.Run(...) }, and the handler answers.
Launch(s) ==
  /\ starter[s] = "registered"
  /\ engine' = [engine EXCEPT ![idOf[s]] = "loop"]
  /\ starter' = [starter EXCEPT ![s] = "answered"]
  /\ UNCHANGED <<hubVars, idOf, stopVars, dead, t, buf, dropped, stored, viewVars>>

Starter(s) == Alloc(s) \/ Register(s) \/ Launch(s)

\* runTimeout passes, at any time after the context was made.
Expire(r) ==
  /\ ~Unlimited /\ r <= next /\ ~dead[r]
  /\ dead' = [dead EXCEPT ![r] = TRUE]
  /\ UNCHANGED <<hubVars, startVars, stopVars, runVars, viewVars>>

(***************************************************************************)
(* hub.stop: the run is looked up under hub.mu and cancelled after it.     *)
(***************************************************************************)
LookUp(x, r) ==
  /\ stopper[x] = "new"
  /\ IF r \in runs
     THEN stopper' = [stopper EXCEPT ![x] = "found"] /\ target' = [target EXCEPT ![x] = r]
     ELSE stopper' = [stopper EXCEPT ![x] = "missing"] /\ UNCHANGED target
  /\ UNCHANGED <<hubVars, startVars, dead, runVars, viewVars>>

CancelFound(x) ==
  /\ stopper[x] = "found"
  /\ stopper' = [stopper EXCEPT ![x] = "stopped"]
  /\ dead' = [dead EXCEPT ![target[x]] = TRUE]
  /\ UNCHANGED <<hubVars, startVars, target, runVars, viewVars>>

(***************************************************************************)
(* The goroutine of a run.                                                 *)
(***************************************************************************)
LoopHead(r) ==
  /\ engine[r] = "loop"
  /\ engine' = [engine EXCEPT ![r] = IF t[r] < Ticks /\ ~dead[r] THEN "tick" ELSE "final"]
  /\ UNCHANGED <<hubVars, startVars, stopVars, dead, t, buf, dropped, stored, viewVars>>

\* streamObserver.OnTick never waits: a frame the buffer has no room for is
\* dropped and counted.  Mutations: the buffer has no bound; OnTick waits for
\* room; it drops the oldest; it does not count.
OfferUnbounded(r, f) ==
  /\ buf' = [buf EXCEPT ![r] = Append(@, f)]
  /\ UNCHANGED dropped
OfferAndWait(r, f) ==
  /\ Len(buf[r]) < Cap
  /\ buf' = [buf EXCEPT ![r] = Append(@, f)]
  /\ UNCHANGED dropped
OfferDropOldest(r, f) ==
  /\ buf' = [buf EXCEPT ![r] = Append(IF Len(@) < Cap THEN @ ELSE Tail(@), f)]
  /\ dropped' = [dropped EXCEPT ![r] = IF Len(buf[r]) < Cap THEN @ ELSE @ + 1]
OfferUncounted(r, f) ==
  /\ buf' = [buf EXCEPT ![r] = IF Len(@) < Cap THEN Append(@, f) ELSE @]
  /\ UNCHANGED dropped
Offer(r, f) ==
  IF Len(buf[r]) < Cap
  THEN buf' = [buf EXCEPT ![r] = Append(@, f)] /\ UNCHANGED dropped
  ELSE dropped' = [dropped EXCEPT ![r] = @ + 1] /\ UNCHANGED buf

\* A frame bears the number of the tick before which it fell due.  Mutation:
\* the number after it, which the last frame bears too.
CountedAfter(r) == t[r] + 1
Label(r) == t[r]

TickDone(r) ==
  /\ engine[r] = "tick"
  /\ t' = [t EXCEPT ![r] = @ + 1]
  /\ IF t[r] % Interval = 0 THEN Offer(r, Label(r)) ELSE UNCHANGED <<buf, dropped>>
  /\ engine' = [engine EXCEPT ![r] = "loop"]
  /\ UNCHANGED <<hubVars, startVars, stopVars, dead, stored, viewVars>>

LastFrame(r) ==
  /\ engine[r] = "final"
  /\ Offer(r, t[r])
  /\ engine' = [engine EXCEPT ![r] = "returned"]
  /\ UNCHANGED <<hubVars, startVars, stopVars, dead, t, stored, viewVars>>

\* Under run.mu: r.res, r.err, r.done = res, err, true.
Store(r) ==
  /\ engine[r] = "returned"
  /\ stored' = [stored EXCEPT ![r] = t[r]]
  /\ engine' = [engine EXCEPT ![r] = "stored"]
  /\ UNCHANGED <<hubVars, startVars, stopVars, dead, t, buf, dropped, viewVars>>

\* close(r.obs.ch), then the deferred cancel().
Close(r) ==
  /\ engine[r] = "stored"
  /\ engine' = [engine EXCEPT ![r] = "ended"]
  /\ dead' = [dead EXCEPT ![r] = TRUE]
  /\ UNCHANGED <<hubVars, startVars, stopVars, t, buf, dropped, stored, viewVars>>

Engine(r) == LoopHead(r) \/ TickDone(r) \/ LastFrame(r) \/ Store(r) \/ Close(r)

(***************************************************************************)
(* handleStream.                                                           *)
(***************************************************************************)
\* hub.get: a run that was evicted, or never was, is not found; one that ended is.
Connect(v, r) ==
  /\ viewer[v] = "new"
  /\ IF r \in runs
     THEN viewer' = [viewer EXCEPT ![v] = "streaming"] /\ watched' = [watched EXCEPT ![v] = r]
     ELSE viewer' = [viewer EXCEPT ![v] = "refused"] /\ UNCHANGED watched
  /\ UNCHANGED <<hubVars, startVars, stopVars, dead, runVars, held, seen, lost, report>>

AtSelect(v) == viewer[v] = "streaming" /\ held[v] = NoFrame

Receive(v) ==
  LET r == watched[v] IN
  /\ AtSelect(v) /\ buf[r] # <<>>
  /\ held' = [held EXCEPT ![v] = Head(buf[r])]
  /\ buf' = [buf EXCEPT ![r] = Tail(@)]
  /\ UNCHANGED <<hubVars, startVars, stopVars, dead, engine, t, dropped, stored,
                 viewer, watched, seen, lost, report>>

Write(v) ==
  /\ held[v] # NoFrame
  /\ seen' = [seen EXCEPT ![v] = Append(@, held[v])]
  /\ held' = [held EXCEPT ![v] = NoFrame]
  /\ UNCHANGED <<hubVars, startVars, stopVars, dead, runVars, viewer, watched, lost, report>>

\* The browser is gone: the write fails and the frame in hand goes with it,
\* or the select sees r.Context() done.
WriteFails(v) ==
  /\ held[v] # NoFrame
  /\ lost' = [lost EXCEPT ![v] = @ + 1]
  /\ held' = [held EXCEPT ![v] = NoFrame]
  /\ viewer' = [viewer EXCEPT ![v] = "gone"]
  /\ UNCHANGED <<hubVars, startVars, stopVars, dead, runVars, watched, seen, report>>

Leave(v) ==
  /\ AtSelect(v)
  /\ viewer' = [viewer EXCEPT ![v] = "gone"]
  /\ UNCHANGED <<hubVars, startVars, stopVars, dead, runVars, watched, held, seen, lost, report>>

\* The channel is closed and drained.  Mutations: it is never closed; it
\* is closed before the result is stored.
NeverClosed(r) == FALSE
ClosedEarly(r) == engine[r] \in {"returned", "stored", "ended"}
Closed(r) == engine[r] = "ended"

End(v) ==
  LET r == watched[v] IN
  /\ AtSelect(v) /\ buf[r] = <<>> /\ Closed(r)
  /\ report' = [report EXCEPT ![v] = [result |-> stored[r], dropped |-> dropped[r]]]
  /\ viewer' = [viewer EXCEPT ![v] = "ended"]
  /\ UNCHANGED <<hubVars, startVars, stopVars, dead, runVars, watched, held, seen, lost>>

Stream(v) == Receive(v) \/ Write(v) \/ WriteFails(v) \/ End(v)

Next ==
  \/ \E s \in Starters : Starter(s)
  \/ \E x \in Stoppers : CancelFound(x) \/ \E r \in Runs : LookUp(x, r)
  \/ \E r \in Runs : Expire(r) \/ Engine(r)
  \/ \E v \in Viewers : Stream(v) \/ Leave(v) \/ \E r \in Runs : Connect(v, r)

\* Goroutines that can run are scheduled.  Requests need not come, browsers
\* need not leave, and no timeout need pass; a write ends, well or badly.
Scheduled ==
  /\ \A s \in Starters : WF_vars(Launch(s))
  /\ \A r \in Runs : WF_vars(Engine(r))
  /\ \A v \in Viewers : WF_vars(Stream(v))

Spec == Init /\ [][Next]_vars /\ Scheduled
-----------------------------------------------------------------------------
(***************************************************************************)
(* Properties.                                                             *)
(***************************************************************************)
Taken(v) == IF held[v] = NoFrame THEN seen[v] ELSE Append(seen[v], held[v])
WatchersOf(r) == {v \in Viewers : watched[v] = r}
Ascending(s) == \A m, n \in DOMAIN s : m < n => s[m] < s[n]

\* The frames Run has offered to the observer of r.
Offered(r) ==
  Cardinality({k \in 0 .. t[r] - 1 : k % Interval = 0})
  + IF engine[r] \in {"returned", "stored", "ended"} THEN 1 ELSE 0

\* The variables hold what their Go types allow: the channel never exceeds its
\* capacity, and a handler holds a frame only while it streams.
TypeOK ==
  /\ next \in 0 .. Cardinality(Starters) /\ runs \subseteq 1 .. next
  /\ starter \in [Starters -> {"new", "allocated", "registered", "answered"}]
  /\ idOf \in [Starters -> Runs \cup {None}]
  /\ stopper \in [Stoppers -> {"new", "found", "missing", "stopped"}]
  /\ target \in [Stoppers -> Runs \cup {None}]
  /\ dead \in [Runs -> BOOLEAN]
  /\ engine \in [Runs -> {"none", "loop", "tick", "final", "returned", "stored", "ended"}]
  /\ t \in [Runs -> 0 .. Ticks] /\ dropped \in [Runs -> Nat]
  /\ buf \in [Runs -> Seq(Frames)] /\ \A r \in Runs : Len(buf[r]) <= Cap
  /\ stored \in [Runs -> Frames \cup {None}]
  /\ viewer \in [Viewers -> {"new", "refused", "streaming", "gone", "ended"}]
  /\ watched \in [Viewers -> Runs \cup {None}]
  /\ held \in [Viewers -> Frames \cup {NoFrame}]
  /\ \A v \in Viewers : held[v] # NoFrame => viewer[v] = "streaming"
  /\ seen \in [Viewers -> Seq(Frames)] /\ lost \in [Viewers -> 0 .. 1]
  /\ report \in [Viewers -> [result : Frames \cup {None}, dropped : Nat]]

\* The frames that left the channel of r, by who took them: v took n of them.
PassedTo(v) == Len(Taken(v)) + lost[v]
PassedOn(r) == UNION {{v} \X (1 .. PassedTo(v)) : v \in WatchersOf(r)}

\* Every frame is accounted for once: dropped and counted, waiting, in a
\* handler's hands, written, or lost with the browser it was for.
FramesAccountedFor ==
  \A r \in Runs :
    Offered(r) = dropped[r] + Len(buf[r]) + Cardinality(PassedOn(r))

\* A browser sees ticks in ascending order, and two browsers on one run share
\* its frames: none is shown twice and none is shown after a later one.
FramesInOrder ==
  \A v \in Viewers :
    /\ Ascending(Taken(v))
    /\ \A r \in Runs : v \in WatchersOf(r) =>
         Ascending(Taken(v) \o buf[r])
    /\ \A w \in Viewers \ {v} :
         watched[v] # None /\ watched[v] = watched[w] =>
           Range(Taken(v)) \cap Range(Taken(w)) = {}

\* A browser that connects a moment late still finds the opening frame, the
\* only one with the walls: a full buffer drops new frames (hub.go 81-82).
OpeningFrameKept ==
  \A r \in Runs :
    Offered(r) > 0 /\ (\A v \in WatchersOf(r) : Taken(v) = <<>> /\ lost[v] = 0) =>
      buf[r] # <<>> /\ Head(buf[r]) = 0

\* The "end" event tells the whole story: the result of the finished run, and
\* the number of frames that were dropped in all.
EndIsFinal ==
  \A v \in Viewers : viewer[v] = "ended" =>
    report[v] = [result |-> t[watched[v]], dropped |-> dropped[watched[v]]]
    /\ engine[watched[v]] = "ended" /\ buf[watched[v]] = <<>>

\* A run no longer in the map can no longer be stopped by its id: it has been
\* cancelled, whenever its own start was overtaken.  So at most one run past
\* registration has a live context.
ForgottenRunsAreCancelled ==
  \A s \in Starters :
    starter[s] \in {"registered", "answered"} /\ idOf[s] \notin runs => dead[idOf[s]]

\* "Only one live run at a time [...] concurrent runs would compete for the
\* same cores" (hub.go 88-90): no two engines are inside a tick together.
OneLiveRun == \A q, r \in Runs : engine[q] = "tick" /\ engine[r] = "tick" => q = r

\* The engine never waits for a browser: a launched run ends, whoever watches.
RunEnds == \A r \in Runs : engine[r] = "loop" ~> engine[r] = "ended"

\* A browser that stays is told the end, even of a run evicted or stopped.
StreamEnds == \A v \in Viewers : viewer[v] = "streaming" ~> viewer[v] \in {"ended", "gone"}
=============================================================================
