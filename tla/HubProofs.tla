------------------------------ MODULE HubProofs ------------------------------
(***************************************************************************)
(* The safety properties of Hub, proved for every number of starts, stops  *)
(* and browsers, every capacity, interval and length of a run.             *)
(***************************************************************************)
EXTENDS Hub, FiniteSetTheorems, SequenceTheorems, TLAPS

Came == {s \in Starters : starter[s] # "new"}

\* hub.next counts the starts that came, so a number is never given twice, and
\* the goroutine of a run is launched once.
Numbered ==
  /\ next = Cardinality(Came)
  /\ \A s \in Came : idOf[s] \in 1 .. next
  /\ \A s, u \in Came : idOf[s] = idOf[u] => s = u
  /\ \A s \in Starters : starter[s] \in {"allocated", "registered"} => engine[idOf[s]] = "none"
  /\ \A r \in Runs : r > next => engine[r] = "none"

\* Whoever refers to a run refers to one that was made.
References ==
  /\ \A x \in Stoppers : stopper[x] = "found" => target[x] \in Runs
  /\ \A v \in Viewers :
       /\ viewer[v] \in {"streaming", "gone", "ended"} => watched[v] \in Runs
       /\ viewer[v] \in {"new", "refused"} => watched[v] = None
       /\ viewer[v] # "gone" => lost[v] = 0

TicksLeft == \A r \in Runs : engine[r] = "tick" => t[r] < Ticks

HubInv == TypeOK /\ Numbered /\ References /\ TicksLeft

LEMMA RunsAreNumbers == Cardinality(Starters) \in Nat /\ Runs \subseteq Nat /\ NoFrame \notin Frames
BY HubAssumption, FS_CardinalityType DEF Runs, Frames, NoFrame

\* A start that comes raises the count by one, to a number there is a run for.
LEMMA OneMoreCame ==
  ASSUME HubInv, NEW s \in Starters, Alloc(s)
  PROVE  /\ Came' = Came \cup {s} /\ s \notin Came
         /\ next' = Cardinality(Came') /\ next' \in Runs /\ next \in Nat
<1>1. IsFiniteSet(Came) /\ IsFiniteSet(Starters)
  BY HubAssumption, FS_Subset DEF Came
<1>2. Came' = Came \cup {s} /\ s \notin Came
  BY DEF Alloc, Came, HubInv, TypeOK
<1>3. next \in Nat /\ next = Cardinality(Came)
  BY RunsAreNumbers DEF HubInv, TypeOK, Numbered
<1>4. Cardinality(Came') = next + 1
  BY <1>1, <1>2, <1>3, FS_AddElement
<1>5. Came' \in SUBSET Starters
  BY <1>2 DEF Came
<1>6. Cardinality(Came') <= Cardinality(Starters)
  BY <1>1, <1>5, FS_Subset
<1> QED
  BY <1>2, <1>3, <1>4, <1>6, RunsAreNumbers DEF Alloc, Runs

\* A step without a start that touches no goroutine before its launch.
LEMMA NumberedKept ==
  ASSUME HubInv, UNCHANGED <<next, starter, idOf>>,
         \A k \in Runs : engine[k] = "none" => engine'[k] = "none"
  PROVE  Numbered'
<1>1. \A s \in Starters : starter[s] \in {"allocated", "registered"} => idOf[s] \in Runs
  <2>1. 1 .. next \subseteq Runs
    BY RunsAreNumbers DEF HubInv, TypeOK, Runs
  <2>2. \A s \in Starters : starter[s] \in {"allocated", "registered"} => s \in Came
    BY DEF Came
  <2> QED
    BY <2>1, <2>2 DEF HubInv, Numbered
<1>2. Came' = Came
  BY DEF Came
<1> QED
  BY <1>1, <1>2 DEF HubInv, Numbered

LEMMA HubInvInit == Init => HubInv
<1> SUFFICES ASSUME Init PROVE HubInv
  OBVIOUS
<1>1. Came = {}
  BY DEF Init, Came
<1>2. next = Cardinality(Came)
  BY <1>1, FS_EmptySet DEF Init
<1>3. TypeOK
  BY RunsAreNumbers, HubAssumption DEF Init, TypeOK, Frames, NoFrame, NoReport
<1> QED
  BY <1>1, <1>2, <1>3 DEF Init, HubInv, Numbered, References, TicksLeft

LEMMA HubInvStarter == ASSUME HubInv, NEW s \in Starters, Starter(s) PROVE HubInv'
<1>1. CASE Alloc(s)
  <2>1. /\ Came' = Came \cup {s} /\ s \notin Came
        /\ next' = Cardinality(Came') /\ next' \in Runs /\ next \in Nat /\ next' = next + 1
    BY <1>1, OneMoreCame DEF Alloc
  <2>2. TypeOK'
    BY <1>1, <2>1, RunsAreNumbers
    DEF Alloc, HubInv, TypeOK, Runs, stopVars, runVars, viewVars
  <2>3. Numbered'
    <3>1. \A u \in Came : idOf'[u] = idOf[u] /\ starter'[u] = starter[u] /\ idOf[u] \in 1 .. next
      BY <1>1, <2>1 DEF Alloc, HubInv, TypeOK, Numbered, Came
    <3>2. idOf'[s] = next + 1 /\ engine'[next + 1] = "none" /\ engine' = engine
      BY <1>1, <2>1 DEF Alloc, HubInv, TypeOK, Numbered, runVars
    <3>3. \A u \in Came' : idOf'[u] \in 1 .. next'
      BY <2>1, <3>1, <3>2
    <3>4. \A u, w \in Came' : idOf'[u] = idOf'[w] => u = w
      BY <2>1, <3>1, <3>2 DEF HubInv, Numbered
    <3>5. \A u \in Starters : starter'[u] \in {"allocated", "registered"} => u \in Came'
      BY DEF Came
    <3>6. \A u \in Starters :
            starter'[u] \in {"allocated", "registered"} => engine'[idOf'[u]] = "none"
      BY <2>1, <3>1, <3>2, <3>5 DEF HubInv, Numbered, Came
    <3>7. \A r \in Runs : r > next' => engine'[r] = "none"
      BY <2>1, <3>2, RunsAreNumbers DEF HubInv, Numbered
    <3> QED
      BY <2>1, <3>3, <3>4, <3>6, <3>7 DEF Numbered
  <2> QED
    BY <1>1, <2>2, <2>3 DEF Alloc, HubInv, References, TicksLeft, stopVars, runVars, viewVars
<1>2. CASE Register(s)
  <2>1. Came' = Came /\ idOf[s] \in 1 .. next
    BY <1>2 DEF Register, Came, HubInv, TypeOK, Numbered
  <2>2. TypeOK'
    BY <1>2, <2>1 DEF Register, HubInv, TypeOK, stopVars, runVars, viewVars
  <2>3. Numbered'
    BY <1>2, <2>1 DEF Register, HubInv, TypeOK, Numbered, Came, runVars
  <2> QED
    BY <1>2, <2>2, <2>3 DEF Register, HubInv, References, TicksLeft, stopVars, runVars, viewVars
<1>3. CASE Launch(s)
  <2>1. Came' = Came /\ s \in Came
    BY <1>3 DEF Launch, Came, HubInv, TypeOK
  <2>2. TypeOK'
    BY <1>3 DEF Launch, HubInv, TypeOK, hubVars, stopVars, viewVars
  <2>3. Numbered'
    <3>1. /\ \A u \in Starters : starter'[u] # starter[u] => u = s /\ starter'[u] = "answered"
          /\ idOf' = idOf /\ next' = next /\ idOf[s] \in 1 .. next /\ next \in Nat
      BY <1>3, <2>1, RunsAreNumbers DEF Launch, HubInv, TypeOK, Numbered, hubVars
    <3>2. \A k \in Runs : k # idOf[s] => engine'[k] = engine[k]
      BY <1>3 DEF Launch, HubInv, TypeOK
    <3>3. \A u \in Starters : starter'[u] \in {"allocated", "registered"} =>
            u \in Came /\ u # s /\ idOf[u] # idOf[s] /\ idOf[u] \in Runs /\ engine[idOf[u]] = "none"
      <4>1. 1 .. next \subseteq Runs
        BY RunsAreNumbers DEF HubInv, TypeOK, Runs
      <4>2. ASSUME NEW u \in Starters, starter'[u] \in {"allocated", "registered"}
            PROVE  u \in Came /\ u # s /\ starter'[u] = starter[u]
        BY <4>2, <1>3, <3>1 DEF Launch, HubInv, TypeOK, Came
      <4> QED
        BY <2>1, <4>1, <4>2 DEF HubInv, Numbered
    <3>4. \A k \in Runs : k > next' => engine'[k] = "none"
      <4>1. ASSUME NEW k \in Runs, k > next PROVE engine'[k] = "none"
        <5>1. k # idOf[s]
          BY <4>1, <3>1, RunsAreNumbers
        <5> QED
          BY <4>1, <5>1, <3>2 DEF HubInv, Numbered
      <4> QED
        BY <3>1, <4>1
    <3>5. \A u \in Starters :
            starter'[u] \in {"allocated", "registered"} => engine'[idOf'[u]] = "none"
      BY <3>1, <3>2, <3>3
    <3> QED
      BY <2>1, <3>1, <3>4, <3>5 DEF HubInv, Numbered
  <2> QED
    BY <1>3, <2>2, <2>3 DEF Launch, HubInv, TypeOK, References, TicksLeft, stopVars, viewVars
<1> QED
  BY <1>1, <1>2, <1>3 DEF Starter

\* A frame offered to a run leaves its channel within bounds.
LEMMA OfferKeepsType ==
  ASSUME HubInv, NEW r \in Runs, NEW f \in Frames, Offer(r, f)
  PROVE  /\ buf' \in [Runs -> Seq(Frames)] /\ \A k \in Runs : Len(buf'[k]) <= Cap
         /\ dropped' \in [Runs -> Nat]
<1>1. Cap \in Nat /\ buf[r] \in Seq(Frames) /\ dropped[r] + 1 \in Nat
  BY HubAssumption DEF HubInv, TypeOK
<1>2. CASE Len(buf[r]) < Cap
  <2>1. Append(buf[r], f) \in Seq(Frames) /\ Len(Append(buf[r], f)) <= Cap
    BY <1>1, <1>2
  <2> QED
    BY <1>2, <2>1 DEF Offer, HubInv, TypeOK
<1>3. CASE ~(Len(buf[r]) < Cap)
  BY <1>1, <1>3 DEF Offer, HubInv, TypeOK
<1> QED
  BY <1>2, <1>3

LEMMA HubInvEngine == ASSUME HubInv, NEW r \in Runs, Engine(r) PROVE HubInv'
<1>1. t[r] \in Frames /\ Ticks \in Nat
  BY HubAssumption DEF HubInv, TypeOK, Frames
<1>2. CASE LoopHead(r)
  <2>1. TypeOK'
    BY <1>2 DEF LoopHead, HubInv, TypeOK, hubVars, startVars, stopVars, viewVars
  <2>2. Numbered' /\ References' /\ TicksLeft'
    BY <1>1, <1>2 DEF LoopHead, HubInv, TypeOK, Numbered, Came, References, TicksLeft,
                 hubVars, startVars, stopVars, viewVars, Frames
  <2> QED
    BY <2>1, <2>2 DEF HubInv
<1>3. CASE TickDone(r)
  <2>1. t[r] < Ticks
    BY <1>3 DEF TickDone, HubInv, TicksLeft
  <2>2. /\ buf' \in [Runs -> Seq(Frames)] /\ \A k \in Runs : Len(buf'[k]) <= Cap
        /\ dropped' \in [Runs -> Nat]
    BY <1>1, <1>3, OfferKeepsType DEF TickDone, Label, HubInv, TypeOK
  <2>3. t' \in [Runs -> 0 .. Ticks]
    BY <1>1, <1>3, <2>1 DEF TickDone, HubInv, TypeOK, Frames
  <2>4. TypeOK'
    BY <1>3, <2>2, <2>3 DEF TickDone, HubInv, TypeOK, hubVars, startVars, stopVars, viewVars
  <2>5. Numbered' /\ References' /\ TicksLeft'
    BY <1>1, <1>3 DEF TickDone, HubInv, TypeOK, Numbered, Came, References, TicksLeft,
                 hubVars, startVars, stopVars, viewVars, Frames
  <2> QED
    BY <2>4, <2>5 DEF HubInv
<1>4. CASE LastFrame(r)
  <2>1. /\ buf' \in [Runs -> Seq(Frames)] /\ \A k \in Runs : Len(buf'[k]) <= Cap
        /\ dropped' \in [Runs -> Nat]
    BY <1>1, <1>4, OfferKeepsType DEF LastFrame
  <2>2. TypeOK'
    BY <1>4, <2>1 DEF LastFrame, HubInv, TypeOK, hubVars, startVars, stopVars, viewVars
  <2>3. Numbered' /\ References' /\ TicksLeft'
    BY <1>4 DEF LastFrame, HubInv, TypeOK, Numbered, Came, References, TicksLeft,
                 hubVars, startVars, stopVars, viewVars
  <2> QED
    BY <2>2, <2>3 DEF HubInv
<1>5. CASE Store(r) \/ Close(r)
  <2>1. TypeOK'
    <3>1. CASE Store(r)
      BY <1>1, <3>1 DEF Store, HubInv, TypeOK, hubVars, startVars, stopVars, viewVars
    <3>2. CASE Close(r)
      BY <3>2 DEF Close, HubInv, TypeOK, hubVars, startVars, stopVars, viewVars
    <3> QED
      BY <1>5, <3>1, <3>2
  <2>2. /\ engine[r] # "none" /\ engine'[r] # "tick" /\ t' = t
        /\ \A k \in Runs : k # r => engine'[k] = engine[k]
    BY <1>5 DEF Store, Close, HubInv, TypeOK
  <2>3. Numbered' /\ TicksLeft'
    BY <1>5, <2>2, NumberedKept DEF Store, Close, HubInv, TicksLeft, hubVars, startVars
  <2>4. References'
    BY <1>5 DEF Store, Close, HubInv, References, stopVars, viewVars
  <2> QED
    BY <2>1, <2>3, <2>4 DEF HubInv
<1> QED
  BY <1>2, <1>3, <1>4, <1>5 DEF Engine

LEMMA HubInvStream ==
  ASSUME HubInv, NEW v \in Viewers, Stream(v) \/ Leave(v) \/ \E r \in Runs : Connect(v, r)
  PROVE  HubInv'
<1>1. CASE Receive(v)
  <2>1. watched[v] \in Runs /\ buf[watched[v]] \in Seq(Frames) /\ buf[watched[v]] # <<>>
    BY <1>1 DEF Receive, AtSelect, HubInv, TypeOK, References
  <2>2. /\ Head(buf[watched[v]]) \in Frames /\ Tail(buf[watched[v]]) \in Seq(Frames)
        /\ Len(Tail(buf[watched[v]])) <= Cap
    BY <2>1, HubAssumption DEF HubInv, TypeOK
  <2>3. TypeOK'
    BY <1>1, <2>1, <2>2
    DEF Receive, AtSelect, HubInv, TypeOK, hubVars, startVars, stopVars
  <2> QED
    BY <1>1, <2>3 DEF Receive, HubInv, Numbered, Came, References, TicksLeft,
                      hubVars, startVars, stopVars
<1>2. CASE Write(v)
  <2>1. TypeOK'
    BY <1>2 DEF Write, HubInv, TypeOK, hubVars, startVars, stopVars, runVars
  <2> QED
    BY <1>2, <2>1 DEF Write, HubInv, Numbered, Came, References, TicksLeft,
                      hubVars, startVars, stopVars, runVars
<1>3. CASE WriteFails(v)
  <2>1. viewer[v] = "streaming" /\ lost[v] = 0
    BY <1>3 DEF WriteFails, HubInv, TypeOK, References
  <2>2. TypeOK'
    BY <1>3, <2>1 DEF WriteFails, HubInv, TypeOK, hubVars, startVars, stopVars, runVars
  <2> QED
    BY <1>3, <2>1, <2>2 DEF WriteFails, HubInv, TypeOK, Numbered, Came, References, TicksLeft,
                      hubVars, startVars, stopVars, runVars
<1>4. CASE End(v) \/ Leave(v)
  <2>1. TypeOK'
    <3>1. CASE End(v)
      <4>1. /\ watched[v] \in Runs
            /\ UNCHANGED <<hubVars, startVars, stopVars, dead, runVars, watched, held, seen, lost>>
            /\ held[v] = NoFrame /\ viewer' = [viewer EXCEPT ![v] = "ended"]
        BY <3>1 DEF End, AtSelect, HubInv, References
      <4>2. report' \in [Viewers -> [result : Frames \cup {None}, dropped : Nat]]
        BY <3>1, <4>1 DEF End, HubInv, TypeOK
      <4> QED
        BY <4>1, <4>2 DEF HubInv, TypeOK, hubVars, startVars, stopVars, runVars
    <3>2. CASE Leave(v)
      BY <3>2 DEF Leave, AtSelect, HubInv, TypeOK, hubVars, startVars, stopVars, runVars
    <3> QED
      BY <1>4, <3>1, <3>2
  <2>2. References'
    BY <1>4 DEF End, Leave, AtSelect, HubInv, TypeOK, References, stopVars
  <2>3. Numbered' /\ TicksLeft'
    BY <1>4, NumberedKept DEF End, Leave, HubInv, TicksLeft, hubVars, startVars, runVars
  <2> QED
    BY <1>4, <2>1, <2>2, <2>3 DEF HubInv
<1>5. CASE \E r \in Runs : Connect(v, r)
  <2>1. PICK r \in Runs : Connect(v, r)
    BY <1>5
  <2>2. /\ viewer[v] = "new" /\ held' = held /\ seen' = seen /\ lost' = lost
        /\ \/ /\ viewer' = [viewer EXCEPT ![v] = "streaming"]
              /\ watched' = [watched EXCEPT ![v] = r]
           \/ viewer' = [viewer EXCEPT ![v] = "refused"] /\ watched' = watched
    BY <2>1 DEF Connect
  <2>3. /\ viewer' \in [Viewers -> {"new", "refused", "streaming", "gone", "ended"}]
        /\ watched' \in [Viewers -> Runs \cup {None}]
        /\ \A u \in Viewers : held'[u] # NoFrame => viewer'[u] = "streaming"
    <3>1. /\ viewer \in [Viewers -> {"new", "refused", "streaming", "gone", "ended"}]
          /\ watched \in [Viewers -> Runs \cup {None}]
          /\ \A u \in Viewers : held[u] # NoFrame => viewer[u] = "streaming"
      BY DEF HubInv, TypeOK
    <3>2. CASE viewer' = [viewer EXCEPT ![v] = "streaming"]
      BY <2>2, <3>1, <3>2
    <3>3. CASE viewer' = [viewer EXCEPT ![v] = "refused"] /\ watched' = watched
      BY <2>2, <3>1, <3>3
    <3> QED
      BY <2>2, <3>2, <3>3
  <2>4. UNCHANGED <<next, runs, starter, idOf, stopper, target, dead, engine, t, buf, dropped,
                    stored, held, seen, lost, report>>
    BY <2>1 DEF Connect, hubVars, startVars, stopVars, runVars
  <2>5. TypeOK'
    BY <2>3, <2>4 DEF HubInv, TypeOK
  <2>6. References'
    BY <2>1, <2>2 DEF Connect, HubInv, TypeOK, References, stopVars
  <2> QED
    BY <2>1, <2>5, <2>6, NumberedKept DEF Connect, HubInv, TicksLeft,
                      hubVars, startVars, runVars
<1> QED
  BY <1>1, <1>2, <1>3, <1>4, <1>5 DEF Stream

LEMMA HubInvNext == HubInv /\ [Next]_vars => HubInv'
<1> SUFFICES ASSUME HubInv, [Next]_vars PROVE HubInv'
  OBVIOUS
<1>1. CASE \E s \in Starters : Starter(s)
  BY <1>1, HubInvStarter
<1>2. CASE \E x \in Stoppers : CancelFound(x)
  BY <1>2 DEF CancelFound, HubInv, TypeOK, Numbered, Came, References, TicksLeft,
              hubVars, startVars, runVars, viewVars
<1>3. CASE \E x \in Stoppers, r \in Runs : LookUp(x, r)
  <2>1. PICK x \in Stoppers, r \in Runs : LookUp(x, r)
    BY <1>3
  <2>2. \/ stopper' = [stopper EXCEPT ![x] = "found"] /\ target' = [target EXCEPT ![x] = r]
        \/ stopper' = [stopper EXCEPT ![x] = "missing"] /\ target' = target
    BY <2>1 DEF LookUp
  <2>3. TypeOK'
    <3>1. /\ stopper' \in [Stoppers -> {"new", "found", "missing", "stopped"}]
          /\ target' \in [Stoppers -> Runs \cup {None}]
      <4>1. /\ stopper \in [Stoppers -> {"new", "found", "missing", "stopped"}]
            /\ target \in [Stoppers -> Runs \cup {None}]
        BY DEF HubInv, TypeOK
      <4> QED
        BY <2>2, <4>1
    <3>2. UNCHANGED <<next, runs, starter, idOf, dead, engine, t, buf, dropped, stored,
                      viewer, watched, held, seen, lost, report>>
      BY <2>1 DEF LookUp, hubVars, startVars, runVars, viewVars
    <3> QED
      BY <3>1, <3>2 DEF HubInv, TypeOK
  <2>4. References'
    BY <2>1, <2>2 DEF LookUp, HubInv, TypeOK, References, viewVars
  <2> QED
    BY <2>1, <2>3, <2>4 DEF LookUp, HubInv, Numbered, Came, TicksLeft, hubVars, startVars, runVars
<1>4. CASE \E r \in Runs : Expire(r)
  BY <1>4 DEF Expire, HubInv, TypeOK, Numbered, Came, References, TicksLeft,
              hubVars, startVars, stopVars, runVars, viewVars
<1>5. CASE \E r \in Runs : Engine(r)
  BY <1>5, HubInvEngine
<1>6. CASE \E v \in Viewers : Stream(v) \/ Leave(v) \/ \E r \in Runs : Connect(v, r)
  BY <1>6, HubInvStream
<1>7. CASE UNCHANGED vars
  BY <1>7 DEF vars, HubInv, TypeOK, Numbered, Came, References, TicksLeft,
              hubVars, startVars, stopVars, runVars, viewVars
<1> QED
  BY <1>1, <1>2, <1>3, <1>4, <1>5, <1>6, <1>7 DEF Next

\* The types of the variables, for any number of requests: a number is never
\* drawn that has no run, the channel never exceeds its capacity, a handler holds
\* a frame only while it streams.
THEOREM HubTypeOK == Spec => []TypeOK
<1>1. HubInv => TypeOK
  BY DEF HubInv
<1> QED
  BY <1>1, HubInvInit, HubInvNext, PTL DEF Spec

-----------------------------------------------------------------------------
(***************************************************************************)
(* Runs that left the map.                                                 *)
(***************************************************************************)
LEMMA ForgottenNext ==
  HubInv /\ ForgottenRunsAreCancelled /\ [Next]_vars => ForgottenRunsAreCancelled'
<1> SUFFICES ASSUME HubInv, ForgottenRunsAreCancelled, [Next]_vars
             PROVE  ForgottenRunsAreCancelled'
  OBVIOUS
<1> DEFINE Registered(s) == starter[s] \in {"registered", "answered"}
<1>1. \A s \in Starters : Registered(s) => idOf[s] \in Runs
  <2>1. 1 .. next \subseteq Runs
    BY RunsAreNumbers DEF HubInv, TypeOK, Runs
  <2> QED
    BY <2>1 DEF HubInv, Numbered, Came
<1>2. CASE \E s \in Starters : Register(s)
  <2>1. PICK u \in Starters : Register(u)
    BY <1>2
  <2> SUFFICES ASSUME NEW s \in Starters, Registered(s)', idOf'[s] \notin runs'
               PROVE  dead'[idOf'[s]]
    BY DEF ForgottenRunsAreCancelled
  <2>2. /\ runs' = {idOf[u]} /\ idOf' = idOf /\ starter' = [starter EXCEPT ![u] = "registered"]
        /\ dead' = [r \in Runs |-> dead[r] \/ r \in runs]
    BY <2>1 DEF Register, Evicted
  <2>3. s # u /\ Registered(s)
    BY <2>2 DEF HubInv, TypeOK
  <2> QED
    BY <1>1, <2>2, <2>3 DEF ForgottenRunsAreCancelled
<1>3. CASE /\ runs' = runs /\ idOf' = idOf
           /\ \A s \in Starters : Registered(s)' => Registered(s)
           /\ \A r \in Runs : dead[r] => dead'[r]
  BY <1>1, <1>3 DEF ForgottenRunsAreCancelled
<1>4. ASSUME NEW s \in Starters, Alloc(s) PROVE ForgottenRunsAreCancelled'
  BY <1>4, <1>1 DEF Alloc, ForgottenRunsAreCancelled, HubInv, TypeOK
<1>5. ASSUME NEW s \in Starters, Launch(s) PROVE ForgottenRunsAreCancelled'
  BY <1>3, <1>5 DEF Launch, HubInv, TypeOK, hubVars
<1>6. ASSUME NEW x \in Stoppers, CancelFound(x) PROVE ForgottenRunsAreCancelled'
  BY <1>3, <1>6 DEF CancelFound, HubInv, TypeOK, References, hubVars, startVars
<1>7. ASSUME NEW r \in Runs, Expire(r) PROVE ForgottenRunsAreCancelled'
  BY <1>3, <1>7 DEF Expire, HubInv, TypeOK, hubVars, startVars
<1>8. ASSUME NEW r \in Runs, Close(r) PROVE ForgottenRunsAreCancelled'
  BY <1>3, <1>8 DEF Close, HubInv, TypeOK, hubVars, startVars
<1>9. CASE UNCHANGED <<hubVars, startVars, dead>>
  BY <1>3, <1>9 DEF hubVars, startVars
<1>10. ASSUME NEW r \in Runs, Engine(r) PROVE ForgottenRunsAreCancelled'
  BY <1>8, <1>9, <1>10 DEF Engine, LoopHead, TickDone, LastFrame, Store
<1>11. ASSUME NEW v \in Viewers, Stream(v) \/ Leave(v) PROVE ForgottenRunsAreCancelled'
  BY <1>9, <1>11 DEF Stream, Leave, Receive, Write, WriteFails, End
<1>12. ASSUME NEW r \in Runs, (\E v \in Viewers : Connect(v, r)) \/ \E x \in Stoppers : LookUp(x, r)
       PROVE  ForgottenRunsAreCancelled'
  BY <1>9, <1>12 DEF Connect, LookUp
<1>13. CASE UNCHANGED vars
  BY <1>9, <1>13 DEF vars
<1> QED
  BY <1>2, <1>4, <1>5, <1>6, <1>7, <1>10, <1>11, <1>12, <1>13 DEF Next, Starter

\* A run no longer in the map has been cancelled, whichever of any number of
\* starts overtook which (hub.go 77-96).
THEOREM HubForgottenRunsAreCancelled == Spec => []ForgottenRunsAreCancelled
<1>1. Init => ForgottenRunsAreCancelled
  BY DEF Init, ForgottenRunsAreCancelled
<1> QED
  BY <1>1, HubInvInit, HubInvNext, ForgottenNext, PTL DEF Spec

-----------------------------------------------------------------------------
(***************************************************************************)
(* What the "end" event says.                                              *)
(***************************************************************************)
Over(r) == engine[r] = "ended" /\ buf[r] = <<>>

\* The result is stored before the channel is closed.
Stored == \A r \in Runs : engine[r] \in {"stored", "ended"} => stored[r] = t[r]

\* Nothing happens to a run that is over.
LEMMA OverStays ==
  ASSUME HubInv, [Next]_vars, NEW r \in Runs, Over(r)
  PROVE  Over(r)' /\ t'[r] = t[r] /\ dropped'[r] = dropped[r]
<1>1. ASSUME NEW s \in Starters, Launch(s) PROVE engine'[r] = "ended"
  BY <1>1 DEF Launch, HubInv, TypeOK, Numbered, Over
<1>2. ASSUME NEW k \in Runs, Engine(k)
      PROVE  Over(r)' /\ t'[r] = t[r] /\ dropped'[r] = dropped[r]
  <2>1. k # r /\ t'[r] = t[r] /\ engine'[r] = engine[r]
    BY <1>2 DEF Engine, LoopHead, TickDone, LastFrame, Store, Close, HubInv, TypeOK, Over
  <2>2. buf'[r] = buf[r] /\ dropped'[r] = dropped[r]
    BY <1>2, <2>1 DEF Engine, LoopHead, TickDone, LastFrame, Store, Close, Offer, HubInv, TypeOK
  <2> QED
    BY <2>1, <2>2 DEF Over
<1>3. ASSUME NEW v \in Viewers, Receive(v) PROVE buf'[r] = buf[r]
  <2>1. watched[v] \in Runs /\ watched[v] # r
    BY <1>3 DEF Receive, AtSelect, HubInv, References, Over
  <2> QED
    BY <1>3, <2>1 DEF Receive, HubInv, TypeOK
<1>4. ASSUME NEW v \in Viewers, Stream(v) \/ Leave(v)
      PROVE  Over(r)' /\ t'[r] = t[r] /\ dropped'[r] = dropped[r]
  BY <1>3, <1>4 DEF Stream, Leave, Receive, Write, WriteFails, End, runVars, Over
<1>5. CASE UNCHANGED runVars
  BY <1>5 DEF runVars, Over
<1>6. ASSUME NEW s \in Starters, Starter(s)
      PROVE  Over(r)' /\ t'[r] = t[r] /\ dropped'[r] = dropped[r]
  BY <1>1, <1>5, <1>6 DEF Starter, Alloc, Register, Launch, Over
<1> QED
  BY <1>2, <1>4, <1>5, <1>6 DEF Next, CancelFound, LookUp, Expire, Connect, vars

LEMMA StoredNext == HubInv /\ Stored /\ [Next]_vars => Stored'
<1> SUFFICES ASSUME HubInv, Stored, [Next]_vars PROVE Stored'
  OBVIOUS
<1>1. CASE UNCHANGED <<engine, t, stored>>
  BY <1>1 DEF Stored
<1>2. ASSUME NEW k \in Runs, Engine(k), NEW r \in Runs, engine'[r] \in {"stored", "ended"}
      PROVE  stored'[r] = t'[r]
  <2>1. CASE LoopHead(k) \/ TickDone(k) \/ LastFrame(k)
    <3>1. r # k /\ engine'[r] = engine[r]
      BY <1>2, <2>1 DEF LoopHead, TickDone, LastFrame, HubInv, TypeOK
    <3>2. stored' = stored /\ t'[r] = t[r]
      BY <2>1, <3>1 DEF LoopHead, TickDone, LastFrame, HubInv, TypeOK
    <3> QED
      BY <1>2, <3>1, <3>2 DEF Stored
  <2>2. CASE Store(k)
    BY <1>2, <2>2 DEF Store, HubInv, TypeOK, Stored
  <2>3. CASE Close(k)
    BY <1>2, <2>3 DEF Close, HubInv, TypeOK, Stored
  <2> QED
    BY <1>2, <2>1, <2>2, <2>3 DEF Engine
<1>3. ASSUME NEW s \in Starters, Starter(s) PROVE Stored'
  BY <1>3 DEF Starter, Alloc, Register, Launch, runVars, HubInv, TypeOK, Stored
<1>4. (\E r \in Runs : Engine(r)) => Stored'
  BY <1>2 DEF Stored
<1> QED
  BY <1>1, <1>3, <1>4 DEF Next, CancelFound, LookUp, Expire, Connect, Stream, Leave,
     Receive, Write, WriteFails, End, runVars, vars

LEMMA EndIsFinalNext == HubInv /\ Stored /\ EndIsFinal /\ [Next]_vars => EndIsFinal'
<1> SUFFICES ASSUME HubInv, Stored, EndIsFinal, [Next]_vars,
                    NEW v \in Viewers, viewer'[v] = "ended"
             PROVE  /\ report'[v] = [result |-> t'[watched'[v]], dropped |-> dropped'[watched'[v]]]
                    /\ Over(watched[v])' /\ watched'[v] = watched[v]
  BY DEF EndIsFinal, Over
<1>1. CASE viewer[v] = "ended"
  <2>1. watched[v] \in Runs /\ Over(watched[v])
        /\ report[v] = [result |-> t[watched[v]], dropped |-> dropped[watched[v]]]
    BY <1>1 DEF EndIsFinal, Over, HubInv, References
  <2>2. /\ engine'[watched[v]] = "ended" /\ buf'[watched[v]] = <<>>
        /\ t'[watched[v]] = t[watched[v]] /\ dropped'[watched[v]] = dropped[watched[v]]
    <3>1. PICK r \in Runs : r = watched[v]
      BY <2>1
    <3>2. Over(r)' /\ t'[r] = t[r] /\ dropped'[r] = dropped[r]
      BY <2>1, <3>1, OverStays
    <3> QED
      BY <3>1, <3>2 DEF Over
  <2>3. watched'[v] = watched[v] /\ report'[v] = report[v]
    <3>1. CASE UNCHANGED <<watched, report>>
      BY <3>1
    <3>2. ASSUME NEW w \in Viewers, End(w)
          PROVE  watched'[v] = watched[v] /\ report'[v] = report[v]
      BY <1>1, <3>2 DEF End, AtSelect, HubInv, TypeOK
    <3>3. ASSUME NEW w \in Viewers, NEW r \in Runs, Connect(w, r)
          PROVE  watched'[v] = watched[v] /\ report'[v] = report[v]
      BY <1>1, <3>3 DEF Connect, HubInv, TypeOK
    <3> QED
      BY <3>1, <3>2, <3>3 DEF Next, Starter, Alloc, Register, Launch, CancelFound, LookUp,
         Expire, Engine, LoopHead, TickDone, LastFrame, Store, Close, Stream, Leave,
         Receive, Write, WriteFails, viewVars, vars
  <2> QED
    BY <2>1, <2>2, <2>3 DEF Over
<1>2. CASE viewer[v] # "ended"
  <2>1. End(v)
    <3>1. CASE UNCHANGED viewer
      BY <1>2, <3>1
    <3>2. ASSUME NEW w \in Viewers, End(w) PROVE End(v)
      BY <1>2, <3>2 DEF End, HubInv, TypeOK
    <3>3. ASSUME NEW w \in Viewers, WriteFails(w) \/ Leave(w) PROVE FALSE
      BY <1>2, <3>3 DEF WriteFails, Leave, HubInv, TypeOK
    <3>4. ASSUME NEW w \in Viewers, NEW r \in Runs, Connect(w, r) PROVE FALSE
      BY <1>2, <3>4 DEF Connect, HubInv, TypeOK
    <3> QED
      BY <3>1, <3>2, <3>3, <3>4 DEF Next, Starter, Alloc, Register, Launch, CancelFound,
         LookUp, Expire, Engine, LoopHead, TickDone, LastFrame, Store, Close, Stream,
         Receive, Write, viewVars, vars
  <2>2. watched[v] \in Runs /\ Over(watched[v]) /\ stored[watched[v]] = t[watched[v]]
    BY <2>1 DEF End, AtSelect, Closed, Over, Stored, HubInv, References
  <2>3. /\ report'[v] = [result |-> t[watched[v]], dropped |-> dropped[watched[v]]]
        /\ watched' = watched /\ t' = t /\ dropped' = dropped
        /\ engine' = engine /\ buf' = buf
    <3>1. report' = [report EXCEPT ![v] = [result |-> stored[watched[v]],
                                           dropped |-> dropped[watched[v]]]]
      BY <2>1 DEF End
    <3>2. v \in DOMAIN report
      BY DEF HubInv, TypeOK
    <3> QED
      BY <2>1, <2>2, <3>1, <3>2 DEF End, runVars
  <2> QED
    BY <2>2, <2>3 DEF Over
<1> QED
  BY <1>1, <1>2

\* The "end" event tells the whole story, whatever the number of browsers and
\* the size of the buffer (hub.go 98-105, server.go 223-235): the result is
\* stored before the channel is closed, and a run that is over does not move.
THEOREM HubEndIsFinal == Spec => []EndIsFinal
<1>1. Init => Stored /\ EndIsFinal
  BY DEF Init, Stored, EndIsFinal
<1> QED
  BY <1>1, HubInvInit, HubInvNext, StoredNext, EndIsFinalNext, PTL DEF Spec

-----------------------------------------------------------------------------
(***************************************************************************)
(* The order of the frames.                                                *)
(***************************************************************************)
LEMMA AppendAscends ==
  ASSUME NEW s \in Seq(Int), NEW f \in Int, Ascending(s), \A n \in DOMAIN s : s[n] < f
  PROVE  Ascending(Append(s, f))
BY DEF Ascending

LEMMA TailAscends ==
  ASSUME NEW s \in Seq(Int), s # <<>>, Ascending(s)
  PROVE  /\ Ascending(Tail(s)) /\ Head(s) = s[1] /\ 1 \in DOMAIN s
         /\ \A n \in DOMAIN Tail(s) : n + 1 \in DOMAIN s /\ Tail(s)[n] = s[n + 1] /\ s[1] < s[n + 1]
<1>1. /\ Head(s) = s[1] /\ 1 \in DOMAIN s
      /\ \A n \in DOMAIN Tail(s) : n \in Nat /\ n >= 1 /\ n + 1 \in DOMAIN s /\ Tail(s)[n] = s[n + 1]
  OBVIOUS
<1>2. \A n \in DOMAIN Tail(s) : s[1] < s[n + 1]
  BY <1>1 DEF Ascending
<1>3. Ascending(Tail(s))
  <2> SUFFICES ASSUME NEW m \in DOMAIN Tail(s), NEW n \in DOMAIN Tail(s), m < n
               PROVE  Tail(s)[m] < Tail(s)[n]
    BY DEF Ascending
  <2>1. m + 1 < n + 1 /\ m + 1 \in DOMAIN s /\ n + 1 \in DOMAIN s
    BY <1>1
  <2> QED
    BY <1>1, <2>1 DEF Ascending
<1> QED
  BY <1>1, <1>2, <1>3

LEMMA ConcatAscends ==
  ASSUME NEW s \in Seq(Int), NEW b \in Seq(Int), Ascending(s), Ascending(b),
         \A m \in DOMAIN s, n \in DOMAIN b : s[m] < b[n]
  PROVE  Ascending(s \o b)
<1> SUFFICES ASSUME NEW m \in DOMAIN (s \o b), NEW n \in DOMAIN (s \o b), m < n
             PROVE  (s \o b)[m] < (s \o b)[n]
  BY DEF Ascending
<1>1. m \in Nat /\ n \in Nat /\ 1 <= m /\ n <= Len(s) + Len(b) /\ Len(s) \in Nat
  OBVIOUS
<1>2. CASE n <= Len(s)
  <2>1. (s \o b)[m] = s[m] /\ (s \o b)[n] = s[n] /\ m \in DOMAIN s /\ n \in DOMAIN s
    BY <1>1, <1>2
  <2> QED
    BY <2>1 DEF Ascending
<1>3. CASE m <= Len(s) /\ Len(s) < n
  <2>1. /\ (s \o b)[m] = s[m] /\ (s \o b)[n] = b[n - Len(s)]
        /\ m \in DOMAIN s /\ n - Len(s) \in DOMAIN b
    BY <1>1, <1>3
  <2> QED
    BY <2>1
<1>4. CASE Len(s) < m
  <2>1. /\ (s \o b)[m] = b[m - Len(s)] /\ (s \o b)[n] = b[n - Len(s)]
        /\ m - Len(s) \in DOMAIN b /\ n - Len(s) \in DOMAIN b /\ m - Len(s) < n - Len(s)
    BY <1>1, <1>4
  <2> QED
    BY <2>1 DEF Ascending
<1> QED
  BY <1>1, <1>2, <1>3, <1>4

\* The next frame offered to r bears this number or a later one.
Limit(r) == IF engine[r] \in {"returned", "stored", "ended"} THEN t[r] + 1 ELSE t[r]

\* What waits is ascending and was offered.
Waiting == \A r \in Runs : Ascending(buf[r]) /\ \A n \in DOMAIN buf[r] : buf[r][n] < Limit(r)

\* What a handler took is ascending, and is nothing before it has a run.
Received ==
  \A v \in Viewers :
    Ascending(Taken(v)) /\ (viewer[v] \in {"new", "refused"} => Taken(v) = <<>>)

\* What was taken from a run came before everything that waits or is to come.
TakenFirst ==
  \A v \in Viewers, r \in Runs : watched[v] = r =>
    \A m \in DOMAIN Taken(v) :
      Taken(v)[m] < Limit(r) /\ \A n \in DOMAIN buf[r] : Taken(v)[m] < buf[r][n]

\* No frame is taken twice.
Apart ==
  \A v, w \in Viewers, r \in Runs : v # w /\ watched[v] = r /\ watched[w] = r =>
    \A m \in DOMAIN Taken(v), n \in DOMAIN Taken(w) : Taken(v)[m] # Taken(w)[n]

OrderInv == Waiting /\ Received /\ TakenFirst /\ Apart

LEMMA Sequences ==
  HubInv => /\ \A r \in Runs : buf[r] \in Seq(Int) /\ t[r] \in Int /\ Limit(r) \in Int
            /\ \A v \in Viewers : Taken(v) \in Seq(Int)
<1> SUFFICES ASSUME HubInv
             PROVE  /\ \A r \in Runs : buf[r] \in Seq(Int) /\ t[r] \in Int /\ Limit(r) \in Int
                    /\ \A v \in Viewers : Taken(v) \in Seq(Int)
  OBVIOUS
<1>1. Frames \subseteq Int
  BY HubAssumption DEF Frames
<1>2. ASSUME NEW r \in Runs PROVE buf[r] \in Seq(Int) /\ t[r] \in Int /\ Limit(r) \in Int
  <2>1. buf[r] \in Seq(Frames) /\ t[r] \in 0 .. Ticks
    BY DEF HubInv, TypeOK
  <2>2. buf[r] \in Seq(Int)
    BY <1>1, <2>1, SeqMonotonic
  <2>3. t[r] \in Int
    BY <2>1, HubAssumption
  <2> QED
    BY <2>2, <2>3 DEF Limit
<1>3. ASSUME NEW v \in Viewers PROVE Taken(v) \in Seq(Int)
  <2>1. seen[v] \in Seq(Frames) /\ held[v] \in Frames \cup {NoFrame}
    BY DEF HubInv, TypeOK
  <2>2. seen[v] \in Seq(Int)
    BY <1>1, <2>1, SeqMonotonic
  <2>3. CASE held[v] = NoFrame
    BY <2>2, <2>3 DEF Taken
  <2>4. CASE held[v] # NoFrame
    <3>1. held[v] \in Int
      BY <1>1, <2>1, <2>4
    <3>2. Append(seen[v], held[v]) \in Seq(Int)
      BY <2>2, <3>1
    <3> QED
      BY <2>4, <3>2 DEF Taken
  <2> QED
    BY <2>3, <2>4
<1> QED
  BY <1>2, <1>3

\* A step that offers at most the frame Limit(k), and takes none.
LEMMA OfferKeepsOrder ==
  ASSUME HubInv, OrderInv, NEW k \in Runs,
         \A v \in Viewers : Taken(v)' = Taken(v) /\ watched'[v] = watched[v] /\ viewer'[v] = viewer[v],
         \A r \in Runs : Limit(r)' \in Int /\ Limit(r)' >= Limit(r),
         \A r \in Runs : \/ buf'[r] = buf[r]
                         \/ r = k /\ buf'[r] = Append(buf[r], Limit(r)) /\ Limit(r) < Limit(r)'
  PROVE  OrderInv'
<1>1. ASSUME NEW r \in Runs
      PROVE  /\ Ascending(buf'[r]) /\ \A n \in DOMAIN buf'[r] : buf'[r][n] < Limit(r)'
             /\ \A n \in DOMAIN buf'[r] :
                  buf'[r][n] = Limit(r) \/ (n \in DOMAIN buf[r] /\ buf'[r][n] = buf[r][n])
  <2>1. buf[r] \in Seq(Int) /\ Limit(r) \in Int /\ Limit(r)' \in Int /\ Limit(r)' >= Limit(r)
        /\ Ascending(buf[r]) /\ \A n \in DOMAIN buf[r] : buf[r][n] < Limit(r)
    BY Sequences DEF OrderInv, Waiting
  <2>2. CASE buf'[r] = buf[r]
    BY <2>1, <2>2
  <2>3. CASE buf'[r] = Append(buf[r], Limit(r)) /\ Limit(r) < Limit(r)'
    <3>1. Ascending(buf'[r])
      BY <2>1, <2>3, AppendAscends
    <3>2. \A n \in DOMAIN buf'[r] :
            buf'[r][n] = Limit(r) \/ (n \in DOMAIN buf[r] /\ buf'[r][n] = buf[r][n])
      BY <2>1, <2>3
    <3> QED
      BY <2>1, <2>3, <3>1, <3>2
  <2> QED
    BY <2>2, <2>3
<1>2. Waiting'
  BY <1>1 DEF Waiting
<1>3. Received' /\ Apart'
  BY DEF OrderInv, Received, Apart
<1>4. TakenFirst'
  <2> SUFFICES ASSUME NEW v \in Viewers, NEW r \in Runs, watched[v] = r, NEW m \in DOMAIN Taken(v)
               PROVE  /\ Taken(v)[m] < Limit(r)'
                      /\ \A n \in DOMAIN buf'[r] : Taken(v)[m] < buf'[r][n]
    BY DEF TakenFirst
  <2>1. /\ Taken(v)[m] < Limit(r) /\ \A n \in DOMAIN buf[r] : Taken(v)[m] < buf[r][n]
    BY DEF OrderInv, TakenFirst
  <2>2. Taken(v)[m] \in Int /\ Limit(r) \in Int
    <3>1. Taken(v) \in Seq(Int) /\ Limit(r) \in Int
      BY Sequences
    <3> QED
      BY <3>1
  <2> QED
    BY <1>1, <2>1, <2>2
<1> QED
  BY <1>2, <1>3, <1>4 DEF OrderInv

LEMMA OrderEngine ==
  ASSUME HubInv, OrderInv, NEW k \in Runs, Engine(k)
  PROVE  OrderInv'
<1>1. \A v \in Viewers : Taken(v)' = Taken(v) /\ watched'[v] = watched[v] /\ viewer'[v] = viewer[v]
  BY DEF Engine, LoopHead, TickDone, LastFrame, Store, Close, viewVars, Taken
<1>2. \A r \in Runs : t[r] \in Int /\ engine[r] = engine[r]
  BY Sequences
<1>3. \A r \in Runs : r # k => Limit(r)' = Limit(r) /\ buf'[r] = buf[r]
  <2> SUFFICES ASSUME NEW r \in Runs, r # k
               PROVE  engine'[r] = engine[r] /\ t'[r] = t[r] /\ buf'[r] = buf[r]
    BY DEF Limit
  <2> QED
    BY DEF Engine, LoopHead, TickDone, LastFrame, Store, Close, Offer, HubInv, TypeOK
<1>4. /\ Limit(k)' \in Int /\ Limit(k)' >= Limit(k)
      /\ buf'[k] = buf[k] \/ (buf'[k] = Append(buf[k], Limit(k)) /\ Limit(k) < Limit(k)')
  <2>1. CASE LoopHead(k) \/ Store(k) \/ Close(k)
    <3>1. t'[k] = t[k] /\ buf'[k] = buf[k]
      BY <2>1 DEF LoopHead, Store, Close
    <3>2. Limit(k)' = Limit(k)
      BY <2>1, <3>1 DEF LoopHead, Store, Close, Limit, HubInv, TypeOK
    <3> QED
      BY <1>2, <3>1, <3>2, Sequences
  <2>2. CASE TickDone(k)
    <3>1. Limit(k) = t[k] /\ t'[k] = t[k] + 1 /\ engine'[k] = "loop"
      BY <2>2 DEF TickDone, Limit, HubInv, TypeOK
    <3>2. Limit(k)' = t[k] + 1
      BY <3>1 DEF Limit
    <3>3. buf'[k] = buf[k] \/ buf'[k] = Append(buf[k], t[k])
      BY <2>2 DEF TickDone, Offer, Label, HubInv, TypeOK
    <3> QED
      BY <1>2, <3>1, <3>2, <3>3
  <2>3. CASE LastFrame(k)
    <3>1. Limit(k) = t[k] /\ t'[k] = t[k] /\ engine'[k] = "returned"
      BY <2>3 DEF LastFrame, Limit, HubInv, TypeOK
    <3>2. Limit(k)' = t[k] + 1
      BY <3>1 DEF Limit
    <3>3. buf'[k] = buf[k] \/ buf'[k] = Append(buf[k], t[k])
      BY <2>3 DEF LastFrame, Offer, HubInv, TypeOK
    <3> QED
      BY <1>2, <3>1, <3>2, <3>3
  <2> QED
    BY <2>1, <2>2, <2>3 DEF Engine
<1> QED
  BY <1>1, <1>3, <1>4, Sequences, OfferKeepsOrder

\* The frame a handler takes is the first that waits: later than all that was
\* taken from its run, and earlier than all that still waits.
LEMMA OrderReceive ==
  ASSUME HubInv, OrderInv, NEW u \in Viewers, Receive(u)
  PROVE  OrderInv'
<1> DEFINE k == watched[u]
           f == Head(buf[k])
<1>1. k \in Runs /\ buf[k] \in Seq(Int) /\ buf[k] # <<>> /\ Taken(u) \in Seq(Int)
  BY Sequences DEF Receive, AtSelect, HubInv, References
<1>2. /\ buf' = [buf EXCEPT ![k] = Tail(buf[k])] /\ held[u] = NoFrame
      /\ held' = [held EXCEPT ![u] = f]
      /\ UNCHANGED <<engine, t, viewer, watched, seen>> /\ viewer[u] = "streaming"
  BY DEF Receive, AtSelect
<1>3. f \in Int /\ f # NoFrame
  <2>1. buf[k] \in Seq(Frames)
    BY <1>1 DEF HubInv, TypeOK
  <2>2. f \in Frames
    BY <1>1, <2>1
  <2> QED
    BY <2>2, RunsAreNumbers, HubAssumption DEF Frames
<1>4. Taken(u)' = Append(Taken(u), f) /\ \A v \in Viewers : v # u => Taken(v)' = Taken(v)
  BY <1>2, <1>3 DEF Taken, HubInv, TypeOK
<1>5. /\ Ascending(buf[k]) /\ \A n \in DOMAIN buf[k] : buf[k][n] < Limit(k)
  BY <1>1 DEF OrderInv, Waiting
<1>6. /\ Ascending(Tail(buf[k])) /\ f = buf[k][1] /\ 1 \in DOMAIN buf[k]
      /\ \A n \in DOMAIN Tail(buf[k]) :
           n + 1 \in DOMAIN buf[k] /\ Tail(buf[k])[n] = buf[k][n + 1] /\ f < buf[k][n + 1]
  BY <1>1, <1>5, TailAscends
<1>7. \A r \in Runs : Limit(r)' = Limit(r) /\ (r # k => buf'[r] = buf[r])
  BY <1>2 DEF Limit, HubInv, TypeOK
<1>8. buf'[k] = Tail(buf[k])
  BY <1>1, <1>2 DEF HubInv, TypeOK
<1>9. /\ \A m \in DOMAIN Taken(u) : Taken(u)[m] < f
      /\ f < Limit(k)
  BY <1>1, <1>5, <1>6 DEF OrderInv, TakenFirst
<1> HIDE DEF f
<1>10. \A m \in DOMAIN Taken(u)' :
         (Taken(u)')[m] = f \/ (m \in DOMAIN Taken(u) /\ (Taken(u)')[m] = Taken(u)[m])
  <2>1. ASSUME NEW s \in Seq(Int), NEW m \in DOMAIN Append(s, f)
        PROVE  Append(s, f)[m] = f \/ (m \in DOMAIN s /\ Append(s, f)[m] = s[m])
    BY <1>3, <2>1
  <2> QED
    BY <1>1, <1>4, <2>1
<1>11. Waiting'
  <2>1. \A n \in DOMAIN Tail(buf[k]) : Tail(buf[k])[n] < Limit(k)
    BY <1>5, <1>6
  <2>2. ASSUME NEW r \in Runs
        PROVE  Ascending(buf'[r]) /\ \A n \in DOMAIN buf'[r] : buf'[r][n] < Limit(r)
    <3>1. CASE r = k
      BY <1>6, <1>8, <2>1, <3>1
    <3>2. CASE r # k
      BY <1>7, <3>2 DEF OrderInv, Waiting
    <3> QED
      BY <3>1, <3>2
  <2> QED
    BY <1>7, <2>2 DEF Waiting
<1>12. Received'
  <2>1. Ascending(Taken(u)')
    BY <1>1, <1>3, <1>4, <1>9, AppendAscends DEF OrderInv, Received
  <2> QED
    BY <1>2, <1>4, <2>1 DEF OrderInv, Received
<1>13. TakenFirst'
  <2> SUFFICES ASSUME NEW v \in Viewers, NEW r \in Runs, watched[v] = r, NEW m \in DOMAIN Taken(v)'
               PROVE  /\ (Taken(v)')[m] < Limit(r)
                      /\ \A n \in DOMAIN buf'[r] : (Taken(v)')[m] < buf'[r][n]
    BY <1>2, <1>7 DEF TakenFirst
  <2>1. CASE v = u /\ (Taken(v)')[m] = f
    BY <1>6, <1>8, <1>9, <2>1
  <2>2. CASE m \in DOMAIN Taken(v) /\ (Taken(v)')[m] = Taken(v)[m]
    <3>1. Taken(v)[m] < Limit(r) /\ \A n \in DOMAIN buf[r] : Taken(v)[m] < buf[r][n]
      BY <2>2 DEF OrderInv, TakenFirst
    <3>2. CASE r = k
      BY <1>6, <1>8, <2>2, <3>1, <3>2
    <3>3. CASE r # k
      BY <1>7, <2>2, <3>1, <3>3
    <3> QED
      BY <3>2, <3>3
  <2> QED
    BY <1>4, <1>10, <2>1, <2>2
<1>14. Apart'
  <2>1. ASSUME NEW w \in Viewers, w # u, watched[w] = k, NEW n \in DOMAIN Taken(w)
        PROVE  Taken(w)[n] < f /\ Taken(w)[n] \in Int
    <3>1. Taken(w) \in Seq(Int) /\ Taken(w)[n] \in Int
      <4>1. Taken(w) \in Seq(Int)
        BY Sequences
      <4> QED
        BY <2>1, <4>1
    <3>2. Taken(w)[n] < buf[k][1]
      BY <1>1, <1>6, <2>1 DEF OrderInv, TakenFirst
    <3> QED
      BY <1>6, <3>1, <3>2
  <2>2. ASSUME NEW v \in Viewers, NEW w \in Viewers, NEW r \in Runs, v # w,
               watched[v] = r, watched[w] = r,
               NEW m \in DOMAIN Taken(v)', NEW n \in DOMAIN Taken(w)'
        PROVE  (Taken(v)')[m] # (Taken(w)')[n]
    <3>1. CASE v = u
      <4>1. Taken(w)' = Taken(w) /\ r = k
        BY <1>4, <2>2, <3>1
      <4>2. Taken(w)[n] < f /\ Taken(w)[n] \in Int
        BY <2>1, <2>2, <3>1, <4>1
      <4>3. CASE (Taken(v)')[m] = f
        BY <1>3, <4>1, <4>2, <4>3
      <4>4. CASE m \in DOMAIN Taken(v) /\ (Taken(v)')[m] = Taken(v)[m]
        BY <2>2, <4>1, <4>4 DEF OrderInv, Apart
      <4> QED
        BY <1>10, <2>2, <3>1, <4>3, <4>4
    <3>2. CASE w = u
      <4>1. Taken(v)' = Taken(v) /\ r = k
        BY <1>4, <2>2, <3>2
      <4>2. Taken(v)[m] < f /\ Taken(v)[m] \in Int
        BY <2>1, <2>2, <3>2, <4>1
      <4>3. CASE (Taken(w)')[n] = f
        BY <1>3, <4>1, <4>2, <4>3
      <4>4. CASE n \in DOMAIN Taken(w) /\ (Taken(w)')[n] = Taken(w)[n]
        BY <2>2, <4>1, <4>4 DEF OrderInv, Apart
      <4> QED
        BY <1>10, <2>2, <3>2, <4>3, <4>4
    <3>3. CASE v # u /\ w # u
      BY <1>4, <2>2, <3>3 DEF OrderInv, Apart
    <3> QED
      BY <3>1, <3>2, <3>3
  <2> QED
    BY <1>2, <2>2 DEF Apart
<1> QED
  BY <1>11, <1>12, <1>13, <1>14 DEF OrderInv

\* A step after which every handler has taken what it had, or less, of the run
\* it had, if it had one.
LEMMA LessTaken ==
  ASSUME HubInv, OrderInv, UNCHANGED buf, \A r \in Runs : Limit(r)' = Limit(r),
         \A v \in Viewers :
           /\ Ascending(Taken(v)')
           /\ viewer'[v] \in {"new", "refused"} => Taken(v)' = <<>>
           /\ \/ Taken(v)' = <<>>
              \/ /\ watched'[v] = watched[v]
                 /\ \A m \in DOMAIN Taken(v)' :
                      m \in DOMAIN Taken(v) /\ (Taken(v)')[m] = Taken(v)[m]
  PROVE  OrderInv'
<1>1. \A v \in Viewers : \A m \in DOMAIN Taken(v)' :
        watched'[v] = watched[v] /\ m \in DOMAIN Taken(v) /\ (Taken(v)')[m] = Taken(v)[m]
  BY EmptySeq
<1>2. Waiting' /\ Received'
  BY DEF OrderInv, Waiting, Received
<1>3. TakenFirst'
  BY <1>1 DEF OrderInv, TakenFirst
<1>4. Apart'
  BY <1>1 DEF OrderInv, Apart
<1> QED
  BY <1>2, <1>3, <1>4 DEF OrderInv

LEMMA OrderInvNext == HubInv /\ OrderInv /\ [Next]_vars => OrderInv'
<1> SUFFICES ASSUME HubInv, OrderInv, [Next]_vars PROVE OrderInv'
  OBVIOUS
<1>1. CASE UNCHANGED <<buf, t, engine, viewer, watched, held, seen>>
  <2>1. \A v \in Viewers : Taken(v)' = Taken(v)
    BY <1>1 DEF Taken
  <2>2. \A r \in Runs : Limit(r)' = Limit(r)
    BY <1>1 DEF Limit
  <2> QED
    BY <1>1, <2>1, <2>2, LessTaken DEF OrderInv, Received
<1>2. ASSUME NEW s \in Starters, Launch(s) PROVE OrderInv'
  <2>1. \A v \in Viewers : Taken(v)' = Taken(v) /\ watched'[v] = watched[v] /\ viewer'[v] = viewer[v]
    BY <1>2 DEF Launch, viewVars, Taken
  <2>2. \A r \in Runs : Limit(r)' = Limit(r)
    <3>1. s \in Came /\ engine[idOf[s]] = "none"
      BY <1>2 DEF Launch, Came, HubInv, Numbered
    <3> QED
      BY <1>2, <3>1 DEF Launch, Limit, HubInv, TypeOK
  <2> QED
    BY <1>2, <2>1, <2>2, LessTaken DEF Launch, OrderInv, Received
<1>3. ASSUME NEW u \in Viewers, Write(u) PROVE OrderInv'
  <2>1. seen'[u] = Append(seen[u], held[u]) /\ held'[u] = NoFrame /\ held[u] # NoFrame
        /\ \A v \in Viewers : v # u => seen'[v] = seen[v] /\ held'[v] = held[v]
    BY <1>3 DEF Write, HubInv, TypeOK
  <2>2. \A v \in Viewers : Taken(v)' = Taken(v)
    BY <2>1 DEF Taken
  <2>3. UNCHANGED <<buf, viewer, watched>> /\ \A r \in Runs : Limit(r)' = Limit(r)
    BY <1>3 DEF Write, runVars, Limit
  <2> QED
    BY <2>2, <2>3, LessTaken DEF OrderInv, Received
<1>4. ASSUME NEW u \in Viewers, WriteFails(u) PROVE OrderInv'
  <2>1. /\ held[u] # NoFrame /\ held'[u] = NoFrame /\ seen' = seen /\ viewer'[u] = "gone"
        /\ \A v \in Viewers : v # u => held'[v] = held[v] /\ viewer'[v] = viewer[v]
    BY <1>4 DEF WriteFails, HubInv, TypeOK
  <2>2. UNCHANGED <<buf, watched>> /\ \A r \in Runs : Limit(r)' = Limit(r)
    BY <1>4 DEF WriteFails, runVars, Limit
  <2>3. \A v \in Viewers : v # u => Taken(v)' = Taken(v)
    BY <2>1 DEF Taken
  <2>4. Taken(u)' = seen[u] /\ Taken(u) = Append(seen[u], held[u])
    BY <2>1 DEF Taken
  <2>5. seen[u] \in Seq(Int) /\ held[u] \in Int
    <3>1. Frames \subseteq Int
      BY HubAssumption DEF Frames
    <3>2. seen[u] \in Seq(Frames) /\ held[u] \in Frames
      BY <2>1 DEF HubInv, TypeOK
    <3> QED
      BY <3>1, <3>2, SeqMonotonic
  <2>6. \A m \in DOMAIN seen[u] :
          m \in DOMAIN Append(seen[u], held[u]) /\ Append(seen[u], held[u])[m] = seen[u][m]
    BY <2>5
  <2>7. Ascending(seen[u])
    <3>1. Ascending(Append(seen[u], held[u]))
      BY <2>4 DEF OrderInv, Received
    <3> QED
      BY <2>6, <3>1 DEF Ascending
  <2>8. ASSUME NEW v \in Viewers
        PROVE  /\ Ascending(Taken(v)')
               /\ viewer'[v] \in {"new", "refused"} => Taken(v)' = <<>>
               /\ watched'[v] = watched[v]
               /\ \A m \in DOMAIN Taken(v)' :
                    m \in DOMAIN Taken(v) /\ (Taken(v)')[m] = Taken(v)[m]
    <3>1. CASE v = u
      BY <2>1, <2>2, <2>4, <2>6, <2>7, <3>1
    <3>2. CASE v # u
      BY <2>1, <2>2, <2>3, <3>2 DEF OrderInv, Received
    <3> QED
      BY <3>1, <3>2
  <2> QED
    BY <2>2, <2>8, LessTaken
<1>5. ASSUME NEW u \in Viewers, End(u) \/ Leave(u) PROVE OrderInv'
  <2>1. /\ viewer[u] = "streaming" /\ viewer'[u] \in {"ended", "gone"}
        /\ \A v \in Viewers : v # u => viewer'[v] = viewer[v]
    BY <1>5 DEF End, Leave, AtSelect, HubInv, TypeOK
  <2>2. UNCHANGED <<buf, watched, held, seen>> /\ \A r \in Runs : Limit(r)' = Limit(r)
    BY <1>5 DEF End, Leave, runVars, Limit
  <2>3. \A v \in Viewers : Taken(v)' = Taken(v)
    BY <2>2 DEF Taken
  <2> QED
    BY <2>1, <2>2, <2>3, LessTaken DEF OrderInv, Received
<1>6. ASSUME NEW u \in Viewers, NEW r \in Runs, Connect(u, r) PROVE OrderInv'
  <2>1. /\ viewer[u] = "new"
        /\ \A v \in Viewers : v # u => viewer'[v] = viewer[v] /\ watched'[v] = watched[v]
    BY <1>6 DEF Connect, HubInv, TypeOK
  <2>2. UNCHANGED <<buf, held, seen>> /\ \A k \in Runs : Limit(k)' = Limit(k)
    BY <1>6 DEF Connect, runVars, Limit
  <2>3. \A v \in Viewers : Taken(v)' = Taken(v)
    BY <2>2 DEF Taken
  <2>4. Taken(u) = <<>>
    BY <2>1 DEF OrderInv, Received
  <2> QED
    BY <2>1, <2>2, <2>3, <2>4, LessTaken DEF OrderInv, Received
<1>7. ASSUME NEW r \in Runs, Engine(r) PROVE OrderInv'
  BY <1>7, OrderEngine
<1>8. ASSUME NEW u \in Viewers, Receive(u) PROVE OrderInv'
  BY <1>8, OrderReceive
<1> QED
  BY <1>1, <1>2, <1>3, <1>4, <1>5, <1>6, <1>7, <1>8
  DEF Next, Starter, Alloc, Register, CancelFound, LookUp, Expire, Stream, runVars, viewVars, vars

\* Every browser sees the ticks of its run in ascending order, and two on one
\* run share its frames without a repetition, whatever is dropped, however
\* many browsers come and go (hub.go 28-34, server.go 219-242).
THEOREM HubFramesInOrder == Spec => []FramesInOrder
<1>1. Init => OrderInv
  <2> SUFFICES ASSUME Init PROVE OrderInv
    OBVIOUS
  <2>1. \A v \in Viewers : Taken(v) = <<>> /\ watched[v] = None
    BY DEF Init, Taken
  <2>2. \A r \in Runs : buf[r] = <<>>
    BY DEF Init
  <2>3. Ascending(<<>>)
    BY DEF Ascending
  <2> QED
    BY <2>1, <2>2, <2>3 DEF OrderInv, Waiting, Received, TakenFirst, Apart
<1>2. HubInv /\ OrderInv => FramesInOrder
  <2> SUFFICES ASSUME HubInv, OrderInv, NEW v \in Viewers
               PROVE  /\ Ascending(Taken(v))
                      /\ \A r \in Runs : v \in WatchersOf(r) => Ascending(Taken(v) \o buf[r])
                      /\ \A w \in Viewers \ {v} :
                           watched[v] # None /\ watched[v] = watched[w] =>
                             Range(Taken(v)) \cap Range(Taken(w)) = {}
    BY DEF FramesInOrder
  <2>1. ASSUME NEW r \in Runs, v \in WatchersOf(r) PROVE Ascending(Taken(v) \o buf[r])
    BY <2>1, Sequences, ConcatAscends DEF OrderInv, Waiting, Received, TakenFirst, WatchersOf
  <2>2. ASSUME NEW w \in Viewers \ {v}, watched[v] # None, watched[v] = watched[w]
        PROVE  Range(Taken(v)) \cap Range(Taken(w)) = {}
    <3>1. PICK r \in Runs : watched[v] = r
      BY <2>2 DEF HubInv, TypeOK
    <3> QED
      BY <2>2, <3>1 DEF OrderInv, Apart, Range
  <2> QED
    BY <2>1, <2>2 DEF OrderInv, Received
<1> QED
  BY <1>1, <1>2, HubInvInit, HubInvNext, OrderInvNext, PTL DEF Spec

-----------------------------------------------------------------------------
(***************************************************************************)
(* The opening frame.                                                      *)
(***************************************************************************)
\* A frame of r has been offered; none of it has been taken.
Began(r) == t[r] > 0 \/ engine[r] \in {"returned", "stored", "ended"}
Untouched(r) == \A v \in WatchersOf(r) : Taken(v) = <<>> /\ lost[v] = 0

OpenInv ==
  \A r \in Runs :
    /\ ~Began(r) => buf[r] = <<>>
    /\ Began(r) /\ Untouched(r) => buf[r] # <<>> /\ Head(buf[r]) = 0

LEMMA OpenEngine ==
  ASSUME HubInv, OpenInv, NEW k \in Runs, Engine(k)
  PROVE  OpenInv'
<1>1. \A r \in Runs : Untouched(r)' = Untouched(r)
  BY DEF Engine, LoopHead, TickDone, LastFrame, Store, Close, viewVars, Untouched, Taken, WatchersOf
<1>2. ASSUME NEW r \in Runs, r # k PROVE Began(r)' = Began(r) /\ buf'[r] = buf[r]
  <2>1. engine'[r] = engine[r] /\ t'[r] = t[r] /\ buf'[r] = buf[r]
    BY <1>2 DEF Engine, LoopHead, TickDone, LastFrame, Store, Close, Offer, HubInv, TypeOK
  <2> QED
    BY <2>1 DEF Began
<1>3. buf[k] \in Seq(Int) /\ t[k] \in Nat
  BY Sequences, HubAssumption DEF HubInv, TypeOK
<1>4. ASSUME Offer(k, t[k]), engine[k] \in {"tick", "final"}, Untouched(k)
      PROVE  buf'[k] # <<>> /\ Head(buf'[k]) = 0
  <2>1. buf'[k] = buf[k] \/ buf'[k] = Append(buf[k], t[k])
    BY <1>4 DEF Offer, HubInv, TypeOK
  <2>2. CASE t[k] = 0
    <3>1. buf[k] = <<>>
      BY <1>4, <2>2 DEF OpenInv, Began
    <3>2. buf'[k] = Append(<<>>, 0)
      BY <1>4, <2>2, <3>1, HubAssumption DEF Offer, HubInv, TypeOK
    <3> QED
      BY <3>2
  <2>3. CASE t[k] > 0
    <3>1. buf[k] # <<>> /\ Head(buf[k]) = 0
      BY <1>4, <2>3 DEF OpenInv, Began
    <3>2. ASSUME NEW b \in Seq(Int), NEW f \in Int, b # <<>>
          PROVE  Append(b, f) # <<>> /\ Head(Append(b, f)) = Head(b)
      BY <3>2
    <3> QED
      BY <1>3, <2>1, <2>3, <3>1, <3>2
  <2> QED
    BY <1>3, <2>2, <2>3
<1>5. /\ ~Began(k)' => buf'[k] = <<>>
      /\ Began(k)' /\ Untouched(k) => buf'[k] # <<>> /\ Head(buf'[k]) = 0
  <2>1. CASE LoopHead(k) \/ Store(k) \/ Close(k)
    <3>1. Began(k)' = Began(k) /\ buf'[k] = buf[k]
      BY <2>1 DEF LoopHead, Store, Close, Began, HubInv, TypeOK
    <3> QED
      BY <3>1 DEF OpenInv
  <2>2. CASE TickDone(k)
    <3>1. engine[k] = "tick" /\ t'[k] = t[k] + 1
      BY <2>2 DEF TickDone, HubInv, TypeOK
    <3>2. Began(k)'
      BY <1>3, <3>1 DEF Began
    <3>3. CASE t[k] % Interval = 0
      <4>1. Offer(k, t[k])
        BY <2>2, <3>3 DEF TickDone, Label
      <4> QED
        BY <1>4, <3>1, <3>2, <4>1
    <3>4. CASE t[k] % Interval # 0
      <4>1. t[k] > 0
        BY <1>3, <3>4, HubAssumption
      <4>2. buf' = buf
        BY <2>2, <3>4 DEF TickDone
      <4> QED
        BY <3>2, <4>1, <4>2 DEF OpenInv, Began
    <3> QED
      BY <3>3, <3>4
  <2>3. CASE LastFrame(k)
    <3>1. engine[k] = "final" /\ engine'[k] = "returned" /\ Offer(k, t[k])
      BY <2>3 DEF LastFrame, HubInv, TypeOK
    <3>2. Began(k)'
      BY <3>1 DEF Began
    <3> QED
      BY <1>4, <3>1, <3>2
  <2> QED
    BY <2>1, <2>2, <2>3 DEF Engine
<1> QED
  BY <1>1, <1>2, <1>5 DEF OpenInv

\* A step that moves no engine, after which a run nobody took from is one nobody
\* had taken from.
LEMMA OpenKept ==
  ASSUME OpenInv, \A r \in Runs : Began(r)' = Began(r),
         \A r \in Runs : Untouched(r)' => Untouched(r) /\ buf'[r] = buf[r],
         \A r \in Runs : ~Began(r) => buf'[r] = buf[r]
  PROVE  OpenInv'
BY DEF OpenInv

LEMMA OpenInvNext == HubInv /\ OpenInv /\ [Next]_vars => OpenInv'
<1> SUFFICES ASSUME HubInv, OpenInv, [Next]_vars PROVE OpenInv'
  OBVIOUS
<1>1. CASE UNCHANGED <<buf, t, engine, watched, held, seen, lost>>
  <2>1. \A r \in Runs : Began(r)' = Began(r) /\ Untouched(r)' = Untouched(r) /\ buf'[r] = buf[r]
    BY <1>1 DEF Began, Untouched, Taken, WatchersOf
  <2> QED
    BY <2>1, OpenKept
<1>2. ASSUME NEW s \in Starters, Launch(s) PROVE OpenInv'
  <2>1. s \in Came /\ engine[idOf[s]] = "none"
    BY <1>2 DEF Launch, Came, HubInv, Numbered
  <2>2. \A r \in Runs : Began(r)' = Began(r)
    BY <1>2, <2>1 DEF Launch, Began, HubInv, TypeOK
  <2>3. \A r \in Runs : Untouched(r)' = Untouched(r) /\ buf'[r] = buf[r]
    BY <1>2 DEF Launch, viewVars, Untouched, Taken, WatchersOf
  <2> QED
    BY <2>2, <2>3, OpenKept
<1>3. ASSUME NEW u \in Viewers, Receive(u) PROVE OpenInv'
  <2>1. /\ watched[u] \in Runs /\ buf[watched[u]] \in Seq(Frames) /\ buf[watched[u]] # <<>>
        /\ watched' = watched /\ seen' = seen /\ lost' = lost
        /\ held' = [held EXCEPT ![u] = Head(buf[watched[u]])] /\ held[u] = NoFrame
        /\ \A r \in Runs : r # watched[u] => buf'[r] = buf[r]
    BY <1>3 DEF Receive, AtSelect, HubInv, TypeOK, References
  <2>2. Head(buf[watched[u]]) \in Frames
    BY <2>1
  <2>3. Taken(u)' # <<>>
    <3>1. held'[u] # NoFrame /\ seen[u] \in Seq(Frames) /\ held'[u] \in Frames
      BY <2>1, <2>2, RunsAreNumbers DEF HubInv, TypeOK
    <3>2. Append(seen[u], held'[u]) # <<>>
      BY <3>1
    <3> QED
      BY <2>1, <3>1, <3>2 DEF Taken
  <2>4. \A r \in Runs : Began(r)' = Began(r)
    BY <1>3 DEF Receive, Began
  <2>5. ~Untouched(watched[u])'
    BY <2>1, <2>3 DEF Untouched, WatchersOf
  <2>6. ASSUME NEW r \in Runs, r # watched[u] PROVE Untouched(r)' = Untouched(r)
    <3>1. WatchersOf(r)' = WatchersOf(r) /\ u \notin WatchersOf(r)
      BY <2>1, <2>6 DEF WatchersOf
    <3>2. \A v \in WatchersOf(r) : Taken(v)' = Taken(v)
      BY <2>1, <3>1 DEF Taken, WatchersOf, HubInv, TypeOK
    <3> QED
      BY <2>1, <3>1, <3>2 DEF Untouched
  <2>7. Began(watched[u])
    BY <2>1 DEF OpenInv
  <2> QED
    BY <2>1, <2>4, <2>5, <2>6, <2>7, OpenKept
<1>4. ASSUME NEW u \in Viewers, Write(u) PROVE OpenInv'
  <2>1. seen'[u] = Append(seen[u], held[u]) /\ held'[u] = NoFrame /\ held[u] # NoFrame
        /\ \A v \in Viewers : v # u => seen'[v] = seen[v] /\ held'[v] = held[v]
    BY <1>4 DEF Write, HubInv, TypeOK
  <2>2. \A v \in Viewers : Taken(v)' = Taken(v)
    BY <2>1 DEF Taken
  <2>3. UNCHANGED <<buf, watched, lost>> /\ \A r \in Runs : Began(r)' = Began(r)
    BY <1>4 DEF Write, runVars, Began
  <2>4. \A r \in Runs : Untouched(r)' = Untouched(r) /\ buf'[r] = buf[r]
    BY <2>2, <2>3 DEF Untouched, WatchersOf
  <2> QED
    BY <2>3, <2>4, OpenKept
<1>5. ASSUME NEW u \in Viewers, WriteFails(u) PROVE OpenInv'
  <2>1. /\ watched[u] \in Runs /\ lost'[u] # 0
        /\ \A v \in Viewers : v # u => lost'[v] = lost[v] /\ held'[v] = held[v]
    <3>1. viewer[u] = "streaming" /\ lost[u] = 0
      BY <1>5 DEF WriteFails, HubInv, TypeOK, References
    <3> QED
      BY <1>5, <3>1 DEF WriteFails, HubInv, TypeOK, References
  <2>2. UNCHANGED <<buf, watched, seen>> /\ \A r \in Runs : Began(r)' = Began(r)
    BY <1>5 DEF WriteFails, runVars, Began
  <2>3. ~Untouched(watched[u])'
    BY <2>1, <2>2 DEF Untouched, WatchersOf
  <2>4. ASSUME NEW r \in Runs, r # watched[u] PROVE Untouched(r)' = Untouched(r)
    <3>1. WatchersOf(r)' = WatchersOf(r) /\ u \notin WatchersOf(r)
      BY <2>2, <2>4 DEF WatchersOf
    <3>2. \A v \in WatchersOf(r) : Taken(v)' = Taken(v) /\ lost'[v] = lost[v]
      BY <2>1, <2>2, <3>1 DEF Taken, WatchersOf
    <3> QED
      BY <3>1, <3>2 DEF Untouched
  <2> QED
    BY <2>2, <2>3, <2>4, OpenKept
<1>6. ASSUME NEW u \in Viewers, NEW k \in Runs, Connect(u, k) PROVE OpenInv'
  <2>1. /\ watched[u] = None
        /\ \A v \in Viewers : v # u => watched'[v] = watched[v]
    BY <1>6 DEF Connect, HubInv, TypeOK, References
  <2>2. UNCHANGED <<buf, held, seen, lost>> /\ \A r \in Runs : Began(r)' = Began(r)
    BY <1>6 DEF Connect, runVars, Began
  <2>3. \A r \in Runs : WatchersOf(r) \subseteq WatchersOf(r)'
    BY <2>1, HubAssumption DEF WatchersOf
  <2>4. \A r \in Runs : Untouched(r)' => Untouched(r)
    BY <2>2, <2>3 DEF Untouched, Taken
  <2> QED
    BY <2>2, <2>4, OpenKept
<1>7. ASSUME NEW r \in Runs, Engine(r) PROVE OpenInv'
  BY <1>7, OpenEngine
<1> QED
  BY <1>1, <1>2, <1>3, <1>4, <1>5, <1>6, <1>7
  DEF Next, Starter, Alloc, Register, CancelFound, LookUp, Expire, Stream, End, Leave,
      runVars, viewVars, vars

\* The frame with the walls waits for the first browser, however late it comes,
\* for every interval and every capacity of the channel (hub.go 28-34, 81-83).
THEOREM HubOpeningFrameKept == Spec => []OpeningFrameKept
<1>1. Init => OpenInv
  BY DEF Init, OpenInv, Began
<1>2. HubInv /\ OpenInv => OpeningFrameKept
  <2> SUFFICES ASSUME HubInv, OpenInv, NEW r \in Runs, Offered(r) > 0, Untouched(r)
               PROVE  buf[r] # <<>> /\ Head(buf[r]) = 0
    BY DEF OpeningFrameKept, Untouched
  <2>1. Began(r)
    <3> SUFFICES ASSUME ~Began(r) PROVE FALSE
      OBVIOUS
    <3>1. t[r] = 0 /\ engine[r] \notin {"returned", "stored", "ended"}
      BY Sequences, HubAssumption DEF Began, HubInv, TypeOK
    <3>2. {k \in 0 .. t[r] - 1 : k % Interval = 0} = {}
      BY <3>1
    <3>3. Offered(r) = 0
      BY <3>1, <3>2, FS_EmptySet DEF Offered
    <3> QED
      BY <3>3
  <2> QED
    BY <2>1 DEF OpenInv
<1> QED
  BY <1>1, <1>2, HubInvInit, HubInvNext, OpenInvNext, PTL DEF Spec

-----------------------------------------------------------------------------
(***************************************************************************)
(* Every frame is accounted for.                                           *)
(***************************************************************************)
\* The ticks before n that are due.
Due(n) == {k \in 0 .. n - 1 : k % Interval = 0}
Finished(r) == IF engine[r] \in {"returned", "stored", "ended"} THEN 1 ELSE 0

Accounted(r) ==
  /\ IsFiniteSet(PassedOn(r))
  /\ Offered(r) = dropped[r] + Len(buf[r]) + Cardinality(PassedOn(r))

AccountInv == \A r \in Runs : Accounted(r)

LEMMA OfferedIsDue ==
  ASSUME NEW r \in Runs PROVE Offered(r) = Cardinality(Due(t[r])) + Finished(r)
BY DEF Offered, Due, Finished

\* The tick after n adds a frame exactly when it is due.
LEMMA OneMoreDue ==
  ASSUME NEW n \in Nat
  PROVE  /\ Cardinality(Due(n)) \in Nat
         /\ Cardinality(Due(n + 1)) = Cardinality(Due(n)) + (IF n % Interval = 0 THEN 1 ELSE 0)
<1>1. IsFiniteSet(0 .. n - 1) /\ Due(n) \in SUBSET (0 .. n - 1)
  BY FS_Interval DEF Due
<1>2. IsFiniteSet(Due(n))
  BY <1>1, FS_Subset
<1>3. n \notin Due(n)
  BY DEF Due
<1>4. Cardinality(Due(n)) \in Nat
  BY <1>2, FS_CardinalityType
<1>5. CASE n % Interval = 0
  <2>1. Due(n + 1) = Due(n) \cup {n}
    BY <1>5 DEF Due
  <2>2. Cardinality(Due(n) \cup {n}) = Cardinality(Due(n)) + 1
    BY <1>2, <1>3, FS_AddElement
  <2> QED
    BY <1>4, <1>5, <2>1, <2>2
<1>6. CASE n % Interval # 0
  <2>1. Due(n + 1) = Due(n)
    BY <1>6 DEF Due
  <2> QED
    BY <1>4, <1>6, <2>1
<1> QED
  BY <1>5, <1>6

\* A step in which nobody takes, writes or loses a frame of r.
LEMMA SamePassedOn ==
  ASSUME NEW r \in Runs, WatchersOf(r)' = WatchersOf(r),
         \A v \in WatchersOf(r) : PassedTo(v)' = PassedTo(v)
  PROVE  PassedOn(r)' = PassedOn(r)
BY DEF PassedOn

\* A frame that is offered is dropped and counted, or waits.
LEMMA OfferCounts ==
  ASSUME HubInv, NEW k \in Runs, NEW f \in Frames, Offer(k, f)
  PROVE  /\ dropped'[k] + Len(buf'[k]) = dropped[k] + Len(buf[k]) + 1
         /\ \A r \in Runs \ {k} : dropped'[r] = dropped[r] /\ buf'[r] = buf[r]
<1>1. buf[k] \in Seq(Frames) /\ dropped[k] \in Nat
  BY DEF HubInv, TypeOK
<1>2. Len(Append(buf[k], f)) = Len(buf[k]) + 1 /\ Len(buf[k]) \in Nat
  BY <1>1
<1>3. /\ \/ buf'[k] = Append(buf[k], f) /\ dropped'[k] = dropped[k]
         \/ buf'[k] = buf[k] /\ dropped'[k] = dropped[k] + 1
      /\ \A r \in Runs \ {k} : dropped'[r] = dropped[r] /\ buf'[r] = buf[r]
  BY DEF Offer, HubInv, TypeOK
<1>4. CASE buf'[k] = Append(buf[k], f) /\ dropped'[k] = dropped[k]
  <2>1. Len(buf'[k]) = Len(buf[k]) + 1
    BY <1>2, <1>4
  <2> QED
    BY <1>1, <1>2, <1>3, <1>4, <2>1
<1>5. CASE buf'[k] = buf[k] /\ dropped'[k] = dropped[k] + 1
  <2>1. Len(buf'[k]) = Len(buf[k])
    BY <1>5
  <2> QED
    BY <1>1, <1>2, <1>3, <1>5, <2>1
<1> QED
  BY <1>3, <1>4, <1>5

LEMMA AccountEngine ==
  ASSUME HubInv, AccountInv, NEW k \in Runs, Engine(k)
  PROVE  AccountInv'
<1>1. ASSUME NEW r \in Runs PROVE PassedOn(r)' = PassedOn(r)
  BY DEF Engine, LoopHead, TickDone, LastFrame, Store, Close, viewVars,
         PassedOn, PassedTo, Taken, WatchersOf
<1>2. ASSUME NEW r \in Runs, r # k PROVE Accounted(r)'
  <2>1. engine'[r] = engine[r] /\ t'[r] = t[r] /\ dropped'[r] = dropped[r] /\ buf'[r] = buf[r]
    BY <1>2 DEF Engine, LoopHead, TickDone, LastFrame, Store, Close, Offer, HubInv, TypeOK
  <2> QED
    BY <1>1, <2>1 DEF AccountInv, Accounted, Offered
<1>3. /\ t[k] \in Nat /\ t[k] \in Frames /\ dropped[k] \in Nat /\ Len(buf[k]) \in Nat
      /\ Cardinality(Due(t[k])) \in Nat /\ Cardinality(PassedOn(k)) \in Nat
  <2>1. t[k] \in Nat /\ t[k] \in Frames /\ dropped[k] \in Nat /\ buf[k] \in Seq(Frames)
    BY HubAssumption DEF HubInv, TypeOK, Frames
  <2>2. Len(buf[k]) \in Nat
    BY <2>1
  <2>3. Cardinality(PassedOn(k)) \in Nat
    BY FS_CardinalityType DEF AccountInv, Accounted
  <2>4. Cardinality(Due(t[k])) \in Nat
    BY <2>1, OneMoreDue
  <2> QED
    BY <2>1, <2>2, <2>3, <2>4
<1>4. Cardinality(Due(t[k])) + Finished(k) = dropped[k] + Len(buf[k]) + Cardinality(PassedOn(k))
  BY OfferedIsDue DEF AccountInv, Accounted
<1>5. ASSUME Cardinality(Due(t'[k])) + Finished(k)'
               = dropped'[k] + Len(buf'[k]) + Cardinality(PassedOn(k))
      PROVE  Accounted(k)'
  <2>1. Offered(k)' = Cardinality(Due(t'[k])) + Finished(k)'
    BY DEF Offered, Due, Finished
  <2> QED
    BY <1>1, <1>5, <2>1 DEF AccountInv, Accounted
<1>6. ASSUME LoopHead(k) \/ Store(k) \/ Close(k) PROVE Accounted(k)'
  <2>1. t' = t /\ dropped' = dropped /\ buf' = buf /\ Finished(k)' = Finished(k)
    BY <1>6 DEF LoopHead, Store, Close, Finished, HubInv, TypeOK
  <2> QED
    BY <1>4, <1>5, <2>1
<1>7. ASSUME TickDone(k) PROVE Accounted(k)'
  <2>1. t'[k] = t[k] + 1 /\ Finished(k) = 0 /\ Finished(k)' = 0
    BY <1>7 DEF TickDone, Finished, HubInv, TypeOK
  <2>2. CASE t[k] % Interval = 0
    <3>1. dropped'[k] + Len(buf'[k]) = dropped[k] + Len(buf[k]) + 1
      BY <1>3, <1>7, <2>2, OfferCounts DEF TickDone, Label
    <3>2. Cardinality(Due(t'[k])) = Cardinality(Due(t[k])) + 1
      BY <1>3, <2>1, <2>2, OneMoreDue
    <3> QED
      BY <1>3, <1>4, <1>5, <2>1, <3>1, <3>2
  <2>3. CASE t[k] % Interval # 0
    <3>1. dropped' = dropped /\ buf' = buf
      BY <1>7, <2>3 DEF TickDone
    <3>2. Cardinality(Due(t'[k])) = Cardinality(Due(t[k]))
      BY <1>3, <2>1, <2>3, OneMoreDue
    <3> QED
      BY <1>3, <1>4, <1>5, <2>1, <3>1, <3>2
  <2> QED
    BY <2>2, <2>3
<1>8. ASSUME LastFrame(k) PROVE Accounted(k)'
  <2>1. t' = t /\ Finished(k) = 0 /\ Finished(k)' = 1
    BY <1>8 DEF LastFrame, Finished, HubInv, TypeOK
  <2>2. dropped'[k] + Len(buf'[k]) = dropped[k] + Len(buf[k]) + 1
    BY <1>3, <1>8, OfferCounts DEF LastFrame
  <2> QED
    BY <1>3, <1>4, <1>5, <2>1, <2>2
<1>9. Accounted(k)'
  BY <1>6, <1>7, <1>8 DEF Engine
<1> QED
  BY <1>2, <1>9 DEF AccountInv

\* A step that moves no engine and no frame between those who hold them.
LEMMA AccountKept ==
  ASSUME AccountInv, UNCHANGED <<t, buf, dropped>>,
         \A r \in Runs : Finished(r)' = Finished(r) /\ PassedOn(r)' = PassedOn(r)
  PROVE  AccountInv'
<1>1. ASSUME NEW r \in Runs PROVE Accounted(r)'
  <2>1. Offered(r)' = Offered(r)
    BY <1>1 DEF Offered, Finished
  <2> QED
    BY <1>1, <2>1 DEF AccountInv, Accounted
<1> QED
  BY <1>1 DEF AccountInv

LEMMA AccountReceive ==
  ASSUME HubInv, AccountInv, NEW u \in Viewers, Receive(u)
  PROVE  AccountInv'
<1> PICK k \in Runs : k = watched[u]
  BY DEF Receive, AtSelect, HubInv, References
<1>1. /\ buf[k] \in Seq(Frames) /\ buf[k] # <<>> /\ seen[u] \in Seq(Frames) /\ lost[u] \in 0 .. 1
      /\ held[u] = NoFrame /\ held' = [held EXCEPT ![u] = Head(buf[k])]
      /\ buf' = [buf EXCEPT ![k] = Tail(@)]
      /\ UNCHANGED <<engine, t, dropped, watched, seen, lost>>
  BY DEF Receive, AtSelect, HubInv, TypeOK
<1>2. Head(buf[k]) \in Frames /\ Len(Tail(buf[k])) = Len(buf[k]) - 1 /\ Len(buf[k]) \in Nat
  BY <1>1
<1>3. held'[u] = Head(buf[k]) /\ held'[u] # NoFrame /\ buf'[k] = Tail(buf[k])
  BY <1>1, <1>2, RunsAreNumbers DEF HubInv, TypeOK
<1>4. Taken(u) = seen[u] /\ Taken(u)' = Append(seen[u], held'[u])
  BY <1>1, <1>3 DEF Taken
<1>5. PassedTo(u) \in Nat /\ PassedTo(u)' = PassedTo(u) + 1
  BY <1>1, <1>2, <1>3, <1>4 DEF PassedTo
<1>6. \A v \in Viewers \ {u} : PassedTo(v)' = PassedTo(v)
  BY <1>1 DEF PassedTo, Taken, HubInv, TypeOK
<1>7. \A r \in Runs : WatchersOf(r)' = WatchersOf(r)
  BY <1>1 DEF WatchersOf
<1>8. PassedOn(k)' = PassedOn(k) \cup {<<u, PassedTo(u) + 1>>}
  <2>1. u \in WatchersOf(k) /\ WatchersOf(k) \subseteq Viewers
    BY DEF WatchersOf
  <2>2. {u} \X (1 .. PassedTo(u)') = ({u} \X (1 .. PassedTo(u))) \cup {<<u, PassedTo(u) + 1>>}
    <3>1. 1 .. PassedTo(u)' = (1 .. PassedTo(u)) \cup {PassedTo(u) + 1}
      BY <1>5
    <3> QED
      BY <3>1
  <2> QED
    BY <1>6, <1>7, <2>1, <2>2 DEF PassedOn
<1>9. <<u, PassedTo(u) + 1>> \notin PassedOn(k)
  <2>1. ASSUME NEW v, NEW n \in 1 .. PassedTo(v), <<u, PassedTo(u) + 1>> = <<v, n>> PROVE FALSE
    BY <1>5, <2>1
  <2> QED
    BY <2>1 DEF PassedOn
<1>10. ASSUME NEW r \in Runs, r # k PROVE Accounted(r)'
  <2>1. u \notin WatchersOf(r)
    BY <1>10 DEF WatchersOf
  <2>2. PassedOn(r)' = PassedOn(r)
    BY <1>6, <1>7, <2>1, SamePassedOn DEF WatchersOf
  <2>3. buf'[r] = buf[r] /\ Offered(r)' = Offered(r)
    BY <1>1, <1>10 DEF Offered, HubInv, TypeOK
  <2> QED
    BY <1>1, <2>2, <2>3 DEF AccountInv, Accounted
<1>11. Accounted(k)'
  <2>1. IsFiniteSet(PassedOn(k)) /\ Cardinality(PassedOn(k)) \in Nat
    BY FS_CardinalityType DEF AccountInv, Accounted
  <2>2. IsFiniteSet(PassedOn(k)') /\ Cardinality(PassedOn(k)') = Cardinality(PassedOn(k)) + 1
    BY <1>8, <1>9, <2>1, FS_AddElement
  <2>3. Offered(k)' = Offered(k) /\ dropped'[k] = dropped[k] /\ dropped[k] \in Nat
    BY <1>1 DEF Offered, HubInv, TypeOK
  <2>4. Offered(k) = dropped[k] + Len(buf[k]) + Cardinality(PassedOn(k))
    BY DEF AccountInv, Accounted
  <2>5. Len(buf'[k]) = Len(buf[k]) - 1 /\ Len(buf[k]) \in Nat
    BY <1>2, <1>3
  <2>6. Offered(k)' = dropped'[k] + Len(buf'[k]) + Cardinality(PassedOn(k)')
    <3> DEFINE d == dropped[k]
               b == Len(buf[k])
               c == Cardinality(PassedOn(k))
    <3>1. d \in Nat /\ b \in Nat /\ c \in Nat
      BY <2>1, <2>3, <2>5
    <3> HIDE DEF d, b, c
    <3>2. d + b + c = d + (b - 1) + (c + 1)
      BY <3>1
    <3> QED
      BY <2>2, <2>3, <2>4, <2>5, <3>2 DEF d, b, c
  <2> QED
    BY <2>2, <2>6 DEF Accounted
<1> QED
  BY <1>10, <1>11 DEF AccountInv

LEMMA AccountInvNext == HubInv /\ OrderInv /\ AccountInv /\ [Next]_vars => AccountInv'
<1> SUFFICES ASSUME HubInv, OrderInv, AccountInv, [Next]_vars PROVE AccountInv'
  OBVIOUS
<1>1. CASE UNCHANGED <<t, buf, dropped, engine, watched, held, seen, lost>>
  <2>1. \A r \in Runs : Finished(r)' = Finished(r) /\ PassedOn(r)' = PassedOn(r)
    BY <1>1 DEF Finished, PassedOn, PassedTo, Taken, WatchersOf
  <2> QED
    BY <1>1, <2>1, AccountKept
<1>2. ASSUME NEW s \in Starters, Launch(s) PROVE AccountInv'
  <2>1. s \in Came /\ engine[idOf[s]] = "none"
    BY <1>2 DEF Launch, Came, HubInv, Numbered
  <2>2. \A r \in Runs : Finished(r)' = Finished(r)
    BY <1>2, <2>1 DEF Launch, Finished, HubInv, TypeOK
  <2>3. \A r \in Runs : PassedOn(r)' = PassedOn(r)
    BY <1>2 DEF Launch, viewVars, PassedOn, PassedTo, Taken, WatchersOf
  <2> QED
    BY <1>2, <2>2, <2>3, AccountKept DEF Launch
<1>3. ASSUME NEW u \in Viewers, Write(u) PROVE AccountInv'
  <2>1. seen'[u] = Append(seen[u], held[u]) /\ held'[u] = NoFrame /\ held[u] # NoFrame
        /\ \A v \in Viewers : v # u => seen'[v] = seen[v] /\ held'[v] = held[v]
    BY <1>3 DEF Write, HubInv, TypeOK
  <2>2. \A v \in Viewers : Taken(v)' = Taken(v)
    BY <2>1 DEF Taken
  <2>3. UNCHANGED <<t, buf, dropped, engine, watched, lost>>
    BY <1>3 DEF Write, runVars
  <2>4. ASSUME NEW r \in Runs PROVE Finished(r)' = Finished(r) /\ PassedOn(r)' = PassedOn(r)
    BY <2>2, <2>3, SamePassedOn DEF Finished, WatchersOf, PassedTo
  <2> QED
    BY <2>3, <2>4, AccountKept
<1>4. ASSUME NEW u \in Viewers, WriteFails(u) PROVE AccountInv'
  <2>1. /\ lost'[u] = lost[u] + 1 /\ held'[u] = NoFrame /\ held[u] # NoFrame
        /\ \A v \in Viewers : v # u => lost'[v] = lost[v] /\ held'[v] = held[v]
    BY <1>4 DEF WriteFails, HubInv, TypeOK
  <2>2. UNCHANGED <<t, buf, dropped, engine, watched, seen>>
    BY <1>4 DEF WriteFails, runVars
  <2>3. seen[u] \in Seq(Frames) /\ held[u] \in Frames /\ lost[u] \in Nat
    BY <2>1 DEF HubInv, TypeOK
  <2>4. PassedTo(u)' = PassedTo(u)
    <3>1. Taken(u) = Append(seen[u], held[u]) /\ Taken(u)' = seen[u]
      BY <2>1, <2>2 DEF Taken
    <3>2. Len(Append(seen[u], held[u])) = Len(seen[u]) + 1 /\ Len(seen[u]) \in Nat
      BY <2>3
    <3>3. Len(Taken(u)) = Len(Taken(u)') + 1 /\ Len(Taken(u)') \in Nat
      BY <3>1, <3>2
    <3>4. Len(Taken(u)') + (lost[u] + 1) = Len(Taken(u)) + lost[u]
      <4> DEFINE a == Len(Taken(u)')
                 b == Len(Taken(u))
                 c == lost[u]
      <4>1. a \in Nat /\ c \in Nat /\ b = a + 1
        BY <2>3, <3>3
      <4> HIDE DEF a, b, c
      <4>2. a + (c + 1) = b + c
        BY <4>1
      <4> QED
        BY <4>2 DEF a, b, c
    <3> QED
      BY <2>1, <3>4 DEF PassedTo
  <2>5. \A v \in Viewers : PassedTo(v)' = PassedTo(v)
    BY <2>1, <2>2, <2>4 DEF PassedTo, Taken
  <2>6. ASSUME NEW r \in Runs PROVE Finished(r)' = Finished(r) /\ PassedOn(r)' = PassedOn(r)
    BY <2>2, <2>5, SamePassedOn DEF Finished, WatchersOf
  <2> QED
    BY <2>2, <2>6, AccountKept
<1>5. ASSUME NEW u \in Viewers, NEW k \in Runs, Connect(u, k) PROVE AccountInv'
  <2>1. /\ viewer[u] = "new" /\ watched[u] = None /\ lost[u] = 0
        /\ \A v \in Viewers : v # u => watched'[v] = watched[v]
    BY <1>5 DEF Connect, HubInv, TypeOK, References
  <2>2. UNCHANGED <<t, buf, dropped, engine, held, seen, lost>>
    BY <1>5 DEF Connect, runVars
  <2>3. Taken(u) = <<>> /\ PassedTo(u) = 0
    BY <2>1 DEF OrderInv, Received, PassedTo
  <2>4. \A v : PassedTo(v)' = PassedTo(v)
    BY <2>2 DEF PassedTo, Taken
  <2>5. {u} \X (1 .. PassedTo(u)) = {}
    BY <2>3
  <2>6. ASSUME NEW r \in Runs PROVE PassedOn(r)' = PassedOn(r)
    <3>1. WatchersOf(r) \subseteq WatchersOf(r)' /\ WatchersOf(r)' \subseteq WatchersOf(r) \cup {u}
      BY <2>1, HubAssumption DEF WatchersOf
    <3>2. PassedOn(r)' = UNION {{v} \X (1 .. PassedTo(v)) : v \in WatchersOf(r)'}
      BY <2>4 DEF PassedOn
    <3> QED
      BY <2>5, <3>1, <3>2 DEF PassedOn
  <2>7. \A r \in Runs : Finished(r)' = Finished(r)
    BY <2>2 DEF Finished
  <2> QED
    BY <2>2, <2>6, <2>7, AccountKept
<1> QED
  BY <1>1, <1>2, <1>3, <1>4, <1>5, AccountEngine, AccountReceive
  DEF Next, Starter, Alloc, Register, CancelFound, LookUp, Expire, Stream, End, Leave,
      runVars, viewVars, vars

\* No frame is lost without a count: what Run offered was dropped and counted,
\* waits, is in a handler's hands, was written, or went with its browser, for
\* any number of browsers on one run (hub.go 28-34, server.go 285-315).
THEOREM HubFramesAccountedFor == Spec => []FramesAccountedFor
<1>1. Init => OrderInv
  <2> SUFFICES ASSUME Init PROVE OrderInv
    OBVIOUS
  <2>1. \A v \in Viewers : Taken(v) = <<>> /\ watched[v] = None
    BY DEF Init, Taken
  <2>2. (\A r \in Runs : buf[r] = <<>>) /\ Ascending(<<>>)
    BY DEF Init, Ascending
  <2> QED
    BY <2>1, <2>2 DEF OrderInv, Waiting, Received, TakenFirst, Apart
<1>2. Init => AccountInv
  <2> SUFFICES ASSUME Init, NEW r \in Runs PROVE Accounted(r)
    BY DEF AccountInv
  <2>1. WatchersOf(r) = {} /\ PassedOn(r) = {}
    BY HubAssumption DEF Init, WatchersOf, PassedOn
  <2>2. Due(0) = {} /\ t[r] = 0 /\ Finished(r) = 0 /\ dropped[r] = 0 /\ buf[r] = <<>>
    BY DEF Due, Init, Finished
  <2>3. Offered(r) = 0
    <3>1. Cardinality(Due(t[r])) = 0
      BY <2>2, FS_EmptySet
    <3>2. Offered(r) = Cardinality(Due(t[r])) + Finished(r)
      BY OfferedIsDue
    <3> QED
      BY <2>2, <3>1, <3>2
  <2>4. Len(buf[r]) = 0 /\ IsFiniteSet(PassedOn(r)) /\ Cardinality(PassedOn(r)) = 0
    BY <2>1, <2>2, FS_EmptySet
  <2> QED
    BY <2>2, <2>3, <2>4 DEF Accounted
<1>3. AccountInv => FramesAccountedFor
  BY DEF AccountInv, Accounted, FramesAccountedFor
<1> QED
  BY <1>1, <1>2, <1>3, HubInvInit, HubInvNext, OrderInvNext, AccountInvNext, PTL DEF Spec
=============================================================================
