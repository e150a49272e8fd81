--------------------------- MODULE UiClientProofs ---------------------------
(***************************************************************************)
(* What a patient user is promised, for every number of clicks, of other   *)
(* pages, of frames and of broken streams: the page never has more than    *)
(* the one EventSource it knows, and never draws one colony's walls over   *)
(* another.                                                                *)
(***************************************************************************)
EXTENDS UiClient, TLAPS

SourceStates == {"none", "connecting", "open", "closed"}
PostStates == {"new", "sent", "answering", "done"}

\* A click whose POST has not been answered to the page.
Outstanding(p) == post[p] \in {"sent", "answering"}

\* Neither property is inductive: an answer opens a stream without closing one,
\* which is harmless because a click closed what there was and, as the user
\* waits, no second answer is under way.
OneInv ==
  /\ Patient
  /\ source \in [Runs -> SourceStates]
  /\ post \in [Clicks -> PostStates]
  /\ Unclosed \subseteq {eventSource}
  /\ \A p, q \in Clicks : Outstanding(p) /\ Outstanding(q) => p = q
  /\ \A p \in Clicks : Outstanding(p) => Unclosed = {}
  /\ eventSource # None => cachedWalls \in {None, eventSource}

LEMMA OneInvInit == Patient /\ Init => OneInv
BY DEF Init, OneInv, SourceStates, PostStates, Outstanding, Unclosed

\* Closing the stream the page knows leaves none open, if that is the only one.
LEMMA CloseLeavesNone ==
  ASSUME OneInv, NEW left \in [Runs -> SourceStates],
         {r \in Runs : left[r] \in {"connecting", "open"}} \subseteq {eventSource},
         CloseStream(left)
  PROVE  /\ source' \in [Runs -> SourceStates]
         /\ Unclosed' = {} /\ eventSource' = None /\ cachedWalls' = cachedWalls
<1>1. source' = Closed(left) /\ eventSource' = None /\ cachedWalls' = cachedWalls
  BY DEF CloseStream
<1>2. CASE eventSource = None
  <2>1. source' = left
    BY <1>1, <1>2 DEF Closed
  <2>2. {r \in Runs : left[r] \in {"connecting", "open"}} = {}
    BY <1>2, UiAssumption
  <2> QED
    BY <1>1, <2>1, <2>2 DEF Unclosed
<1>3. CASE eventSource # None
  <2>1. source' = [left EXCEPT ![eventSource] = "closed"]
    BY <1>1, <1>3 DEF Closed
  <2>2. source' \in [Runs -> SourceStates]
    BY <2>1 DEF SourceStates
  <2>3. ASSUME NEW r \in Runs PROVE source'[r] \notin {"connecting", "open"}
    BY <2>1 DEF SourceStates
  <2> QED
    BY <1>1, <2>2, <2>3 DEF Unclosed
<1> QED
  BY <1>2, <1>3

\* A step that leaves the page, its requests and every stream's state alone.
LEMMA OneInvUnchanged ==
  OneInv /\ UNCHANGED <<eventSource, cachedWalls, post, source>> => OneInv'
BY DEF OneInv, Outstanding, Unclosed

LEMMA OneInvNext == OneInv /\ [Next]_vars => OneInv'
<1> SUFFICES ASSUME OneInv, [Next]_vars PROVE OneInv'
  OBVIOUS
<1>1. CASE ClickStop
  <2>1. CloseStream(source) /\ post' = post
    BY <1>1 DEF ClickStop, StopRun
  <2>2. /\ source' \in [Runs -> SourceStates] /\ Unclosed' = {} /\ eventSource' = None
    BY <2>1, CloseLeavesNone DEF OneInv, Unclosed
  <2> QED
    BY <2>1, <2>2 DEF OneInv, Outstanding
<1>2. CASE \E p \in Clicks : ClickStart(p)
  <2>1. PICK p \in Clicks : ClickStart(p)
    BY <1>2
  <2>2. CloseStream(source) /\ post' = [post EXCEPT ![p] = "sent"]
    BY <2>1 DEF ClickStart, StopRun
  <2>3. source' \in [Runs -> SourceStates] /\ Unclosed' = {} /\ eventSource' = None
    BY <2>2, CloseLeavesNone DEF OneInv, Unclosed
  <2>4. \A q \in Clicks : ~Outstanding(q)
    BY <2>1 DEF ClickStart, OneInv, Outstanding
  <2>5. \A q \in Clicks : Outstanding(q)' => q = p
    BY <2>2, <2>4 DEF OneInv, Outstanding
  <2>6. post' \in [Clicks -> PostStates]
    BY <2>2 DEF OneInv, PostStates
  <2> QED
    BY <2>3, <2>5, <2>6 DEF OneInv
<1>3. CASE \E p \in Clicks : HandleRun(p)
  <2>1. PICK p \in Clicks : HandleRun(p)
    BY <1>3
  <2>2. post[p] = "sent" /\ post' = [post EXCEPT ![p] = "answering"]
        /\ UNCHANGED <<eventSource, cachedWalls, source>>
    BY <2>1 DEF HandleRun, pageVars
  <2>3. post' \in [Clicks -> PostStates] /\ \A q \in Clicks : Outstanding(q)' => Outstanding(q)
    BY <2>2 DEF OneInv, Outstanding, PostStates
  <2> QED
    BY <2>2, <2>3 DEF OneInv, Unclosed
<1>4. CASE \E p \in Clicks : Answer(p)
  <2>1. PICK p \in Clicks : Answer(p)
    BY <1>4
  <2>2. /\ post[p] = "answering" /\ post' = [post EXCEPT ![p] = "done"]
        /\ eventSource' = made[p] /\ cachedWalls' = None
        /\ source' = [source EXCEPT ![made[p]] = "connecting"]
    BY <2>1 DEF Answer, WallsReset
  <2>3. Outstanding(p) /\ Unclosed = {} /\ \A q \in Clicks : Outstanding(q) => q = p
    BY <2>2 DEF OneInv, Outstanding
  <2>4. post' \in [Clicks -> PostStates] /\ \A q \in Clicks : ~Outstanding(q)'
    BY <2>2, <2>3 DEF OneInv, Outstanding, PostStates
  <2>5. source' \in [Runs -> SourceStates]
    BY <2>2 DEF OneInv, SourceStates
  <2>6. Unclosed' \subseteq {eventSource'}
    BY <2>2, <2>3 DEF Unclosed, OneInv
  <2> QED
    BY <2>2, <2>4, <2>5, <2>6 DEF OneInv
<1>5. CASE \E p \in Clicks : Fail(p)
  <2>1. PICK p \in Clicks : Fail(p)
    BY <1>5
  <2>2. post' = [post EXCEPT ![p] = "done"] /\ UNCHANGED <<eventSource, cachedWalls, source>>
    BY <2>1 DEF Fail, pageVars
  <2>3. post' \in [Clicks -> PostStates] /\ \A q \in Clicks : Outstanding(q)' => Outstanding(q)
    BY <2>2 DEF OneInv, Outstanding, PostStates
  <2> QED
    BY <2>2, <2>3 DEF OneInv, Unclosed
<1>6. CASE \E v \in Visitors : Visit(v)
  BY <1>6, OneInvUnchanged DEF Visit, pageVars
<1>7. CASE \E r \in Runs : HandleStop(r) \/ LoseStop(r) \/ Server(r)
  BY <1>7, OneInvUnchanged DEF HandleStop, LoseStop, Server, Tick, Finish, pageVars, sentVars
<1>8. CASE \E r \in Runs : Connect(r)
  <2>1. PICK r \in Runs : Connect(r)
    BY <1>8
  <2>2. source[r] = "connecting" /\ post' = post
    BY <2>1 DEF Connect, sentVars
  <2>3. r = eventSource /\ \A q \in Clicks : ~Outstanding(q)
    BY <2>2 DEF OneInv, Unclosed
  <2>4. CASE found = r
    <3>1. source' = [source EXCEPT ![r] = "open"] /\ UNCHANGED <<eventSource, cachedWalls>>
      BY <2>1, <2>4 DEF Connect, pageVars
    <3>2. source' \in [Runs -> SourceStates] /\ Unclosed' \subseteq {eventSource'}
      BY <3>1, <2>3 DEF OneInv, SourceStates, Unclosed
    <3> QED
      BY <2>2, <2>3, <3>1, <3>2 DEF OneInv, Outstanding
  <2>5. CASE found # r
    <3> DEFINE left == [source EXCEPT ![r] = "closed"]
    <3>1. CloseStream(left)
      BY <2>1, <2>3, <2>5 DEF Connect, OnErrorCloses
    <3>2. left \in [Runs -> SourceStates]
          /\ {k \in Runs : left[k] \in {"connecting", "open"}} \subseteq {eventSource}
      BY DEF OneInv, SourceStates, Unclosed
    <3> HIDE DEF left
    <3>3. source' \in [Runs -> SourceStates] /\ Unclosed' = {} /\ eventSource' = None
      BY <3>1, <3>2, CloseLeavesNone
    <3> QED
      BY <2>2, <3>3 DEF OneInv, Outstanding
  <2> QED
    BY <2>4, <2>5
<1>9. CASE \E r \in Runs : Message(r)
  <2>1. PICK r \in Runs : Message(r)
    BY <1>9
  <2>2. /\ source[r] = "open" /\ cachedWalls' \in {r, cachedWalls}
        /\ UNCHANGED <<eventSource, post, source>>
    BY <2>1 DEF Message, sentVars
  <2>3. r = eventSource
    BY <2>2 DEF OneInv, Unclosed
  <2> QED
    BY <2>2, <2>3 DEF OneInv, Outstanding, Unclosed
<1>10. CASE \E r \in Runs : End(r)
  <2>1. PICK r \in Runs : End(r)
    BY <1>10
  <2> DEFINE left == [source EXCEPT ![r] = "connecting"]
  <2>2. source[r] = "open" /\ CloseStream(left) /\ post' = post
    BY <2>1 DEF End, sentVars
  <2>3. left \in [Runs -> SourceStates]
        /\ {k \in Runs : left[k] \in {"connecting", "open"}} \subseteq {eventSource}
    BY <2>2 DEF OneInv, SourceStates, Unclosed
  <2> HIDE DEF left
  <2>4. source' \in [Runs -> SourceStates] /\ Unclosed' = {} /\ eventSource' = None
    BY <2>2, <2>3, CloseLeavesNone
  <2> QED
    BY <2>2, <2>4 DEF OneInv, Outstanding
<1>11. CASE \E r \in Runs : Break(r)
  <2>1. PICK r \in Runs : Break(r)
    BY <1>11
  <2>2. /\ source[r] = "open" /\ source' = [source EXCEPT ![r] = "connecting"]
        /\ UNCHANGED <<eventSource, cachedWalls, post>>
    BY <2>1 DEF Break, pageVars, sentVars
  <2>3. source' \in [Runs -> SourceStates] /\ Unclosed' = Unclosed
    BY <2>2 DEF OneInv, SourceStates, Unclosed
  <2> QED
    BY <2>2, <2>3 DEF OneInv, Outstanding
<1>12. CASE UNCHANGED vars
  BY <1>12, OneInvUnchanged DEF vars, pageVars, sentVars
<1> QED
  BY <1>1, <1>2, <1>3, <1>4, <1>5, <1>6, <1>7, <1>8, <1>9, <1>10, <1>11, <1>12
  DEF Next, Browser

\* While the user waits for an answer before the next click, whatever stream may
\* still bring a frame to the canvas is the one the page knows (hub.go 88).
THEOREM PatientUserHasOneColony == Patient /\ Spec => []OneColony
<1>1. OneInv => OneColony
  BY DEF OneInv, OneColony
<1> QED
  BY <1>1, OneInvInit, OneInvNext, PTL DEF Spec

\* ... and the walls drawn are those of its colony, or none (app.js 17).
THEOREM PatientUserSeesItsWalls == Patient /\ Spec => []WallsOfTheColony
<1>1. OneInv => WallsOfTheColony
  <2> SUFFICES ASSUME OneInv, NEW r \in Runs, source[r] = "open"
               PROVE  cachedWalls \in {None, r}
    BY DEF WallsOfTheColony
  <2>1. r = eventSource
    BY DEF OneInv, Unclosed
  <2> QED
    BY <2>1, UiAssumption DEF OneInv
<1> QED
  BY <1>1, OneInvInit, OneInvNext, PTL DEF Spec
=============================================================================
