------------------------------- MODULE Bench -------------------------------
(***************************************************************************)
(* The engine comparison of the web interface (handleBench in              *)
(* internal/uiserver/server.go).  Every POST /api/bench is a goroutine of  *)
(* its own; benchSlot admits one at a time.  A bench runs each engine it   *)
(* was asked for Repeat times under one context, keeps the fastest run and *)
(* compares it with the first engine of the same variant.                  *)
(*                                                                         *)
(* A run is its number of ticks, its wall time, which is arbitrary, and    *)
(* its checksum: two sound engines of one variant agree after the same     *)
(* number of ticks and on nothing else.                                    *)
(***************************************************************************)
EXTENDS Integers, Sequences, FiniteSets

CONSTANTS
  Requests,     \* the POSTs
  Asked,        \* the lists of engines a request may name
  Known,        \* simcore.Names()
  Broken,       \* the engines an "optimization" changed
  VariantOf,    \* engine -> the simulation it implements
  Ticks, Repeat,
  WallTimes,    \* what a run may take, in ticks of the clock: 0 on a coarse one
  Unlimited,    \* Server.DisableLimits
  None

ASSUME BenchAssumption ==
  /\ IsFiniteSet(Requests)
  /\ Asked \subseteq Seq(DOMAIN VariantOf)
  /\ Known \subseteq DOMAIN VariantOf /\ Broken \subseteq Known
  /\ Ticks \in Nat /\ Repeat \in Nat \ {0}
  /\ WallTimes \subseteq Nat
  /\ Unlimited \in BOOLEAN
  /\ None \notin WallTimes /\ None \notin DOMAIN VariantOf
  /\ None \notin [variant : {VariantOf[e] : e \in DOMAIN VariantOf},
                  ticks : Nat, by : Known \cup {None}]

VARIABLES
  slot,       \* len(benchSlot)
  handler,    \* where each request is
  engines,    \* its list
  ctx,        \* its context: live, past benchTimeout, or without a client
  row,        \* the place in the list
  i, tick,    \* the repeat, and the ticks this run has completed
  best,       \* the fastest run of this engine
  refChecksum, baseline, rows

job == <<row, i, tick, best, refChecksum, baseline, rows>>
vars == <<slot, handler, engines, ctx, job>>

Variants == {VariantOf[e] : e \in DOMAIN VariantOf}
NoRun == [ticks |-> 0, wall |-> None, checksum |-> None]

Init ==
  /\ slot = 0
  /\ handler = [q \in Requests |-> "new"]
  /\ engines \in [Requests -> Asked]
  /\ ctx = [q \in Requests |-> "live"]
  /\ row = [q \in Requests |-> 1]
  /\ i = [q \in Requests |-> 0]
  /\ tick = [q \in Requests |-> 0]
  /\ best = [q \in Requests |-> NoRun]
  /\ refChecksum = [q \in Requests |-> [v \in Variants |-> None]]
  /\ baseline = [q \in Requests |-> [v \in Variants |-> 0]]
  /\ rows = [q \in Requests |-> <<>>]

\* select on benchSlot, with a default: a bench never queues.  Mutation: it
\* does not look.
SlotIgnored == TRUE
Vacant == slot = 0

Admit(q) ==
  /\ handler[q] = "new"
  /\ Unlimited \/ Vacant
  /\ slot' = IF Unlimited THEN slot ELSE slot + 1
  /\ handler' = [handler EXCEPT ![q] = "running"]
  /\ UNCHANGED <<engines, ctx, job>>

Refuse(q) ==
  /\ handler[q] = "new" /\ ~Unlimited /\ ~Vacant
  /\ handler' = [handler EXCEPT ![q] = "refused"]
  /\ UNCHANGED <<slot, engines, ctx, job>>

\* benchTimeout passes; or the client leaves, or the server shuts down.
TimeOut(q) ==
  /\ handler[q] = "running" /\ ~Unlimited /\ ctx[q] = "live"
  /\ ctx' = [ctx EXCEPT ![q] = "timedOut"]
  /\ UNCHANGED <<slot, handler, engines, job>>
HangUp(q) ==
  /\ handler[q] = "running" /\ ctx[q] = "live"
  /\ ctx' = [ctx EXCEPT ![q] = "gone"]
  /\ UNCHANGED <<slot, handler, engines, job>>

Current(q) == engines[q][row[q]]

Repeats(q) == i[q] < Repeat

InRun(q) ==
  handler[q] = "running" /\ row[q] <= Len(engines[q]) /\ Current(q) \in Known /\ Repeats(q)

\* Run looks at the context before every tick and returns what it has.
RunTick(q) ==
  /\ InRun(q) /\ tick[q] < Ticks /\ ctx[q] = "live"
  /\ tick' = [tick EXCEPT ![q] = @ + 1]
  /\ UNCHANGED <<slot, handler, engines, ctx, row, i, best, refChecksum, baseline, rows>>

Checksum(e, n) ==
  [variant |-> VariantOf[e], ticks |-> n, by |-> IF e \in Broken /\ n > 0 THEN e ELSE None]

Faster(w, r) == r.wall = None \/ w < r.wall

RunReturns(q, w) ==
  /\ InRun(q) /\ (tick[q] = Ticks \/ ctx[q] # "live")
  /\ best' = [best EXCEPT ![q] =
       IF Faster(w, @)
       THEN [ticks |-> tick[q], wall |-> w, checksum |-> Checksum(Current(q), tick[q])]
       ELSE @]
  /\ i' = [i EXCEPT ![q] = @ + 1]
  /\ tick' = [tick EXCEPT ![q] = 0]
  /\ UNCHANGED <<slot, handler, engines, ctx, row, refChecksum, baseline, rows>>

\* Reference and baseline are kept per variant.  Mutation: one for all.
AnyVariant(e) == CHOOSE v \in Variants : TRUE
Group(e) == VariantOf[e]

\* The wall time rows of v are measured against from here on.  0 means that there
\* is none yet, so that a run of 0 sets none.  Mutation: it is set with the
\* reference, by whoever comes first.
BaselineWithReference(q, v) ==
  IF refChecksum[q][v] = None THEN best[q].wall ELSE baseline[q][v]
Baseline(q, v) == IF baseline[q][v] = 0 THEN best[q].wall ELSE baseline[q][v]

\* The wall time this row's speedup is over, 0 for none: SpeedupX divides by the
\* row's own.  Mutation: it divides by 0.
OverAlways(q, v) == Baseline(q, v)
Over(q, v) == IF best[q].wall > 0 THEN Baseline(q, v) ELSE 0

\* One row: compared with the first row of its group, or the first itself.
AddRow(q) ==
  LET v   == Group(Current(q))
      ref == IF refChecksum[q][v] = None THEN best[q].checksum ELSE refChecksum[q][v]
  IN
  /\ handler[q] = "running" /\ row[q] <= Len(engines[q])
  /\ Current(q) \in Known /\ ~Repeats(q)
  /\ refChecksum' = [refChecksum EXCEPT ![q][v] = ref]
  /\ baseline' = [baseline EXCEPT ![q][v] = Baseline(q, v)]
  /\ rows' = [rows EXCEPT ![q] = Append(@,
       [engine |-> Current(q), ticks |-> best[q].ticks, wall |-> best[q].wall,
        over |-> Over(q, v), mismatched |-> best[q].checksum # ref])]
  /\ row' = [row EXCEPT ![q] = @ + 1]
  /\ i' = [i EXCEPT ![q] = 0]
  /\ best' = [best EXCEPT ![q] = NoRun]
  /\ UNCHANGED <<slot, handler, engines, ctx, tick>>

\* simcore.New fails: the row holds the error.
AddError(q) ==
  /\ handler[q] = "running" /\ row[q] <= Len(engines[q]) /\ Current(q) \notin Known
  /\ rows' = [rows EXCEPT ![q] = Append(@,
       [engine |-> Current(q), ticks |-> 0, wall |-> 0, over |-> 0, mismatched |-> FALSE])]
  /\ row' = [row EXCEPT ![q] = @ + 1]
  /\ UNCHANGED <<slot, handler, engines, ctx, i, tick, best, refChecksum, baseline>>

\* The table is written and the deferred receive frees the slot.  Mutation:
\* only a bench that was not interrupted frees it.
FreedIfLive(q) == ~Unlimited /\ ctx[q] = "live"
Freed(q) == ~Unlimited

Answer(q) ==
  /\ handler[q] = "running" /\ row[q] > Len(engines[q])
  /\ handler' = [handler EXCEPT ![q] = "answered"]
  /\ slot' = IF Freed(q) THEN slot - 1 ELSE slot
  /\ UNCHANGED <<engines, ctx, job>>

Handler(q) ==
  \/ RunTick(q) \/ (\E w \in WallTimes : RunReturns(q, w))
  \/ AddRow(q) \/ AddError(q) \/ Answer(q)

Next == \E q \in Requests : Admit(q) \/ Refuse(q) \/ TimeOut(q) \/ HangUp(q) \/ Handler(q)

\* A handler that was admitted is scheduled.  No request need come, no client
\* need leave and no timeout need pass.
Spec == Init /\ [][Next]_vars /\ \A q \in Requests : WF_vars(Handler(q))
-----------------------------------------------------------------------------
(***************************************************************************)
(* Properties.                                                             *)
(***************************************************************************)
Running == {q \in Requests : handler[q] = "running"}

\* While limits apply the slot is exactly the bench that is running: two never
\* share the cores (server.go 33-36), and a place is held for nothing else.
OneBenchAtATime ==
  ~Unlimited => Cardinality(Running) <= 1 /\ slot = Cardinality(Running)

\* The rows of q that are comparable with row n, the first of them is the
\* reference.
Peers(q, n) ==
  {m \in 1 .. n : rows[q][m].engine \in Known
                  /\ VariantOf[rows[q][m].engine] = VariantOf[rows[q][n].engine]}
First(S) == CHOOSE m \in S : \A k \in S : m <= k
Reference(q, n) == First(Peers(q, n))
TimedPeers(q, n) == {m \in Peers(q, n) : rows[q][m].wall > 0}
Rows(q) == {n \in DOMAIN rows[q] : rows[q][n].engine \in Known}

\* In a bench that was not cut short the mismatch flag tells the engines apart:
\* with a sound reference exactly the broken ones are flagged, and differing
\* variants never cry wolf (server.go 362-367).
BrokenAreFlagged ==
  \A q \in Requests : ctx[q] = "live" /\ Ticks > 0 =>
    \A n \in Rows(q) : rows[q][Reference(q, n)].engine \notin Broken =>
      (rows[q][n].mismatched <=> rows[q][n].engine \in Broken)

\* A speedup is only ever over the first engine of the same variant whose run took
\* any time.  An engine whose run took none shows no speedup, and as its 0 cannot
\* be told from an unset baseline (server.go 419) the next engine of the variant
\* takes its place, where app.js 300-302 says "their own variant's first row".
SpeedupWithinVariant ==
  \A q \in Requests : \A n \in Rows(q) :
    rows[q][n].over = IF rows[q][n].wall = 0 THEN 0
                      ELSE rows[q][First(TimedPeers(q, n))].wall

\* "A mismatch means an 'optimization' changed the simulation" (server.go
\* 411-413), in every table a client is still there to read.
MismatchMeansBroken ==
  \A q \in Requests : ctx[q] # "gone" =>
    \A n \in Rows(q) : rows[q][n].mismatched =>
      rows[q][n].engine \in Broken \/ rows[q][Reference(q, n)].engine \in Broken

\* Every bench that was admitted answers and gives the slot back, however many
\* engines it names and whatever ended its context.
SlotComesBack ==
  /\ \A q \in Requests : handler[q] = "running" ~> handler[q] = "answered"
  /\ slot = 1 ~> slot = 0
=============================================================================
