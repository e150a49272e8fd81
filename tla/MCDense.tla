------------------------------ MODULE MCDense ------------------------------
(***************************************************************************)
(* The engines over slices, flatgrid and parallel, on a world of two       *)
(* columns by three rows: three ants, of whom two can reach one unit of    *)
(* food in the same tick, and one, two or three workers.                   *)
(***************************************************************************)
EXTENDS Parallel

VARIABLE engine   \* the engine the run was started with

MCVars == <<pooledVars, engine>>

\* Every ant follows a script, <<heading, <<roll, wanderPick>>>>: set out east,
\* or north, and follow the trail, or set out to a side and wander.  As its
\* interleavings are many, the ants of parallel follow the first two only.
FewScripts == {<<2, <<1, 0>>>>, <<3, <<0, 1>>>>}
Scripts == FewScripts \cup {<<0, <<1, 0>>>>, <<5, <<0, 2>>>>, <<7, <<0, 0>>>>}
StreamOf(script) ==
  [p \in 0 .. 2 * Ticks |->
     IF p = 0 THEN 3 * script[1]
     ELSE <<12 * script[2][1], 8 * script[2][2]>>[2 - (p % 2)]]
MCStreams == [Ants -> {StreamOf(s) : s \in Scripts}]

\* flatgrid has no pool, which is a pool whose only worker has gone.
NoPool ==
  /\ n = 1 /\ handed = 1 /\ wg = 0 /\ closed = TRUE
  /\ work = [k \in Workers |-> "exited"]
  /\ at = [k \in Workers |-> 0] /\ grid = [k \in Workers |-> "food"]

Flat(A) == engine = "flatgrid" /\ A /\ UNCHANGED <<n, pool, engine>>
Pooled(A) == engine = "parallel" /\ A /\ UNCHANGED engine

MCInit ==
  \/ engine = "flatgrid" /\ FlatInit /\ NoPool
  \/ /\ engine = "parallel" /\ PooledInit
     /\ \A i \in Ants : stream[i] \in {StreamOf(s) : s \in FewScripts}
MCNext == Flat(FlatNext) \/ Pooled(PooledNext)
MCSpec ==
  /\ MCInit /\ [][MCNext]_MCVars
  /\ WF_MCVars(Flat(FlatTick))
  /\ WF_MCVars(Pooled(PooledCaller))
  /\ \A k \in 0 .. Height - 1 : WF_MCVars(Pooled(PooledWorker(k)))

SmallNest  == <<0, 1>>
SmallWalls == <<[x |-> 1, y |-> 0, w |-> 1, h |-> 1]>>
SmallPiles == <<[at |-> <<1, 1>>, amount |-> 1], [at |-> <<1, 2>>, amount |-> 1]>>
=============================================================================
