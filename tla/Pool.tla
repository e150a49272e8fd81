-------------------------------- MODULE Pool --------------------------------
(***************************************************************************)
(* The worker pool of the parallel and nogc engines (pool.go, the same     *)
(* file in both packages).  The calling goroutine hands a phase to one     *)
(* worker after the other over unbuffered channels and waits on a          *)
(* WaitGroup; worker k owns the share Lo(k) .. Hi(k) - 1 of the ants in    *)
(* phase A and of the rows of both grids in phase C.                       *)
(***************************************************************************)
EXTENDS Grid, FiniteSets

CONSTANT Procs   \* the values GOMAXPROCS may have when Run starts

ASSUME ProcsAssumption == Procs \subseteq Nat

VARIABLES
  n,       \* len(pool.work)
  handed,  \* pool.run: the workers handed the phase are 0 .. handed - 1
  wg,      \* the WaitGroup's counter
  work,    \* what each worker is doing
  at,      \* the ant or row each worker is at
  grid,    \* phase C: the grid each worker is at
  closed   \* pool.stop: the channels are closed

pool == <<handed, wg, work, at, grid, closed>>

\* newPool clamps the number of workers to [1, H].
PoolSize(p) == IF p > Height THEN Height ELSE IF p < 1 THEN 1 ELSE p
Workers == 0 .. n - 1

\* span(k, n, total): worker k's share.  Mutation: it is rounded up.
HiRoundedUp(k, total) == (total * (k + 1) + n - 1) \div n
Lo(k, total) == (total * k) \div n
Hi(k, total) == (total * (k + 1)) \div n

Total(ph) == IF ph = "sense" THEN AntCount ELSE Height

NewPool ==
  /\ n \in {PoolSize(p) : p \in Procs}
  /\ handed = 0 /\ wg = 0 /\ closed = FALSE
  /\ work = [k \in Workers |-> "idle"]
  /\ at = [k \in Workers |-> 0]
  /\ grid = [k \in Workers |-> "food"]

(***************************************************************************)
(* pool.run and pool.stop, in the calling goroutine.                       *)
(***************************************************************************)
\* wg.Add(len(p.work)).
Submit == wg' = n /\ handed' = 0 /\ UNCHANGED <<work, at, grid, closed>>

\* ch <- ph blocks until worker `handed` is back at its receive.
HandOver(ph) ==
  /\ handed < n /\ work[handed] = "idle"
  /\ work' = [work EXCEPT ![handed] = ph]
  /\ at' = [at EXCEPT ![handed] = Lo(handed, Total(ph))]
  /\ grid' = [grid EXCEPT ![handed] = "food"]
  /\ handed' = handed + 1
  /\ UNCHANGED <<n, wg, closed>>

\* wg.Wait() returns when every worker is done.  Mutation: run does not wait.
AllSent == handed = n
Released == handed = n /\ wg = 0

\* The deferred stop closes every channel.  Mutation: it does not.
NotStopped == closed
Stopped == TRUE
Stop == closed' = Stopped /\ UNCHANGED <<n, handed, wg, work, at, grid>>

(***************************************************************************)
(* Worker k: for ph := range ch.                                           *)
(***************************************************************************)
Senses(k) == work[k] = "sense" /\ at[k] < Hi(k, AntCount)
Decays(k) == work[k] = "decay" /\ at[k] < Hi(k, Height)

Advance(k) == at' = [at EXCEPT ![k] = @ + 1] /\ UNCHANGED <<n, handed, wg, work, grid, closed>>

\* decayRows: the food grid first, then the home grid.
NextGrid(k) ==
  /\ work[k] = "decay" /\ at[k] = Hi(k, Height) /\ grid[k] = "food"
  /\ grid' = [grid EXCEPT ![k] = "home"]
  /\ at' = [at EXCEPT ![k] = Lo(k, Height)]
  /\ UNCHANGED <<n, handed, wg, work, closed>>

\* wg.Done(), and back to the receive.
Done(k) ==
  /\ \/ work[k] = "sense" /\ at[k] = Hi(k, AntCount)
     \/ work[k] = "decay" /\ at[k] = Hi(k, Height) /\ grid[k] = "home"
  /\ wg' = wg - 1
  /\ work' = [work EXCEPT ![k] = "idle"]
  /\ at' = [at EXCEPT ![k] = 0]
  /\ UNCHANGED <<n, handed, grid, closed>>

\* The channel is closed: the range loop ends.
Exit(k) ==
  /\ work[k] = "idle" /\ closed
  /\ work' = [work EXCEPT ![k] = "exited"]
  /\ UNCHANGED <<n, handed, wg, at, grid, closed>>

Idles(k) == NextGrid(k) \/ Done(k) \/ Exit(k)

AllExited == \A k \in Workers : work[k] = "exited"
-----------------------------------------------------------------------------
Busy == {k \in Workers : work[k] \in {"sense", "decay"}}

\* The pool's bookkeeping while the caller is in phase ph: the WaitGroup counts
\* the workers that are busy or not handed the phase yet, and a worker is busy
\* only with that phase, inside its own share.
PoolTypeOK(ph) ==
  /\ n \in 1 .. Height /\ handed \in 0 .. n /\ closed \in BOOLEAN
  /\ work \in [Workers -> {"idle", "sense", "decay", "exited"}]
  /\ grid \in [Workers -> {"food", "home"}] /\ at \in [Workers -> Nat]
  /\ wg = IF ph \in {"sense", "decay"} THEN Cardinality(Busy) + (n - handed) ELSE 0
  /\ \A k \in Busy : work[k] = ph /\ k < handed
                     /\ at[k] \in Lo(k, Total(ph)) .. Hi(k, Total(ph))
=============================================================================
