------------------------------- MODULE Server -------------------------------
(***************************************************************************)
(* The life of the server (Listen and newHTTPServer in                     *)
(* internal/uiserver/server.go, main in cmd/antweb): the benches of Bench  *)
(* and the open event streams, until a signal ends the process.            *)
(*                                                                         *)
(* main's context is the BaseContext of every request, so the signal       *)
(* cancels all of them; at the same time a goroutine calls Shutdown, which *)
(* closes the listener and waits for the handlers for two seconds at most. *)
(* ListenAndServe returns as soon as the listener is closed, and with it   *)
(* Listen and main.                                                        *)
(***************************************************************************)
EXTENDS Bench

CONSTANT Streams   \* the GET /api/stream requests

VARIABLES
  life,      \* serving, signalled, shutting (the listener is closed), exited
  stream     \* where each stream handler is

serverVars == <<vars, life, stream>>

ServerInit == Init /\ life = "serving" /\ stream = [s \in Streams |-> "new"]

Listening == life \in {"serving", "signalled"}
Alive == life # "exited"

\* signal.NotifyContext: the contexts of all requests are done, also of those
\* yet to come.
Signal ==
  /\ life = "serving"
  /\ life' = "signalled"
  /\ ctx' = [q \in Requests |-> IF ctx[q] = "live" THEN "gone" ELSE ctx[q]]
  /\ UNCHANGED <<slot, handler, engines, job, stream>>

\* srv.Shutdown closes the listener; ListenAndServe gets ErrServerClosed.
Shutdown ==
  /\ life = "signalled"
  /\ life' = "shutting"
  /\ UNCHANGED <<vars, stream>>

\* Listen returns nil, main returns, and the process is gone.
Exit ==
  /\ life = "shutting"
  /\ life' = "exited"
  /\ UNCHANGED <<vars, stream>>

\* Requests are accepted while somebody listens; a bench computes while the
\* process lives.
ServeBench(q) ==
  /\ \/ Listening /\ (Admit(q) \/ Refuse(q))
     \/ Alive /\ (TimeOut(q) \/ HangUp(q) \/ Handler(q))
  /\ UNCHANGED <<life, stream>>

OpenStream(s) ==
  /\ Listening /\ stream[s] = "new"
  /\ stream' = [stream EXCEPT ![s] = "open"]
  /\ UNCHANGED <<vars, life>>

\* The handler returns: its client left, its run ended, or the signal came.
StreamReturns(s) ==
  /\ Alive /\ stream[s] = "open"
  /\ stream' = [stream EXCEPT ![s] = "returned"]
  /\ UNCHANGED <<vars, life>>

ServerNext ==
  \/ Signal \/ Shutdown \/ Exit
  \/ \E q \in Requests : ServeBench(q)
  \/ \E s \in Streams : OpenStream(s) \/ StreamReturns(s)

ServerSpec == ServerInit /\ [][ServerNext]_serverVars
-----------------------------------------------------------------------------
(***************************************************************************)
(* Properties.                                                             *)
(***************************************************************************)
\* "arrêt propre sur SIGTERM (flux SSE fermés, benchs annulés)" (README.md
\* 106-107): the handlers have returned before the process ends.
StopIsClean ==
  ~Alive =>
    /\ \A q \in Requests : handler[q] # "running"
    /\ \A s \in Streams : stream[s] # "open"
=============================================================================
