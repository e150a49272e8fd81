----------------------------- MODULE Transport -----------------------------
(***************************************************************************)
(* The middleware around every handler (internal/uiserver/gzip.go,         *)
(* auth.go): basic authentication, then compression with a compressor that *)
(* is taken from a pool shared by all requests and given back when the     *)
(* handler returned.  Each request is a goroutine.                         *)
(*                                                                         *)
(* A body is a sequence of parts [of, part, zip]: who wrote it, its        *)
(* number, and whether it is compressed.  Part End closes a compressed     *)
(* body.  A compressor may keep parts to itself until it is closed, and    *)
(* once a write to its response has failed it stays silent until Reset.    *)
(***************************************************************************)
EXTENDS Integers, Sequences, FiniteSets

CONSTANTS
  Exchanges,    \* requests with their responses
  Compressors,  \* what sync.Pool hands out
  MaxParts,     \* bound: the parts of a body
  Incoming,     \* the calls that are made
  Locked,       \* RequireBasicAuth was called
  Nobody

\* What the middleware looks at; "page" stands for the files and the endpoints
\* with an answer of their own.
Calls == [path : {"page", "stream", "healthz"}, gzip : BOOLEAN, range : BOOLEAN, known : BOOLEAN]

\* sync.Pool makes a compressor when it has none, so nobody waits for one.
ASSUME TransportAssumption ==
  /\ IsFiniteSet(Exchanges) /\ IsFiniteSet(Compressors)
  /\ Cardinality(Compressors) >= Cardinality(Exchanges)
  /\ MaxParts \in Nat \ {0} /\ Locked \in BOOLEAN /\ Incoming \subseteq Calls

VARIABLES
  call,                     \* what is asked, of each exchange
  at,                       \* where its goroutine is
  gz,                       \* its compressor
  wroteHeader, compressing, \* the fields of its gzipResponseWriter
  written,                  \* how many parts its handler has written
  gone,                     \* its client has left
  code, encoded, length,    \* the response: status, Content-Encoding and -Length
  body,                     \* what was put on the wire
  pool,                     \* the compressors in gzipPool
  target, kept, failed      \* compressor -> response, parts not put out, error

requestVars == <<call, at, gz, wroteHeader, compressing, written, gone>>
responseVars == <<code, encoded, length, body>>
gzipVars == <<pool, target, kept, failed>>
transportVars == <<requestVars, responseVars, gzipVars>>

End == 0
Part(q, n, zip) == [of |-> q, part |-> n, zip |-> zip]

TransportInit ==
  /\ call \in [Exchanges -> Incoming] /\ at = [q \in Exchanges |-> "new"]
  /\ gz = [q \in Exchanges |-> Nobody]
  /\ wroteHeader = [q \in Exchanges |-> FALSE] /\ compressing = [q \in Exchanges |-> FALSE]
  /\ written = [q \in Exchanges |-> 0]
  /\ gone = [q \in Exchanges |-> FALSE]
  /\ code = [q \in Exchanges |-> 0]
  /\ encoded = [q \in Exchanges |-> FALSE] /\ length = [q \in Exchanges |-> FALSE]
  /\ body = [q \in Exchanges |-> <<>>]
  /\ pool = Compressors /\ target = [k \in Compressors |-> Nobody]
  /\ kept = [k \in Compressors |-> <<>>] /\ failed = [k \in Compressors |-> FALSE]

(***************************************************************************)
(* Before the handler.                                                     *)
(***************************************************************************)
Turned(q) == Locked /\ call[q].path # "healthz" /\ ~call[q].known

\* Mutation: the stream is compressed like the rest.
StreamToo(q) == call[q].range \/ ~call[q].gzip
PassesThrough(q) == call[q].path = "stream" \/ call[q].range \/ ~call[q].gzip

\* 401, with a body, before the compression is reached.
Unauthorized(q) ==
  /\ at[q] = "new" /\ Turned(q)
  /\ at' = [at EXCEPT ![q] = "answered"]
  /\ code' = [code EXCEPT ![q] = 401]
  /\ written' = [written EXCEPT ![q] = 1]
  /\ body' = [body EXCEPT ![q] = IF gone[q] THEN @ ELSE <<Part(q, 1, FALSE)>>]
  /\ UNCHANGED <<call, gz, wroteHeader, compressing, gone, encoded, length, gzipVars>>

Pass(q) ==
  /\ at[q] = "new" /\ ~Turned(q) /\ PassesThrough(q)
  /\ at' = [at EXCEPT ![q] = "handler"]
  /\ UNCHANGED <<call, gz, wroteHeader, compressing, written, gone, responseVars, gzipVars>>

\* gzipPool.Get, then Reset.  Mutation: the compressor is taken as it was left.
AsLeft(k, q) == target' = [target EXCEPT ![k] = q] /\ UNCHANGED <<kept, failed>>
Reset(k, q) ==
  /\ target' = [target EXCEPT ![k] = q]
  /\ kept' = [kept EXCEPT ![k] = <<>>]
  /\ failed' = [failed EXCEPT ![k] = FALSE]

Compress(q) ==
  /\ at[q] = "new" /\ ~Turned(q) /\ ~PassesThrough(q)
  /\ at' = [at EXCEPT ![q] = "handler"]
  /\ \E k \in pool :
       /\ gz' = [gz EXCEPT ![q] = k]
       /\ pool' = pool \ {k}
       /\ Reset(k, q)
  /\ UNCHANGED <<call, wroteHeader, compressing, written, gone, responseVars>>

(***************************************************************************)
(* The handler's calls.                                                    *)
(***************************************************************************)
Bodiless(c) == c \in {204, 304}

\* WriteHeader on either writer; `given` says that the handler set the length of
\* the body it is about to write.  A second call changes nothing.  Mutation: the
\* length stays.
LengthKept(given) == given
LengthLeft(given) == FALSE

Header(q, c, given) ==
  LET zips == gz[q] # Nobody /\ ~Bodiless(c)
  IN /\ ~wroteHeader[q]
     /\ wroteHeader' = [wroteHeader EXCEPT ![q] = TRUE]
     /\ compressing' = [compressing EXCEPT ![q] = zips]
     /\ code' = [code EXCEPT ![q] = c]
     /\ encoded' = [encoded EXCEPT ![q] = zips]
     /\ length' = [length EXCEPT ![q] = IF zips THEN LengthLeft(given) ELSE given]

\* 200 stands for every status with a body.  A file may be unchanged, and comes
\* with its length; the answer of an endpoint does not, and for the probe's the
\* first Write calls WriteHeader.  handleStream wants a Flusher, which
\* gzipResponseWriter is not.
WriteHeader(q) ==
  /\ at[q] = "handler"
  /\ \/ call[q].path = "page" /\ \E given \in BOOLEAN : Header(q, 200, given)
     \/ call[q].path = "page" /\ Header(q, 304, FALSE)
     \/ call[q].path = "healthz" /\ Header(q, 200, FALSE)
     \/ call[q].path = "stream" /\ Header(q, IF gz[q] = Nobody THEN 200 ELSE 500, FALSE)
  /\ UNCHANGED <<call, at, gz, written, gone, body, gzipVars>>

\* What arrives at q's client of `parts`, if it is still there.
Received(q, parts) == IF gone[q] THEN body[q] ELSE body[q] \o parts

\* The compressor takes parts for its response, and keeps them or puts out all it has.
Squeeze(k, parts, closes) ==
  LET q == target[k]
      all == kept[k] \o parts
  IN \/ failed[k] /\ UNCHANGED <<body, kept, failed>>
     \/ /\ ~failed[k] /\ ~closes
        /\ kept' = [kept EXCEPT ![k] = all]
        /\ UNCHANGED <<body, failed>>
     \/ /\ ~failed[k]
        /\ body' = [body EXCEPT ![q] = Received(q, all)]
        /\ kept' = [kept EXCEPT ![k] = <<>>]
        /\ \E broken \in {FALSE, gone[q]} : failed' = [failed EXCEPT ![k] = broken]

Write(q) ==
  LET n == written[q] + 1 IN
  /\ at[q] = "handler" /\ wroteHeader[q] /\ ~Bodiless(code[q])
  /\ written[q] < MaxParts
  /\ written' = [written EXCEPT ![q] = n]
  /\ IF compressing[q]
     THEN Squeeze(gz[q], <<Part(q, n, TRUE)>>, FALSE)
     ELSE body' = [body EXCEPT ![q] = Received(q, <<Part(q, n, FALSE)>>)] /\ UNCHANGED <<kept, failed>>
  /\ UNCHANGED <<call, at, gz, wroteHeader, compressing, gone, code, encoded, length,
                 pool, target>>

\* The deferred function's two steps.  Mutation: the compressor is put back before
\* it is closed.
PutFirst == <<"put", "close">>
Deferred == <<"close", "put">>
After(step) == IF step = Deferred[1] THEN Deferred[2] ELSE "answered"

Return(q) ==
  /\ at[q] = "handler" /\ wroteHeader[q]
  /\ at' = [at EXCEPT ![q] = IF gz[q] = Nobody THEN "answered" ELSE Deferred[1]]
  /\ UNCHANGED <<call, gz, wroteHeader, compressing, written, gone, responseVars, gzipVars>>

(***************************************************************************)
(* After the handler: the deferred function.                               *)
(***************************************************************************)
Close(q) ==
  /\ at[q] = "close"
  /\ at' = [at EXCEPT ![q] = After("close")]
  /\ IF compressing[q]
     THEN Squeeze(gz[q], <<Part(q, End, TRUE)>>, TRUE)
     ELSE UNCHANGED <<body, kept, failed>>
  /\ UNCHANGED <<call, gz, wroteHeader, compressing, written, gone, code, encoded, length,
                 pool, target>>

Put(q) ==
  /\ at[q] = "put"
  /\ at' = [at EXCEPT ![q] = After("put")]
  /\ pool' = pool \cup {gz[q]}
  /\ UNCHANGED <<call, gz, wroteHeader, compressing, written, gone, responseVars,
                 target, kept, failed>>

Leave(q) ==
  /\ at[q] # "answered" /\ ~gone[q]
  /\ gone' = [gone EXCEPT ![q] = TRUE]
  /\ UNCHANGED <<call, at, gz, wroteHeader, compressing, written, responseVars, gzipVars>>

(***************************************************************************)
(* The specification.                                                      *)
(***************************************************************************)
Serve(q) ==
  \/ Unauthorized(q) \/ Pass(q) \/ Compress(q) \/ WriteHeader(q) \/ Write(q) \/ Return(q)
  \/ Close(q) \/ Put(q)

TransportNext == \E q \in Exchanges : Serve(q) \/ Leave(q)

TransportSpec == TransportInit /\ [][TransportNext]_transportVars

(***************************************************************************)
(* Properties.                                                             *)
(***************************************************************************)
Parts == [of : Exchanges, part : 0 .. MaxParts, zip : BOOLEAN]

\* The exchanges between gzipPool.Get and gzipPool.Put.
Holders == {q \in Exchanges : gz[q] # Nobody /\ at[q] # "answered"}

\* Every variable has its type, and a compressor is either in the pool or held by
\* exactly one exchange, whose response it writes to.
TransportTypeOK ==
  /\ call \in [Exchanges -> Incoming]
  /\ at \in [Exchanges -> {"new", "handler", "close", "put", "answered"}]
  /\ gz \in [Exchanges -> Compressors \cup {Nobody}]
  /\ wroteHeader \in [Exchanges -> BOOLEAN] /\ compressing \in [Exchanges -> BOOLEAN]
  /\ written \in [Exchanges -> 0 .. MaxParts] /\ gone \in [Exchanges -> BOOLEAN]
  /\ code \in [Exchanges -> {0, 200, 304, 401, 500}]
  /\ encoded \in [Exchanges -> BOOLEAN] /\ length \in [Exchanges -> BOOLEAN]
  /\ body \in [Exchanges -> Seq(Parts)] /\ kept \in [Compressors -> Seq(Parts)]
  /\ pool \subseteq Compressors
  /\ target \in [Compressors -> Exchanges \cup {Nobody}] /\ failed \in [Compressors -> BOOLEAN]
  /\ \A q \in Holders : gz[q] \notin pool /\ target[gz[q]] = q
  /\ \A q, p \in Holders : gz[q] = gz[p] => q = p

\* The first n parts of q's body, and what the body must be when its handler returned.
First(q, n, zip) == [i \in 1 .. n |-> Part(q, i, zip)]
Whole(q, zip) == First(q, written[q], zip) \o (IF zip THEN <<Part(q, End, TRUE)>> ELSE <<>>)

\* Whoever waited for the answer has exactly what the handler wrote, in order, in
\* the encoding the header names and up to the end of it, whatever became of the
\* request that had the compressor before: a client that left in the middle of a
\* body leaves a broken compressor behind.  A length is announced only of a body
\* that is sent as it is (gzip.go 34-49, 66-69, 82-85).
Delivered(q) ==
  /\ body[q] = Whole(q, encoded[q])
  /\ ~(length[q] /\ encoded[q])

\* A browser that accepts gzip still gets the stream of its run, and has every
\* event that was written, before the stream ends (gzip.go 24-26, 31; handleStream
\* refuses a writer that it cannot flush, server.go 203-207).
Immediate(q) == code[q] = 200 /\ body[q] = First(q, written[q], FALSE)

BodyIsWhole ==
  \A q \in Exchanges : ~gone[q] =>
    /\ at[q] = "answered" => Delivered(q)
    /\ call[q].path = "stream" /\ code[q] \notin {0, 401} => Immediate(q)

=============================================================================
