----------------------------- MODULE ApiProcess -----------------------------
(***************************************************************************)
(* The API process: the request handler of createApiServer and the         *)
(* shutdown of server.ts.  A handler is a sequence of awaits: the body of  *)
(* a POST, then queries on the pool, with the work between them (a run of  *)
(* the collection cycle fetches there).  It goes on when its client has    *)
(* left.  What node:http and pg do with connections and with the pool is   *)
(* modelled from the calls that the code makes of them.                    *)
(*                                                                         *)
(* A client has one connection, silent until it sends the headers of a     *)
(* request, and idle after the answer, when it may send the next one.      *)
(***************************************************************************)
EXTENDS Integers, FiniteSets

CONSTANTS
    Clients,        \* each sends one request at a time
    MaxQueries,     \* bound: the queries of one request
    MaxSignals      \* bound: SIGINT and SIGTERM received

ASSUME ApiAssumption ==
    /\ MaxQueries \in Nat \ {0}
    /\ MaxSignals \in Nat

VARIABLES
    conn,           \* the client's connection
    handler,        \* the await each handler is at
    left,           \* queries it still has to make, at most
    listening,
    waiting,        \* closeGracefully calls that await server.close
    ends,           \* closeGracefully calls that have called db.close
    pool,
    signals,        \* number of signals received
    exited          \* process.exit was called

vars == <<conn, handler, left, listening, waiting, ends, pool, signals, exited>>

Init ==
    /\ conn = [q \in Clients |-> "none"]
    /\ handler = [q \in Clients |-> "none"]
    /\ left = [q \in Clients |-> 0]
    /\ listening = TRUE
    /\ waiting = 0
    /\ ends = 0
    /\ pool = "open"
    /\ signals = 0
    /\ exited = FALSE

process == <<listening, waiting, ends, pool, signals, exited>>

-----------------------------------------------------------------------------
(* A request.                                                              *)

\* The handler awaits something.
UnderWay(q) == handler[q] \in {"body", "between", "query"}

\* respond: the handler is over, and the connection is idle if it is still there.
Respond(q) ==
    /\ handler' = [handler EXCEPT ![q] = "over"]
    /\ conn' = [conn EXCEPT ![q] = IF @ = "open" THEN "idle" ELSE @]
    /\ left' = [left EXCEPT ![q] = 0]

\* A client connects, and has not sent a request yet.
Connect(q) ==
    /\ ~exited
    /\ listening
    /\ conn[q] = "none"
    /\ conn' = [conn EXCEPT ![q] = "silent"]
    /\ UNCHANGED <<handler, left>>
    /\ UNCHANGED process

\* A request comes in, also when the server has stopped listening meanwhile.
\* Checks, preflights, /healthz and unknown routes are answered at once, a POST
\* awaits its body, the trend route its first query.
Accept(q) ==
    /\ ~exited
    /\ conn[q] \in {"silent", "idle"}
    /\ \/ /\ handler' = [handler EXCEPT ![q] = "over"]
          /\ conn' = [conn EXCEPT ![q] = "idle"]
          /\ UNCHANGED left
       \/ /\ \E step \in {"body", "between"} : handler' = [handler EXCEPT ![q] = step]
          /\ conn' = [conn EXCEPT ![q] = "open"]
          /\ \E n \in 1 .. MaxQueries : left' = [left EXCEPT ![q] = n]
    /\ UNCHANGED process

\* The body is there; it may be invalid, or not what the route needs.
BodyRead(q) ==
    /\ ~exited
    /\ handler[q] = "body"
    /\ conn[q] = "open"
    /\ \/ /\ handler' = [handler EXCEPT ![q] = "between"]
          /\ UNCHANGED <<conn, left>>
       \/ Respond(q)
    /\ UNCHANGED process

\* Variant: only a body that ends is noticed.
BodyBreaksUnnoticed(q) ==
    /\ BodyRead(q)
    /\ UNCHANGED conn

\* The connection breaks before the body is complete: reading it throws.
BodyBreaks(q) ==
    /\ ~exited
    /\ handler[q] = "body"
    /\ conn[q] = "gone"
    /\ Respond(q)
    /\ UNCHANGED process

\* A query, or a transaction, takes a client from the pool.
QueryStarts(q) ==
    /\ ~exited
    /\ handler[q] = "between"
    /\ pool = "open"
    /\ handler' = [handler EXCEPT ![q] = "query"]
    /\ UNCHANGED <<conn, left>>
    /\ UNCHANGED process

\* The work between two queries throws, or the pool takes no more queries.
HandlerThrows(q) ==
    /\ ~exited
    /\ handler[q] = "between"
    /\ Respond(q)
    /\ UNCHANGED process

\* The query settles and its client is released.  The handler goes on, unless
\* this was its last query, it failed, or its result decides the answer.
QueryEnds(q) ==
    /\ ~exited
    /\ handler[q] = "query"
    /\ \/ /\ left[q] > 1
          /\ handler' = [handler EXCEPT ![q] = "between"]
          /\ left' = [left EXCEPT ![q] = @ - 1]
          /\ UNCHANGED conn
       \/ Respond(q)
    /\ UNCHANGED process

\* The client leaves, an idle connection times out, or a client that the server
\* waits for does.
ConnectionCloses(q) ==
    /\ ~exited
    /\ conn[q] \in {"silent", "open", "idle"}
    /\ conn' = [conn EXCEPT ![q] = "gone"]
    /\ UNCHANGED <<handler, left>>
    /\ UNCHANGED process

-----------------------------------------------------------------------------
(* closeGracefully, then process.exit.                                     *)

Drained == \A q \in Clients : conn[q] \in {"none", "gone"}

\* Variant: the pool is closed along with the server.
SignalClosesPool ==
    /\ ~exited
    /\ signals < MaxSignals
    /\ signals' = signals + 1
    /\ listening' = FALSE
    /\ conn' = [q \in Clients |-> IF conn[q] = "idle" THEN "gone" ELSE conn[q]]
    /\ waiting' = waiting + 1
    /\ pool' = "ending"
    /\ UNCHANGED <<handler, left, ends, exited>>

\* Variant: the scheduler's guard, with which a further signal exits at once.
SignalExitsWhenStopped ==
    /\ ~exited
    /\ signals < MaxSignals
    /\ signals' = signals + 1
    /\ listening' = FALSE
    /\ conn' = [q \in Clients |-> IF conn[q] = "idle" THEN "gone" ELSE conn[q]]
    /\ waiting' = waiting + 1
    /\ exited' = ~listening
    /\ UNCHANGED <<handler, left, ends, pool>>

\* Every signal calls server.close: no new connection, the idle ones are closed,
\* and the call waits for the others, the silent ones among them.
Signal ==
    /\ ~exited
    /\ signals < MaxSignals
    /\ signals' = signals + 1
    /\ listening' = FALSE
    /\ conn' = [q \in Clients |-> IF conn[q] = "idle" THEN "gone" ELSE conn[q]]
    /\ waiting' = waiting + 1
    /\ UNCHANGED <<handler, left, ends, pool, exited>>

\* The last connection is closed and all waiting calls go on to db.close.  A
\* second call of pool.end rejects, and the process exits on the rejection.
ServerClosed ==
    /\ ~exited
    /\ ~listening
    /\ Drained
    /\ waiting > 0
    /\ waiting' = 0
    /\ ends' = ends + waiting
    /\ pool' = IF pool = "open" THEN "ending" ELSE pool
    /\ exited' = (ends + waiting > 1)
    /\ UNCHANGED <<conn, handler, left, listening, signals>>

\* Variant: the end of the pool is awaited by nobody.
PoolEndsUnnoticed ==
    /\ ~exited
    /\ pool = "ending"
    /\ pool' = "ended"
    /\ UNCHANGED <<conn, handler, left, listening, waiting, ends, signals, exited>>

\* Variant: the clients in use are not waited for.
PoolEndsAtOnce ==
    /\ ~exited
    /\ pool = "ending"
    /\ pool' = "ended"
    /\ exited' = TRUE
    /\ UNCHANGED <<conn, handler, left, listening, waiting, ends, signals>>

\* The clients in use have been released, pool.end settles, the process exits.
PoolEnds ==
    /\ ~exited
    /\ pool = "ending"
    /\ \A q \in Clients : handler[q] # "query"
    /\ pool' = "ended"
    /\ exited' = TRUE
    /\ UNCHANGED <<conn, handler, left, listening, waiting, ends, signals>>

-----------------------------------------------------------------------------
\* What a handler does when an await other than that of the body settles.
Proceed(q) == BodyBreaks(q) \/ QueryStarts(q) \/ HandlerThrows(q) \/ QueryEnds(q)

Handle(q) == BodyRead(q) \/ Proceed(q)

Next ==
    \/ \E q \in Clients :
           Connect(q) \/ Accept(q) \/ Handle(q) \/ ConnectionCloses(q)
    \/ Signal \/ ServerClosed \/ PoolEnds

Spec == Init /\ [][Next]_vars

\* The server waits for the client: for its request, or for the rest of its body.
AwaitsClient(q) == conn[q] = "silent" \/ (conn[q] = "open" /\ handler[q] = "body")

\* Queries, transactions and fetches settle, idle connections time out, and the
\* shutdown goes on.  No client need send anything, and the timeouts for headers
\* and requests are checked only until server.close.
Fairness ==
    /\ \A q \in Clients : WF_vars(Proceed(q))
    /\ \A q \in Clients : WF_vars(conn[q] = "idle" /\ ConnectionCloses(q))
    /\ \A q \in Clients :
          WF_vars(listening /\ AwaitsClient(q) /\ ConnectionCloses(q))
    /\ WF_vars(ServerClosed)
    /\ WF_vars(PoolEnds)

FairSpec == Spec /\ Fairness

-----------------------------------------------------------------------------
(* Properties.                                                             *)

TypeOK ==
    /\ conn \in [Clients -> {"none", "silent", "open", "idle", "gone"}]
    /\ handler \in [Clients -> {"none", "body", "between", "query", "over"}]
    /\ left \in [Clients -> 0 .. MaxQueries]
    /\ listening \in BOOLEAN
    /\ waiting \in 0 .. MaxSignals
    /\ ends \in 0 .. MaxSignals
    /\ pool \in {"open", "ending", "ended"}
    /\ signals \in 0 .. MaxSignals
    /\ exited \in BOOLEAN

\* A client that stays gets its answer before the process exits, whatever the
\* number of signals (the scheduler's second signal is not so patient).
AnswerBeforeExit == exited => \A q \in Clients : conn[q] # "open"

\* The pool takes queries for as long as a client waits for their result: only
\* a handler whose client has left can find it closed.
PoolServesClients ==
    \A q \in Clients : UnderWay(q) /\ conn[q] = "open" => pool = "open"

\* One signal interrupts no query, not even one whose client has left; it takes
\* a further signal for that.
OneSignalFinishesQueries ==
    \A q \in Clients : exited /\ handler[q] = "query" => signals > 1

\* A request is handled to its end, or to the exit, unless the server has been
\* closed and waits for the client's body for good.
HandlersFinish ==
    \A q \in Clients :
        UnderWay(q) ~> \/ ~UnderWay(q)
                       \/ exited
                       \/ [](~listening /\ AwaitsClient(q))

\* The client goes on sending requests, each of which is handled.
KeepsSending(q) == []<>UnderWay(q) /\ []<>~UnderWay(q)

\* A process that is told to stop exits, and nothing but a client can hold it up:
\* one that neither sends what it owes nor leaves, or one that never stops sending
\* requests on the connection that it has.
StopExits ==
    ~listening ~> \/ exited
                  \/ \E q \in Clients : []AwaitsClient(q) \/ KeepsSending(q)

\* The inductive invariant: a connection is open exactly as long as its handler
\* is under way and the client has not left, the pool is closed only after the
\* last connection, and the calls of closeGracefully are accounted for.
ApiInv ==
    /\ TypeOK
    /\ \A q \in Clients : conn[q] = "open" => UnderWay(q)
    /\ listening => signals = 0
    /\ signals = waiting + ends
    /\ pool # "open" <=> ends > 0
    /\ pool # "open" => ~listening /\ Drained
    /\ pool = "ended" => \A q \in Clients : handler[q] # "query"
    /\ exited => ends > 0
    /\ exited => ends > 1 \/ pool = "ended"
=============================================================================
