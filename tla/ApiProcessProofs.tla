-------------------------- MODULE ApiProcessProofs --------------------------
(***************************************************************************)
(* Proofs about ApiProcess, for any set of clients and any number of       *)
(* queries and signals.                                                    *)
(***************************************************************************)
EXTENDS ApiProcess, TLAPS

\* The part of the invariant a step of one request can disturb.
RequestsInv ==
    /\ conn \in [Clients -> {"none", "silent", "open", "idle", "gone"}]
    /\ handler \in [Clients -> {"none", "body", "between", "query", "over"}]
    /\ left \in [Clients -> 0 .. MaxQueries]
    /\ \A q \in Clients : conn[q] = "open" => UnderWay(q)
    /\ pool # "open" => Drained
    /\ pool = "ended" => \A q \in Clients : handler[q] # "query"

\* The part that speaks about the process only.
ProcessInv ==
    /\ listening \in BOOLEAN
    /\ exited \in BOOLEAN
    /\ waiting \in 0 .. MaxSignals
    /\ ends \in 0 .. MaxSignals
    /\ pool \in {"open", "ending", "ended"}
    /\ signals \in 0 .. MaxSignals
    /\ listening => signals = 0
    /\ signals = waiting + ends
    /\ pool # "open" <=> ends > 0
    /\ pool # "open" => ~listening
    /\ exited => ends > 0
    /\ exited => ends > 1 \/ pool = "ended"

LEMMA ApiInvParts == ApiInv <=> RequestsInv /\ ProcessInv
  BY Zenon DEF ApiInv, TypeOK, RequestsInv, ProcessInv

LEMMA InitApiInv == Init => ApiInv
  <1> SUFFICES ASSUME Init PROVE RequestsInv /\ ProcessInv
    BY ApiInvParts
  <1>1. RequestsInv
    BY ApiAssumption DEF Init, RequestsInv
  <1>2. listening \in BOOLEAN /\ exited \in BOOLEAN /\ ~exited
    BY Zenon DEF Init
  <1>3. ProcessInv
    BY <1>2, ApiAssumption DEF Init, ProcessInv
  <1>4. QED
    BY <1>1, <1>3

\* The end of a request leaves no open connection behind.
LEMMA RespondStep ==
  ASSUME RequestsInv, NEW q \in Clients, UnderWay(q), Respond(q), UNCHANGED pool
  PROVE  RequestsInv'
  <1>1. /\ conn' \in [Clients -> {"none", "silent", "open", "idle", "gone"}]
        /\ handler' \in [Clients -> {"none", "body", "between", "query", "over"}]
        /\ left' \in [Clients -> 0 .. MaxQueries]
    BY ApiAssumption DEF RequestsInv, Respond
  <1>2. \A p \in Clients : conn'[p] = "open" => UnderWay(p)'
    BY DEF RequestsInv, Respond, UnderWay
  <1>3. pool' # "open" => Drained'
    BY DEF RequestsInv, Respond, Drained
  <1>4. pool' = "ended" => \A p \in Clients : handler'[p] # "query"
    BY DEF RequestsInv, Respond
  <1>5. QED
    BY <1>1, <1>2, <1>3, <1>4 DEF RequestsInv

\* A handler that goes on to an await other than a query on a closed pool.
LEMMA GoOnStep ==
  ASSUME RequestsInv, NEW q \in Clients, NEW step \in {"between", "query"},
         handler' = [handler EXCEPT ![q] = step],
         step = "query" => pool = "open",
         left' \in [Clients -> 0 .. MaxQueries],
         UNCHANGED <<conn, pool>>
  PROVE  RequestsInv'
  BY DEF RequestsInv, UnderWay, Drained

LEMMA ConnectStep ==
  ASSUME RequestsInv, ProcessInv, NEW q \in Clients, Connect(q)
  PROVE  RequestsInv'
  <1>1. pool = "open" /\ pool' = "open"
    BY DEF Connect, process, ProcessInv
  <1>2. QED
    BY <1>1 DEF Connect, RequestsInv, UnderWay

\* A silent connection has kept the pool open.
LEMMA AcceptStep ==
  ASSUME RequestsInv, NEW q \in Clients, Accept(q)
  PROVE  RequestsInv'
  <1>1. pool = "open" /\ pool' = "open"
    BY DEF Accept, process, RequestsInv, Drained
  <1>2. CASE /\ handler' = [handler EXCEPT ![q] = "over"]
             /\ conn' = [conn EXCEPT ![q] = "idle"]
             /\ UNCHANGED left
    BY <1>1, <1>2 DEF RequestsInv, UnderWay
  <1>3. ASSUME NEW step \in {"body", "between"},
               handler' = [handler EXCEPT ![q] = step],
               conn' = [conn EXCEPT ![q] = "open"],
               NEW n \in 1 .. MaxQueries,
               left' = [left EXCEPT ![q] = n]
        PROVE  RequestsInv'
    <2>1. left' \in [Clients -> 0 .. MaxQueries]
      BY <1>3, ApiAssumption DEF RequestsInv
    <2>2. QED
      BY <1>1, <1>3, <2>1 DEF RequestsInv, UnderWay
  <1>4. QED
    BY <1>2, <1>3 DEF Accept

LEMMA HandleStep ==
  ASSUME RequestsInv, NEW q \in Clients, Handle(q)
  PROVE  RequestsInv'
  <1>1. UNCHANGED pool
    BY DEF Handle, Proceed, BodyRead, BodyBreaks, QueryStarts, HandlerThrows, QueryEnds, process
  <1>2. UnderWay(q)
    BY DEF Handle, Proceed, BodyRead, BodyBreaks, QueryStarts, HandlerThrows, QueryEnds, UnderWay
  <1>3. CASE Respond(q)
    BY <1>1, <1>2, <1>3, RespondStep
  <1>4. CASE handler' = [handler EXCEPT ![q] = "between"] /\ UNCHANGED <<conn, left>>
    BY <1>1, <1>4, GoOnStep DEF RequestsInv
  <1>5. CASE QueryStarts(q)
    BY <1>1, <1>5, GoOnStep DEF QueryStarts, RequestsInv
  <1>6. CASE /\ left[q] > 1
             /\ handler' = [handler EXCEPT ![q] = "between"]
             /\ left' = [left EXCEPT ![q] = @ - 1]
             /\ UNCHANGED conn
    <2>1. left' \in [Clients -> 0 .. MaxQueries]
      BY <1>6, ApiAssumption DEF RequestsInv
    <2>2. QED
      BY <1>1, <1>6, <2>1, GoOnStep
  <1>7. QED
    BY <1>3, <1>4, <1>5, <1>6
    DEF Handle, Proceed, BodyRead, BodyBreaks, HandlerThrows, QueryEnds

LEMMA ClosingStep ==
  ASSUME RequestsInv, ProcessInv,
         Signal \/ ServerClosed \/ PoolEnds \/ \E q \in Clients : ConnectionCloses(q)
  PROVE  RequestsInv'
  <1>1. ASSUME NEW q \in Clients, ConnectionCloses(q) PROVE RequestsInv'
    BY <1>1 DEF ConnectionCloses, process, RequestsInv, UnderWay, Drained
  <1>2. CASE Signal
    BY <1>2 DEF Signal, RequestsInv, UnderWay, Drained
  <1>3. CASE ServerClosed
    BY <1>3 DEF ServerClosed, RequestsInv, UnderWay, Drained
  <1>4. CASE PoolEnds
    BY <1>4 DEF PoolEnds, RequestsInv, UnderWay, Drained
  <1>5. QED
    BY <1>1, <1>2, <1>3, <1>4

LEMMA ProcessStep ==
  ASSUME ProcessInv, Next
  PROVE  ProcessInv'
  <1>1. CASE UNCHANGED process
    BY <1>1 DEF process, ProcessInv
  <1>2. CASE Signal
    <2>1. listening' \in BOOLEAN /\ ~listening'
      BY <1>2, Zenon DEF Signal
    <2>2. QED
      BY <1>2, <2>1, ApiAssumption DEF Signal, ProcessInv
  <1>3. CASE ServerClosed
    BY <1>3, ApiAssumption DEF ServerClosed, ProcessInv
  <1>4. CASE PoolEnds
    BY <1>4, ApiAssumption DEF PoolEnds, ProcessInv
  <1>5. QED
    BY <1>1, <1>2, <1>3, <1>4
    DEF Next, Connect, Accept, Handle, Proceed, BodyRead, BodyBreaks, QueryStarts, HandlerThrows, QueryEnds,
        ConnectionCloses

LEMMA StepApiInv == ApiInv /\ [Next]_vars => ApiInv'
  <1> SUFFICES ASSUME ApiInv, [Next]_vars PROVE ApiInv'
    OBVIOUS
  <1>1. RequestsInv /\ ProcessInv
    BY ApiInvParts
  <1>2. CASE Next
    <2>1. RequestsInv'
      BY <1>1, <1>2, ConnectStep, AcceptStep, HandleStep, ClosingStep DEF Next
    <2>2. ProcessInv'
      BY <1>1, <1>2, ProcessStep
    <2>3. QED
      BY <2>1, <2>2, Zenon DEF ApiInv, TypeOK, RequestsInv, ProcessInv
  <1>3. CASE UNCHANGED vars
    BY <1>3, Zenon DEF vars, ApiInv, TypeOK, UnderWay, Drained
  <1>4. QED
    BY <1>2, <1>3

\* The invariant holds in every reachable state.
THEOREM ApiInvariance == Spec => []ApiInv
  BY InitApiInv, StepApiInv, PTL DEF Spec

\* However many signals arrive, no client that stays loses its answer.
THEOREM ClientsAreAnswered == Spec => []AnswerBeforeExit
  <1>1. ApiInv => AnswerBeforeExit
    <2> SUFFICES ASSUME ApiInv, exited PROVE \A q \in Clients : conn[q] # "open"
      BY DEF AnswerBeforeExit
    <2>1. pool # "open"
      BY Zenon DEF ApiInv
    <2>2. QED
      BY <2>1, Zenon DEF ApiInv, Drained
  <1>2. QED
    BY ApiInvariance, <1>1, PTL

\* The pool is not closed under a handler whose client waits.
THEOREM PoolIsKept == Spec => []PoolServesClients
  <1>1. ApiInv => PoolServesClients
    BY Zenon DEF ApiInv, PoolServesClients, Drained
  <1>2. QED
    BY ApiInvariance, <1>1, PTL

\* One signal interrupts no query.
THEOREM OneSignalIsPatient == Spec => []OneSignalFinishesQueries
  <1>1. ApiInv => OneSignalFinishesQueries
    <2> SUFFICES ASSUME ApiInv, NEW q \in Clients, exited, handler[q] = "query"
                 PROVE  signals > 1
      BY DEF OneSignalFinishesQueries
    <2>1. ends > 1
      BY Zenon DEF ApiInv
    <2>2. signals = waiting + ends /\ waiting \in 0 .. MaxSignals /\ ends \in 0 .. MaxSignals
      BY Zenon DEF ApiInv, TypeOK
    <2>3. QED
      BY <2>1, <2>2, ApiAssumption
  <1>2. QED
    BY ApiInvariance, <1>1, PTL
=============================================================================
