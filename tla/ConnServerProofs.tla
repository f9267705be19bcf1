--------------------------- MODULE ConnServerProofs ---------------------------
(***************************************************************************)
(* Theorems about ConnServer, for any number of connections, any limit and *)
(* whatever the clients send: nothing here bounds how long the server      *)
(* runs.                                                                   *)
(***************************************************************************)
EXTENDS ConnServer, FoldFacts, SequenceTheorems

Stages == {"none", "waiting", "reading", "head", "body", "leaving", "over", "refused"}
Served == {"reading", "head", "body", "leaving"}

Requests == [version : {"1.0", "1.1"}, form : Forms,
             header : {"none", "close", "keep-alive"}]

Symbols ==
    [is : {"head"}, framing : {"length", "chunked", "close"}, of : Nat]
    \cup {Data, End, Continue}

Connection == [at : Stages, sent : Seq(Requests), taken : Nat, wire : Seq(Symbols),
               pieces : Nat, gone : BOOLEAN, torn : BOOLEAN]

TypeOK ==
    /\ up \in {"serving", "stopping", "ended"}
    /\ active \in Int /\ unborn \in Nat
    /\ backlog \in Seq(Conns)
    /\ conn \in [Conns -> Connection]

(* A thread takes no request its client did not send, and answers one it   *)
(* has taken: Asked is never outside the sequence.                         *)
TakenWereSent ==
    \A c \in Conns :
        /\ conn[c].taken <= Len(conn[c].sent)
        /\ conn[c].at \in {"head", "body"} => conn[c].taken >= 1

(* What the listener has not handed over waits, and waits once.            *)
BacklogWaits ==
    /\ \A i \in 1..Len(backlog) : conn[backlog[i]].at = "waiting"
    /\ \A i, j \in 1..Len(backlog) : backlog[i] = backlog[j] => i = j

(* SlotsAreExact, and that the threads can be counted.                     *)
SlotsCounted == IsFiniteSet(Threads) /\ SlotsAreExact

IndInv == TypeOK /\ TakenWereSent /\ BacklogWaits /\ SlotsCounted

-----------------------------------------------------------------------------

(* IndInv holds at the start.                                              *)
LEMMA InitIndInv == Init => IndInv
<1> SUFFICES ASSUME Init PROVE IndInv
  OBVIOUS
<1>1. Closed \in Connection
  BY DEF Closed, Connection, Stages
<1>2. TypeOK
  BY <1>1 DEF Init, TypeOK
<1>3. TakenWereSent
  BY DEF Init, TakenWereSent, Closed
<1>4. BacklogWaits
  BY DEF Init, BacklogWaits
<1>5. Threads = {}
  BY DEF Init, Threads, Closed
<1>6. SlotsCounted
  BY <1>5, FS_EmptySet, ServerAssumption DEF Init, SlotsCounted, SlotsAreExact
<1> QED
  BY <1>2, <1>3, <1>4, <1>6 DEF IndInv

(* A step in which one connection, not in the backlog, stays on the side   *)
(* of the counter it is on, and the counter stays.                         *)
LEMMA OneMoves ==
    ASSUME IndInv, NEW c \in Conns, NEW k \in Connection,
           conn' = [conn EXCEPT ![c] = k],
           UNCHANGED <<up, active, unborn, backlog>>,
           k.at \in Served <=> conn[c].at \in Served,
           k.at = conn[c].at \/ conn[c].at # "waiting",
           k.taken <= Len(k.sent),
           k.at \in {"head", "body"} => k.taken >= 1
    PROVE  IndInv'
<1>1. conn \in [Conns -> Connection] /\ backlog \in Seq(Conns)
  BY DEF IndInv, TypeOK
<1>2. TypeOK'
  BY <1>1 DEF IndInv, TypeOK
<1>3. TakenWereSent'
  BY <1>1 DEF IndInv, TakenWereSent
<1>4. \A i \in 1..Len(backlog) : backlog[i] \in Conns
  BY <1>1, ElementOfSeq
<1>5. BacklogWaits'
  BY <1>1, <1>4 DEF IndInv, BacklogWaits
<1>6. Threads' = Threads
  BY <1>1 DEF Threads, Served
<1>7. SlotsCounted'
  BY <1>6 DEF IndInv, SlotsCounted, SlotsAreExact
<1> QED
  BY <1>2, <1>3, <1>5, <1>7 DEF IndInv

(* The types of one connection, and that no more answers were taken than   *)
(* sent.                                                                   *)
LEMMA ConnIs ==
    ASSUME IndInv, NEW c \in Conns
    PROVE  /\ conn[c] \in Connection
           /\ conn[c].taken \in Nat /\ Len(conn[c].sent) \in Nat
           /\ conn[c].taken <= Len(conn[c].sent)
BY LenProperties DEF IndInv, TypeOK, TakenWereSent, Connection

-----------------------------------------------------------------------------
(* Clients                                                                 *)

LEMMA ConnectIndInv ==
    ASSUME IndInv, NEW c \in Conns, Connect(c) PROVE IndInv'
<1> DEFINE k == [conn[c] EXCEPT !.at = "waiting"]
<1>1. /\ conn \in [Conns -> Connection] /\ backlog \in Seq(Conns)
      /\ conn[c].at = "none" /\ conn' = [conn EXCEPT ![c] = k]
      /\ Len(backlog) \in Nat
  BY LenProperties DEF IndInv, TypeOK, Connect
<1>2. k \in Connection /\ k.at = "waiting"
      /\ k.taken = conn[c].taken /\ k.sent = conn[c].sent
  BY <1>1 DEF Connection, Stages
<1> HIDE DEF k
<1>3. /\ backlog' \in Seq(Conns) /\ Len(backlog') = Len(backlog) + 1
      /\ \A i \in 1..Len(backlog) : backlog'[i] = backlog[i]
      /\ backlog'[Len(backlog) + 1] = c
  BY <1>1, AppendProperties DEF Connect
<1>4. TypeOK'
  BY <1>1, <1>2, <1>3 DEF IndInv, TypeOK, Connect
<1>5. TakenWereSent'
  BY <1>1, <1>2 DEF IndInv, TakenWereSent
<1>6. \A i \in 1..Len(backlog) :
        backlog[i] \in Conns /\ backlog[i] # c /\ conn'[backlog[i]].at = "waiting"
  BY <1>1, ElementOfSeq DEF IndInv, BacklogWaits
<1>7. \A i \in 1..Len(backlog') : i \in 1..Len(backlog) \/ i = Len(backlog) + 1
  BY <1>1, <1>3
<1>8. conn'[c].at = "waiting"
  BY <1>1, <1>2
<1>9. BacklogWaits'
  BY <1>3, <1>6, <1>7, <1>8 DEF IndInv, BacklogWaits
<1>10. Threads' = Threads
  BY <1>1, <1>2 DEF Threads
<1>11. SlotsCounted'
  BY <1>10 DEF IndInv, SlotsCounted, SlotsAreExact, Connect
<1> QED
  BY <1>4, <1>5, <1>9, <1>11 DEF IndInv

(* IndInv is kept by a client that sends.                                  *)
LEMMA AskIndInv ==
    ASSUME IndInv, NEW c \in Conns, Ask(c) PROVE IndInv'
<1>1. PICK q \in MayAsk[c] : conn' = [conn EXCEPT ![c].sent = Append(@, q)]
  BY DEF Ask
<1> DEFINE k == [conn[c] EXCEPT !.sent = Append(@, q)]
<1>2. q \in Requests
  BY ServerAssumption DEF Requests
<1>3. /\ conn[c] \in Connection /\ conn[c].sent \in Seq(Requests)
      /\ conn[c].taken \in Nat /\ Len(conn[c].sent) \in Nat
      /\ conn[c].taken <= Len(conn[c].sent)
  BY ConnIs DEF Connection
<1>4. /\ Append(conn[c].sent, q) \in Seq(Requests)
      /\ Len(Append(conn[c].sent, q)) = Len(conn[c].sent) + 1
  BY <1>2, <1>3, AppendProperties
<1>5. /\ k \in Connection /\ k.at = conn[c].at /\ k.taken = conn[c].taken
      /\ k.sent = Append(conn[c].sent, q)
  BY <1>3, <1>4 DEF Connection
<1>6. k.taken <= Len(k.sent)
  BY <1>3, <1>4, <1>5
<1>7. conn' = [conn EXCEPT ![c] = k]
  BY <1>1 DEF IndInv, TypeOK
<1>8. k.at \in {"head", "body"} => k.taken >= 1
  BY <1>5 DEF IndInv, TakenWereSent
<1> HIDE DEF k
<1> QED
  BY <1>5, <1>6, <1>7, <1>8, OneMoves DEF Ask

(* IndInv is kept by a client that leaves.                                 *)
LEMMA LeaveIndInv ==
    ASSUME IndInv, NEW c \in Conns, Leave(c) PROVE IndInv'
<1> DEFINE k == [conn[c] EXCEPT !.gone = TRUE]
<1>1. /\ conn[c] \in Connection
      /\ conn[c].taken <= Len(conn[c].sent)
  BY ConnIs
<1>2. /\ k \in Connection /\ k.at = conn[c].at /\ k.taken = conn[c].taken
      /\ k.sent = conn[c].sent
  BY <1>1 DEF Connection
<1>3. conn' = [conn EXCEPT ![c] = k]
  BY DEF IndInv, TypeOK, Leave
<1>4. k.at \in {"head", "body"} => k.taken >= 1
  BY <1>2 DEF IndInv, TakenWereSent
<1> HIDE DEF k
<1> QED
  BY <1>1, <1>2, <1>3, <1>4, OneMoves DEF Leave

-----------------------------------------------------------------------------
(* The accept loop                                                         *)

(* The first of the backlog is taken from it: it was waiting, and nobody   *)
(* who is left in the backlog is it.                                       *)
LEMMA HeadOfBacklog ==
    ASSUME IndInv, backlog # <<>>
    PROVE  /\ Head(backlog) \in Conns /\ conn[Head(backlog)].at = "waiting"
           /\ Tail(backlog) \in Seq(Conns)
           /\ \A i \in 1..Len(Tail(backlog)) :
                 /\ Tail(backlog)[i] \in Conns /\ Tail(backlog)[i] # Head(backlog)
                 /\ conn[Tail(backlog)[i]].at = "waiting"
           /\ \A i, j \in 1..Len(Tail(backlog)) : Tail(backlog)[i] = Tail(backlog)[j] => i = j
<1>1. backlog \in Seq(Conns) /\ Len(backlog) \in Nat /\ Len(backlog) # 0
  BY LenProperties, EmptySeq DEF IndInv, TypeOK
<1>2. /\ Tail(backlog) \in Seq(Conns) /\ Len(Tail(backlog)) = Len(backlog) - 1
      /\ \A i \in 1..Len(Tail(backlog)) : Tail(backlog)[i] = backlog[i + 1]
      /\ Head(backlog) \in Conns /\ Head(backlog) = backlog[1]
  BY <1>1, HeadTailProperties
<1>3. 1 \in 1..Len(backlog)
      /\ \A i \in 1..Len(Tail(backlog)) : i + 1 \in 1..Len(backlog) /\ i + 1 # 1
  BY <1>1, <1>2
<1>4. \A i \in 1..Len(backlog) : backlog[i] \in Conns
  BY <1>1, ElementOfSeq
<1>5. \A i \in 1..Len(backlog) : conn[backlog[i]].at = "waiting"
  BY DEF IndInv, BacklogWaits
<1>6. \A i, j \in 1..Len(backlog) : backlog[i] = backlog[j] => i = j
  BY DEF IndInv, BacklogWaits
<1>7. \A i, j \in 1..Len(Tail(backlog)) : i + 1 = j + 1 => i = j
  BY <1>2
<1>8. \A i, j \in 1..Len(Tail(backlog)) : Tail(backlog)[i] = Tail(backlog)[j] => i = j
  BY <1>2, <1>3, <1>6, <1>7
<1> QED
  BY <1>2, <1>3, <1>4, <1>5, <1>6, <1>8

(* IndInv is kept by Accept, the only step that takes a slot.              *)
LEMMA AcceptIndInv ==
    ASSUME IndInv, Accept PROVE IndInv'
<1> DEFINE c == Head(backlog)
           To(at) == [conn[c] EXCEPT !.at = at]
<1>1. /\ up = "serving" /\ up' = "serving" /\ backlog # <<>>
      /\ backlog' = Tail(backlog)
  BY DEF Accept
<1>2. /\ c \in Conns /\ conn[c].at = "waiting" /\ backlog' \in Seq(Conns)
      /\ \A i \in 1..Len(backlog') :
            /\ backlog'[i] \in Conns /\ backlog'[i] # c
            /\ conn[backlog'[i]].at = "waiting"
      /\ \A i, j \in 1..Len(backlog') : backlog'[i] = backlog'[j] => i = j
  BY <1>1, HeadOfBacklog
<1>3. /\ conn \in [Conns -> Connection] /\ conn[c] \in Connection
      /\ active \in Int /\ unborn \in Nat /\ MaxConns \in Nat
      /\ active = Cardinality(Threads) + unborn /\ active <= MaxConns
      /\ IsFiniteSet(Threads) /\ Cardinality(Threads) \in Nat
  BY <1>1, <1>2, FS_CardinalityType, ServerAssumption
     DEF IndInv, TypeOK, SlotsCounted, SlotsAreExact
<1>4. PICK at \in {"refused", "reading", "over"} :
        /\ conn' = [conn EXCEPT ![c] = To(at)]
        /\ at = "refused" => UNCHANGED <<active, unborn>>
        /\ at # "refused" => active < MaxConns /\ active' = active + 1
        /\ at = "reading" => unborn' = unborn
        /\ at = "over" => unborn' = unborn + 1
  <2>1. CASE active >= MaxConns
    <3>1. conn' = [conn EXCEPT ![c] = To("refused")] /\ UNCHANGED <<active, unborn>>
      BY <2>1 DEF Accept
    <3> QED
      BY <3>1
  <2>2. CASE ~(active >= MaxConns)
    <3>1. active < MaxConns /\ active' = active + 1
      BY <1>3, <2>2 DEF Accept
    <3>2. \/ conn' = [conn EXCEPT ![c] = To("reading")] /\ unborn' = unborn
          \/ conn' = [conn EXCEPT ![c] = To("over")] /\ unborn' = unborn + 1
      BY <2>2 DEF Accept, Over
    <3> QED
      BY <3>1, <3>2
  <2> QED
    BY <2>1, <2>2
<1>5. /\ To(at) \in Connection /\ To(at).at = at /\ To(at).taken = conn[c].taken
      /\ To(at).sent = conn[c].sent
  BY <1>3 DEF Connection, Stages
<1> HIDE DEF To, c
<1>6. TypeOK'
  BY <1>1, <1>2, <1>3, <1>4, <1>5 DEF TypeOK
<1>7. TakenWereSent'
  BY <1>3, <1>4, <1>5 DEF IndInv, TakenWereSent
<1>8. \A i \in 1..Len(backlog') : conn'[backlog'[i]] = conn[backlog'[i]]
  BY <1>2, <1>3, <1>4
<1>9. BacklogWaits'
  BY <1>2, <1>8 DEF BacklogWaits
<1>10. c \notin Threads
  BY <1>2 DEF Threads
<1>11. CASE at = "reading"
  <2>1. Threads' = Threads \cup {c}
    BY <1>2, <1>3, <1>4, <1>5, <1>11 DEF Threads
  <2>2. IsFiniteSet(Threads') /\ Cardinality(Threads') = Cardinality(Threads) + 1
    BY <1>3, <1>10, <2>1, FS_AddElement
  <2>3. SlotsCounted'
    BY <1>1, <1>3, <1>4, <1>11, <2>2 DEF SlotsCounted, SlotsAreExact
  <2> QED
    BY <1>6, <1>7, <1>9, <2>3 DEF IndInv
<1>12. CASE at # "reading"
  <2>1. Threads' = Threads
    BY <1>2, <1>3, <1>4, <1>5, <1>12 DEF Threads
  <2>2. SlotsCounted'
    BY <1>1, <1>3, <1>4, <1>12, <2>1 DEF SlotsCounted, SlotsAreExact
  <2> QED
    BY <1>6, <1>7, <1>9, <2>2 DEF IndInv
<1> QED
  BY <1>11, <1>12

(* IndInv is kept by a request to stop.                                    *)
LEMMA ShutdownIndInv ==
    ASSUME IndInv, RequestShutdown \/ UNCHANGED vars PROVE IndInv'
<1>1. /\ active' = active /\ unborn' = unborn /\ backlog' = backlog /\ conn' = conn
      /\ up' \in {"serving", "stopping", "ended"}
      /\ up' # "ended" => up # "ended"
  BY DEF IndInv, TypeOK, RequestShutdown, vars
<1>2. TypeOK'
  BY <1>1 DEF IndInv, TypeOK
<1>3. Threads' = Threads
  BY <1>1 DEF Threads
<1>4. SlotsCounted'
  BY <1>1, <1>3 DEF IndInv, SlotsCounted, SlotsAreExact
<1> QED
  BY <1>1, <1>2, <1>4 DEF IndInv, TakenWereSent, BacklogWaits

(* IndInv is kept by the end of the accept loop.                           *)
LEMMA StopIndInv ==
    ASSUME IndInv, Stop PROVE IndInv'
<1>1. conn \in [Conns -> Connection]
  BY DEF IndInv, TypeOK
<1>2. \A c \in Conns : Over(c)[c] = [conn[c] EXCEPT !.at = "over"]
  BY <1>1 DEF Over
<1>3. \A c \in Conns : /\ [conn[c] EXCEPT !.at = "over"] \in Connection
                       /\ [conn[c] EXCEPT !.at = "over"].at = "over"
                       /\ [conn[c] EXCEPT !.at = "over"].sent = conn[c].sent
                       /\ [conn[c] EXCEPT !.at = "over"].taken = conn[c].taken
  BY <1>1 DEF Connection, Stages
<1>4. /\ DOMAIN conn' = Conns /\ conn' = [c \in Conns |-> conn'[c]]
      /\ \A c \in Conns : /\ conn'[c] \in Connection
                          /\ conn'[c].at \in {"none", "over"}
                          /\ conn'[c].sent = conn[c].sent
                          /\ conn'[c].taken = conn[c].taken
  BY <1>1, <1>2, <1>3 DEF Stop
<1>5. conn' \in [Conns -> Connection]
  BY <1>4
<1>6. backlog' = <<>> /\ up' = "ended" /\ UNCHANGED <<active, unborn>>
  BY DEF Stop
<1>7. TypeOK'
  BY <1>5, <1>6 DEF IndInv, TypeOK
<1>8. TakenWereSent'
  BY <1>4 DEF IndInv, TakenWereSent
<1>9. BacklogWaits'
  BY <1>6 DEF BacklogWaits
<1>10. Threads' = {}
  BY <1>4 DEF Threads
<1>11. SlotsCounted'
  BY <1>6, <1>10, FS_EmptySet DEF SlotsCounted, SlotsAreExact
<1> QED
  BY <1>7, <1>8, <1>9, <1>11 DEF IndInv

-----------------------------------------------------------------------------
(* A connection's thread                                                   *)

LEMMA SymbolTypes ==
    /\ \A n \in Nat, f \in {"length", "chunked", "close"} : HeadOf(n, f) \in Symbols
    /\ Data \in Symbols /\ End \in Symbols /\ Continue \in Symbols
BY DEF Symbols, HeadOf

(* What a write leaves of the connection's record.                         *)
LEMMA WroteIs ==
    ASSUME IndInv, NEW c \in Conns, NEW k \in Connection,
           NEW symbols \in Seq(Symbols)
    PROVE  \E w \in Connection :
              /\ Wrote(c, symbols, k) = [conn EXCEPT ![c] = w]
              /\ w.at = k.at /\ w.sent = k.sent /\ w.taken = k.taken
<1> DEFINE w == [k EXCEPT !.wire = k.wire \o symbols]
<1>1. k.wire \o symbols \in Seq(Symbols)
  BY ConcatProperties DEF Connection
<1>2. w \in Connection /\ w.at = k.at /\ w.sent = k.sent /\ w.taken = k.taken
  BY <1>1 DEF Connection
<1>3. Wrote(c, symbols, k) = [conn EXCEPT ![c] = w]
  BY DEF Wrote, IndInv, TypeOK
<1> QED
  BY <1>2, <1>3

(* A write, or a step without one, by a thread that goes on.               *)
LEMMA ThreadMoves ==
    ASSUME IndInv, NEW c \in Conns, NEW k \in Connection,
           NEW symbols \in Seq(Symbols),
           conn' = Wrote(c, symbols, k) \/ conn' = [conn EXCEPT ![c] = k],
           UNCHANGED <<up, active, unborn, backlog>>,
           conn[c].at \in Served, k.at \in Served,
           k.taken <= Len(k.sent),
           k.at \in {"head", "body"} => k.taken >= 1
    PROVE  IndInv'
<1>1. PICK w \in Connection :
        /\ conn' = [conn EXCEPT ![c] = w]
        /\ w.at = k.at /\ w.sent = k.sent /\ w.taken = k.taken
  BY WroteIs
<1>2. /\ w.at \in Served /\ w.taken <= Len(w.sent) /\ conn[c].at # "waiting"
      /\ w.at \in {"head", "body"} => w.taken >= 1
  BY <1>1 DEF Served
<1> QED
  BY <1>1, <1>2, OneMoves

(* A record that only moves on to another place, and may be torn.          *)
LEMMA MovedOn ==
    ASSUME NEW k \in Connection, NEW at \in Stages, NEW pieces \in Nat, NEW torn \in BOOLEAN
    PROVE  LET m == [k EXCEPT !.at = at, !.pieces = pieces, !.torn = torn]
           IN  m \in Connection /\ m.at = at /\ m.sent = k.sent /\ m.taken = k.taken
BY DEF Connection

(* Where a connection goes after an answer is a place of the thread.       *)
LEMMA Next1Type == \A c \in Conns : Next1(c) \in Served /\ Next1(c) \notin {"head", "body"}
BY DEF Next1, Served

(* IndInv is kept when a connection breaks while it is served.             *)
LEMMA TornIndInv ==
    ASSUME IndInv, NEW c \in Conns, Torn(c), conn[c].at \in Served,
           UNCHANGED <<up, active, unborn, backlog>>
    PROVE  IndInv'
<1> DEFINE k == [conn[c] EXCEPT !.at = Next1(c), !.torn = TRUE]
<1>1. conn[c] \in Connection /\ conn[c].taken <= Len(conn[c].sent)
  BY ConnIs
<1>2. /\ k \in Connection /\ k.at = Next1(c) /\ k.sent = conn[c].sent
      /\ k.taken = conn[c].taken
  BY <1>1, Next1Type DEF Connection, Served, Stages
<1>3. conn' = [conn EXCEPT ![c] = k]
  BY DEF IndInv, TypeOK, Torn
<1> HIDE DEF k
<1>4. k.at \in Served /\ k.at \notin {"head", "body"} /\ k.taken <= Len(k.sent)
  BY <1>1, <1>2, Next1Type
<1>5. <<>> \in Seq(Symbols)
  BY EmptySeq
<1> QED
  BY <1>2, <1>3, <1>4, <1>5, ThreadMoves

(* IndInv is kept by reading and by the timeout of a read.                 *)
LEMMA ReadIndInv ==
    ASSUME IndInv, NEW c \in Conns, Read(c) \/ TimeOut(c) PROVE IndInv'
<1> DEFINE To(at) == [conn[c] EXCEPT !.taken = @ + 1, !.at = at]
<1>1. /\ conn[c] \in Connection /\ conn[c].taken \in Nat
      /\ Len(conn[c].sent) \in Nat /\ conn[c].taken < Len(conn[c].sent)
      /\ conn[c].at = "reading"
      /\ UNCHANGED <<up, active, unborn, backlog>>
  BY ConnIs DEF Read, TimeOut
<1>2. \A at \in {"head", "leaving"} :
        /\ To(at) \in Connection /\ To(at).at \in Served
        /\ To(at).sent = conn[c].sent /\ To(at).taken = conn[c].taken + 1
  <2> TAKE at \in {"head", "leaving"}
  <2>1. at \in Stages /\ at \in Served /\ conn[c].taken + 1 \in Nat
    BY <1>1 DEF Served, Stages
  <2> QED
    BY <1>1, <2>1 DEF Connection
<1>3. \A at \in {"head", "leaving"} :
        To(at).taken <= Len(To(at).sent) /\ To(at).taken >= 1
  BY <1>1, <1>2
<1>4. /\ <<>> \in Seq(Symbols) /\ <<Continue>> \in Seq(Symbols)
      /\ Refusal(c) \in Seq(Symbols)
  <2>1. HeadOf(conn[c].taken + 1, "length") \in Symbols
    BY <1>1, SymbolTypes
  <2> QED
    BY <2>1, SymbolTypes DEF Refusal
<1>5. \E at \in {"head", "leaving"}, symbols \in {<<>>, <<Continue>>, Refusal(c)} :
        conn' = Wrote(c, symbols, To(at)) \/ conn' = [conn EXCEPT ![c] = To(at)]
  <2>1. CASE TimeOut(c)
    BY <2>1 DEF TimeOut
  <2>2. CASE Read(c)
    BY <2>2 DEF Read
  <2> QED
    BY <2>1, <2>2
<1> HIDE DEF To
<1> QED
  BY <1>1, <1>2, <1>3, <1>4, <1>5, ThreadMoves DEF Served

(* IndInv is kept by the steps of an answer.                               *)
LEMMA SendIndInv ==
    ASSUME IndInv, NEW c \in Conns, SendHead(c) \/ SendPiece(c) \/ Finish(c)
    PROVE  IndInv'
<1>1. /\ conn[c] \in Connection /\ conn[c].taken \in Nat
      /\ conn[c].taken <= Len(conn[c].sent)
      /\ conn[c].pieces \in Nat
  BY ConnIs DEF Connection
<1>2. /\ conn[c].at \in {"head", "body"} /\ UNCHANGED <<up, active, unborn, backlog>>
  BY DEF SendHead, SendPiece, Finish
<1>3. conn[c].at \in Served /\ conn[c].taken >= 1
  BY <1>2 DEF IndInv, TakenWereSent, Served
<1>4. \A f : Framing(f) \in {"length", "chunked", "close"}
  BY DEF Framing
<1>5. /\ <<>> \in Seq(Symbols) /\ <<Data>> \in Seq(Symbols) /\ <<End>> \in Seq(Symbols)
      /\ <<HeadOf(conn[c].taken, Framing(Asked(c)))>> \in Seq(Symbols)
  <2>1. HeadOf(conn[c].taken, Framing(Asked(c))) \in Symbols
    BY <1>1, <1>4, SymbolTypes
  <2> QED
    BY <2>1, SymbolTypes
<1>6. CASE Torn(c)
  BY <1>2, <1>3, <1>6, TornIndInv
<1>7. CASE ~Torn(c) /\ SendHead(c)
  <2> DEFINE k == [conn[c] EXCEPT !.at = "body", !.pieces = 0]
  <2>1. k \in Connection /\ k.at = "body" /\ k.sent = conn[c].sent /\ k.taken = conn[c].taken
    BY <1>1 DEF Connection, Stages
  <2>2. conn' = Wrote(c, <<HeadOf(conn[c].taken, Framing(Asked(c)))>>, k)
    BY <1>7 DEF SendHead
  <2> HIDE DEF k
  <2>3. k.at \in Served
    BY <2>1 DEF Served
  <2> QED
    BY <1>1, <1>2, <1>3, <1>5, <2>1, <2>2, <2>3, ThreadMoves
<1>8. CASE ~Torn(c) /\ SendPiece(c) /\ Asked(c).form = "stream"
  <2> DEFINE k == [conn[c] EXCEPT !.pieces = @ + 1]
  <2>1. k \in Connection /\ k.at = conn[c].at /\ k.sent = conn[c].sent /\ k.taken = conn[c].taken
    BY <1>1 DEF Connection
  <2>2. conn' = Wrote(c, <<Data>>, k)
    BY <1>8 DEF SendPiece
  <2> HIDE DEF k
  <2> QED
    BY <1>1, <1>2, <1>3, <1>5, <2>1, <2>2, ThreadMoves
<1>9. CASE ~Torn(c) /\ (Finish(c) \/ (SendPiece(c) /\ Asked(c).form # "stream"))
  <2> DEFINE k == [conn[c] EXCEPT !.at = Next1(c)]
  <2>1. k \in Connection /\ k.at = Next1(c) /\ k.sent = conn[c].sent /\ k.taken = conn[c].taken
    BY <1>1, Next1Type DEF Connection, Served, Stages
  <2>2. PICK symbols \in {<<>>, <<Data>>, <<End>>} : conn' = Wrote(c, symbols, k)
    BY <1>9 DEF SendPiece, Finish
  <2> HIDE DEF k
  <2>3. symbols \in Seq(Symbols)
    BY <1>5, <2>2
  <2> QED
    BY <1>1, <1>2, <1>3, <2>1, <2>2, <2>3, Next1Type, ThreadMoves
<1> QED
  BY <1>6, <1>7, <1>8, <1>9

(* IndInv is kept by an idle connection that is closed and by a socket     *)
(* that cannot be copied.                                                  *)
LEMMA EndsIndInv ==
    ASSUME IndInv, NEW c \in Conns, IdleOut(c) \/ Unable(c) PROVE IndInv'
<1>1. PICK torn \in BOOLEAN : conn' = [conn EXCEPT ![c].at = "leaving", ![c].torn = torn]
  <2>1. conn[c] \in Connection /\ conn[c].torn \in BOOLEAN
    BY ConnIs DEF Connection
  <2>2. CASE IdleOut(c)
    <3>1. conn' = [conn EXCEPT ![c].at = "leaving", ![c].torn = conn[c].torn]
      BY <2>1, <2>2 DEF IdleOut, IndInv, TypeOK, Connection
    <3> QED
      BY <2>1, <3>1
  <2>3. CASE Unable(c)
    BY <2>3 DEF Unable
  <2> QED
    BY <2>2, <2>3
<1> DEFINE k == [conn[c] EXCEPT !.at = "leaving", !.torn = torn]
<1>2. /\ conn[c].at \in Served /\ UNCHANGED <<up, active, unborn, backlog>>
  BY DEF IdleOut, Unable, Served
<1>3. conn[c] \in Connection /\ conn[c].taken <= Len(conn[c].sent)
  BY ConnIs
<1>4. k \in Connection /\ k.at = "leaving" /\ k.sent = conn[c].sent /\ k.taken = conn[c].taken
  BY <1>3 DEF Connection, Stages
<1>5. conn' = [conn EXCEPT ![c] = k]
  BY <1>1 DEF IndInv, TypeOK
<1> HIDE DEF k
<1>6. k.at \in Served /\ <<>> \in Seq(Symbols)
  BY <1>4, EmptySeq DEF Served
<1> QED
  BY <1>2, <1>3, <1>4, <1>5, <1>6, ThreadMoves

(* IndInv is kept by GiveBack, the only step that gives a slot back.       *)
LEMMA GiveBackIndInv ==
    ASSUME IndInv, NEW c \in Conns, up # "ended", GiveBack(c) PROVE IndInv'
<1> DEFINE k == [conn[c] EXCEPT !.at = "over"]
<1>1. /\ conn \in [Conns -> Connection] /\ conn[c] \in Connection
      /\ conn[c].at = "leaving" /\ active' = active - 1
      /\ up' = up /\ unborn' = unborn /\ backlog' = backlog
      /\ backlog \in Seq(Conns)
  BY DEF IndInv, TypeOK, GiveBack
<1>2. conn' = [conn EXCEPT ![c] = k]
  BY <1>1 DEF GiveBack, Over
<1>3. k \in Connection /\ k.at = "over" /\ k.sent = conn[c].sent /\ k.taken = conn[c].taken
  BY <1>1 DEF Connection, Stages
<1> HIDE DEF k
<1>4. TypeOK'
  BY <1>1, <1>2, <1>3 DEF IndInv, TypeOK
<1>5. TakenWereSent'
  BY <1>1, <1>2, <1>3 DEF IndInv, TakenWereSent
<1>6. \A i \in 1..Len(backlog) : backlog[i] \in Conns /\ backlog[i] # c
  BY <1>1, ElementOfSeq DEF IndInv, BacklogWaits
<1>7. BacklogWaits'
  BY <1>1, <1>2, <1>6 DEF IndInv, BacklogWaits
<1>8. c \in Threads /\ Threads' = Threads \ {c}
  BY <1>1, <1>2, <1>3 DEF Threads
<1>9. /\ IsFiniteSet(Threads) /\ active = Cardinality(Threads) + unborn
      /\ active <= MaxConns /\ active \in Int /\ unborn \in Nat /\ MaxConns \in Nat
      /\ Cardinality(Threads) \in Nat
  BY FS_CardinalityType, ServerAssumption DEF IndInv, TypeOK, SlotsCounted, SlotsAreExact
<1>10. IsFiniteSet(Threads') /\ Cardinality(Threads') = Cardinality(Threads) - 1
  BY <1>8, <1>9, FS_RemoveElement
<1>11. SlotsCounted'
  BY <1>1, <1>9, <1>10 DEF SlotsCounted, SlotsAreExact
<1> QED
  BY <1>4, <1>5, <1>7, <1>11 DEF IndInv

-----------------------------------------------------------------------------

(* IndInv is kept by every step.                                           *)
LEMMA NextIndInv == IndInv /\ [Next]_vars => IndInv'
<1> SUFFICES ASSUME IndInv, [Next]_vars PROVE IndInv'
  OBVIOUS
<1>1. CASE \E c \in Conns : Connect(c) \/ Ask(c) \/ Leave(c)
  BY <1>1, ConnectIndInv, AskIndInv, LeaveIndInv
<1>2. CASE Accept
  BY <1>2, AcceptIndInv
<1>3. CASE RequestShutdown \/ UNCHANGED vars
  BY <1>3, ShutdownIndInv
<1>4. CASE Stop
  BY <1>4, StopIndInv
<1>5. ASSUME up # "ended", NEW c \in Conns, Serve(c) \/ Unable(c)
      PROVE  IndInv'
  BY <1>5, ReadIndInv, SendIndInv, EndsIndInv, GiveBackIndInv DEF Serve
<1> QED
  BY <1>1, <1>2, <1>3, <1>4, <1>5 DEF Next

(* Every state of every behaviour has the types, and no thread looks for a *)
(* request outside what its client sent.                                   *)
THEOREM TypeCorrect == Spec => [](TypeOK /\ TakenWereSent)
<1>1. IndInv => TypeOK /\ TakenWereSent
  BY DEF IndInv
<1> QED
  BY <1>1, InitIndInv, NextIndInv, PTL DEF Spec

(* The counter is exactly the number of connections with a thread and of   *)
(* the threads that could not be started, and never more than the limit:   *)
(* with any number of connections, however each of them ends.              *)
THEOREM SlotsExact == Spec => []SlotsAreExact
<1>1. IndInv => SlotsAreExact
  BY DEF IndInv, SlotsCounted
<1> QED
  BY <1>1, InitIndInv, NextIndInv, PTL DEF Spec

-----------------------------------------------------------------------------
(* What a client makes of the wire                                         *)

ReaderState == [n : Nat, in : {"head", "length", "chunked", "close"}, ok : BOOLEAN]

Reading(w) == FoldLeft(Reads, Reader, w)

(* Every symbol takes the reader to another state.                         *)
LEMMA ReadsType ==
    ASSUME NEW r \in ReaderState, NEW x \in Symbols PROVE Reads(r, x) \in ReaderState
<1>1. x.is = "head" => x.framing \in {"length", "chunked", "close"}
  BY DEF Symbols, Data, End, Continue
<1>2. r.n + 1 \in Nat
  BY DEF ReaderState
<1> QED
  BY <1>1, <1>2 DEF Reads, ReaderState

(* The reader's states, symbol by symbol.                                  *)
LEMMA ReadSymbolBySymbol ==
    ASSUME NEW w \in Seq(Symbols)
    PROVE  \E h \in [0..Len(w) -> ReaderState] :
              /\ h[0] = Reader
              /\ \A k \in 1..Len(w) : h[k] = Reads(h[k-1], w[k])
              /\ Reading(w) = h[Len(w)]
<1> DEFINE n == Len(w)
           D == 1..n
           V == ReaderState
           F == [x \in D \X V |-> Reads(x[2], w[x[1]])]
           c == [t \in SUBSET D |-> Max(t)]
           Solves(g) == g = [t \in SUBSET D |->
                                IF t = {} THEN Reader ELSE Reads(g[t \ {Max(t)}], w[Max(t)])]
           g == CHOOSE g : Solves(g)
           h == [k \in 0..n |-> g[1..k]]
<1>1. n \in Nat /\ IsFiniteSet(D) /\ DOMAIN w = D /\ \A k \in D : w[k] \in Symbols
  <2>1. n \in Nat /\ D = DOMAIN w /\ \A k \in D : w[k] \in Symbols
    OBVIOUS
  <2>2. IsFiniteSet(1..n)
    BY <2>1, FS_Interval
  <2> QED
    BY <2>1, <2>2
<1>2. /\ Reader \in V
      /\ \A r \in V, k \in D : Reads(r, w[k]) \in V
  BY <1>1, ReadsType DEF Reader, ReaderState
<1>3. \A t \in SUBSET D : t # {} => Max(t) \in t /\ c[t] = Max(t)
  BY <1>1, LastPlace
<1>4. PICK g0 : Folds(g0, F, c, Reader, D)
  <2> HIDE DEF F, c, D
  <2> QED
    BY <1>1, <1>3, FoldExists
<1>5. g0 \in [SUBSET D -> V]
  <2>1. F \in [D \X V -> V]
    BY <1>2
  <2>2. \A t \in SUBSET D : t # {} => c[t] \in t
    BY <1>3
  <2> HIDE DEF F, c, D, V
  <2> QED
    BY <1>1, <1>2, <1>4, <2>1, <2>2, FoldStays
<1>6. Solves(g0)
  <2>1. ASSUME NEW t \in SUBSET D, t # {}
        PROVE  F[<<c[t], g0[t \ {c[t]}]>>] = Reads(g0[t \ {Max(t)}], w[Max(t)])
    <3>1. Max(t) \in D /\ g0[t \ {Max(t)}] \in V
      BY <1>3, <1>5, <2>1
    <3>2. <<Max(t), g0[t \ {Max(t)}]>> \in D \X V
      BY <3>1
    <3> QED
      BY <1>3, <2>1, <3>2
  <2>2. ASSUME NEW t \in SUBSET D
        PROVE  g0[t] = IF t = {} THEN Reader ELSE Reads(g0[t \ {Max(t)}], w[Max(t)])
    <3> HIDE DEF F, c, D, V
    <3> QED
      BY <1>4, <2>1 DEF Folds
  <2>3. g0 = [t \in SUBSET D |-> g0[t]]
    BY <1>5
  <2> HIDE DEF D, V
  <2> QED
    BY <2>2, <2>3
<1>7. Solves(g)
  <2> HIDE DEF Solves
  <2> QED
    BY <1>6
<1>8. Reading(w) = g[D]
  BY <1>1 DEF Reading, FoldLeft, MapThenFoldSet
<1>9. \A t \in SUBSET D : g[t] = IF t = {} THEN Reader ELSE Reads(g[t \ {Max(t)}], w[Max(t)])
  <2> HIDE DEF g, D
  <2> QED
    BY <1>7
<1> HIDE DEF g
<1>10. h[0] = Reader
  <2>1. 1..0 = {} /\ {} \in SUBSET D /\ 0 \in 0..n
    BY <1>1
  <2> QED
    BY <1>9, <2>1
<1>11. ASSUME NEW k \in D PROVE h[k] = Reads(h[k-1], w[k])
  <2>1. k \in 0..n /\ k - 1 \in 0..n /\ 1..k \in SUBSET D /\ 1..k # {}
    <3>1. k \in Nat /\ k >= 1 /\ k <= n
      BY <1>1
    <3>2. 1 \in 1..k /\ \A j \in 1..k : j \in D
      BY <1>1, <3>1
    <3>3. k \in 0..n /\ k - 1 \in 0..n
      BY <1>1, <3>1
    <3> QED
      BY <3>2, <3>3
  <2>2. Max(1..k) = k /\ (1..k) \ {k} = 1..(k-1)
    BY <1>1, LastPlace
  <2>3. g[1..k] = Reads(g[1..(k-1)], w[k])
    BY <1>9, <2>1, <2>2
  <2> QED
    BY <2>1, <2>3
<1>12. h \in [0..n -> V]
  <2> DEFINE Good == {k \in 0..n : h[k] \in V}
  <2>1. 0 \in Good
    <3>1. 0 \in 0..n
      BY <1>1
    <3> HIDE DEF h, V
    <3> QED
      BY <1>2, <1>10, <3>1
  <2>2. ASSUME NEW k \in 1..n, k - 1 \in Good PROVE k \in Good
    <3> HIDE DEF h, V
    <3> QED
      BY <1>1, <1>2, <1>11, <2>2
  <2>3. \A k \in 0..n : k \in Good
    <3> HIDE DEF Good
    <3> QED
      BY <1>1, <2>1, <2>2, InductionUpTo
  <2> QED
    BY <2>3
<1>13. Reading(w) = h[n]
  BY <1>1, <1>8
<1> HIDE DEF h
<1> WITNESS h \in [0..n -> V]
<1> QED
  BY <1>10, <1>11, <1>13

(* The reader goes on where it was: a wire with one symbol more is read as *)
(* the wire was, and then the symbol.                                      *)
LEMMA ReadsOn ==
    ASSUME NEW w \in Seq(Symbols), NEW x \in Symbols
    PROVE  /\ Reading(w) \in ReaderState /\ Reading(<<>>) = Reader
           /\ w \o <<x>> \in Seq(Symbols)
           /\ Reading(w \o <<x>>) = Reads(Reading(w), x)
<1> DEFINE n == Len(w)
           v == w \o <<x>>
<1>1. /\ n \in Nat /\ v \in Seq(Symbols) /\ Len(v) = n + 1 /\ v[n+1] = x
      /\ \A k \in 1..n : v[k] = w[k]
  OBVIOUS
<1>2. PICK h \in [0..Len(w) -> ReaderState] :
         /\ h[0] = Reader
         /\ \A k \in 1..Len(w) : h[k] = Reads(h[k-1], w[k])
         /\ Reading(w) = h[Len(w)]
  BY ReadSymbolBySymbol
<1> HIDE DEF v
<1>3. PICK i \in [0..Len(v) -> ReaderState] :
         /\ i[0] = Reader
         /\ \A k \in 1..Len(v) : i[k] = Reads(i[k-1], v[k])
         /\ Reading(v) = i[Len(v)]
  BY <1>1, ReadSymbolBySymbol
<1> DEFINE Good == {k \in 0..n : h[k] = i[k]}
<1>4. 0 \in Good
  BY <1>1, <1>2, <1>3
<1>5. ASSUME NEW k \in 1..n, k - 1 \in Good PROVE k \in Good
  <2>1. k \in 1..Len(v) /\ k \in 0..n
    BY <1>1
  <2> QED
    BY <1>1, <1>2, <1>3, <1>5, <2>1
<1>6. h[n] = i[n]
  <2>1. \A k \in 0..n : k \in Good
    <3> HIDE DEF Good
    <3> QED
      BY <1>1, <1>4, <1>5, InductionUpTo
  <2> QED
    BY <1>1, <2>1
<1>7. i[n+1] = Reads(i[n], x)
  <2>1. n + 1 \in 1..Len(v) /\ (n + 1) - 1 = n
    BY <1>1
  <2> QED
    BY <1>1, <1>3, <2>1
<1>8. Reading(<<>>) = Reader
  <2> DEFINE e == <<>>
  <2>1. e \in Seq(Symbols) /\ Len(e) = 0
    OBVIOUS
  <2> HIDE DEF e
  <2>2. Reading(e) = Reader
    BY <2>1, ReadSymbolBySymbol
  <2> QED
    BY <2>2 DEF e
<1>9. Reading(w) \in ReaderState
  BY <1>1, <1>2
<1> QED
  BY <1>1, <1>2, <1>3, <1>6, <1>7, <1>8, <1>9 DEF v

(* Where a client is that waits for the head of answer n or is inside it.  *)
Waits(n, in) == [n |-> n, in |-> in, ok |-> TRUE]

(* What each symbol does to a client that expects it.                      *)
LEMMA ReadsExpected ==
    ASSUME NEW n \in Nat
    PROVE  /\ Reads(Waits(n, "head"), Continue) = Waits(n, "head")
           /\ \A f : Reads(Waits(n, "head"), HeadOf(n, f)) = Waits(n, f)
           /\ Reads(Waits(n, "length"), Data) = Waits(n + 1, "head")
           /\ Reads(Waits(n, "chunked"), Data) = Waits(n, "chunked")
           /\ Reads(Waits(n, "chunked"), End) = Waits(n + 1, "head")
BY DEF Reads, Waits, Continue, HeadOf, Data, End

-----------------------------------------------------------------------------
(* Answers are framed                                                      *)

(* A request was taken whose answer does not end as its head announces.    *)
Odd(k) == \E i \in 1..k.taken : \/ k.sent[i].form \in {"head", "blank"}
                                \/ Framing(k.sent[i]) = "close"

(* What the wire has said to the client at each stage of the thread: no    *)
(* more than the answers to what was taken, and of the one being given     *)
(* what the stage says.                                                    *)
InStep(k) ==
    LET r == Reading(k.wire)
    IN  /\ r.ok
        /\ k.at = "reading" => r = Waits(k.taken + 1, "head")
        /\ k.at = "head"    => r = Waits(k.taken, "head")
        /\ k.at = "body"    => r = Waits(k.taken, Framing(k.sent[k.taken]))

Framed(k) ==
    /\ k.at \in {"none", "waiting", "refused"} => k.wire = <<>> /\ k.taken = 0
    /\ ~k.torn /\ ~Odd(k) => InStep(k)

FramedInv == IndInv /\ \A c \in Conns : Framed(conn[c])

(* Everything FramedInv says of the types of one connection.               *)
LEMMA ConnParts ==
    ASSUME IndInv, NEW c \in Conns
    PROVE  /\ conn \in [Conns -> Connection] /\ conn[c] \in Connection
           /\ conn[c].sent \in Seq(Requests) /\ conn[c].wire \in Seq(Symbols)
           /\ conn[c].taken \in Nat /\ Len(conn[c].sent) \in Nat
           /\ conn[c].taken <= Len(conn[c].sent)
           /\ conn[c].at \in {"head", "body"} => conn[c].taken >= 1
BY ConnIs DEF IndInv, TypeOK, TakenWereSent, Connection

(* When one connection moves, the others are as framed as they were.       *)
LEMMA OthersFramed ==
    ASSUME FramedInv, NEW c \in Conns, NEW k, Framed(k),
           conn' = [conn EXCEPT ![c] = k]
    PROVE  \A d \in Conns : Framed(conn'[d])
BY DEF FramedInv, IndInv, TypeOK

(* What was odd of the requests taken stays so.                            *)
LEMMA OddStays ==
    ASSUME NEW k, NEW l, k.taken \in Nat, l.taken \in Nat, k.taken <= l.taken,
           \A i \in 1..k.taken : l.sent[i] = k.sent[i], Odd(k)
    PROVE  Odd(l)
BY DEF Odd

(* A connection on which nothing was taken and nothing written.            *)
LEMMA UnusedFramed ==
    ASSUME NEW k, k.wire = <<>>, k.taken = 0, k.at \notin {"head", "body"}
    PROVE  Framed(k)
<1>1. Reading(<<>>) = Waits(1, "head")
  <2>1. <<>> \in Seq(Symbols) /\ Data \in Symbols
    BY DEF Symbols
  <2> QED
    BY <2>1, ReadsOn DEF Reader, Waits
<1> QED
  BY <1>1 DEF Framed, InStep, Waits

(* A connection whose thread stays or ends, and writes nothing.            *)
LEMMA SilentFramed ==
    ASSUME NEW k, NEW l, Framed(k), l.wire = k.wire, l.taken = k.taken, l.torn = k.torn,
           k.taken \in Nat, \A i \in 1..k.taken : l.sent[i] = k.sent[i],
           k.at = "body" => k.taken >= 1,
           l.at = k.at \/ l.at \in {"leaving", "over"}
    PROVE  Framed(l)
<1>1. ~l.torn /\ ~Odd(l) => ~k.torn /\ ~Odd(k)
  BY OddStays
<1>2. k.at = "body" => l.sent[l.taken] = k.sent[k.taken]
  OBVIOUS
<1> QED
  BY <1>1, <1>2 DEF Framed, InStep

(* A connection on which a write failed.                                   *)
LEMMA TornFramed ==
    ASSUME NEW k, k.torn, k.at \notin {"none", "waiting", "refused"}
    PROVE  Framed(k)
BY DEF Framed

-----------------------------------------------------------------------------

(* Clients write nothing to their own wire.                                *)
LEMMA ClientFramed ==
    ASSUME FramedInv, NEW c \in Conns, Connect(c) \/ Ask(c) \/ Leave(c)
    PROVE  \A d \in Conns : Framed(conn'[d])
<1>1. IndInv /\ Framed(conn[c])
  BY DEF FramedInv
<1>2. /\ conn \in [Conns -> Connection] /\ conn[c] \in Connection
      /\ conn[c].sent \in Seq(Requests) /\ conn[c].taken \in Nat
      /\ Len(conn[c].sent) \in Nat /\ conn[c].taken <= Len(conn[c].sent)
      /\ conn[c].at = "body" => conn[c].taken >= 1
  BY <1>1, ConnParts
<1>3. CASE Connect(c)
  <2> DEFINE k == [conn[c] EXCEPT !.at = "waiting"]
  <2>1. conn[c].at = "none" /\ conn' = [conn EXCEPT ![c] = k]
    BY <1>2, <1>3 DEF Connect
  <2>2. k.at = "waiting" /\ k.wire = <<>> /\ k.taken = 0
    BY <1>1, <1>2, <2>1 DEF Framed, Connection
  <2> HIDE DEF k
  <2> QED
    BY <2>1, <2>2, UnusedFramed, OthersFramed
<1>4. CASE Ask(c)
  <2>1. PICK q \in MayAsk[c] : conn' = [conn EXCEPT ![c].sent = Append(@, q)]
    BY <1>4 DEF Ask
  <2> DEFINE k == [conn[c] EXCEPT !.sent = Append(@, q)]
  <2>2. conn' = [conn EXCEPT ![c] = k]
    BY <1>2, <2>1
  <2>3. q \in Requests
    BY ServerAssumption DEF Requests
  <2>4. \A i \in 1..conn[c].taken : Append(conn[c].sent, q)[i] = conn[c].sent[i]
    <3>1. \A i \in 1..Len(conn[c].sent) : Append(conn[c].sent, q)[i] = conn[c].sent[i]
      BY <1>2, <2>3, AppendProperties
    <3> QED
      BY <1>2, <3>1
  <2>5. /\ k.wire = conn[c].wire /\ k.taken = conn[c].taken /\ k.torn = conn[c].torn
        /\ k.at = conn[c].at /\ k.sent = Append(conn[c].sent, q)
    BY <1>2 DEF Connection
  <2> HIDE DEF k
  <2>6. Framed(k)
    BY <1>1, <1>2, <2>4, <2>5, SilentFramed
  <2> QED
    BY <2>2, <2>6, OthersFramed
<1>5. CASE Leave(c)
  <2> DEFINE k == [conn[c] EXCEPT !.gone = TRUE]
  <2>1. conn' = [conn EXCEPT ![c] = k]
    BY <1>2, <1>5 DEF Leave
  <2>2. /\ k.wire = conn[c].wire /\ k.taken = conn[c].taken /\ k.torn = conn[c].torn
        /\ k.at = conn[c].at /\ k.sent = conn[c].sent
    BY <1>2 DEF Connection
  <2> HIDE DEF k
  <2>3. Framed(k)
    BY <1>1, <1>2, <2>2, SilentFramed
  <2> QED
    BY <2>1, <2>3, OthersFramed
<1> QED
  BY <1>3, <1>4, <1>5

(* Whoever is handed over, refused or dropped has nothing on its wire.     *)
LEMMA AcceptFramed ==
    ASSUME FramedInv, Accept PROVE \A d \in Conns : Framed(conn'[d])
<1> DEFINE c == Head(backlog)
<1>1. IndInv /\ backlog # <<>>
  BY DEF FramedInv, Accept
<1>2. c \in Conns /\ conn[c].at = "waiting"
  BY <1>1, HeadOfBacklog
<1>3. PICK at \in {"refused", "reading", "over"} : conn' = [conn EXCEPT ![c].at = at]
  BY DEF Accept, Over
<1> HIDE DEF c
<1>4. conn \in [Conns -> Connection] /\ conn[c] \in Connection /\ Framed(conn[c])
  BY <1>1, <1>2, ConnParts DEF FramedInv
<1> DEFINE k == [conn[c] EXCEPT !.at = at]
<1>5. conn' = [conn EXCEPT ![c] = k]
  BY <1>2, <1>3, <1>4
<1>6. k.at = at /\ k.wire = <<>> /\ k.taken = 0
  BY <1>2, <1>4 DEF Framed, Connection
<1> HIDE DEF k
<1> QED
  BY <1>2, <1>5, <1>6, UnusedFramed, OthersFramed

(* The end of the process writes nothing.                                  *)
LEMMA StopFramed ==
    ASSUME FramedInv, Stop PROVE \A d \in Conns : Framed(conn'[d])
<1> SUFFICES ASSUME NEW d \in Conns PROVE Framed(conn'[d])
  OBVIOUS
<1>1. IndInv /\ Framed(conn[d])
  BY DEF FramedInv
<1>2. /\ conn \in [Conns -> Connection] /\ conn[d] \in Connection
      /\ conn[d].taken \in Nat /\ (conn[d].at = "body" => conn[d].taken >= 1)
  BY <1>1, ConnParts
<1>3. CASE conn[d].at = "none"
  BY <1>1, <1>3 DEF Stop
<1>4. CASE conn[d].at # "none"
  <2> DEFINE k == [conn[d] EXCEPT !.at = "over"]
  <2>1. conn'[d] = k
    BY <1>2, <1>4 DEF Stop, Over
  <2>2. /\ k.wire = conn[d].wire /\ k.taken = conn[d].taken /\ k.torn = conn[d].torn
        /\ k.at = "over" /\ k.sent = conn[d].sent
    BY <1>2 DEF Connection
  <2> HIDE DEF k
  <2> QED
    BY <1>1, <1>2, <2>1, <2>2, SilentFramed
<1> QED
  BY <1>3, <1>4

(* A thread that stops reading, one that ends, and one that cannot go on.  *)
LEMMA QuietFramed ==
    ASSUME FramedInv, NEW c \in Conns, IdleOut(c) \/ GiveBack(c) \/ Unable(c)
    PROVE  \A d \in Conns : Framed(conn'[d])
<1>1. IndInv /\ Framed(conn[c])
  BY DEF FramedInv
<1>2. /\ conn \in [Conns -> Connection] /\ conn[c] \in Connection
      /\ conn[c].taken \in Nat /\ (conn[c].at = "body" => conn[c].taken >= 1)
  BY <1>1, ConnParts
<1>3. CASE IdleOut(c) \/ GiveBack(c)
  <2>1. PICK at \in {"leaving", "over"} : conn' = [conn EXCEPT ![c].at = at]
    BY <1>3 DEF IdleOut, GiveBack, Over
  <2> DEFINE k == [conn[c] EXCEPT !.at = at]
  <2>2. conn' = [conn EXCEPT ![c] = k]
    BY <1>2, <2>1
  <2>3. /\ k.wire = conn[c].wire /\ k.taken = conn[c].taken /\ k.torn = conn[c].torn
        /\ k.at = at /\ k.sent = conn[c].sent
    BY <1>2 DEF Connection
  <2> HIDE DEF k
  <2>4. Framed(k)
    BY <1>1, <1>2, <2>3, SilentFramed
  <2> QED
    BY <2>2, <2>4, OthersFramed
<1>4. CASE Unable(c)
  <2> DEFINE k == [conn[c] EXCEPT !.at = "leaving", !.torn = TRUE]
  <2>1. conn' = [conn EXCEPT ![c] = k]
    BY <1>2, <1>4 DEF Unable
  <2>2. k.torn /\ k.at = "leaving"
    BY <1>2 DEF Connection
  <2> HIDE DEF k
  <2> QED
    BY <2>1, <2>2, TornFramed, OthersFramed
<1> QED
  BY <1>3, <1>4

-----------------------------------------------------------------------------
(* What the thread writes                                                  *)

(* The wire grows by a symbol its client expects.                          *)
LEMMA ReadsOnExpected ==
    ASSUME NEW w \in Seq(Symbols), NEW n \in Nat
    PROVE  /\ Reading(w) = Waits(n, "head") =>
                 Reading(w \o <<Continue>>) = Waits(n, "head")
           /\ \A f \in {"length", "chunked", "close"} :
                 Reading(w) = Waits(n, "head") =>
                    /\ w \o <<HeadOf(n, f)>> \in Seq(Symbols)
                    /\ Reading(w \o <<HeadOf(n, f)>>) = Waits(n, f)
           /\ Reading(w) = Waits(n, "length") =>
                 Reading(w \o <<Data>>) = Waits(n + 1, "head")
           /\ Reading(w) = Waits(n, "chunked") =>
                 /\ Reading(w \o <<Data>>) = Waits(n, "chunked")
                 /\ Reading(w \o <<End>>) = Waits(n + 1, "head")
<1>1. /\ Data \in Symbols /\ End \in Symbols /\ Continue \in Symbols
      /\ \A f \in {"length", "chunked", "close"} : HeadOf(n, f) \in Symbols
  BY DEF HeadOf, Symbols
<1>2. \A x \in Symbols : /\ w \o <<x>> \in Seq(Symbols)
                         /\ Reading(w \o <<x>>) = Reads(Reading(w), x)
  BY ReadsOn
<1>3. /\ Reading(w \o <<Data>>) = Reads(Reading(w), Data)
      /\ Reading(w \o <<End>>) = Reads(Reading(w), End)
      /\ Reading(w \o <<Continue>>) = Reads(Reading(w), Continue)
      /\ \A f \in {"length", "chunked", "close"} :
            /\ w \o <<HeadOf(n, f)>> \in Seq(Symbols)
            /\ Reading(w \o <<HeadOf(n, f)>>) = Reads(Reading(w), HeadOf(n, f))
  BY <1>1, <1>2
<1> QED
  BY <1>3, ReadsExpected

(* A refusal is an answer of its own: its head and its body.               *)
LEMMA RefusalRead ==
    ASSUME NEW w \in Seq(Symbols), NEW n \in Nat, Reading(w) = Waits(n, "head")
    PROVE  Reading(w \o <<HeadOf(n, "length"), Data>>) = Waits(n + 1, "head")
<1>1. /\ w \o <<HeadOf(n, "length")>> \in Seq(Symbols)
      /\ Reading(w \o <<HeadOf(n, "length")>>) = Waits(n, "length")
  BY ReadsOnExpected
<1>2. Reading((w \o <<HeadOf(n, "length")>>) \o <<Data>>) = Waits(n + 1, "head")
  BY <1>1, ReadsOnExpected
<1>3. (w \o <<HeadOf(n, "length")>>) \o <<Data>> = w \o <<HeadOf(n, "length"), Data>>
  OBVIOUS
<1> QED
  BY <1>2, <1>3

(* Before a request is taken its client waits for the head of its answer.  *)
LEMMA BeforeItIsTaken ==
    ASSUME FramedInv, NEW c \in Conns, conn[c].at = "reading",
           NEW l, l.taken = conn[c].taken + 1, l.sent = conn[c].sent, ~conn[c].torn, ~Odd(l)
    PROVE  Reading(conn[c].wire) = Waits(l.taken, "head")
<1>1. Framed(conn[c]) /\ conn[c].taken \in Nat
  BY ConnParts DEF FramedInv
<1>2. ~Odd(conn[c])
  BY <1>1, OddStays
<1> QED
  BY <1>1, <1>2 DEF Framed, InStep

(* A request is taken, an interim answer or a refusal sent.                *)
LEMMA ReadFramed ==
    ASSUME FramedInv, NEW c \in Conns, Read(c) \/ TimeOut(c)
    PROVE  \A d \in Conns : Framed(conn'[d])
<1> DEFINE q == conn[c].sent[conn[c].taken + 1]
           T(at, w) == [conn[c] EXCEPT !.taken = @ + 1, !.at = at, !.wire = w]
<1>1. /\ conn \in [Conns -> Connection] /\ conn[c] \in Connection
      /\ conn[c].wire \in Seq(Symbols) /\ conn[c].taken \in Nat
      /\ conn[c].at = "reading"
  BY ConnParts DEF FramedInv, Read, TimeOut
<1>2. ASSUME NEW at, NEW w
      PROVE  /\ T(at, w).taken = conn[c].taken + 1 /\ T(at, w).sent = conn[c].sent
             /\ T(at, w).torn = conn[c].torn /\ T(at, w).at = at /\ T(at, w).wire = w
  BY <1>1 DEF Connection
<1>3. \/ conn' = [conn EXCEPT ![c] = T("head", conn[c].wire)]
      \/ conn' = [conn EXCEPT ![c] = T("head", conn[c].wire \o <<Continue>>)]
      \/ conn' = [conn EXCEPT ![c] = T("leaving", conn[c].wire \o Refusal(c))]
      \/ /\ conn' = [conn EXCEPT ![c] = T("leaving", conn[c].wire)]
         /\ q.form = "blank"
  <2> DEFINE N(at) == [conn[c] EXCEPT !.taken = @ + 1, !.at = at]
  <2>1. ASSUME NEW at, NEW symbols
        PROVE  /\ N(at) = T(at, conn[c].wire)
               /\ Wrote(c, symbols, N(at)) =
                     [conn EXCEPT ![c] = T(at, conn[c].wire \o symbols)]
    BY <1>1 DEF Wrote, Connection
  <2>2. /\ N("head") = T("head", conn[c].wire)
        /\ N("leaving") = T("leaving", conn[c].wire)
        /\ Wrote(c, <<Continue>>, N("head")) =
              [conn EXCEPT ![c] = T("head", conn[c].wire \o <<Continue>>)]
        /\ Wrote(c, Refusal(c), N("leaving")) =
              [conn EXCEPT ![c] = T("leaving", conn[c].wire \o Refusal(c))]
    BY <2>1
  <2>3. \/ conn' = [conn EXCEPT ![c] = N("head")]
        \/ conn' = Wrote(c, <<Continue>>, N("head"))
        \/ conn' = Wrote(c, Refusal(c), N("leaving"))
        \/ conn' = [conn EXCEPT ![c] = N("leaving")] /\ q.form = "blank"
    BY DEF Read, TimeOut
  <2> HIDE DEF T, N
  <2> QED
    BY <2>2, <2>3
<1>4. ASSUME NEW at, NEW w, at \in {"head", "leaving"},
             ~conn[c].torn, ~Odd(T(at, w))
      PROVE  Reading(conn[c].wire) = Waits(conn[c].taken + 1, "head")
  <2>1. T(at, w).taken = conn[c].taken + 1 /\ T(at, w).sent = conn[c].sent
    BY <1>2
  <2> HIDE DEF T
  <2> QED
    BY <1>1, <1>4, <2>1, BeforeItIsTaken
<1>5. ASSUME NEW w, ~conn[c].torn /\ ~Odd(T("head", w)) =>
                        Reading(w) = Waits(conn[c].taken + 1, "head")
      PROVE  Framed(T("head", w))
  <2>1. Waits(conn[c].taken + 1, "head").ok
    BY DEF Waits
  <2> HIDE DEF T
  <2> QED
    BY <1>2, <1>5, <2>1 DEF Framed, InStep
<1>6. ASSUME NEW w, ~conn[c].torn /\ ~Odd(T("leaving", w)) => Reading(w).ok
      PROVE  Framed(T("leaving", w))
  <2> HIDE DEF T
  <2> QED
    BY <1>2, <1>6 DEF Framed, InStep
<1>7. CASE conn' = [conn EXCEPT ![c] = T("head", conn[c].wire)]
  <2>1. Framed(T("head", conn[c].wire))
    <3> HIDE DEF T
    <3> QED
      BY <1>4, <1>5
  <2> HIDE DEF T
  <2> QED
    BY <1>7, <2>1, OthersFramed
<1>8. CASE conn' = [conn EXCEPT ![c] = T("head", conn[c].wire \o <<Continue>>)]
  <2>1. conn[c].taken + 1 \in Nat
    BY <1>1
  <2>2. Reading(conn[c].wire) = Waits(conn[c].taken + 1, "head") =>
           Reading(conn[c].wire \o <<Continue>>) = Waits(conn[c].taken + 1, "head")
    BY <1>1, <2>1, ReadsOnExpected
  <2>3. Framed(T("head", conn[c].wire \o <<Continue>>))
    <3> HIDE DEF T
    <3> QED
      BY <1>4, <1>5, <2>2
  <2> HIDE DEF T
  <2> QED
    BY <1>8, <2>3, OthersFramed
<1>9. CASE conn' = [conn EXCEPT ![c] = T("leaving", conn[c].wire \o Refusal(c))]
  <2>1. Reading(conn[c].wire) = Waits(conn[c].taken + 1, "head") =>
           Reading(conn[c].wire \o Refusal(c)) = Waits(conn[c].taken + 1 + 1, "head")
    BY <1>1, RefusalRead DEF Refusal
  <2>2. Waits(conn[c].taken + 1 + 1, "head").ok
    BY DEF Waits
  <2>3. Framed(T("leaving", conn[c].wire \o Refusal(c)))
    <3> HIDE DEF T
    <3> QED
      BY <1>4, <1>6, <2>1, <2>2
  <2> HIDE DEF T
  <2> QED
    BY <1>9, <2>3, OthersFramed
<1>10. CASE /\ conn' = [conn EXCEPT ![c] = T("leaving", conn[c].wire)]
            /\ q.form = "blank"
  <2>1. Waits(conn[c].taken + 1, "head").ok
    BY DEF Waits
  <2>2. Framed(T("leaving", conn[c].wire))
    <3> HIDE DEF T
    <3> QED
      BY <1>4, <1>6, <2>1
  <2> HIDE DEF T
  <2> QED
    BY <1>10, <2>2, OthersFramed
<1> HIDE DEF T
<1> QED
  BY <1>3, <1>7, <1>8, <1>9, <1>10

(* A head, a piece and the end of an answer: the wire grows by symbols a   *)
(* client inside that answer expects, or the answer is given up.           *)
LEMMA AnswerFramed ==
    ASSUME FramedInv, NEW c \in Conns, SendHead(c) \/ SendPiece(c) \/ Finish(c)
    PROVE  \A d \in Conns : Framed(conn'[d])
<1> DEFINE q == conn[c].sent[conn[c].taken]
           n == conn[c].taken
           w == conn[c].wire
<1>1. /\ conn \in [Conns -> Connection] /\ conn[c] \in Connection /\ Framed(conn[c])
      /\ w \in Seq(Symbols) /\ n \in Nat /\ conn[c].at \in {"head", "body"} /\ n >= 1
      /\ conn[c].sent \in Seq(Requests) /\ n <= Len(conn[c].sent)
  BY ConnParts DEF FramedInv, SendHead, SendPiece, Finish
<1>2. Asked(c) = q /\ q \in Requests /\ Next1(c) \in {"reading", "leaving"}
  BY <1>1, ElementOfSeq DEF Asked, Next1
<1>3. /\ Framing(q) \in {"length", "chunked", "close"}
      /\ (q.form # "stream" <=> Framing(q) = "length")
  <2>1. q.version \in {"1.0", "1.1"}
    BY <1>2 DEF Requests
  <2>2. CASE q.form # "stream"
    BY <2>2 DEF Framing
  <2>3. CASE q.form = "stream"
    BY <2>1, <2>3 DEF Framing
  <2> QED
    BY <2>2, <2>3
<1>4. CASE Torn(c)
  <2> DEFINE k == [conn[c] EXCEPT !.at = Next1(c), !.torn = TRUE]
  <2>1. conn' = [conn EXCEPT ![c] = k]
    BY <1>1, <1>4 DEF Torn
  <2>2. k.torn /\ k.at = Next1(c)
    BY <1>1 DEF Connection
  <2> HIDE DEF k
  <2> QED
    BY <1>2, <2>1, <2>2, TornFramed, OthersFramed
<1>5. ASSUME NEW l, l.taken = n, l.sent = conn[c].sent, l.torn = conn[c].torn,
             l.at \in {"reading", "leaving", "body"},
             ~Odd(l) /\ InStep(conn[c]) => InStep(l),
             conn' = [conn EXCEPT ![c] = l]
      PROVE  \A d \in Conns : Framed(conn'[d])
  <2>1. ~Odd(l) => ~Odd(conn[c])
    BY <1>1, <1>5, OddStays
  <2>2. Framed(l)
    BY <1>1, <1>5, <2>1 DEF Framed
  <2> QED
    BY <1>5, <2>2, OthersFramed
<1>6. CASE /\ conn[c].at = "head"
           /\ conn' = Wrote(c, <<HeadOf(n, Framing(q))>>,
                            [conn[c] EXCEPT !.at = "body", !.pieces = 0])
  <2> DEFINE l == [conn[c] EXCEPT !.at = "body", !.pieces = 0,
                                  !.wire = w \o <<HeadOf(n, Framing(q))>>]
  <2>1. conn' = [conn EXCEPT ![c] = l]
    BY <1>1, <1>6 DEF Wrote, Connection
  <2>2. /\ l.taken = n /\ l.sent = conn[c].sent /\ l.torn = conn[c].torn
        /\ l.at = "body" /\ l.wire = w \o <<HeadOf(n, Framing(q))>>
    BY <1>1 DEF Connection
  <2>4. Reading(w) = Waits(n, "head") =>
           Reading(w \o <<HeadOf(n, Framing(q))>>) = Waits(n, Framing(q))
    BY <1>1, <1>3, ReadsOnExpected
  <2>5. Waits(n, Framing(q)).ok
    BY DEF Waits
  <2>6. InStep(conn[c]) => Reading(w) = Waits(n, "head")
    BY <1>6 DEF InStep
  <2> HIDE DEF l
  <2>7. InStep(conn[c]) => InStep(l)
    BY <2>2, <2>4, <2>5, <2>6 DEF InStep
  <2> QED
    BY <1>5, <2>1, <2>2, <2>7
<1>7. ASSUME conn[c].at = "body", NEW s \in Seq(Symbols), NEW at, NEW pieces,
             conn' = [conn EXCEPT ![c] = [conn[c] EXCEPT !.at = at, !.wire = w \o s,
                                                         !.pieces = pieces]],
             \/ at = "body" /\ (Framing(q) # "close" /\ Reading(w) = Waits(n, Framing(q)) =>
                                   Reading(w \o s) = Waits(n, Framing(q)))
             \/ /\ at \in {"reading", "leaving"}
                /\ Framing(q) # "close" /\ Reading(w) = Waits(n, Framing(q)) =>
                                   Reading(w \o s) = Waits(n + 1, "head")
      PROVE  \A d \in Conns : Framed(conn'[d])
  <2> DEFINE l == [conn[c] EXCEPT !.at = at, !.wire = w \o s, !.pieces = pieces]
  <2>1. conn' = [conn EXCEPT ![c] = l]
    BY <1>7
  <2>2. /\ l.taken = n /\ l.sent = conn[c].sent /\ l.torn = conn[c].torn
        /\ l.at = at /\ l.wire = w \o s
    BY <1>1 DEF Connection
  <2>3. InStep(conn[c]) => Reading(w) = Waits(n, Framing(q))
    BY <1>7 DEF InStep
  <2> HIDE DEF l
  <2>4. ~Odd(l) => Framing(q) # "close"
    <3>1. n \in 1..l.taken /\ l.sent[n] = q
      BY <1>1, <2>2
    <3> QED
      BY <3>1 DEF Odd
  <2>5. Waits(n, Framing(q)).ok /\ Waits(n + 1, "head").ok
    BY DEF Waits
  <2>6. ~Odd(l) /\ InStep(conn[c]) => InStep(l)
    BY <1>7, <2>2, <2>3, <2>4, <2>5 DEF InStep
  <2> QED
    BY <1>5, <1>7, <2>1, <2>2, <2>6
<1>8. /\ Data \in Symbols /\ End \in Symbols
      /\ <<Data>> \in Seq(Symbols) /\ <<End>> \in Seq(Symbols) /\ <<>> \in Seq(Symbols)
  <2>1. Data \in Symbols /\ End \in Symbols
    BY DEF Symbols
  <2> QED
    BY <2>1
<1>9. ASSUME NEW s, NEW at, NEW pieces
       PROVE  /\ Wrote(c, s, [conn[c] EXCEPT !.at = at]) =
                    [conn EXCEPT ![c] = [conn[c] EXCEPT !.at = at, !.wire = w \o s,
                                                        !.pieces = conn[c].pieces]]
              /\ Wrote(c, s, [conn[c] EXCEPT !.pieces = pieces]) =
                    [conn EXCEPT ![c] = [conn[c] EXCEPT !.at = conn[c].at, !.wire = w \o s,
                                                        !.pieces = pieces]]
  BY <1>1 DEF Wrote, Connection
<1>10. CASE SendPiece(c) /\ ~Torn(c)
  <2>1. conn[c].at = "body"
    BY <1>10 DEF SendPiece
  <2>2. CASE q.form = "stream"
    <3>1. conn' = Wrote(c, <<Data>>, [conn[c] EXCEPT !.pieces = conn[c].pieces + 1])
      BY <1>2, <1>10, <2>2 DEF SendPiece
    <3>2. conn' = [conn EXCEPT ![c] = [conn[c] EXCEPT !.at = "body", !.wire = w \o <<Data>>,
                                                      !.pieces = conn[c].pieces + 1]]
      <4>1. Wrote(c, <<Data>>, [conn[c] EXCEPT !.pieces = conn[c].pieces + 1]) =
               [conn EXCEPT ![c] = [conn[c] EXCEPT !.at = conn[c].at, !.wire = w \o <<Data>>,
                                                   !.pieces = conn[c].pieces + 1]]
        BY <1>9
      <4> QED
        BY <2>1, <3>1, <4>1
    <3>3. Framing(q) # "close" /\ Reading(w) = Waits(n, Framing(q)) =>
             Reading(w \o <<Data>>) = Waits(n, Framing(q))
      BY <1>1, <1>3, <2>2, ReadsOnExpected
    <3> QED
      BY <1>7, <1>8, <2>1, <3>2, <3>3
  <2>3. CASE q.form # "stream"
    <3>1. conn' = Wrote(c, <<Data>>, [conn[c] EXCEPT !.at = Next1(c)])
      BY <1>2, <1>10, <2>3 DEF SendPiece
    <3>2. conn' = [conn EXCEPT ![c] = [conn[c] EXCEPT !.at = Next1(c), !.wire = w \o <<Data>>,
                                                      !.pieces = conn[c].pieces]]
      BY <1>9, <3>1
    <3>3. Framing(q) = "length"
      BY <1>3, <2>3
    <3>4. Reading(w) = Waits(n, Framing(q)) => Reading(w \o <<Data>>) = Waits(n + 1, "head")
      <4>1. Reading(w) = Waits(n, "length") => Reading(w \o <<Data>>) = Waits(n + 1, "head")
        BY <1>1, ReadsOnExpected
      <4> QED
        BY <3>3, <4>1
    <3> QED
      BY <1>2, <1>7, <1>8, <2>1, <3>2, <3>4
  <2> QED
    BY <2>2, <2>3
<1>11. CASE Finish(c) /\ ~Torn(c)
  <2>1. conn[c].at = "body" /\ q.form = "stream"
    BY <1>2, <1>11 DEF Finish
  <2> DEFINE s == IF Framing(q) = "chunked" THEN <<End>> ELSE <<>>
  <2>2. conn' = Wrote(c, s, [conn[c] EXCEPT !.at = Next1(c)])
    BY <1>2, <1>11 DEF Finish
  <2>3. Framing(q) # "close" /\ Reading(w) = Waits(n, Framing(q)) =>
           Reading(w \o s) = Waits(n + 1, "head")
    BY <1>1, <1>3, <2>1, ReadsOnExpected
  <2>4. s \in Seq(Symbols)
    BY <1>8
  <2> HIDE DEF s
  <2>5. conn' = [conn EXCEPT ![c] = [conn[c] EXCEPT !.at = Next1(c), !.wire = w \o s,
                                                    !.pieces = conn[c].pieces]]
    BY <1>9, <2>2
  <2> QED
    BY <1>2, <1>7, <2>1, <2>3, <2>4, <2>5
<1>12. SendHead(c) /\ ~Torn(c) =>
          /\ conn[c].at = "head"
          /\ conn' = Wrote(c, <<HeadOf(n, Framing(q))>>,
                           [conn[c] EXCEPT !.at = "body", !.pieces = 0])
  BY <1>2 DEF SendHead
<1> QED
  BY <1>4, <1>6, <1>10, <1>11, <1>12

(* FramedInv holds at the start and is kept by every step.                 *)
LEMMA FramedAlways == (Init => FramedInv) /\ (FramedInv /\ [Next]_vars => FramedInv')
<1>1. ASSUME Init PROVE FramedInv
  <2>1. IndInv
    BY <1>1, InitIndInv
  <2>2. Framed(Closed)
    <3>1. Closed.wire = <<>> /\ Closed.taken = 0 /\ Closed.at = "none"
      BY DEF Closed
    <3> QED
      BY <3>1, UnusedFramed
  <2> QED
    BY <1>1, <2>1, <2>2 DEF FramedInv, Init
<1>2. ASSUME FramedInv, [Next]_vars PROVE FramedInv'
  <2>1. IndInv'
    BY <1>2, NextIndInv DEF FramedInv
  <2>2. \A d \in Conns : Framed(conn'[d])
    <3>1. CASE \E c \in Conns : Connect(c) \/ Ask(c) \/ Leave(c)
      BY <1>2, <3>1, ClientFramed
    <3>2. CASE Accept
      BY <1>2, <3>2, AcceptFramed
    <3>3. CASE RequestShutdown \/ UNCHANGED vars
      <4>1. conn' = conn
        BY <3>3 DEF RequestShutdown, vars
      <4> QED
        BY <1>2, <4>1 DEF FramedInv
    <3>4. CASE Stop
      BY <1>2, <3>4, StopFramed
    <3>5. ASSUME NEW c \in Conns, Serve(c) \/ Unable(c)
          PROVE  \A d \in Conns : Framed(conn'[d])
      BY <1>2, <3>5, ReadFramed, AnswerFramed, QuietFramed DEF Serve
    <3> QED
      BY <1>2, <3>1, <3>2, <3>3, <3>4, <3>5 DEF Next
  <2> QED
    BY <2>1, <2>2 DEF FramedInv
<1> QED
  BY <1>1, <1>2

(* On a connection that is kept, however requests run ahead of the answers *)
(* and answers break off, a client finds where each answer ends and gets   *)
(* them in order, until a write fails: with any number of connections and  *)
(* requests and pieces.                                                    *)
THEOREM AnswersFramed == Spec => []AnswersAreFramed
<1>1. FramedInv => AnswersAreFramed
  <2> SUFFICES ASSUME FramedInv, NEW c \in Conns, ~conn[c].torn, ~Odd(conn[c])
               PROVE  /\ Client(c).ok
                      /\ conn[c].at = "reading" =>
                            Client(c).in = "head" /\ Client(c).n = conn[c].taken + 1
    BY DEF AnswersAreFramed, Odd
  <2>1. InStep(conn[c])
    BY DEF FramedInv, Framed
  <2>2. Client(c) = Reading(conn[c].wire)
    BY DEF Client, Reading
  <2> QED
    BY <2>1, <2>2 DEF InStep, Waits
<1> QED
  BY <1>1, FramedAlways, PTL DEF Spec

=============================================================================
