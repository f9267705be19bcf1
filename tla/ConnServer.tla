------------------------------ MODULE ConnServer ------------------------------
(***************************************************************************)
(* The connection server: the accept loop with its limit and its stop      *)
(* (run_server, src/main.rs), the thread of each connection                *)
(* (serve_connection), and the reading of requests and the framing of      *)
(* answers on one connection (Connection and Responder, src/httpd.rs).     *)
(*                                                                         *)
(* What travels to a client is its wire, a sequence of heads, pieces of    *)
(* data, last chunks and interim answers.  What the router does for a      *)
(* request is module Proxy: here an answer is of known length or a stream. *)
(***************************************************************************)
EXTENDS Integers, SequencesExt

CONSTANTS
    Conns,          \* connections that clients open, each once
    MaxConns,       \* server.max_connections
    MayAsk,        \* per connection, the requests its client may send
    MaxRequests, MaxPieces  \* bounds: requests on a connection, pieces of a stream

(* form: "json" and "stream" say what the answer is, "head" is a HEAD,     *)
(* "expect" waits for an interim answer before its body, "bad" cannot be   *)
(* read, "blank" is an empty line, and a request that is cut lacks the end *)
(* of its headers or of its body.                                          *)
Forms == {"json", "stream", "head", "expect", "bad", "blank", "cut_headers", "cut_body"}

ASSUME ServerAssumption ==
    /\ MaxConns \in Nat \ {0} /\ MaxPieces \in Nat \ {0}
    /\ MayAsk \in [Conns -> SUBSET [version : {"1.0", "1.1"}, form : Forms,
                                     header : {"none", "close", "keep-alive"}]]

VARIABLES
    up,         \* "serving", "stopping" (SHUTDOWN is set) or "ended"
    active,     \* the counter of connections
    unborn,     \* threads that could not be started
    backlog,    \* connections the listener has not handed over
    conn        \* per connection: where its thread is, what the client sent
                \* and the thread has taken, and the wire
vars == <<up, active, unborn, backlog, conn>>

Closed == [at |-> "none", sent |-> <<>>, taken |-> 0, wire |-> <<>>, pieces |-> 0,
           gone |-> FALSE, torn |-> FALSE]

Threads == {c \in Conns : conn[c].at \in {"reading", "head", "body", "leaving"}}
-----------------------------------------------------------------------------
(* Clients                                                                 *)

Open(c) == conn[c].at \notin {"none", "over", "refused"} /\ ~conn[c].gone

Connect(c) ==
    /\ conn[c].at = "none" /\ up # "ended"
    /\ conn' = [conn EXCEPT ![c].at = "waiting"]
    /\ backlog' = Append(backlog, c)
    /\ UNCHANGED <<up, active, unborn>>

Cut(q) == q.form \in {"cut_headers", "cut_body"}

(* A client need not wait for one answer before it asks again.             *)
Ask(c) ==
    /\ Open(c) /\ Len(conn[c].sent) < MaxRequests
    /\ conn[c].sent # <<>> => ~Cut(Last(conn[c].sent))
    /\ \E q \in MayAsk[c] : conn' = [conn EXCEPT ![c].sent = Append(@, q)]
    /\ UNCHANGED <<up, active, unborn, backlog>>

(* It closes its end.                                                      *)
Leave(c) ==
    /\ Open(c)
    /\ conn' = [conn EXCEPT ![c].gone = TRUE]
    /\ UNCHANGED <<up, active, unborn, backlog>>

-----------------------------------------------------------------------------
(* The accept loop                                                         *)

Over(c) == [conn EXCEPT ![c].at = "over"]

(* A mutant: whoever is refused is counted, too.                           *)
AcceptCountsAll ==
    /\ up = "serving" /\ backlog # <<>>
    /\ backlog' = Tail(backlog)
    /\ active' = active + 1
    /\ LET c == Head(backlog)
       IN  IF active >= MaxConns
           THEN /\ conn' = [conn EXCEPT ![c].at = "refused"]
                /\ UNCHANGED unborn
           ELSE \/ /\ conn' = [conn EXCEPT ![c].at = "reading"]
                   /\ UNCHANGED unborn
                \/ /\ conn' = Over(c)
                   /\ unborn' = unborn + 1
    /\ UNCHANGED up

(* Only this thread adds to the counter, so that reading it and adding to  *)
(* it may be one step.  The error of a thread that cannot be started is    *)
(* dropped, and its connection with it.                                    *)
Accept ==
    /\ up = "serving" /\ backlog # <<>>
    /\ backlog' = Tail(backlog)
    /\ LET c == Head(backlog)
       IN  IF active >= MaxConns
           THEN /\ conn' = [conn EXCEPT ![c].at = "refused"]
                /\ UNCHANGED <<active, unborn>>
           ELSE /\ active' = active + 1
                /\ \/ /\ conn' = [conn EXCEPT ![c].at = "reading"]
                      /\ UNCHANGED unborn
                   \/ /\ conn' = Over(c)
                      /\ unborn' = unborn + 1
    /\ UNCHANGED up

(* The service manager asks for a stop.                                    *)
RequestShutdown ==
    /\ up = "serving" /\ up' = "stopping"
    /\ UNCHANGED <<active, unborn, backlog, conn>>

(* The loop ends, the totals are written (module Persistence), and the     *)
(* process goes with every thread of it.                                   *)
Stop == /\ up = "stopping" /\ up' = "ended"
        /\ conn' = [c \in Conns |-> IF conn[c].at = "none" THEN conn[c] ELSE Over(c)[c]]
        /\ backlog' = <<>>
        /\ UNCHANGED <<active, unborn>>

-----------------------------------------------------------------------------
(* A connection's thread                                                   *)

Asked(c) == conn[c].sent[conn[c].taken]     \* what is being answered

(* Connection: what the client asked for, or the version's custom.         *)
KeepAlive(q) == \/ q.header = "keep-alive"
                \/ q.header = "none" /\ q.version = "1.1"

HeadOf(n, framing) == [is |-> "head", framing |-> framing, of |-> n]
Data     == [is |-> "data"]
End      == [is |-> "end"]
Continue == [is |-> "continue"]

(* An answer to what could not be read, and the last one.                  *)
Refusal(c) == <<HeadOf(conn[c].taken + 1, "length"), Data>>

(* What a write does: its symbols come through, or the client has left or  *)
(* stalled, and nothing does.  Then the answer is given up, and the        *)
(* connection is not.                                                      *)
Wrote(c, symbols, next) ==
    [conn EXCEPT ![c] = [next EXCEPT !.wire = @ \o symbols]]

Next1(c) == IF KeepAlive(Asked(c)) THEN "reading" ELSE "leaving"

Torn(c) == conn' = [conn EXCEPT ![c].at = Next1(c), ![c].torn = TRUE]

(* read_request: one whole request is taken, and one whose headers end     *)
(* with the stream.                                                        *)
Read(c) ==
    /\ conn[c].at = "reading" /\ conn[c].taken < Len(conn[c].sent)
    /\ LET k == conn[c]
           q == k.sent[k.taken + 1]
           take == [k EXCEPT !.taken = @ + 1, !.at = "head"]
       IN  \/ /\ \/ q.form \in {"json", "stream", "head"}
                 \/ q.form = "cut_headers" /\ k.gone
              /\ conn' = [conn EXCEPT ![c] = take]
           \/ /\ q.form = "expect"
              /\ \/ conn' = Wrote(c, <<Continue>>, take)
                 \/ k.gone /\ conn' = [conn EXCEPT ![c] = take]
           \/ /\ q.form = "bad" \/ (q.form = "cut_body" /\ k.gone)
              /\ conn' = Wrote(c, Refusal(c), [k EXCEPT !.taken = @ + 1, !.at = "leaving"])
           \/ /\ q.form = "blank"
              /\ conn' = [conn EXCEPT ![c] = [k EXCEPT !.taken = @ + 1, !.at = "leaving"]]
    /\ UNCHANGED <<up, active, unborn, backlog>>

(* A mutant: a client that is silent is waited for.                        *)
HungUp(c) ==
    /\ conn[c].at = "reading" /\ conn[c].taken = Len(conn[c].sent) /\ conn[c].gone
    /\ conn' = [conn EXCEPT ![c].at = "leaving"]
    /\ UNCHANGED <<up, active, unborn, backlog>>

(* Nothing comes for idle_timeout_secs, or the stream ends.                *)
IdleOut(c) ==
    /\ conn[c].at = "reading" /\ conn[c].taken = Len(conn[c].sent)
    /\ conn' = [conn EXCEPT ![c].at = "leaving"]
    /\ UNCHANGED <<up, active, unborn, backlog>>

(* The rest of a request does not come in time.                            *)
TimeOut(c) ==
    /\ conn[c].at = "reading" /\ conn[c].taken < Len(conn[c].sent)
    /\ LET k == conn[c]
       IN  /\ Cut(k.sent[k.taken + 1]) /\ ~k.gone
           /\ conn' = Wrote(c, Refusal(c), [k EXCEPT !.taken = @ + 1, !.at = "leaving"])
    /\ UNCHANGED <<up, active, unborn, backlog>>

(* send_head: a stream has no length; version 1.0 has no chunks, and ends  *)
(* with the connection.                                                    *)
Framing(q) == CASE q.form # "stream" -> "length"
                [] q.form = "stream" /\ q.version = "1.1" -> "chunked"
                [] OTHER -> "close"

SendHead(c) ==
    /\ conn[c].at = "head"
    /\ \/ conn' = Wrote(c, <<HeadOf(conn[c].taken, Framing(Asked(c)))>>,
                        [conn[c] EXCEPT !.at = "body", !.pieces = 0])
       \/ Torn(c)
    /\ UNCHANGED <<up, active, unborn, backlog>>

(* A HEAD is refused with a body, for handle knows no such method.         *)
SendPiece(c) ==
    /\ conn[c].at = "body" /\ conn[c].pieces < MaxPieces
    /\ IF Asked(c).form = "stream"
       THEN \/ conn' = Wrote(c, <<Data>>, [conn[c] EXCEPT !.pieces = @ + 1])
            \/ Torn(c)
       ELSE \/ conn' = Wrote(c, <<Data>>, [conn[c] EXCEPT !.at = Next1(c)])
            \/ Torn(c)
    /\ UNCHANGED <<up, active, unborn, backlog>>

(* A mutant: when the upstream breaks off, nothing ends the answer.        *)
BreaksOff(c) ==
    /\ conn[c].at = "body" /\ Asked(c).form = "stream"
    /\ conn' = [conn EXCEPT ![c].at = Next1(c)]
    /\ UNCHANGED <<up, active, unborn, backlog>>

(* The upstream's stream ends or breaks off: finish.                       *)
Finish(c) ==
    /\ conn[c].at = "body" /\ Asked(c).form = "stream"
    /\ \/ conn' = Wrote(c, IF Framing(Asked(c)) = "chunked" THEN <<End>> ELSE <<>>,
                        [conn[c] EXCEPT !.at = Next1(c)])
       \/ Torn(c)
    /\ UNCHANGED <<up, active, unborn, backlog>>

(* The socket is closed, and then the slot is given back.                  *)
GiveBack(c) ==
    /\ conn[c].at = "leaving"
    /\ active' = active - 1
    /\ conn' = Over(c)
    /\ UNCHANGED <<up, unborn, backlog>>

Serve(c) == \/ Read(c) \/ IdleOut(c) \/ TimeOut(c)
            \/ SendHead(c) \/ SendPiece(c) \/ Finish(c) \/ GiveBack(c)

(* The socket cannot be copied: the thread ends without a word.            *)
Unable(c) ==
    /\ conn[c].at = "head" \/ (conn[c].at = "reading" /\ conn[c].taken = 0)
    /\ conn' = [conn EXCEPT ![c].at = "leaving", ![c].torn = TRUE]
    /\ UNCHANGED <<up, active, unborn, backlog>>

-----------------------------------------------------------------------------
Init ==
    /\ up = "serving"
    /\ active = 0 /\ unborn = 0
    /\ backlog = <<>>
    /\ conn = [c \in Conns |-> Closed]

Next ==
    \/ \E c \in Conns : Connect(c) \/ Ask(c) \/ Leave(c)
    \/ Accept \/ RequestShutdown \/ Stop
    \/ up # "ended" /\ \E c \in Conns : Serve(c) \/ Unable(c)

Spec == Init /\ [][Next]_vars

(* Threads are scheduled, and every read and write of a socket has a       *)
(* timeout.  Clients and the service manager need not do anything.         *)
FairSpec ==
    /\ Spec
    /\ WF_vars(Accept) /\ WF_vars(Stop)
    /\ \A c \in Conns : WF_vars(up # "ended" /\ Serve(c))

-----------------------------------------------------------------------------
(* Properties                                                              *)

(* Every thread has a slot, and a slot without a thread is one whose       *)
(* thread could not be started: no connection takes or gives back two, and *)
(* no more than max_connections are served, however they end.              *)
SlotsAreExact ==
    up # "ended" => /\ active = Cardinality(Threads) + unborn
                    /\ active <= MaxConns

(* A client of HTTP reads: a head when it waits for one, and then what the *)
(* head announces.                                                         *)
Reader == [n |-> 1, in |-> "head", ok |-> TRUE]

Reads(r, symbol) ==
    LET done == [r EXCEPT !.n = @ + 1, !.in = "head"]
        bad  == [r EXCEPT !.ok = FALSE]
    IN  CASE r.in = "head" /\ symbol.is = "continue" -> r
          [] r.in = "head" /\ symbol.is = "head" ->
                IF symbol.of = r.n THEN [r EXCEPT !.in = symbol.framing] ELSE bad
          [] r.in = "length"  /\ symbol.is = "data" -> done
          [] r.in = "chunked" /\ symbol.is = "end"  -> done
          [] r.in \in {"chunked", "close"} /\ symbol.is = "data" -> r
          [] OTHER -> bad

Client(c) == FoldLeft(Reads, Reader, conn[c].wire)

(* "Chunked transfer is used when the length is unknown" (httpd.rs:338):   *)
(* on a connection that is kept, with requests sent ahead of the answers   *)
(* and answers that break off, a client finds where each answer ends and   *)
(* gets them in order, one for each request it sent, until a write fails.  *)
(* Two answers do not end so: that to a HEAD, and a stream in version 1.0, *)
(* which ends with the connection.                                         *)
AnswersAreFramed ==
    \A c \in Conns :
        LET k == conn[c]
            r == Client(c)
            odd == \E i \in 1..k.taken : \/ k.sent[i].form \in {"head", "blank"}
                                         \/ Framing(k.sent[i]) = "close"
        IN  ~k.torn /\ ~odd =>
               /\ r.ok
               /\ k.at = "reading" => r.in = "head" /\ r.n = k.taken + 1

(* "Ok(None) means the peer closed the connection or idled out"            *)
(* (httpd.rs:151): whoever gets through the listener is done with some     *)
(* day, refused, served, timed out or stopped with the process, whatever   *)
(* the client leaves undone; only a client that goes on asking may stay.   *)
ConnectionsEnd ==
    \A c \in Conns : conn[c].at = "waiting" ~> conn[c].at \in {"refused", "over"}

=============================================================================
