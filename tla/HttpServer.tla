----------------------------- MODULE HttpServer -----------------------------
(***************************************************************************)
(* The servers of cwf: the example server httpserver2 and the FastCGI      *)
(* server cwf::Server, which share their form.  Threads run the handlers   *)
(* of accepting, reading and writing; a connection lives as long as it has *)
(* an operation under way.  boost.asio and the clients are external: a     *)
(* client sends its input in pieces of any size, and any operation may     *)
(* fail.  The handlers of a connection never run at once (one thread per   *)
(* io_service, or a strand).                                               *)
(***************************************************************************)
EXTENDS RequestParser, FiniteSets

CONSTANTS Clients,
          Requests,  \* what clients of httpserver2 send: sequences of Chars
          Records,   \* what clients of cwf send: sequences of CgiUnits
          PoolSize   \* io_service_pool_size

\* Of a FastCGI request: the begin record, the header of the parameters and the
\* parameters, something else in the place of one or after them, or parameters one
\* of which says that it is 0xffff characters long or longer.
CgiUnits == {"begin", "header", "params", "bad", "long"}

ASSUME ServerAssumption ==
    /\ PoolSize \in Nat \ {0}
    /\ Requests \subseteq Seq(Chars) /\ Records \subseteq Seq(CgiUnits)

VARIABLES
    cwf,       \* the server is cwf::Server
    accepting, \* async_accept is under way
    stopped,   \* Server::Stop
    turn,      \* next_io_service_
    fresh,     \* the io_service of new_connection_
    service,   \* service[k]: the one of the connection of k
    stage,     \* stage[k]: where client k is, see Stages
    input,     \* what k sends, all in all
    pos,       \* how much of it was read
    parser,    \* request_parser_
    reply,     \* reply_: "none", "handled", "bad_request"
    broken,    \* history: clients whose read or write failed
    failed     \* history: an accept failed

vars == <<cwf, accepting, stopped, turn, fresh, service, stage, input, pos,
          parser, reply, broken, failed>>
serverVars == <<cwf, accepting, stopped, turn, fresh, service>>

\* "trapped": the handler of k's request ended the server, of all clients.
Stages == {"away", "waiting", "reading", "writing", "answered", "dropped", "trapped"}

\* The server runs.
Up == ~stopped /\ \A k \in Clients : stage[k] # "trapped"

To(k, s) == stage' = [stage EXCEPT ![k] = s]

------------------------------------------------------------------------------
Connect(k) ==
    /\ stage[k] = "away"
    /\ input' \in {[input EXCEPT ![k] = s] : s \in IF cwf THEN Records ELSE Requests}
    /\ To(k, "waiting")
    /\ UNCHANGED <<serverVars, pos, parser, reply, broken, failed>>

\* Mutant of NextTurn: the index is set back one call too late.
NextTurnLate == IF turn = PoolSize THEN 0 ELSE turn + 1

\* get_io_service
NextTurn == IF turn + 1 = PoolSize THEN 0 ELSE turn + 1

\* Mutant of Accept: async_accept is not called again.
AcceptOnce(k) ==
    /\ accepting /\ Up /\ stage[k] = "waiting"
    /\ service' = [service EXCEPT ![k] = fresh]
    /\ fresh' = turn /\ turn' = NextTurn
    /\ accepting' = FALSE
    /\ To(k, "reading")
    /\ UNCHANGED <<cwf, stopped, input, pos, parser, reply, broken, failed>>

\* handle_accept without error: start(), a new connection, and accept again.
Accept(k) ==
    /\ accepting /\ Up /\ stage[k] = "waiting"
    /\ service' = [service EXCEPT ![k] = fresh]
    /\ fresh' = turn /\ turn' = NextTurn
    /\ To(k, "reading")
    /\ UNCHANGED <<cwf, accepting, stopped, input, pos, parser, reply, broken, failed>>

\* handle_accept with an error does nothing.
AcceptFails ==
    /\ accepting /\ Up
    /\ accepting' = FALSE /\ failed' = TRUE
    /\ UNCHANGED <<cwf, stopped, turn, fresh, service, stage, input, pos, parser, reply, broken>>

\* What handle_read makes of p, the parser after a piece that ends at e.
Verdict(k, p, e) ==
    /\ pos' = [pos EXCEPT ![k] = e]
    /\ parser' = [parser EXCEPT ![k] = p]
    /\ \/ /\ p.at = "good" /\ reply' = [reply EXCEPT ![k] = "handled"] /\ To(k, "writing")
       \/ /\ p.at = "bad" /\ reply' = [reply EXCEPT ![k] = "bad_request"] /\ To(k, "writing")
       \/ /\ p.at \notin {"good", "bad"} /\ UNCHANGED <<reply, stage>>
    /\ UNCHANGED <<serverVars, input, broken, failed>>

Piece(k, e) == SubSeq(input[k], pos[k] + 1, e)

\* Mutant of Read: the parser begins anew with every piece.
ReadResets(k) ==
    /\ Up /\ ~cwf /\ stage[k] = "reading"
    /\ \E e \in pos[k] + 1..Len(input[k]) : Verdict(k, Run(Piece(k, e)), e)

\* connection::handle_read without error.  What follows a whole request in the piece
\* is lost.
Read(k) ==
    /\ Up /\ ~cwf /\ stage[k] = "reading"
    /\ \E e \in pos[k] + 1..Len(input[k]) : Verdict(k, After(parser[k], Piece(k, e)), e)

\* What begins with a whole request; what follows is not looked at.
IsRecord(s) == Len(s) >= 3 /\ SubSeq(s, 1, 3) = <<"begin", "header", "params">>

\* Parser::Process, of n whole units in the buffer: the results it may have, "trap" if
\* it does not return.  A length of 0xffff or more is an int 3 (cwf.cpp:8, 82, 97).  Of
\* parameters that have not all come what the buffer held before, or what is behind it,
\* is read in their place (cwf.cpp:67).
Process(s, n) ==
    IF n < 2 \/ s[1] # "begin" \/ s[2] # "header" THEN {"bad"}
    ELSE IF n = 2 THEN {"good", "bad", "trap"}
    ELSE IF s[3] = "params" THEN {"good"}
    ELSE IF s[3] = "long" THEN {"trap"}
    ELSE {"bad"}

\* Connection::HandleRead: one read, and no other.
HandleRead(k) ==
    /\ Up /\ cwf /\ stage[k] = "reading"
    /\ \E n \in 0..Len(input[k]) :
        /\ pos' = [pos EXCEPT ![k] = n]
        /\ \/ /\ "good" \in Process(input[k], n)
              /\ reply' = [reply EXCEPT ![k] = "handled"] /\ To(k, "writing")
           \/ /\ "bad" \in Process(input[k], n)
              /\ To(k, "dropped") /\ UNCHANGED reply
           \/ /\ "trap" \in Process(input[k], n)
              /\ To(k, "trapped") /\ UNCHANGED reply
    /\ UNCHANGED <<serverVars, input, parser, broken, failed>>

\* handle_write, HandleWrite: shut down, and gone.
Written(k) ==
    /\ Up /\ stage[k] = "writing"
    /\ To(k, "answered")
    /\ UNCHANGED <<serverVars, input, pos, parser, reply, broken, failed>>

\* A read or a write fails: no new operation, and the connection is gone.
Breaks(k) ==
    /\ Up /\ stage[k] \in {"reading", "writing"}
    /\ To(k, "dropped")
    /\ broken' = broken \cup {k}
    /\ UNCHANGED <<serverVars, input, pos, parser, reply, failed>>

Stop ==
    /\ Up /\ stopped' = TRUE
    /\ UNCHANGED <<cwf, accepting, turn, fresh, service, stage, input, pos, parser, reply, broken, failed>>

------------------------------------------------------------------------------
\* The acceptor has the first io_service, the first connection the next one.
Init ==
    /\ cwf \in BOOLEAN
    /\ accepting = TRUE /\ stopped = FALSE
    /\ fresh = 1 % PoolSize /\ turn = 2 % PoolSize
    /\ service = [k \in Clients |-> 0]
    /\ stage = [k \in Clients |-> "away"]
    /\ input = [k \in Clients |-> <<>>]
    /\ pos = [k \in Clients |-> 0]
    /\ parser = [k \in Clients |-> Start]
    /\ reply = [k \in Clients |-> "none"]
    /\ broken = {} /\ failed = FALSE

\* What the threads of the server and a client that sends do for k.
Serve(k) == Accept(k) \/ Read(k) \/ HandleRead(k) \/ Written(k)

Next ==
    \/ \E k \in Clients :
        \/ Connect(k)
        \/ Accept(k)
        \/ Read(k)
        \/ HandleRead(k)
        \/ Written(k)
        \/ Breaks(k)
    \/ AcceptFails
    \/ Stop

\* The threads go on, and clients send what they have to send.
Spec == Init /\ [][Next]_vars /\ \A k \in Clients : WF_vars(Serve(k))

------------------------------------------------------------------------------
(* Properties                                                                *)

\* The variables keep their types; io_services are taken in turn.
TypeOK ==
    /\ cwf \in BOOLEAN /\ accepting \in BOOLEAN /\ stopped \in BOOLEAN
    /\ turn \in 0..PoolSize - 1 /\ fresh \in 0..PoolSize - 1 /\ turn = (fresh + 1) % PoolSize
    /\ service \in [Clients -> 0..PoolSize - 1]
    /\ stage \in [Clients -> Stages]
    /\ input \in [Clients -> Requests \cup Records \cup {<<>>}]
    /\ parser \in [Clients -> [at : States, headers : BOOLEAN]]
    /\ pos \in [Clients -> Nat] /\ \A k \in Clients : pos[k] <= Len(input[k])
    /\ reply \in [Clients -> {"none", "handled", "bad_request"}]
    /\ broken \subseteq Clients /\ failed \in BOOLEAN

\* The answer does not depend on how the input was cut (connection.cpp:62): what
\* begins with a request is handled, and nothing else.  The parser never reaches for
\* the last header of none (request_parser.cpp:236, 276).  cwf::Connection reads once
\* and answers only what has come by then; a request that comes in pieces is dropped
\* (cwf.cpp:165), or brings the server down, as one with a length that is too long
\* does, but a request that came whole never does.
RightAnswer ==
    \A k \in Clients :
        LET s == input[k]  read == SubSeq(s, 1, pos[k]) IN
        IF cwf
        THEN /\ reply[k] = "handled" => IsRecord(read) \/ IsRecord(read \o <<"params">>)
             /\ IsRecord(read) => /\ stage[k] # "dropped" \/ k \in broken
                                  /\ stage[k] # "trapped"
        ELSE /\ reply[k] = "handled" <=> \E i \in 1..pos[k] : IsRequest(SubSeq(s, 1, i))
             /\ parser[k].at \in {"header_lws", "header_name", "space_before_header_value",
                                  "header_value"} => parser[k].headers
             /\ stage[k] # "trapped"

\* The requests that could go on.
Unfinished == {s \in Requests : Run(s).at \notin {"good", "bad"}}

\* A client that connects is answered, or its connection breaks, or it sends what
\* could go on and nothing more, unless the server stops.  In cwf the connection ends
\* in any case, but one client's request may bring the server down for all of them
\* (cwf.cpp:82), which RightAnswer rules out for httpserver2.  One failed accept, and
\* who is not accepted then never is (server.cpp:50).
Served ==
    \A k \in Clients :
        stage[k] # "away" ~>
            \/ stage[k] \in {"answered", "dropped"} \/ stopped
            \/ stage[k] = "waiting" /\ failed
            \/ \E j \in Clients : stage[j] = "trapped"
            \/ ~cwf /\ input[k] \in Unfinished
==============================================================================
