------------------------------ MODULE Searcher ------------------------------
(***************************************************************************)
(* The HTTP server of the search program: Search::work() runs the handlers *)
(* of a listener and its sessions (http_server_async.cpp) on the threads   *)
(* of one io_context; all sessions use one database connection             *)
(* (data_base.cpp of the Searcher).                                        *)
(*                                                                         *)
(* A handler is one action, with one exception: a query to the database     *)
(* keeps its thread, and the transaction on the connection, while other     *)
(* handlers run.                                                           *)
(***************************************************************************)
EXTENDS Naturals, Sequences, FiniteSets

CONSTANTS
  Conn,         \* the clients' connections; each is accepted at most once
  NumThreads,   \* threads that run the io_context
  Requests,     \* what a client may send (a set of Request)
  MaxRequests,  \* bound: requests per connection
  DbStates,     \* whether the constructor of Search can connect
  Throws        \* where an exception may leave a handler

Methods == {"get",       \* GET of a file that exists
            "missing",   \* GET of one that does not
            "post", "other"}

Request == [method : Methods, keep : BOOLEAN, http11 : BOOLEAN,
            words  : BOOLEAN]   \* a word of the query passes the length filter

ASSUME SearcherAssumption ==
  /\ IsFiniteSet(Conn)
  /\ NumThreads \in Nat \ {0}
  /\ Requests \subseteq Request
  /\ MaxRequests \in Nat
  /\ DbStates \subseteq BOOLEAN
  /\ Throws \subseteq {"convert", "query", "shutdown"}

(* A response is its text, which names the request it answers, and whether *)
(* the connection is kept after it.                                        *)
Texts    == {"file", "not_found", "not_allowed", "results", "db_error",
             "unavailable", "blank", "none"}
Response == [text : Texts, of : 0..MaxRequests, keep : BOOLEAN]

NoRequest  == [method |-> "none"]
NoResponse == [text |-> "none", of |-> 0, keep |-> TRUE]

VARIABLES
  alive,      \* no exception has left a handler
  connected,  \* the Data_base has a connection
  accept,     \* the listener's async_accept: pending, or how it completed
  pc,         \* what each session waits for
  req_,
  received,   \* the number of requests read
  res_, file_res_,
  writing,    \* which of the two responses is being written
  sent        \* history: the texts a client has received

session == <<pc, req_, received, res_, file_res_, writing, sent>>
vars    == <<alive, connected, accept, session>>

Init ==
  /\ alive = TRUE
  /\ connected \in DbStates
  /\ accept = "pending"
  /\ pc = [c \in Conn |-> "none"]
  /\ req_ = [c \in Conn |-> NoRequest]
  /\ received = [c \in Conn |-> 0]
  /\ res_ = [c \in Conn |-> NoResponse]
  /\ file_res_ = [c \in Conn |-> NoResponse]
  /\ writing = [c \in Conn |-> "res_"]
  /\ sent = [c \in Conn |-> << >>]

-----------------------------------------------------------------------------
(* A pqxx::work is open exactly while a session is in a query. *)
Querying == {c \in Conn : pc[c] = "query"}

(* A thread of the io_context is free to run a handler. *)
Free == alive /\ Cardinality(Querying) < NumThreads

(* An exception leaves ioc.run(): the threads in v are joinable or have no  *)
(* handler for it, and main() returns.                                     *)
Dies(where) ==
  /\ where \in Throws
  /\ alive' = FALSE
  /\ UNCHANGED <<connected, accept, session>>

Goto(c, l) == pc' = [pc EXCEPT ![c] = l]

Write(c, object) ==
  /\ Goto(c, "writing")
  /\ writing' = [writing EXCEPT ![c] = object]
  /\ UNCHANGED <<alive, connected, accept, req_, received, sent>>

(* A response in res_ *)
Respond(c, text, keep) ==
  /\ res_' = [res_ EXCEPT ![c] = [text |-> text, of |-> received[c], keep |-> keep]]
  /\ UNCHANGED file_res_
  /\ Write(c, "res_")

-----------------------------------------------------------------------------
(* The listener. *)

(* async_accept completes, with a connection or with an error. *)
AcceptCompletes ==
  /\ alive /\ accept = "pending"
  /\ accept' \in {"failed"} \cup (IF \E c \in Conn : pc[c] = "none" THEN {"socket"} ELSE {})
  /\ UNCHANGED <<alive, connected, session>>

(* Mutant of OnAccept: an error ends the chain of async_accept. *)
OnAcceptStop ==
  /\ Free /\ accept # "pending"
  /\ IF accept = "socket"
     THEN (\E c \in Conn : pc[c] = "none" /\ Goto(c, "reading")) /\ accept' = "pending"
     ELSE UNCHANGED <<pc, accept>>
  /\ UNCHANGED <<alive, connected, req_, received, res_, file_res_, writing, sent>>

(* on_accept starts a session unless there is an error, and accepts again. *)
OnAccept ==
  /\ Free /\ accept # "pending"
  /\ IF accept = "socket"
     THEN \E c \in Conn : pc[c] = "none" /\ Goto(c, "reading")
     ELSE UNCHANGED pc
  /\ accept' = "pending"
  /\ UNCHANGED <<alive, connected, req_, received, res_, file_res_, writing, sent>>

-----------------------------------------------------------------------------
(* A session. *)

RequestArrives(c) ==
  /\ alive /\ pc[c] = "reading" /\ received[c] < MaxRequests
  /\ \E r \in Requests : req_' = [req_ EXCEPT ![c] = r]
  /\ received' = [received EXCEPT ![c] = @ + 1]
  /\ Goto(c, "read")
  /\ UNCHANGED <<alive, connected, accept, res_, file_res_, writing, sent>>

(* Mutant of ReadFails: there is no expiry once a request has been read.   *)
ReadFailsOnce(c) ==
  /\ Free /\ pc[c] = "reading" /\ received[c] = 0
  /\ Goto(c, "ended")
  /\ UNCHANGED <<alive, connected, accept, req_, received, res_, file_res_, writing, sent>>

(* The client closes, sends something else, or 30 seconds pass: on_read    *)
(* returns and nothing holds the session any more.                         *)
ReadFails(c) ==
  /\ Free /\ pc[c] = "reading"
  /\ Goto(c, "ended")
  /\ UNCHANGED <<alive, connected, accept, req_, received, res_, file_res_, writing, sent>>

(* Mutant of OnGet: the file is opened but res_ is written. *)
OnGetText(c) ==
  /\ Free /\ pc[c] = "read" /\ req_[c].method = "get"
  /\ file_res_' = [file_res_ EXCEPT ![c] =
       [text |-> "file", of |-> received[c], keep |-> req_[c].keep]]
  /\ UNCHANGED res_
  /\ Write(c, "res_")

OnGet(c) ==
  /\ Free /\ pc[c] = "read" /\ req_[c].method = "get"
  /\ file_res_' = [file_res_ EXCEPT ![c] =
       [text |-> "file", of |-> received[c], keep |-> req_[c].keep]]
  /\ UNCHANGED res_
  /\ Write(c, "file_res_")

(* res_ = {} is an HTTP/1.1 response, which keeps the connection. *)
OnMissing(c) ==
  /\ Free /\ pc[c] = "read" /\ req_[c].method = "missing"
  /\ Respond(c, "not_found", TRUE)

(* send_error: the response takes the version of the request, 1.0 closes.  *)
OnOther(c) ==
  /\ Free /\ pc[c] = "read" /\ req_[c].method = "other"
  /\ Respond(c, "not_allowed", req_[c].http11)

(* A POST that poisk_url_by_words answers without a query. *)
OnPostEmpty(c) ==
  /\ Free /\ pc[c] = "read" /\ req_[c].method = "post"
  /\ ~connected \/ ~req_[c].words
  /\ Respond(c, IF connected THEN "blank" ELSE "unavailable", req_[c].keep)

OnPostThrows(c) ==
  /\ Free /\ pc[c] = "read" /\ req_[c].method = "post"
  /\ Dies("convert")

(* pqxx::work tx: the second transaction on the connection is a usage_error, *)
(* which poisk_url_by_words does not catch.                                *)
OnPostQuery(c) ==
  /\ Free /\ pc[c] = "read" /\ req_[c].method = "post"
  /\ connected /\ req_[c].words
  /\ IF Querying = {} THEN Goto(c, "query") /\ UNCHANGED alive
                      ELSE alive' = FALSE /\ UNCHANGED pc
  /\ UNCHANGED <<connected, accept, req_, received, res_, file_res_, writing, sent>>

(* Mutant of QueryEnds: the line that sets keep_alive is missing.          *)
QueryEndsKeep(c) ==
  /\ alive /\ pc[c] = "query"
  /\ \E text \in {"results", "db_error"} : Respond(c, text, req_[c].http11)

(* The transaction ends, with rows or with an sql_error. *)
QueryEnds(c) ==
  /\ alive /\ pc[c] = "query"
  /\ \E text \in {"results", "db_error"} : Respond(c, text, req_[c].keep)

(* broken_connection, conversion_error: not an sql_error. *)
QueryThrows(c) ==
  /\ alive /\ pc[c] = "query"
  /\ Dies("query")

InFlight(c) == IF writing[c] = "res_" THEN res_[c] ELSE file_res_[c]

(* The client has the response. *)
Written(c) ==
  /\ alive /\ pc[c] = "writing"
  /\ sent' = [sent EXCEPT ![c] = Append(@, <<InFlight(c).text, InFlight(c).of>>)]
  /\ Goto(c, "written")
  /\ UNCHANGED <<alive, connected, accept, req_, received, res_, file_res_, writing>>

(* The peer is gone, or the 30 seconds since do_read have passed. *)
WriteFails(c) ==
  /\ Free /\ pc[c] = "writing"
  /\ Goto(c, "ended")
  /\ UNCHANGED <<alive, connected, accept, req_, received, res_, file_res_, writing, sent>>

(* on_write looks at res_, whichever response was written. *)
OnWrite(c) ==
  /\ Free /\ pc[c] = "written"
  /\ IF res_[c].keep
     THEN Goto(c, "reading") /\ req_' = [req_ EXCEPT ![c] = NoRequest]
     ELSE Goto(c, "ended") /\ UNCHANGED req_
  /\ UNCHANGED <<alive, connected, accept, received, res_, file_res_, writing, sent>>

(* shutdown() without an error code throws if the peer has reset. *)
OnWriteThrows(c) ==
  /\ Free /\ pc[c] = "written" /\ ~res_[c].keep
  /\ Dies("shutdown")

Handlers(c) ==
  \/ OnGet(c) \/ OnMissing(c) \/ OnOther(c)
  \/ OnPostEmpty(c) \/ OnPostThrows(c) \/ OnPostQuery(c)
  \/ QueryEnds(c) \/ QueryThrows(c)
  \/ OnWrite(c) \/ OnWriteThrows(c)

Terminated == ~alive /\ UNCHANGED vars

Next ==
  \/ AcceptCompletes \/ OnAccept
  \/ \E c \in Conn : \/ RequestArrives(c) \/ ReadFails(c) \/ Handlers(c)
                     \/ Written(c) \/ WriteFails(c)
  \/ Terminated

(* The io_context runs its handlers in turn; a query ends; a read or write  *)
(* ends with the expiry that do_read sets at the latest.                   *)
Fairness ==
  /\ WF_vars(OnAccept)
  /\ \A c \in Conn :
       /\ WF_vars(Handlers(c))
       /\ WF_vars(RequestArrives(c) \/ ReadFails(c))
       /\ WF_vars(Written(c) \/ WriteFails(c))

Spec == Init /\ [][Next]_vars /\ Fairness

-----------------------------------------------------------------------------
(* Types; and a session reads into an empty request: Beast appends to it.   *)
TypeOK ==
  /\ alive \in BOOLEAN /\ connected \in BOOLEAN
  /\ accept \in {"pending", "socket", "failed"}
  /\ pc \in [Conn -> {"none", "reading", "read", "query", "writing", "written", "ended"}]
  /\ req_ \in [Conn -> Requests \cup {NoRequest}]
  /\ received \in [Conn -> 0..MaxRequests]
  /\ res_ \in [Conn -> Response]
  /\ file_res_ \in [Conn -> Response]
  /\ writing \in [Conn -> {"res_", "file_res_"}]
  /\ sent \in [Conn -> Seq(Texts \X (0..MaxRequests))]
  /\ \A c \in Conn : pc[c] \in {"none", "reading"} => req_[c] = NoRequest

(* What may be said to a request. *)
Fits(text, r) ==
  \/ r.method = "get" /\ text = "file"
  \/ r.method = "missing" /\ text = "not_found"
  \/ r.method = "other" /\ text = "not_allowed"
  \/ /\ r.method = "post"
     /\ \/ ~connected /\ text = "unavailable"
        \/ connected /\ ~r.words /\ text = "blank"
        \/ connected /\ r.words /\ text \in {"results", "db_error"}

(* A client gets one response per request, which fits the request, and in   *)
(* the order of its requests, although a session writes from two objects    *)
(* it uses again and again.                                                *)
AnswersInOrder ==
  \A c \in Conn :
    /\ Len(sent[c]) \in {received[c], received[c] - 1}
    /\ \A i \in 1..Len(sent[c]) : sent[c][i][2] = i
    /\ pc[c] = "written" => Fits(sent[c][Len(sent[c])][1], req_[c])

(* "Снова слушаем порт" (we listen on the port again): the server does not  *)
(* stop accepting.                                                         *)
KeepsListening == alive

(* While the program runs, the listener accepts again after every accept,   *)
(* an error included.                                                      *)
KeepsAccepting == (accept # "pending") ~> (accept = "pending" \/ ~alive)

(* While the program runs, a request that has been read is answered, or its *)
(* session ends; a client that sends nothing does not keep its session.    *)
SessionsMove ==
  \A c \in Conn :
    /\ (pc[c] = "read") ~> (pc[c] \in {"reading", "ended"} \/ ~alive)
    /\ (pc[c] = "reading") ~> (pc[c] # "reading" \/ ~alive)

(* "Продолжаем для keep-alive" (we go on for keep-alive): after the answer  *)
(* to a query the session goes on exactly if the client has asked for it.  *)
(* After a file it does what an earlier request of the connection asked.   *)
KeepAlive ==
  [][\A c \in Conn :
       pc[c] = "written" /\ pc'[c] # "written" /\ req_[c].method = "post"
         => (pc'[c] = "reading" <=> req_[c].keep)]_vars
=============================================================================
