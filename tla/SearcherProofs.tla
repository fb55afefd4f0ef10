--------------------------- MODULE SearcherProofs ---------------------------
(* Theorems about Searcher, for any connections, threads and requests.      *)
EXTENDS Searcher, TLAPS, SequenceTheorems

(* How the responses a client has compare with the requests of its session. *)
CountInv(c) ==
  /\ pc[c] \in {"none", "reading", "written"} => Len(sent[c]) = received[c]
  /\ pc[c] \in {"read", "query", "writing"} => Len(sent[c]) + 1 = received[c]
  /\ pc[c] = "ended" => Len(sent[c]) = received[c] \/ Len(sent[c]) + 1 = received[c]
  /\ \A i \in 1..Len(sent[c]) : sent[c][i][2] = i

(* What a session that has read a request knows about its answer.          *)
FitInv(c) ==
  /\ pc[c] \in {"read", "query", "writing", "written"} => req_[c] \in Requests
  /\ pc[c] = "query" => req_[c].method = "post" /\ connected /\ req_[c].words
  /\ pc[c] = "writing" => /\ InFlight(c).of = received[c]
                          /\ Fits(InFlight(c).text, req_[c])
  /\ pc[c] = "written" => Fits(sent[c][Len(sent[c])][1], req_[c])

OrderInv == \A c \in Conn : CountInv(c) /\ FitInv(c)

(* A step of the session on c leaves the other sessions alone. *)
At(c) ==
  /\ connected' = connected
  /\ \A d \in Conn \ {c} :
       /\ pc'[d] = pc[d] /\ req_'[d] = req_[d] /\ received'[d] = received[d]
       /\ res_'[d] = res_[d] /\ file_res_'[d] = file_res_[d]
       /\ writing'[d] = writing[d] /\ sent'[d] = sent[d]

Locations == {"none", "reading", "read", "query", "writing", "written", "ended"}

LEMMA RequestFields ==
  ASSUME SearcherAssumption, NEW r \in Requests
  PROVE  /\ r.keep \in BOOLEAN /\ r.http11 \in BOOLEAN
         /\ r.method \in Methods /\ r # NoRequest
<1>1. r \in Request
  BY DEF SearcherAssumption
<1>2. r.keep \in BOOLEAN /\ r.http11 \in BOOLEAN /\ r.method \in Methods
  BY <1>1 DEF Request
<1>3. NoRequest.method = "none"
  BY DEF NoRequest
<1> QED
  BY <1>2, <1>3 DEF Methods

(* The frame: what is known of another session stays. *)
LEMMA Frame ==
  ASSUME OrderInv, NEW c \in Conn, At(c), CountInv(c)', FitInv(c)'
  PROVE  OrderInv'
<1> SUFFICES ASSUME NEW d \in Conn PROVE (CountInv(d) /\ FitInv(d))'
  BY DEF OrderInv
<1>1. CASE d = c
  BY <1>1
<1>2. CASE d # c
  <2>1. /\ connected' = connected
        /\ pc'[d] = pc[d] /\ req_'[d] = req_[d] /\ received'[d] = received[d]
        /\ res_'[d] = res_[d] /\ file_res_'[d] = file_res_[d]
        /\ writing'[d] = writing[d] /\ sent'[d] = sent[d]
    BY <1>2 DEF At
  <2>2. CountInv(d) /\ FitInv(d)
    BY DEF OrderInv
  <2>3. CountInv(d)'
    BY <2>1, <2>2 DEF CountInv
  <2>4. FitInv(d)'
    BY <2>1, <2>2 DEF FitInv, Fits, InFlight
  <2> QED
    BY <2>3, <2>4
<1> QED
  BY <1>1, <1>2

-----------------------------------------------------------------------------
(* A step that only moves one session. *)
LEMMA GotoType ==
  ASSUME TypeOK, NEW c \in Conn, NEW l \in Locations, Goto(c, l)
  PROVE  /\ pc' \in [Conn -> Locations]
         /\ pc'[c] = l
         /\ \A d \in Conn \ {c} : pc'[d] = pc[d]
BY DEF TypeOK, Goto, Locations

LEMMA RespondStep ==
  ASSUME SearcherAssumption, TypeOK, OrderInv, NEW c \in Conn,
         NEW text \in Texts, NEW keep \in BOOLEAN,
         pc[c] \in {"read", "query"}, Fits(text, req_[c]),
         Respond(c, text, keep)
  PROVE  TypeOK' /\ OrderInv'
<1>1. /\ Goto(c, "writing")
      /\ writing' = [writing EXCEPT ![c] = "res_"]
      /\ res_' = [res_ EXCEPT ![c] = [text |-> text, of |-> received[c], keep |-> keep]]
      /\ UNCHANGED <<alive, connected, accept, req_, received, sent, file_res_>>
  BY DEF Respond, Write
<1>2. /\ pc' \in [Conn -> Locations] /\ pc'[c] = "writing"
      /\ \A d \in Conn \ {c} : pc'[d] = pc[d]
  BY <1>1, GotoType DEF Locations
<1>3. [text |-> text, of |-> received[c], keep |-> keep] \in Response
  BY DEF TypeOK, Response
<1>4. res_' \in [Conn -> Response] /\ writing' \in [Conn -> {"res_", "file_res_"}]
  BY <1>1, <1>3 DEF TypeOK
<1>5. TypeOK'
  BY <1>1, <1>2, <1>4 DEF TypeOK, Locations
<1>6. At(c)
  BY <1>1, <1>2 DEF At, TypeOK
<1>7. InFlight(c)' = [text |-> text, of |-> received[c], keep |-> keep]
  BY <1>1 DEF InFlight, TypeOK
<1>8. CountInv(c)'
  BY <1>1, <1>2 DEF OrderInv, CountInv
<1>9. Fits(text, req_[c])'
  BY <1>1 DEF Fits
<1>10. req_[c] \in Requests
  BY DEF OrderInv, FitInv
<1>11. FitInv(c)'
  BY <1>1, <1>2, <1>7, <1>9, <1>10 DEF FitInv, Fits
<1> QED
  BY <1>5, <1>6, <1>8, <1>11, Frame

LEMMA GetStep ==
  ASSUME SearcherAssumption, TypeOK, OrderInv, NEW c \in Conn, OnGet(c)
  PROVE  TypeOK' /\ OrderInv'
<1> DEFINE r == [text |-> "file", of |-> received[c], keep |-> req_[c].keep]
<1>1. /\ pc[c] = "read" /\ req_[c].method = "get"
      /\ Goto(c, "writing")
      /\ writing' = [writing EXCEPT ![c] = "file_res_"]
      /\ file_res_' = [file_res_ EXCEPT ![c] = r]
      /\ UNCHANGED <<alive, connected, accept, req_, received, sent, res_>>
  BY DEF OnGet, Write
<1>2. /\ pc' \in [Conn -> Locations] /\ pc'[c] = "writing"
      /\ \A d \in Conn \ {c} : pc'[d] = pc[d]
  BY <1>1, GotoType DEF Locations
<1>3. req_[c] \in Requests
  BY <1>1 DEF OrderInv, FitInv
<1>4. r \in Response
  BY <1>3, RequestFields DEF TypeOK, Response, Texts
<1>5. file_res_' \in [Conn -> Response] /\ writing' \in [Conn -> {"res_", "file_res_"}]
  BY <1>1, <1>4 DEF TypeOK
<1>6. TypeOK'
  BY <1>1, <1>2, <1>5 DEF TypeOK, Locations
<1>7. At(c)
  BY <1>1, <1>2 DEF At, TypeOK
<1>8. InFlight(c)' = r
  BY <1>1 DEF InFlight, TypeOK
<1>9. CountInv(c)'
  BY <1>1, <1>2 DEF OrderInv, CountInv
<1>10. Fits("file", req_[c])'
  BY <1>1 DEF Fits
<1>11. FitInv(c)'
  BY <1>1, <1>2, <1>3, <1>8, <1>10 DEF FitInv
<1> QED
  BY <1>6, <1>7, <1>9, <1>11, Frame

(* The branches of handle_request that answer with res_. *)
LEMMA AnswerStep ==
  ASSUME SearcherAssumption, TypeOK, OrderInv, NEW c \in Conn,
         OnMissing(c) \/ OnOther(c) \/ OnPostEmpty(c) \/ QueryEnds(c)
  PROVE  TypeOK' /\ OrderInv'
<1>1. /\ pc[c] \in {"read", "query"}
      /\ req_[c] \in Requests
      /\ pc[c] = "query" => req_[c].method = "post" /\ connected /\ req_[c].words
  BY DEF OrderInv, FitInv, OnMissing, OnOther, OnPostEmpty, QueryEnds
<1>2. req_[c].keep \in BOOLEAN /\ req_[c].http11 \in BOOLEAN
  BY <1>1, RequestFields
<1>3. PICK text \in Texts, keep \in BOOLEAN :
        Fits(text, req_[c]) /\ Respond(c, text, keep)
  <2>1. CASE OnMissing(c)
    <3>1. Fits("not_found", req_[c]) /\ Respond(c, "not_found", TRUE)
      BY <2>1 DEF OnMissing, Fits
    <3> QED
      BY <3>1 DEF Texts
  <2>2. CASE OnOther(c)
    <3>1. Fits("not_allowed", req_[c]) /\ Respond(c, "not_allowed", req_[c].http11)
      BY <2>2 DEF OnOther, Fits
    <3> QED
      BY <3>1, <1>2 DEF Texts
  <2>3. CASE OnPostEmpty(c)
    <3>1. CASE connected
      <4>1. Fits("blank", req_[c]) /\ Respond(c, "blank", req_[c].keep)
        BY <2>3, <3>1 DEF OnPostEmpty, Fits
      <4> QED
        BY <4>1, <1>2 DEF Texts
    <3>2. CASE ~connected
      <4>1. Fits("unavailable", req_[c]) /\ Respond(c, "unavailable", req_[c].keep)
        BY <2>3, <3>2 DEF OnPostEmpty, Fits
      <4> QED
        BY <4>1, <1>2 DEF Texts
    <3> QED
      BY <3>1, <3>2
  <2>4. CASE QueryEnds(c)
    <3>1. PICK text \in {"results", "db_error"} : Respond(c, text, req_[c].keep)
      BY <2>4 DEF QueryEnds
    <3>2. Fits(text, req_[c])
      BY <1>1, <2>4 DEF QueryEnds, Fits
    <3> QED
      BY <3>1, <3>2, <1>2 DEF Texts
  <2> QED
    BY <2>1, <2>2, <2>3, <2>4
<1> QED
  BY <1>1, <1>3, RespondStep

(* The moves that change neither a request nor a response: a new session,  *)
(* a failed read or write, the beginning of a query.                       *)
LEMMA MoveStep ==
  ASSUME TypeOK, OrderInv, NEW c \in Conn,
         NEW l \in {"reading", "ended", "query"}, Goto(c, l),
         \/ l = "reading" /\ pc[c] = "none"
         \/ l = "ended" /\ pc[c] \in {"reading", "writing"}
         \/ /\ l = "query" /\ pc[c] = "read"
            /\ req_[c].method = "post" /\ connected /\ req_[c].words,
         alive' \in BOOLEAN, accept' \in {"pending", "socket", "failed"},
         UNCHANGED <<connected, req_, received, res_, file_res_, writing, sent>>
  PROVE  TypeOK' /\ OrderInv'
<1>1. /\ pc' \in [Conn -> Locations] /\ pc'[c] = l
      /\ \A d \in Conn \ {c} : pc'[d] = pc[d]
  BY GotoType DEF Locations
<1>2. \A d \in Conn : pc'[d] \in {"none", "reading"} => req_[d] = NoRequest
  BY <1>1 DEF TypeOK
<1>3. TypeOK'
  BY <1>1, <1>2 DEF TypeOK, Locations
<1>4. At(c)
  BY <1>1 DEF At
<1>5. CountInv(c)'
  BY <1>1 DEF OrderInv, CountInv
<1>6. FitInv(c)'
  BY <1>1 DEF OrderInv, FitInv
<1> QED
  BY <1>3, <1>4, <1>5, <1>6, Frame

LEMMA ArriveStep ==
  ASSUME SearcherAssumption, TypeOK, OrderInv, NEW c \in Conn, RequestArrives(c)
  PROVE  TypeOK' /\ OrderInv'
<1>1. PICK r \in Requests : req_' = [req_ EXCEPT ![c] = r]
  BY DEF RequestArrives
<1>2. /\ pc' \in [Conn -> Locations] /\ pc'[c] = "read"
      /\ \A d \in Conn \ {c} : pc'[d] = pc[d]
  BY GotoType DEF RequestArrives, Locations
<1>3. received[c] + 1 \in 0..MaxRequests
  BY DEF TypeOK, RequestArrives, SearcherAssumption
<1>4. received' = [received EXCEPT ![c] = received[c] + 1]
  BY DEF RequestArrives
<1>5. received' \in [Conn -> 0..MaxRequests] /\ received'[c] = received[c] + 1
  BY <1>3, <1>4 DEF TypeOK
<1>6. req_' \in [Conn -> Requests \cup {NoRequest}] /\ req_'[c] = r
  BY <1>1 DEF TypeOK
<1>7. \A d \in Conn : pc'[d] \in {"none", "reading"} => req_'[d] = NoRequest
  BY <1>1, <1>2 DEF TypeOK
<1>8. TypeOK'
  BY <1>2, <1>5, <1>6, <1>7 DEF TypeOK, Locations, RequestArrives
<1>9. At(c)
  BY <1>1, <1>2, <1>4 DEF At, TypeOK, RequestArrives
<1>10. CountInv(c)'
  <2>1. pc[c] = "reading" /\ sent' = sent
    BY DEF RequestArrives
  <2>2. Len(sent[c]) = received[c] /\ \A i \in 1..Len(sent[c]) : sent[c][i][2] = i
    BY <2>1 DEF OrderInv, CountInv
  <2> QED
    BY <1>2, <1>5, <2>1, <2>2 DEF CountInv
<1>11. FitInv(c)'
  BY <1>2, <1>6 DEF FitInv
<1> QED
  BY <1>8, <1>9, <1>10, <1>11, Frame

LEMMA WrittenStep ==
  ASSUME SearcherAssumption, TypeOK, OrderInv, NEW c \in Conn, Written(c)
  PROVE  TypeOK' /\ OrderInv'
<1> DEFINE e == <<InFlight(c).text, InFlight(c).of>>
<1>1. /\ pc[c] = "writing"
      /\ sent' = [sent EXCEPT ![c] = Append(sent[c], e)]
      /\ Goto(c, "written")
      /\ UNCHANGED <<alive, connected, accept, req_, received, res_, file_res_, writing>>
  BY DEF Written
<1>2. /\ pc' \in [Conn -> Locations] /\ pc'[c] = "written"
      /\ \A d \in Conn \ {c} : pc'[d] = pc[d]
  BY <1>1, GotoType DEF Locations
<1>3. /\ InFlight(c) \in Response
      /\ sent[c] \in Seq(Texts \X (0..MaxRequests))
  BY DEF TypeOK, InFlight
<1>4. e \in Texts \X (0..MaxRequests)
  BY <1>3 DEF Response
<1> HIDE DEF e
<1>5. /\ Append(sent[c], e) \in Seq(Texts \X (0..MaxRequests))
      /\ Len(Append(sent[c], e)) = Len(sent[c]) + 1
      /\ \A i \in 1..Len(sent[c]) : Append(sent[c], e)[i] = sent[c][i]
      /\ Append(sent[c], e)[Len(sent[c]) + 1] = e
  BY <1>3, <1>4, AppendProperties
<1>6. sent' \in [Conn -> Seq(Texts \X (0..MaxRequests))] /\ sent'[c] = Append(sent[c], e)
  BY <1>1, <1>5 DEF TypeOK
<1>7. TypeOK'
  BY <1>1, <1>2, <1>6 DEF TypeOK, Locations
<1>8. At(c)
  BY <1>1, <1>2 DEF At, TypeOK
<1>9. /\ Len(sent[c]) + 1 = received[c]
      /\ \A i \in 1..Len(sent[c]) : sent[c][i][2] = i
      /\ req_[c] \in Requests
      /\ e[2] = received[c] /\ Fits(e[1], req_[c])
  BY <1>1 DEF OrderInv, CountInv, FitInv, e
<1>10. Len(sent[c]) \in Nat
  BY <1>3, LenProperties
<1>11. CountInv(c)'
  <2>1. Len(sent'[c]) = received'[c]
    BY <1>1, <1>5, <1>6, <1>9
  <2>2. ASSUME NEW i \in 1..Len(sent'[c]) PROVE sent'[c][i][2] = i
    <3>1. CASE i \in 1..Len(sent[c])
      BY <1>5, <1>6, <1>9, <3>1
    <3>2. CASE i = Len(sent[c]) + 1
      BY <1>5, <1>6, <1>9, <3>2
    <3> QED
      BY SMTT(30), <1>5, <1>6, <1>10, <3>1, <3>2
  <2> QED
    BY <1>2, <2>1, <2>2 DEF CountInv
<1>12. FitInv(c)'
  <2>1. sent'[c][Len(sent'[c])] = e
    BY <1>5, <1>6
  <2>2. Fits(e[1], req_[c])'
    BY <1>1, <1>9, <2>1 DEF Fits, e, InFlight
  <2> QED
    BY <1>1, <1>2, <1>9, <2>1, <2>2 DEF FitInv, Fits
<1> QED
  BY <1>7, <1>8, <1>11, <1>12, Frame

(* on_write closes the session or reads the next request. *)
LEMMA OnWriteStep ==
  ASSUME SearcherAssumption, TypeOK, OrderInv, NEW c \in Conn, OnWrite(c)
  PROVE  TypeOK' /\ OrderInv'
<1>1. /\ pc[c] = "written"
      /\ UNCHANGED <<alive, connected, accept, received, res_, file_res_, writing, sent>>
  BY DEF OnWrite
<1>2. PICK l \in {"reading", "ended"} :
        /\ Goto(c, l)
        /\ req_' = IF l = "reading" THEN [req_ EXCEPT ![c] = NoRequest] ELSE req_
  BY DEF OnWrite
<1>3. /\ pc' \in [Conn -> Locations] /\ pc'[c] = l
      /\ \A d \in Conn \ {c} : pc'[d] = pc[d]
  BY <1>2, GotoType DEF Locations
<1>4. /\ req_' \in [Conn -> Requests \cup {NoRequest}]
      /\ l = "reading" => req_'[c] = NoRequest
      /\ \A d \in Conn \ {c} : req_'[d] = req_[d]
  BY <1>2 DEF TypeOK
<1>5. \A d \in Conn : pc'[d] \in {"none", "reading"} => req_'[d] = NoRequest
  BY <1>3, <1>4 DEF TypeOK
<1>6. TypeOK'
  BY <1>1, <1>3, <1>4, <1>5 DEF TypeOK, Locations
<1>7. At(c)
  BY <1>1, <1>3, <1>4 DEF At
<1>8. CountInv(c)'
  BY <1>1, <1>3 DEF OrderInv, CountInv
<1>9. FitInv(c)'
  BY <1>3 DEF FitInv
<1> QED
  BY <1>6, <1>7, <1>8, <1>9, Frame

(* Steps that move no session: the listener, and the end of the process.   *)
LEMMA StillStep ==
  ASSUME TypeOK, OrderInv,
         alive' \in BOOLEAN, accept' \in {"pending", "socket", "failed"},
         UNCHANGED <<connected, session>>
  PROVE  TypeOK' /\ OrderInv'
<1>1. UNCHANGED <<connected, pc, req_, received, res_, file_res_, writing, sent>>
  BY DEF session
<1>2. TypeOK'
  BY <1>1 DEF TypeOK
<1>3. OrderInv'
  BY <1>1 DEF OrderInv, CountInv, FitInv, Fits, InFlight
<1> QED
  BY <1>2, <1>3

LEMMA InitOrder ==
  ASSUME SearcherAssumption, Init
  PROVE  TypeOK /\ OrderInv
<1>1. 0 \in 0..MaxRequests
  BY DEF SearcherAssumption
<1>2. NoResponse \in Response
  BY <1>1 DEF NoResponse, Response, Texts
<1>3. << >> \in Seq(Texts \X (0..MaxRequests)) /\ Len(<< >>) = 0
  BY EmptySeq
<1>4. connected \in BOOLEAN
  BY DEF Init, SearcherAssumption
<1>5. TypeOK
  BY <1>1, <1>2, <1>3, <1>4 DEF Init, TypeOK
<1>6. ASSUME NEW c \in Conn PROVE CountInv(c) /\ FitInv(c)
  BY <1>3 DEF Init, CountInv, FitInv
<1> QED
  BY <1>5, <1>6 DEF OrderInv

LEMMA SessionStep ==
  ASSUME SearcherAssumption, TypeOK, OrderInv, NEW c \in Conn,
         \/ RequestArrives(c) \/ ReadFails(c) \/ Handlers(c)
         \/ Written(c) \/ WriteFails(c)
  PROVE  TypeOK' /\ OrderInv'
<1>1. CASE RequestArrives(c)
  BY <1>1, ArriveStep
<1>2. CASE ReadFails(c)
  BY <1>2, MoveStep DEF ReadFails, TypeOK
<1>3. CASE OnGet(c)
  BY <1>3, GetStep
<1>4. CASE OnMissing(c) \/ OnOther(c) \/ OnPostEmpty(c) \/ QueryEnds(c)
  BY <1>4, AnswerStep
<1>5. CASE OnPostThrows(c) \/ QueryThrows(c) \/ OnWriteThrows(c)
  BY <1>5, StillStep DEF OnPostThrows, QueryThrows, OnWriteThrows, Dies, TypeOK
<1>6. CASE OnPostQuery(c)
  <2>1. CASE Querying = {}
    BY <1>6, <2>1, MoveStep DEF OnPostQuery, TypeOK
  <2>2. CASE Querying # {}
    <3>1. alive' = FALSE /\ UNCHANGED <<connected, accept, session>>
      BY <1>6, <2>2 DEF OnPostQuery, session
    <3> QED
      BY <3>1, StillStep DEF TypeOK
  <2> QED
    BY <2>1, <2>2
<1>7. CASE OnWrite(c)
  BY <1>7, OnWriteStep
<1>8. CASE Written(c)
  BY <1>8, WrittenStep
<1>9. CASE WriteFails(c)
  BY <1>9, MoveStep DEF WriteFails, TypeOK
<1> QED
  BY <1>1, <1>2, <1>3, <1>4, <1>5, <1>6, <1>7, <1>8, <1>9 DEF Handlers

LEMMA AcceptStep ==
  ASSUME TypeOK, OrderInv, AcceptCompletes \/ OnAccept
  PROVE  TypeOK' /\ OrderInv'
<1>1. CASE AcceptCompletes
  <2>1. accept' \in {"pending", "socket", "failed"}
    BY <1>1 DEF AcceptCompletes
  <2> QED
    BY <1>1, <2>1, StillStep DEF AcceptCompletes, TypeOK
<1>2. CASE OnAccept /\ accept = "socket"
  <2>1. PICK c \in Conn : pc[c] = "none" /\ Goto(c, "reading")
    BY <1>2 DEF OnAccept
  <2> QED
    BY <1>2, <2>1, MoveStep DEF OnAccept, TypeOK
<1>3. CASE OnAccept /\ accept # "socket"
  <2>1. accept' = "pending" /\ UNCHANGED <<alive, connected, session>>
    BY <1>3 DEF OnAccept, session
  <2> QED
    BY <2>1, StillStep DEF TypeOK
<1> QED
  BY <1>1, <1>2, <1>3

LEMMA Invariance ==
  ASSUME SearcherAssumption
  PROVE  Spec => [](TypeOK /\ OrderInv)
<1>1. Init => TypeOK /\ OrderInv
  BY InitOrder
<1>2. TypeOK /\ OrderInv /\ [Next]_vars => (TypeOK /\ OrderInv)'
  <2> SUFFICES ASSUME TypeOK, OrderInv, [Next]_vars PROVE TypeOK' /\ OrderInv'
    OBVIOUS
  <2>1. CASE AcceptCompletes \/ OnAccept
    BY <2>1, AcceptStep
  <2>2. CASE \E c \in Conn : \/ RequestArrives(c) \/ ReadFails(c) \/ Handlers(c)
                            \/ Written(c) \/ WriteFails(c)
    BY <2>2, SessionStep
  <2>3. CASE UNCHANGED vars
    BY <2>3, StillStep DEF vars, TypeOK
  <2> QED
    BY <2>1, <2>2, <2>3 DEF Next, Terminated
<1> QED
  BY <1>1, <1>2, PTL DEF Spec

(* Every variable of the server has its type, and a session reads into an  *)
(* empty request.                                                          *)
THEOREM TypeCorrect ==
  ASSUME SearcherAssumption
  PROVE  Spec => []TypeOK
BY Invariance, PTL

(* Every client gets one fitting response per request, in order.           *)
THEOREM ResponsesInOrder ==
  ASSUME SearcherAssumption
  PROVE  Spec => []AnswersInOrder
<1>1. TypeOK /\ OrderInv => AnswersInOrder
  <2> SUFFICES ASSUME TypeOK, OrderInv, NEW c \in Conn
      PROVE  /\ Len(sent[c]) \in {received[c], received[c] - 1}
             /\ \A i \in 1..Len(sent[c]) : sent[c][i][2] = i
             /\ pc[c] = "written" => Fits(sent[c][Len(sent[c])][1], req_[c])
    BY DEF AnswersInOrder
  <2>1. CountInv(c) /\ FitInv(c)
    BY DEF OrderInv
  <2>2. sent[c] \in Seq(Texts \X (0..MaxRequests)) /\ received[c] \in Nat
    BY DEF TypeOK
  <2>3. Len(sent[c]) \in Nat
    BY <2>2, LenProperties
  <2>4. Len(sent[c]) = received[c] \/ Len(sent[c]) + 1 = received[c]
    BY <2>1 DEF CountInv, TypeOK
  <2>5. Len(sent[c]) \in {received[c], received[c] - 1}
    BY <2>2, <2>3, <2>4
  <2> QED
    BY <2>1, <2>5 DEF CountInv, FitInv
<1> QED
  BY <1>1, Invariance, PTL

-----------------------------------------------------------------------------
(* What the answer to a query says of the connection, from the handler on  *)
(* that makes it until on_write looks at it.                               *)
KeepInv ==
  \A c \in Conn :
    pc[c] \in {"writing", "written"} /\ req_[c].method = "post" => res_[c].keep = req_[c].keep

(* An answer in res_ says what the client asked, if it answers a query. *)
LEMMA RespondKeeps ==
  ASSUME TypeOK, KeepInv, NEW c \in Conn, NEW text, NEW keep, Respond(c, text, keep),
         req_[c].method = "post" => keep = req_[c].keep
  PROVE  KeepInv'
<1>1. /\ req_' = req_ /\ pc' = [pc EXCEPT ![c] = "writing"]
      /\ res_' = [res_ EXCEPT ![c] = [text |-> text, of |-> received[c], keep |-> keep]]
  BY DEF Respond, Write, Goto
<1> SUFFICES ASSUME NEW d \in Conn, pc'[d] \in {"writing", "written"}, req_'[d].method = "post"
             PROVE  res_'[d].keep = req_'[d].keep
  BY DEF KeepInv
<1>2. CASE d = c
  BY <1>1, <1>2 DEF TypeOK
<1>3. CASE d # c
  <2>1. pc'[d] = pc[d] /\ res_'[d] = res_[d] /\ req_'[d] = req_[d]
    BY <1>1, <1>3 DEF TypeOK
  <2> QED BY <2>1 DEF KeepInv
<1> QED BY <1>2, <1>3

(* A session that moves on, without an answer to a query in its hands.     *)
LEMMA GotoKeeps ==
  ASSUME TypeOK, KeepInv, NEW c \in Conn, NEW l, Goto(c, l), UNCHANGED res_,
         \A d \in Conn \ {c} : req_'[d] = req_[d],
         l \in {"writing", "written"} =>
           req_'[c] = req_[c] /\ (pc[c] \in {"writing", "written"} \/ req_[c].method # "post")
  PROVE  KeepInv'
<1> SUFFICES ASSUME NEW d \in Conn, pc'[d] \in {"writing", "written"}, req_'[d].method = "post"
             PROVE  res_'[d].keep = req_'[d].keep
  BY DEF KeepInv
<1>1. CASE d = c
  <2>1. pc'[c] = l
    BY DEF Goto, TypeOK
  <2> QED BY <1>1, <2>1 DEF KeepInv
<1>2. CASE d # c
  <2>1. pc'[d] = pc[d] /\ req_'[d] = req_[d]
    BY <1>2 DEF Goto, TypeOK
  <2> QED BY <2>1 DEF KeepInv
<1> QED BY <1>1, <1>2

LEMMA KeepStep ==
  ASSUME SearcherAssumption, TypeOK, OrderInv, KeepInv, [Next]_vars
  PROVE  KeepInv'
<1>1. CASE UNCHANGED <<pc, req_, res_>>
  BY <1>1 DEF KeepInv
<1>2. CASE AcceptCompletes
  BY <1>1, <1>2 DEF AcceptCompletes, session
<1>3. CASE OnAccept
  <2>1. CASE \E c \in Conn : pc[c] = "none" /\ Goto(c, "reading")
    BY <1>3, <2>1, GotoKeeps DEF OnAccept
  <2>2. CASE UNCHANGED pc
    BY <1>1, <1>3, <2>2 DEF OnAccept
  <2> QED BY <1>3, <2>1, <2>2 DEF OnAccept
<1>4. ASSUME NEW c \in Conn, RequestArrives(c) \/ ReadFails(c) \/ Written(c) \/ WriteFails(c)
      PROVE  KeepInv'
  <2>1. CASE RequestArrives(c)
    <3>1. \A d \in Conn \ {c} : req_'[d] = req_[d]
      BY <2>1 DEF RequestArrives, TypeOK
    <3> QED BY <2>1, <3>1, GotoKeeps DEF RequestArrives
  <2>2. CASE ReadFails(c)
    BY <2>2, GotoKeeps DEF ReadFails
  <2>3. CASE Written(c)
    BY <2>3, GotoKeeps DEF Written
  <2>4. CASE WriteFails(c)
    BY <2>4, GotoKeeps DEF WriteFails
  <2> QED BY <1>4, <2>1, <2>2, <2>3, <2>4
<1>5. ASSUME NEW c \in Conn, Handlers(c) PROVE KeepInv'
  <2>1. CASE OnGet(c)
    BY <2>1, GotoKeeps DEF OnGet, Write
  <2>2. CASE OnMissing(c)
    BY <2>2, RespondKeeps DEF OnMissing
  <2>3. CASE OnOther(c)
    BY <2>3, RespondKeeps DEF OnOther
  <2>4. CASE OnPostEmpty(c)
    BY <2>4, RespondKeeps DEF OnPostEmpty
  <2>5. CASE OnPostThrows(c) \/ QueryThrows(c) \/ OnWriteThrows(c)
    BY <1>1, <2>5 DEF OnPostThrows, QueryThrows, OnWriteThrows, Dies, session
  <2>6. CASE OnPostQuery(c)
    <3>1. CASE Goto(c, "query")
      BY <2>6, <3>1, GotoKeeps DEF OnPostQuery
    <3>2. CASE UNCHANGED pc
      BY <1>1, <2>6, <3>2 DEF OnPostQuery
    <3> QED BY <2>6, <3>1, <3>2 DEF OnPostQuery
  <2>7. CASE QueryEnds(c)
    BY <2>7, RespondKeeps DEF QueryEnds
  <2>8. CASE OnWrite(c)
    <3>1. \A d \in Conn \ {c} : req_'[d] = req_[d]
      BY <2>8 DEF OnWrite, TypeOK
    <3>2. PICK l \in {"reading", "ended"} : Goto(c, l)
      BY <2>8 DEF OnWrite
    <3> QED BY <2>8, <3>1, <3>2, GotoKeeps DEF OnWrite
  <2> QED BY <1>5, <2>1, <2>2, <2>3, <2>4, <2>5, <2>6, <2>7, <2>8 DEF Handlers
<1>6. CASE UNCHANGED vars
  BY <1>1, <1>6 DEF vars, session
<1> QED BY <1>2, <1>3, <1>4, <1>5, <1>6 DEF Next, Terminated

(* Only on_write takes a session on from "written". *)
LEMMA LeavesWritten ==
  ASSUME TypeOK, [Next]_vars, NEW c \in Conn, pc[c] = "written", pc'[c] # "written"
  PROVE  OnWrite(c)
<1>1. ASSUME NEW d \in Conn, NEW l, Goto(d, l) PROVE d = c
  BY <1>1 DEF Goto, TypeOK
<1>2. ~UNCHANGED pc
  OBVIOUS
<1>3. ~AcceptCompletes /\ ~UNCHANGED vars
  BY <1>2 DEF AcceptCompletes, vars, session
<1>4. ~OnAccept
  BY <1>1, <1>2 DEF OnAccept
<1>5. PICK d \in Conn : RequestArrives(d) \/ ReadFails(d) \/ Handlers(d) \/ Written(d) \/ WriteFails(d)
  BY <1>3, <1>4 DEF Next, Terminated
<1>6. ~RequestArrives(d) /\ ~ReadFails(d) /\ ~Written(d) /\ ~WriteFails(d)
  BY <1>1 DEF RequestArrives, ReadFails, Written, WriteFails
<1>7. ~OnGet(d) /\ ~OnMissing(d) /\ ~OnOther(d) /\ ~OnPostEmpty(d) /\ ~QueryEnds(d)
  BY <1>1 DEF OnGet, OnMissing, OnOther, OnPostEmpty, QueryEnds, Respond, Write
<1>8. ~OnPostThrows(d) /\ ~QueryThrows(d) /\ ~OnWriteThrows(d) /\ ~OnPostQuery(d)
  BY <1>1, <1>2 DEF OnPostThrows, QueryThrows, OnWriteThrows, Dies, session, OnPostQuery
<1>9. OnWrite(d)
  BY <1>5, <1>6, <1>7, <1>8 DEF Handlers
<1>10. d = c
  BY <1>1, <1>9 DEF OnWrite
<1> QED BY <1>9, <1>10

(* After the answer to a query the session goes on exactly if the client   *)
(* has asked for it, although on_write only looks at what res_ says.       *)
THEOREM QueriesKeepAlive ==
  ASSUME SearcherAssumption
  PROVE  Spec => KeepAlive
<1>1. Init => KeepInv
  BY DEF Init, KeepInv
<1>2. TypeOK /\ OrderInv /\ KeepInv /\ [Next]_vars => KeepInv'
  BY KeepStep
<1>3. TypeOK /\ KeepInv /\ [Next]_vars =>
        [\A c \in Conn :
           pc[c] = "written" /\ pc'[c] # "written" /\ req_[c].method = "post"
             => (pc'[c] = "reading" <=> req_[c].keep)]_vars
  <2> SUFFICES ASSUME TypeOK, KeepInv, [Next]_vars, NEW c \in Conn,
                      pc[c] = "written", pc'[c] # "written", req_[c].method = "post"
               PROVE  pc'[c] = "reading" <=> req_[c].keep
    OBVIOUS
  <2>1. OnWrite(c)
    BY LeavesWritten
  <2>2. res_[c].keep = req_[c].keep
    BY DEF KeepInv
  <2>3. CASE res_[c].keep
    BY <2>1, <2>2, <2>3 DEF OnWrite, Goto, TypeOK
  <2>4. CASE ~res_[c].keep
    BY <2>1, <2>2, <2>4 DEF OnWrite, Goto, TypeOK
  <2> QED BY <2>3, <2>4
<1> QED BY <1>1, <1>2, <1>3, Invariance, PTL DEF Spec, KeepAlive
=============================================================================
