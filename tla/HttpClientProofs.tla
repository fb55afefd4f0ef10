-------------------------- MODULE HttpClientProofs --------------------------
(* Theorems about HttpClient, for any hosts, locations and first url.       *)
EXTENDS HttpClient, TLAPS, SequenceTheorems

Before == {"start", "resolve", "connect", "handshake", "write"}

(* What is left of the redirects pays for the requests still to come.      *)
Pending   == IF phase \in Before THEN 1 ELSE 0
Allowance == RedirectLimit + 1 + (IF tls THEN RedirectLimit ELSE 0)

BudgetInv ==
  /\ requests + redirect_limit + Pending <= Allowance
  /\ phase = "read" => requests > 0

USE DEF RedirectLimit, connVars, histVars, vars

(* Where a redirect leads is a host and a port. *)
LEMMA NextPlace ==
  ASSUME ClientAssumption, TypeOK, NEW l \in Locations, NEW p \in Port
  PROVE  NextHost(l) \in Host /\ NextPort(l, p) \in Port
BY DEF ClientAssumption, TypeOK, NextHost, NextPort, Location

(* The text of a response is appended with its number. *)
LEMMA ReceivedType ==
  ASSUME TypeOK, BudgetInv, phase = "read", NEW r
  PROVE  Received(r) \in Seq(1..requests)
<1>1. requests \in 1..requests
  BY DEF TypeOK, BudgetInv
<1>2. body \in Seq(1..requests)
  BY DEF TypeOK
<1>3. Append(body, requests) \in Seq(1..requests)
  <2> DEFINE S == 1..requests
  <2>1. body \in Seq(S) /\ requests \in S
    BY <1>1, <1>2
  <2> HIDE DEF S
  <2>2. Append(body, requests) \in Seq(S)
    BY <2>1, AppendProperties
  <2> QED
    BY <2>2 DEF S
<1>4. Received(r) \in {Append(body, requests), body}
  BY DEF Received
<1> QED
  BY <1>2, <1>3, <1>4

LEMMA InitType ==
  ASSUME ClientAssumption, Init
  PROVE  TypeOK /\ BudgetInv /\ CalledOnce
<1>1. tls \in BOOLEAN
  BY DEF Init, ClientAssumption
<1>2. port \in Port
  BY DEF Init, Port
<1>3. TypeOK
  BY <1>1, <1>2 DEF Init, TypeOK
<1>4. BudgetInv
  BY <1>1 DEF Init, BudgetInv, Pending, Allowance, Before
<1> QED
  BY <1>3, <1>4 DEF Init, CalledOnce

(* The steps that only move on to the next operation. *)
LEMMA PhaseStep ==
  ASSUME TypeOK, BudgetInv, CalledOnce,
         Start \/ Fail \/ OnResolve \/ OnConnect \/ OnHandshake \/ OnShutdown
  PROVE  TypeOK' /\ BudgetInv' /\ CalledOnce'
<1>1. UNCHANGED <<connVars, histVars, body>>
  BY DEF Start, Fail, OnResolve, OnConnect, OnHandshake, OnShutdown
<1>2. /\ phase' \in Before \cup {"ended"}
      /\ phase \in {"shutdown", "read"} => phase' = "ended"
      /\ phase \in Before => calls = << >>
      /\ phase # "ended"
  BY DEF Start, Fail, OnResolve, OnConnect, OnHandshake, OnShutdown, Before,
         CalledOnce
<1>3. TypeOK'
  BY <1>1, <1>2 DEF TypeOK, Before
<1>4. BudgetInv'
  BY <1>1, <1>2 DEF TypeOK, BudgetInv, Pending, Allowance, Before
<1>5. calls # << >> => phase' = "ended"
  BY <1>2 DEF TypeOK, CalledOnce, Before
<1> QED
  BY <1>1, <1>3, <1>4, <1>5 DEF CalledOnce

LEMMA WriteStep ==
  ASSUME TypeOK, BudgetInv, CalledOnce, OnWrite
  PROVE  TypeOK' /\ BudgetInv' /\ CalledOnce'
<1>1. calls = << >>
  BY DEF OnWrite, CalledOnce
<1>2. 1..requests \subseteq 1..requests'
  BY DEF OnWrite, TypeOK
<1>3. body' \in Seq(1..requests')
  <2>1. body \in Seq(1..requests) /\ body' \in {<< >>, body}
    BY DEF OnWrite, TypeOK
  <2>2. body \in Seq(1..requests')
    BY <1>2, <2>1, SeqMonotonic
  <2>3. << >> \in Seq(1..requests')
    BY EmptySeq
  <2> QED
    BY <2>1, <2>2, <2>3
<1>4. TypeOK'
  BY <1>1, <1>3 DEF OnWrite, TypeOK
<1>5. BudgetInv'
  BY DEF OnWrite, TypeOK, BudgetInv, Pending, Allowance, Before
<1> QED
  BY <1>1, <1>4, <1>5 DEF OnWrite, CalledOnce

(* A redirect is followed: the handler has not been called, the limit pays. *)
LEMMA RedirectStep ==
  ASSUME ClientAssumption, TypeOK, BudgetInv, CalledOnce,
         RedirectPlain \/ RedirectToSsl \/ RedirectSsl
  PROVE  TypeOK' /\ BudgetInv' /\ CalledOnce'
<1> USE DEF Followed, Counted
<1>1. calls = << >> /\ calls' = << >> /\ requests' = requests
  BY DEF RedirectPlain, RedirectToSsl, RedirectSsl, CalledOnce
<1>2. phase' \in {"resolve", "ended"}
  BY DEF RedirectPlain, RedirectToSsl, RedirectSsl, Run, RunSsl
<1>3. redirect_limit > 0
  BY DEF RedirectPlain, RedirectToSsl, RedirectSsl
<1>4. BudgetInv'
  BY <1>1, <1>2, <1>3
  DEF RedirectPlain, RedirectToSsl, RedirectSsl, TypeOK, BudgetInv, Pending, Allowance, Before
<1>5. Http \in Port /\ Https \in Port
  BY DEF Port
<1>6. via' \in Locations /\ last_host_' \in Host /\ port' \in Port
  BY <1>5, NextPlace
  DEF RedirectPlain, RedirectToSsl, RedirectSsl, Run, RunSsl, Response
<1>7. body' \in Seq(1..requests)
  <2>1. phase = "read" /\ (body' = << >> \/ \E r \in Response : body' = Received(r))
    BY DEF RedirectPlain, RedirectToSsl, RedirectSsl
  <2>2. << >> \in Seq(1..requests)
    BY EmptySeq
  <2> QED
    BY <2>1, <2>2, ReceivedType
<1>8. tls' \in BOOLEAN /\ redirect_limit' \in 0..RedirectLimit
  <2>1. redirect_limit' \in {redirect_limit - 1, RedirectLimit}
    BY DEF RedirectPlain, RedirectToSsl, RedirectSsl
  <2>2. tls' \in {tls, TRUE}
    BY DEF RedirectPlain, RedirectToSsl, RedirectSsl
  <2>3. redirect_limit \in 0..3 /\ tls \in BOOLEAN
    BY DEF TypeOK
  <2>4. redirect_limit' \in 0..RedirectLimit
    BY <1>3, <2>1, <2>3
  <2>5. tls' \in BOOLEAN
    BY <2>2, <2>3, Zenon
  <2> QED
    BY <2>4, <2>5, Zenon
<1>9. TypeOK'
  BY <1>1, <1>2, <1>6, <1>7, <1>8 DEF TypeOK
<1> QED
  BY <1>1, <1>4, <1>9 DEF CalledOnce

(* The handler is called: for the first time, and nothing follows. *)
LEMMA DeliverStep ==
  ASSUME TypeOK, BudgetInv, CalledOnce, Deliver
  PROVE  TypeOK' /\ BudgetInv' /\ CalledOnce'
<1>1. phase = "read" /\ calls = << >>
  BY DEF Deliver, CalledOnce
<1>2. PICK r \in Response :
        /\ ~Followed(r)
        /\ redirect_limit' = redirect_limit - (IF Counted(r) THEN 1 ELSE 0)
        /\ body' = IF r.status = "ok" THEN Received(r) ELSE << >>
        /\ calls' = Append(calls, [pages |-> body', status |-> r.status])
  BY DEF Deliver
<1>3. body' \in Seq(1..requests)
  <2>1. body' \in {Received(r), << >>}
    BY <1>2
  <2>2. << >> \in Seq(1..requests)
    BY EmptySeq
  <2> QED
    BY <1>1, <2>1, <2>2, ReceivedType
<1>4. redirect_limit' \in 0..redirect_limit
  <2>1. Counted(r) => redirect_limit > 0
    BY DEF Counted
  <2>2. redirect_limit' = redirect_limit \/ redirect_limit' = redirect_limit - 1
    BY <1>2 DEF TypeOK
  <2>3. redirect_limit' = redirect_limit - 1 => redirect_limit > 0
    BY <1>2, <2>1 DEF TypeOK
  <2> QED
    BY <2>2, <2>3 DEF TypeOK
<1>5. r.status \in {"ok", "redirect", "error"}
  BY DEF Response
<1>6. calls' = <<[pages |-> body', status |-> r.status]>>
  BY <1>1, <1>2
<1>7. calls' \in Seq([pages : Seq(1..requests), status : {"ok", "redirect", "error"}])
  BY <1>3, <1>5, <1>6
<1>8. phase' \in {"shutdown", "ended"} /\ UNCHANGED <<tls, last_host_, port, via, requests>>
  BY DEF Deliver
<1>9. TypeOK'
  BY <1>3, <1>4, <1>7, <1>8 DEF TypeOK
<1>10. BudgetInv'
  <2>1. redirect_limit \in 0..3 /\ requests \in Nat
    BY DEF TypeOK
  <2>2. phase' \notin Before /\ phase' # "read" /\ phase \notin Before
    BY <1>1, <1>8 DEF Before
  <2>3. requests' = requests
    BY <1>8
  <2>4. PICK n \in 0..redirect_limit : redirect_limit' = n
    BY <1>4
  <2>5. Pending = 0 /\ Pending' = 0
    BY <2>2 DEF Pending, Before
  <2>6. Allowance' = Allowance /\ Allowance \in Nat
    BY <1>8 DEF Allowance, TypeOK
  <2>7. requests + redirect_limit <= Allowance
    BY <2>1, <2>5, <2>6 DEF BudgetInv
  <2>8. requests + n + 0 <= Allowance
    BY <2>1, <2>6, <2>7
  <2> QED
    BY <2>2, <2>3, <2>4, <2>5, <2>6, <2>8 DEF BudgetInv
<1>11. CalledOnce'
  BY <1>6, <1>8 DEF CalledOnce
<1> QED
  BY <1>9, <1>10, <1>11

LEMMA NextKeeps ==
  ASSUME ClientAssumption, TypeOK, BudgetInv, CalledOnce, [Next]_vars
  PROVE  TypeOK' /\ BudgetInv' /\ CalledOnce'
<1>1. CASE UNCHANGED vars
  BY <1>1 DEF TypeOK, BudgetInv, Pending, Allowance, Before, CalledOnce
<1>2. CASE Step
  BY <1>2, PhaseStep, WriteStep, RedirectStep, DeliverStep DEF Step
<1> QED
  BY <1>1, <1>2 DEF Next, Terminated

(* The three together, of which the theorems below are parts. *)
LEMMA Invariance ==
  ASSUME ClientAssumption
  PROVE  Spec => [](TypeOK /\ BudgetInv /\ CalledOnce)
<1>1. Init => TypeOK /\ BudgetInv /\ CalledOnce
  BY InitType
<1>2. TypeOK /\ BudgetInv /\ CalledOnce /\ [Next]_vars
        => (TypeOK /\ BudgetInv /\ CalledOnce)'
  BY NextKeeps
<1> QED
  BY <1>1, <1>2, PTL DEF Spec

(* Every variable of session and session_ssl has its type. *)
THEOREM TypeCorrect ==
  ASSUME ClientAssumption
  PROVE  Spec => []TypeOK
BY Invariance, PTL

(* on_data_received_ is called at most once, and then nothing is pending    *)
(* that could call it when task() has returned.                            *)
THEOREM HandlerCalledOnce ==
  ASSUME ClientAssumption
  PROVE  Spec => []CalledOnce
BY Invariance, PTL

(* Redirects, across both sessions, end after seven requests. *)
THEOREM RedirectsEnd ==
  ASSUME ClientAssumption
  PROVE  Spec => []RequestsBounded
<1>1. TypeOK /\ BudgetInv => RequestsBounded
  BY DEF TypeOK, BudgetInv, Pending, Allowance, RequestsBounded, Before
<1> QED
  BY <1>1, Invariance, PTL

(* The client takes the steps of FetchSpec: one outcome, which stays.      *)
THEOREM FetchRefinement ==
  ASSUME ClientAssumption
  PROVE  Spec => Fetched!Init /\ [][Fetched!Answer]_Outcome
<1>1. Init => Fetched!Init
  BY DEF Init, Fetched!Init, Outcome
<1>2. CalledOnce /\ [Next]_vars => [Fetched!Answer]_Outcome
  <2> SUFFICES ASSUME CalledOnce, [Next]_vars PROVE [Fetched!Answer]_Outcome
    OBVIOUS
  <2>1. CASE phase = "ended"
    <3>1. UNCHANGED vars
      BY <2>1 DEF Next, Terminated, Step, Start, Fail, OnResolve, OnConnect,
         OnHandshake, OnWrite, RedirectPlain, RedirectToSsl, RedirectSsl,
         Deliver, OnShutdown
    <3> QED
      BY <3>1 DEF Outcome
  <2>2. CASE phase # "ended"
    <3>1. Outcome = "none"
      BY <2>2 DEF Outcome
    <3>2. Outcome' \in {"none", "page", "empty"}
      BY DEF Outcome
    <3> QED
      BY <3>1, <3>2 DEF Fetched!Answer, Fetched!Outcomes
  <2> QED
    BY <2>1, <2>2
<1> QED
  BY <1>1, <1>2, Invariance, PTL DEF Spec
-----------------------------------------------------------------------------
(* A session_ssl waits for a response with an empty one to put it in. *)
SslInv == tls => (phase = "read" => body = << >>) /\ FinalPageOnly

LEMMA SslStep ==
  ASSUME TypeOK, CalledOnce, SslInv, [Next]_vars
  PROVE  SslInv'
<1>1. calls = << >> => FinalPageOnly
  BY DEF FinalPageOnly
<1>2. phase \notin {"shutdown", "ended"} => calls = << >>
  BY DEF CalledOnce
<1>3. CASE Start \/ Fail \/ OnResolve \/ OnConnect \/ OnHandshake \/ OnShutdown
  <2>1. tls' = tls /\ calls' = calls /\ requests' = requests /\ phase' # "read"
    BY <1>3 DEF Start, Fail, OnResolve, OnConnect, OnHandshake, OnShutdown
  <2> QED BY <2>1 DEF SslInv, FinalPageOnly
<1>4. CASE OnWrite
  <2>1. tls' = tls /\ calls' = << >> /\ (tls => body' = << >>)
    BY <1>2, <1>4 DEF OnWrite
  <2> QED BY <2>1 DEF SslInv, FinalPageOnly
<1>5. CASE RedirectPlain \/ RedirectToSsl \/ RedirectSsl
  <2>1. calls' = << >> /\ phase' # "read"
    BY <1>2, <1>5 DEF RedirectPlain, RedirectToSsl, RedirectSsl, Run, RunSsl
  <2> QED BY <2>1 DEF SslInv, FinalPageOnly
<1>6. CASE Deliver
  <2> SUFFICES ASSUME tls PROVE phase' # "read" /\ FinalPageOnly'
    BY <1>6 DEF SslInv, Deliver
  <2>1. calls = << >> /\ body = << >> /\ requests' = requests /\ phase' # "read"
    BY <1>2, <1>6 DEF SslInv, Deliver
  <2>2. PICK r \in Response :
          /\ body' = IF r.status = "ok" THEN Received(r) ELSE << >>
          /\ calls' = Append(calls, [pages |-> body', status |-> r.status])
    BY <1>6 DEF Deliver
  <2>3. Received(r) \in {<< >>, <<requests>>}
    BY <2>1 DEF Received
  <2>4. Len(calls') = 1 /\ calls'[1] = [pages |-> body', status |-> r.status]
    BY <2>1, <2>2
  <2>5. body' \in {<< >>, <<requests>>} /\ (body' # << >> => r.status = "ok")
    BY <2>2, <2>3
  <2> QED BY <2>1, <2>4, <2>5 DEF FinalPageOnly
<1>7. CASE UNCHANGED vars
  BY <1>7 DEF SslInv, FinalPageOnly
<1> QED BY <1>3, <1>4, <1>5, <1>6, <1>7 DEF Next, Step, Terminated

(* The text of a redirect or of an error never reaches the handler over    *)
(* TLS, neither in front of the page nor in its place.                     *)
THEOREM OnlyTheFinalPage ==
  ASSUME ClientAssumption
  PROVE  Spec => []SslFinalPageOnly
<1>1. Init => SslInv
  BY DEF Init, SslInv, FinalPageOnly
<1>2. TypeOK /\ CalledOnce /\ SslInv /\ [Next]_vars => SslInv'
  BY SslStep
<1>3. SslInv => SslFinalPageOnly
  BY DEF SslInv, SslFinalPageOnly
<1> QED BY <1>1, <1>2, <1>3, Invariance, PTL DEF Spec
-----------------------------------------------------------------------------
(* A redirect, in any of the three ways, goes where its location leads.    *)
LEMMA RedirectFollows ==
  ASSUME ClientAssumption, TypeOK, NEW l \in Location, l.host = NoHost => ~l.https,
         last_host_' = NextHost(l), via' = l,
         tls' = (tls \/ l.https),
         port' = IF l.https /\ ~tls THEN Https ELSE NextPort(l, IF tls THEN Https ELSE Http)
  PROVE  /\ last_host_' = Resolved(Place, via').host
         /\ tls' = (tls \/ Resolved(Place, via').https)
         /\ ~Named(via') /\ (tls => Resolved(Place, via').https)
              => Place' = Resolved(Place, via')
<1>1. CASE l.host = NoHost
  <2>1. Resolved(Place, via') = [https |-> tls, host |-> last_host_, port |-> port]
    BY <1>1 DEF Resolved, Place
  <2>2. ~l.https
    BY <1>1
  <2>3. ~Named(via') => port = (IF tls THEN Https ELSE Http) /\ l.port = NoPort
    BY DEF Named, Place
  <2>4. tls' = tls /\ last_host_' = last_host_ /\ (~Named(via') => port' = port)
    BY <1>1, <2>2, <2>3 DEF NextHost, NextPort, TypeOK
  <2> QED BY <2>1, <2>4 DEF Place, TypeOK
<1>2. CASE l.host # NoHost
  <2>1. Resolved(Place, via') = [https |-> l.https, host |-> l.host,
          port |-> IF l.port # NoPort THEN l.port ELSE IF l.https THEN Https ELSE Http]
    BY <1>2 DEF Resolved
  <2>2. last_host_' = l.host
    BY <1>2 DEF NextHost
  <2>3. ASSUME ~Named(via'), tls => l.https PROVE Place' = Resolved(Place, via')
    <3>1. l.port = NoPort /\ tls' = l.https /\ l.https \in BOOLEAN
      BY <2>3 DEF Named, TypeOK, Location
    <3>2. port' = IF l.https THEN Https ELSE Http
      BY <2>3, <3>1 DEF NextPort, TypeOK
    <3> QED BY <2>1, <2>2, <3>1, <3>2 DEF Place
  <2> QED BY <2>1, <2>2, <2>3
<1> QED BY <1>1, <1>2

(* Every request after a redirect goes where the location leads from the   *)
(* page that redirects, if no location names https without a host.         *)
THEOREM RedirectsFollowLocations ==
  ASSUME ClientAssumption, \A l \in Locations : l.host = NoHost => ~l.https
  PROVE  Spec => FollowsLocation
<1>1. TypeOK /\ [Next]_vars =>
        [phase = "read" /\ phase' = "resolve" =>
           /\ last_host_' = Resolved(Place, via').host
           /\ tls' = (tls \/ Resolved(Place, via').https)
           /\ ~Named(via') /\ (tls => Resolved(Place, via').https)
                => Place' = Resolved(Place, via')]_vars
  <2> SUFFICES ASSUME TypeOK, [Next]_vars, phase = "read", phase' = "resolve"
               PROVE  /\ last_host_' = Resolved(Place, via').host
                      /\ tls' = (tls \/ Resolved(Place, via').https)
                      /\ ~Named(via') /\ (tls => Resolved(Place, via').https)
                           => Place' = Resolved(Place, via')
    OBVIOUS
  <2>1. RedirectPlain \/ RedirectToSsl \/ RedirectSsl
    BY DEF Next, Step, Terminated, Start, Fail, OnResolve, OnConnect, OnHandshake,
           OnWrite, Deliver, OnShutdown
  <2>2. PICK l \in Locations :
          /\ last_host_' = NextHost(l) /\ via' = l /\ tls' = (tls \/ l.https)
          /\ port' = IF l.https /\ ~tls THEN Https ELSE NextPort(l, IF tls THEN Https ELSE Http)
    <3>1. \A r \in Response : Followed(r) => r.location \in Locations
      BY DEF Response, Followed, Counted
    <3>2. CASE RedirectPlain
      BY <3>1, <3>2 DEF RedirectPlain, Run, TypeOK
    <3>3. CASE RedirectToSsl
      BY <3>1, <3>3 DEF RedirectToSsl, RunSsl, Run, TypeOK
    <3>4. CASE RedirectSsl
      BY <3>1, <3>4 DEF RedirectSsl, RunSsl, Run, TypeOK
    <3> QED BY <2>1, <3>2, <3>3, <3>4
  <2>3. l \in Location /\ (l.host = NoHost => ~l.https)
    BY DEF ClientAssumption
  <2> QED BY <2>2, <2>3, RedirectFollows
<1> QED BY <1>1, Invariance, PTL DEF Spec, FollowsLocation
=============================================================================
