----------------------------- MODULE HttpClient -----------------------------
(***************************************************************************)
(* The HTTP client of the spider: class session (http_client_async.cpp)    *)
(* and class session_ssl (http_client_async_ssl.cpp), two chains of        *)
(* callbacks on one io_context, which follow redirects themselves.         *)
(*                                                                         *)
(* A body is the sequence of the numbers of the requests whose responses   *)
(* it was read from: Beast appends what it reads to the string in res_.    *)
(***************************************************************************)
EXTENDS Naturals, Sequences

CONSTANTS
  Host,          \* host names
  NoHost, NoPort,
  Locations,     \* Location headers that parse (a set of Location)
  NoLocation,    \* a response without one
  BadLocation,   \* one that is not a URI reference
  Starts         \* the scheme of the first url: TRUE for https

Http  == 80
Https == 443
Port  == {Http, Https, 8080}

(* scheme is "https" or anything else; host and port may be missing.       *)
Location == [https : BOOLEAN, host : Host \cup {NoHost}, port : Port \cup {NoPort}]

Response == [status   : {"ok", "redirect", "error"},
             text     : BOOLEAN,       \* the body is not empty
             location : Locations \cup {NoLocation, BadLocation}]

RedirectLimit == 3

ASSUME ClientAssumption ==
  /\ NoHost \notin Host /\ NoPort \notin Port
  /\ Locations \subseteq Location
  /\ NoLocation \notin Locations /\ BadLocation \notin Locations
  /\ NoLocation # BadLocation
  /\ Starts \subseteq BOOLEAN

VARIABLES
  tls,             \* the session is a session_ssl
  phase,           \* the asynchronous operation that is pending
  last_host_,
  port,
  redirect_limit,
  body,            \* res_.body()
  calls,           \* history: the calls of on_data_received_
  requests,        \* history: the number of requests written
  via              \* history: the location followed last

connVars == <<tls, last_host_, port, redirect_limit, via>>
histVars == <<calls, requests>>
vars     == <<connVars, histVars, phase, body>>

Init ==
  /\ tls \in Starts
  /\ phase = "start"
  /\ last_host_ \in Host
  /\ port = IF tls THEN Https ELSE Http
  /\ redirect_limit = RedirectLimit
  /\ body = << >>
  /\ calls = << >>
  /\ requests = 0
  /\ via = NoLocation

(* run(), or run_ssl(), which returns at once when the host name is refused *)
(* for SNI.                                                                *)
Start ==
  /\ phase = "start"
  /\ phase' \in {"resolve"} \cup (IF tls THEN {"ended"} ELSE {})
  /\ UNCHANGED <<connVars, histVars, body>>

(* A callback with an error: the session is forgotten, nobody is called.   *)
Fail ==
  /\ phase \in {"resolve", "connect", "handshake", "write", "read"}
  /\ phase' = "ended"
  /\ UNCHANGED <<connVars, histVars, body>>

OnResolve ==
  /\ phase = "resolve"
  /\ phase' = "connect"
  /\ UNCHANGED <<connVars, histVars, body>>

(* Mutant of OnConnect: a connection that fails is tried again.            *)
OnConnectRetry ==
  /\ phase = "connect"
  /\ phase' \in {"resolve", IF tls THEN "handshake" ELSE "write"}
  /\ UNCHANGED <<connVars, histVars, body>>

OnConnect ==
  /\ phase = "connect"
  /\ phase' = IF tls THEN "handshake" ELSE "write"
  /\ UNCHANGED <<connVars, histVars, body>>

OnHandshake ==
  /\ phase = "handshake"
  /\ phase' = "write"
  /\ UNCHANGED <<connVars, histVars, body>>

(* session_ssl clears res_ before it reads into it, session does not.      *)
OnWrite ==
  /\ phase = "write"
  /\ phase' = "read"
  /\ requests' = requests + 1
  /\ body' = IF tls THEN << >> ELSE body
  /\ UNCHANGED <<connVars, calls>>

-----------------------------------------------------------------------------
(* on_read: a response that is a redirect is followed while the limit       *)
(* lasts; a location that does not parse uses up the limit all the same.    *)
Received(r) == IF r.text THEN Append(body, requests) ELSE body
Counted(r) ==
  r.status = "redirect" /\ redirect_limit > 0 /\ r.location # NoLocation
Followed(r) == Counted(r) /\ r.location # BadLocation

NextHost(l)        == IF l.host # NoHost THEN l.host ELSE last_host_
NextPort(l, other) == IF l.port # NoPort THEN l.port ELSE other

(* Mutant of Run: last_host_ is not updated. *)
RunSameHost(h, p) ==
  /\ last_host_' = last_host_
  /\ port' = p
  /\ phase' = "resolve"

(* session::run and session_ssl::run_ssl *)
Run(h, p) ==
  /\ last_host_' = h
  /\ port' = p
  /\ phase' = "resolve"

(* As in Start, run_ssl may refuse the host. *)
RunSsl(h, p) ==
  \/ Run(h, p)
  \/ last_host_' = h /\ port' = p /\ phase' = "ended"

(* Mutant of RedirectPlain: the limit is not counted down. *)
RedirectUncounted ==
  /\ phase = "read" /\ ~tls
  /\ \E r \in Response :
       /\ Followed(r) /\ ~r.location.https
       /\ Run(NextHost(r.location), NextPort(r.location, Http))
       /\ body' = Received(r)
       /\ via' = r.location
  /\ UNCHANGED <<tls, redirect_limit, histVars>>

RedirectPlain ==
  /\ phase = "read" /\ ~tls
  /\ \E r \in Response :
       /\ Followed(r) /\ ~r.location.https
       /\ Run(NextHost(r.location), NextPort(r.location, Http))
       /\ body' = Received(r)
       /\ via' = r.location
  /\ redirect_limit' = redirect_limit - 1
  /\ UNCHANGED <<tls, histVars>>

(* A new session_ssl takes over, with a limit and a response of its own.   *)
RedirectToSsl ==
  /\ phase = "read" /\ ~tls
  /\ \E r \in Response :
       /\ Followed(r) /\ r.location.https
       /\ RunSsl(NextHost(r.location), Https)
       /\ via' = r.location
  /\ tls' = TRUE
  /\ redirect_limit' = RedirectLimit
  /\ body' = << >>
  /\ UNCHANGED histVars

(* session_ssl never leaves TLS, whatever the scheme of the location is.   *)
RedirectSsl ==
  /\ phase = "read" /\ tls
  /\ \E r \in Response :
       /\ Followed(r)
       /\ RunSsl(NextHost(r.location), NextPort(r.location, Https))
       /\ via' = r.location
  /\ redirect_limit' = redirect_limit - 1
  /\ body' = << >>
  /\ UNCHANGED <<tls, histVars>>

(* Mutant of Deliver: the body of an error page is not dropped.            *)
DeliverAny ==
  /\ phase = "read"
  /\ \E r \in Response :
       /\ ~Followed(r)
       /\ redirect_limit' = redirect_limit - (IF Counted(r) THEN 1 ELSE 0)
       /\ body' = Received(r)
       /\ calls' = Append(calls, [pages |-> body', status |-> r.status])
  /\ phase' = IF tls THEN "shutdown" ELSE "ended"
  /\ UNCHANGED <<tls, last_host_, port, via, requests>>

(* Mutant of Deliver: session reads on after it has called the handler.    *)
DeliverAgain ==
  /\ phase = "read"
  /\ \E r \in Response :
       /\ ~Followed(r)
       /\ redirect_limit' = redirect_limit - (IF Counted(r) THEN 1 ELSE 0)
       /\ body' = IF r.status = "ok" THEN Received(r) ELSE << >>
       /\ calls' = Append(calls, [pages |-> body', status |-> r.status])
  /\ phase' = IF tls \/ Len(calls) > 0 THEN "ended" ELSE "read"
  /\ UNCHANGED <<tls, last_host_, port, via, requests>>

(* Everything that is not followed is given to the handler.                *)
Deliver ==
  /\ phase = "read"
  /\ \E r \in Response :
       /\ ~Followed(r)
       /\ redirect_limit' = redirect_limit - (IF Counted(r) THEN 1 ELSE 0)
       /\ body' = IF r.status = "ok" THEN Received(r) ELSE << >>
       /\ calls' = Append(calls, [pages |-> body', status |-> r.status])
  /\ phase' = IF tls THEN "shutdown" ELSE "ended"
  /\ UNCHANGED <<tls, last_host_, port, via, requests>>

OnShutdown ==
  /\ phase = "shutdown"
  /\ phase' = "ended"
  /\ UNCHANGED <<connVars, histVars, body>>

Terminated == phase = "ended" /\ UNCHANGED vars

Step ==
  \/ Start \/ Fail \/ OnResolve \/ OnConnect \/ OnHandshake \/ OnWrite
  \/ RedirectPlain \/ RedirectToSsl \/ RedirectSsl \/ Deliver \/ OnShutdown

Next == Step \/ Terminated

(* Every asynchronous operation completes, with an error if need be.  No    *)
(* timeout makes it so; Spider's replies contain the request that does not. *)
Fairness == WF_vars(Step)

Spec == Init /\ [][Next]_vars /\ Fairness

-----------------------------------------------------------------------------
TypeOK ==
  /\ tls \in BOOLEAN
  /\ phase \in {"start", "resolve", "connect", "handshake", "write", "read",
                "shutdown", "ended"}
  /\ last_host_ \in Host /\ port \in Port
  /\ redirect_limit \in 0..RedirectLimit
  /\ requests \in Nat
  /\ body \in Seq(1..requests)
  /\ calls \in Seq([pages : Seq(1..requests), status : {"ok", "redirect", "error"}])
  /\ via \in Locations \cup {NoLocation}

(* The handler, which writes to the locals of Spider::task, is called at   *)
(* most once, and when it has been no request is under way any more.       *)
CalledOnce ==
  /\ Len(calls) <= 1
  /\ calls # << >> => phase \in {"shutdown", "ended"}

(* Redirects end: the two limits of 3 add up when a plain session hands    *)
(* over to a session_ssl.                                                  *)
RequestsBounded == requests <= 2 * RedirectLimit + 1

(* What the client promises to task(). *)
Outcome == IF phase # "ended" THEN "none"
           ELSE IF calls # << >> /\ calls[1].pages # << >> THEN "page"
           ELSE "empty"

Fetched == INSTANCE FetchSpec WITH outcome <- Outcome
FetchContract == Fetched!Spec

(* Where a reference leads from a page (RFC 3986): the parts it does not    *)
(* name are those of the page.                                             *)
Place == [https |-> tls, host |-> last_host_, port |-> port]
Resolved(from, l) ==
  IF l.host = NoHost THEN from
  ELSE [https |-> l.https, host |-> l.host,
        port |-> IF l.port # NoPort THEN l.port
                 ELSE IF l.https THEN Https ELSE Http]

(* The request after a redirect goes where the location leads from the     *)
(* page that redirects, through chains of absolute and relative locations:  *)
(* always to the right host, from http to https and never back, and to the  *)
(* right port if neither the location nor the page names one.              *)
Named(l) == l.port # NoPort \/ Place.port # IF tls THEN Https ELSE Http

FollowsLocation ==
  [][phase = "read" /\ phase' = "resolve" =>
       /\ last_host_' = Resolved(Place, via').host
       /\ tls' = (tls \/ Resolved(Place, via').https)
       /\ ~Named(via') /\ (tls => Resolved(Place, via').https)
            => Place' = Resolved(Place, via')]_vars

(* "Очищаем старый ответ" (we clear the old response): the text the parser  *)
(* is given is that of the last response alone, and none if that response   *)
(* is a redirect or an error.                                              *)
FinalPageOnly ==
  \A i \in 1..Len(calls) :
    /\ calls[i].pages \in {<< >>, <<requests>>}
    /\ calls[i].pages # << >> => calls[i].status = "ok"

(* A session_ssl keeps this, also when a plain session has handed over to   *)
(* it after a redirect with a text.                                        *)
SslFinalPageOnly == tls => FinalPageOnly
=============================================================================
