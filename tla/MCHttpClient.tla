---------------------------- MODULE MCHttpClient ----------------------------
(* Instances of HttpClient. *)
EXTENDS HttpClient

Loc(s, h, p) == [https |-> s, host |-> h, port |-> p]

(* Absolute locations of both schemes, with and without a port, and a      *)
(* relative one.                                                           *)
AnyLocation(h) ==
  {Loc(FALSE, h, NoPort), Loc(FALSE, h, 8080), Loc(TRUE, h, NoPort),
   Loc(TRUE, h, 8080), Loc(FALSE, NoHost, NoPort)}

AllLocations == UNION {AnyLocation(h) : h \in Host}
=============================================================================
