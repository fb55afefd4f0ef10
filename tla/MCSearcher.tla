----------------------------- MODULE MCSearcher -----------------------------
(* Instances of Searcher. *)
EXTENDS Searcher, TLC

Req(m, k, v, w) == [method |-> m, keep |-> k, http11 |-> v, words |-> w]

(* Each kind of request, with clients that keep the connection and clients *)
(* that do not.                                                            *)
SomeRequests ==
  {Req("get", FALSE, TRUE, FALSE), Req("missing", FALSE, TRUE, FALSE),
   Req("other", TRUE, FALSE, FALSE), Req("post", TRUE, TRUE, TRUE),
   Req("post", FALSE, TRUE, TRUE), Req("post", TRUE, FALSE, FALSE)}

Connections == Permutations(Conn)
=============================================================================
