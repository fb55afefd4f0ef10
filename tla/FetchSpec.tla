------------------------------ MODULE FetchSpec ------------------------------
(***************************************************************************)
(* What Spider::task expects of the HTTP client it runs on an io_context   *)
(* of its own: when ioc.run() returns the request has had one outcome, a    *)
(* page (final_html is not empty) or nothing.                              *)
(***************************************************************************)
VARIABLE outcome

Outcomes == {"page", "empty"}

Init == outcome = "none"

Answer ==
  /\ outcome = "none"
  /\ outcome' \in Outcomes

Spec == Init /\ [][Answer]_outcome /\ WF_outcome(Answer)
=============================================================================
