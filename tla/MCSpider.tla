------------------------------ MODULE MCSpider ------------------------------
(***************************************************************************)
(* Small webs for the spider: a start page that links to two pages, which  *)
(* link to each other, and a page only one of them links to, or all three. *)
(***************************************************************************)
EXTENDS Spider, TLC

CONSTANTS home, a, b, c, x, y

WebLinks ==
  home :> <<a, b>> @@ a :> <<b, home>> @@ b :> <<a, c>> @@ c :> <<home>>

WideLinks == [WebLinks EXCEPT ![home] = <<a, b, c>>]

(* a has links and no words; b can be reached over two paths; home and b   *)
(* share a word, b and c another.                                          *)
WebWords ==
  home :> <<<<x, 1>>>> @@ a :> << >> @@ b :> <<<<x, 2>>, <<y, 1>>>>
  @@ c :> <<<<y, 1>>>>

AllAnswer == [u \in Url |-> {"page"}]
Throwing == [AllAnswer EXCEPT ![a] = {"page", "throw"}]
Failing == [AllAnswer EXCEPT ![a] = {"page", "empty", "throw", "hang"},
                             ![c] = {"page", "empty"}]
=============================================================================
