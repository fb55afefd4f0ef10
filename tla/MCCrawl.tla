------------------------------ MODULE MCCrawl -------------------------------
(***************************************************************************)
(* A web for CrawlHistory of the least depth at which two ways to a page   *)
(* have different lengths: b is linked on the start page and on a, and c   *)
(* on b alone.  c is not of the web (mailto:, say).                        *)
(***************************************************************************)
EXTENDS CrawlHistory, TLC

CONSTANTS home, a, b, c, x, y

DeepLinks == home :> <<a, b>> @@ a :> <<b>> @@ b :> <<c>> @@ c :> << >>

DeepWords ==
  home :> << >> @@ a :> <<<<x, 1>>>> @@ b :> <<<<x, 2>>, <<y, 1>>>> @@ c :> << >>

DeepReplies ==
  home :> {"page"} @@ a :> {"page"} @@ b :> {"page"} @@ c :> {"other"}
=============================================================================
