---------------------------- MODULE MCHtmlParser ----------------------------
(* A small vocabulary for HtmlParser. *)
EXTENDS HtmlParser

Words == {"http:", "https:", "ftp:", "h.ru", "g.ru", "g.ru:81", "a", "v1.2", "p.html",
          "..", "#top", "q?u=http:"}

(* Only the segments with a colon differ from their host. *)
BeforeColon ==
  [t \in Words \cup {""} |->
     CASE t = "http:" -> "http" [] t = "https:" -> "https" [] t = "ftp:" -> "ftp"
       [] t = "q?u=http:" -> "q?u=http" [] t = "g.ru:81" -> "g.ru" [] OTHER -> t]

Pages ==
  {<<"https:", "", "h.ru">>, <<"http:", "", "h.ru", "a", "">>,
   <<"https:", "", "g.ru:81", "a", "", "p.html">>}

References ==
  {<<"p.html">>, <<"a">>, <<"a", "">>, <<"", "a">>, <<"", "">>, <<"v1.2", "">>, <<"..", "a">>, <<"..">>,
   <<"a", "", "p.html">>, <<"a", "", "">>, <<"#top">>, <<"q?u=http:", "", "h.ru">>,
   <<"", "", "g.ru", "a">>, <<"ftp:", "", "h.ru">>,
   <<"http:", "", "h.ru">>, <<"https:", "", "">>, <<"https:", "", "g.ru:81", "", "p.html">>,
   <<"https:", "", "g.ru", "", "p.html">>}
=============================================================================
