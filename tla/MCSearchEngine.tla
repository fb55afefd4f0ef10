--------------------------- MODULE MCSearchEngine ---------------------------
(***************************************************************************)
(* Documents and requests for SearchEngine.  Letters of one byte: a, A, b; *)
(* of two bytes: j, J.  With limits 1 and 6 a stored word has 2 to 5       *)
(* characters, and a word looked for 2 to 5 bytes.                         *)
(***************************************************************************)
EXTENDS SearchEngine, TLC

CONSTANTS p1, p2, p3

ToSmall == [c \in {"a", "A", "b", "j", "J"} |->
              CASE c = "A" -> "a" [] c = "J" -> "j" [] OTHER -> c]

Part(kind, body, text) == [kind |-> kind, body |-> body, text |-> text]

Pages ==
  p1 :> <<Part("title", FALSE, <<"A", "b">>),
          Part("text", TRUE, <<"a", "b", "-", "j", "J", " ", "j", "j", "j">>),
          Part("tag", TRUE, << >>),
          Part("text", TRUE, <<"j", "7", "j", "j">>),
          Part("script", TRUE, <<"a", "b">>)>>
  @@ p2 :> <<Part("text", FALSE, <<"b", "a">>),
             Part("text", TRUE, <<"a", "b", ",", "J", "j", "quote", "b", "a">>),
             Part("tag", TRUE, << >>),
             Part("text", TRUE, <<"a", "b", ".", "a", "b", ".", "A", "b">>)>>
  @@ p3 :> <<Part("title", FALSE, <<"j", "j">>), Part("tag", FALSE, << >>),
             Part("text", FALSE, <<"b", "a", " ", "a">>)>>

Ask(text) == [named |-> TRUE, text |-> text]

Bodies ==
  {Ask(<<"A", "b">>), Ask(<<"j", "j", "+", "a", "b", "?">>), Ask(<<"a", "b", "-", "j", "j">>),
   Ask(<<"j", "j", "j">>), Ask(<<"j", "+", "b", "a">>),
   [named |-> FALSE, text |-> <<"a", "b">>]}
=============================================================================
