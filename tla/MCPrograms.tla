----------------------------- MODULE MCPrograms -----------------------------
(***************************************************************************)
(* The sequential parts, each on its own: the links of Html_parser, the    *)
(* configuration, and the exercises.  In the initial state one is chosen,  *)
(* and only its variables change.                                          *)
(***************************************************************************)
EXTENDS MCHtmlParser, IniFile, SqlQueryBuilder, Decorators, DbProxy,
        LogChain, LogObservers, TLC

VARIABLE program

Programs == {"links", "ini", "builder", "text", "proxy", "chain", "log"}

others(p) ==
  /\ UNCHANGED program
  /\ p # "links"   => UNCHANGED vars
  /\ p # "ini"     => UNCHANGED ini_vars
  /\ p # "builder" => UNCHANGED builder_vars
  /\ p # "text"    => UNCHANGED text_vars
  /\ p # "proxy"   => UNCHANGED proxy_vars
  /\ p # "chain"   => UNCHANGED chain_vars
  /\ p # "log"     => UNCHANGED log_vars

(* The programs that do not run have one initial state each. *)
AllInit ==
  /\ program \in Programs
  /\ Init /\ IniInit /\ BuilderInit /\ TextInit /\ ProxyInit /\ ChainInit /\ LogInit
  /\ program # "links" => url = CHOOSE u \in Starts : TRUE
  /\ program # "proxy" => stack = (CHOOSE s \in Stacks : TRUE) /\ key = (CHOOSE k \in Key : TRUE)

AllNext ==
  \/ program = "links"   /\ Next        /\ others("links")
  \/ program = "ini"     /\ IniNext     /\ others("ini")
  \/ program = "builder" /\ BuilderNext /\ others("builder")
  \/ program = "text"    /\ TextNext    /\ others("text")
  \/ program = "proxy"   /\ ProxyNext   /\ others("proxy")
  \/ program = "chain"   /\ ChainNext   /\ others("chain")
  \/ program = "log"     /\ LogNext     /\ others("log")

AllVars == <<program, vars, ini_vars, builder_vars, text_vars, proxy_vars, chain_vars, log_vars>>

AllSpec == AllInit /\ [][AllNext]_AllVars /\ WF_chain_vars(Respond)

-----------------------------------------------------------------------------
(* What main of the spider asks for, cut down to a word and a number.      *)
Wanted ==
  <<[section |-> <<"s">>, key |-> <<"k">>, type |-> "string"],
    [section |-> <<"t">>, key |-> <<"n">>, type |-> "int"]>>

(* Heads of sections, one of them with a space behind it; settings with    *)
(* spaces and comments, negative, of the wrong type, empty; lines that say *)
(* nothing.                                                                *)
SomeLines ==
  {<<"[", "s", "]">>, <<"[", "t", "]">>, <<"[", "s", "]", " ">>,
   <<"k", "=", "v">>, <<"k", " ", "=", " ", "v", "w", " ", ";", "v">>,
   <<"n", " ", "=", " ", "-", "1", " ">>, <<"n", "=", "9", " ", ";", "n", "=", "1">>,
   <<"n", "=", "v">>, <<"n", "=", "9", "9">>, <<"k", "=">>, <<";", "k", "=", "w">>, <<"TAB">>}

SomePairs == {<<"id", "42">>, <<"id", "7">>, <<"name", "John">>}
IdFirst == [p \in SomePairs |-> IF p[1] = "id" THEN {} ELSE {q \in SomePairs : q[1] = "id"}]
SomeLists == {<< >>, <<"phone", "name">>}
SomeTables == {<< >>, <<"students">>}

AllStacks ==
  {s \in [Layer -> Kinds] : \A i \in Layer : s[i] = "VeryHeavyDatabase" <=> i = NumLayers}

MainsHandlers ==
  "warning_handler" :> "WARNING" @@ "error_handler" :> "ERROR"
  @@ "fatal_handler" :> "FATAL_ERROR" @@ "uknown_handler" :> "UNKNOWN"

(* Two observers write to the same file, one to a file that is locked. *)
Classes ==
  "warningObs" :> "WarningObserver" @@ "errorObs" :> "ErrorObserver"
  @@ "fatalErrorObs" :> "FatalErrorObserver" @@ "lockedObs" :> "FatalErrorObserver"
Files == [o \in DOMAIN Classes |-> IF o = "lockedObs" THEN "locked" ELSE "log"]
=============================================================================
