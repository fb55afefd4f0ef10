------------------------------ MODULE LogChain ------------------------------
(***************************************************************************)
(* The chain of responsibility of Lesson_3 (task_83-3.cpp).  Every handler *)
(* knows the next one; main links them in any order and hands messages to  *)
(* any of them.  A message is handed on one handler at a time.             *)
(***************************************************************************)
EXTENDS Naturals, Sequences, FiniteSets

CONSTANTS
  Handler,   \* the handler objects
  TypeOf,    \* the type of message each is for
  Opens      \* whether error.txt can be opened

Type == {"WARNING", "ERROR", "FATAL_ERROR", "UNKNOWN"}
nullptr == "nullptr"

ASSUME ChainAssumption ==
  /\ TypeOf \in [Handler -> Type] /\ nullptr \notin Handler /\ Opens \subseteq BOOLEAN

VARIABLES
  next_handler,
  handler,     \* whose handler_request runs, nullptr when main does
  message,     \* the type of the message
  entry,       \* history: the handler main gave it to
  outcome,     \* what became of it, and by whom
  terminated   \* an exception has left main

chain_vars == <<next_handler, handler, message, entry, outcome, terminated>>

set_next_handler(h, g) ==
  /\ handler = nullptr /\ ~terminated
  /\ next_handler' = [next_handler EXCEPT ![h] = g]
  /\ outcome' = [what |-> "none", by |-> nullptr]
  /\ UNCHANGED <<handler, message, entry, terminated>>

handler_request(h, type) ==
  /\ handler = nullptr /\ ~terminated
  /\ handler' = h /\ entry' = h /\ message' = type
  /\ outcome' = [what |-> "none", by |-> nullptr]
  /\ UNCHANGED <<next_handler, terminated>>

Finish(what) ==
  /\ handler' = nullptr
  /\ outcome' = [what |-> what, by |-> handler]
  /\ UNCHANGED <<next_handler, message, entry>>

(* A warning goes to the console, an error to its file; the other two are  *)
(* thrown, and main catches nothing.                                       *)
Handles(h) == TypeOf[h] = message

Warn  == Handles(handler) /\ message = "WARNING" /\ Finish("console") /\ UNCHANGED terminated
Write == /\ Handles(handler) /\ message = "ERROR"
         /\ \E opens \in Opens : Finish(IF opens THEN "file" ELSE "not_opened")
         /\ UNCHANGED terminated
Throw == /\ Handles(handler) /\ message \in {"FATAL_ERROR", "UNKNOWN"}
         /\ Finish("thrown") /\ terminated' = TRUE

(* Mutant: the handler calls itself. *)
HandToItself ==
  /\ ~Handles(handler) /\ next_handler[handler] # nullptr
  /\ UNCHANGED chain_vars

HandOn ==
  /\ ~Handles(handler) /\ next_handler[handler] # nullptr
  /\ handler' = next_handler[handler]
  /\ UNCHANGED <<next_handler, message, entry, outcome, terminated>>

(* Mutant: the next handler is not asked. *)
GiveUpAtOnce == ~Handles(handler) /\ Finish("unknown_type") /\ UNCHANGED terminated

GiveUp ==
  /\ ~Handles(handler) /\ next_handler[handler] = nullptr
  /\ Finish("unknown_type") /\ UNCHANGED terminated

Respond == handler # nullptr /\ (Warn \/ Write \/ Throw \/ HandOn \/ GiveUp)

ChainInit ==
  /\ next_handler = [h \in Handler |-> nullptr]
  /\ handler = nullptr /\ entry = nullptr /\ message = "UNKNOWN"
  /\ outcome = [what |-> "none", by |-> nullptr] /\ terminated = FALSE

Main ==
  \/ \E h \in Handler, g \in Handler : set_next_handler(h, g)
  \/ \E h \in Handler, type \in Type : handler_request(h, type)

ChainNext == Main \/ Respond
ChainSpec == ChainInit /\ [][ChainNext]_chain_vars /\ WF_chain_vars(Respond)

-----------------------------------------------------------------------------
(* The handlers a message given to h can come to: h, and with every one    *)
(* the next.                                                               *)
Closed(S) == \A g \in S : next_handler[g] # nullptr => next_handler[g] \in S
OnChain(h) == {g \in Handler : \A S \in SUBSET Handler : h \in S /\ Closed(S) => g \in S}

(* A message is handled by a handler of its type if the chain has one,     *)
(* wherever main gives it in and in whatever order the chain is linked,    *)
(* and is called unknown only when the whole chain has none.               *)
HandledByItsType ==
  outcome.what # "none" =>
    LET able == {h \in OnChain(entry) : TypeOf[h] = message}
    IN IF able = {} THEN outcome.what = "unknown_type" ELSE outcome.by \in able

(* Every message comes to an end, except one of a type no handler of a     *)
(* circle is for: there handler_request calls itself until the stack ends. *)
Circle(h) == \A g \in OnChain(h) : next_handler[g] # nullptr /\ TypeOf[g] # message
MessageEnds == (handler # nullptr /\ ~Circle(handler)) ~> (handler = nullptr)
=============================================================================
