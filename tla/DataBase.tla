------------------------------ MODULE DataBase ------------------------------
(***************************************************************************)
(* Data_base (header_files/data_base.h, source_files/data_base.cpp of      *)
(* Spider_programme): the tables and the one pqxx connection all threads   *)
(* of the spider share.                                                    *)
(*                                                                         *)
(* Every method opens its own pqxx::work, executes one statement and       *)
(* commits: two steps, BeginTx and the method itself, which is its commit. *)
(* libpqxx refuses a second transaction on a connection that has one open; *)
(* the exception is caught in the method, which then returns -1, exactly   *)
(* as it does without a connection or when the statement fails.            *)
(*                                                                         *)
(* The parameter r of a method says whether it returns a (positive) id.    *)
(***************************************************************************)
EXTENDS Naturals, Sequences

CONSTANTS
  Url,         \* the urls of the instance
  Word,        \* the words of the instance
  NoTx,        \* no transaction is open
  Connects,    \* the outcomes of connecting and preparing: a set of Booleans
  MaxFaults    \* bound on the statements that fail in a behaviour

VARIABLES
  connected,   \* there is an open connection
  docs,        \* the urls of table DOCS
  words,       \* the words of table WORDS
  docs_words,  \* quantity of table docs_words, 0 for a row that is missing
  tx,          \* the thread whose transaction is open, or NoTx
  faults       \* statements that failed so far

dbVars == <<connected, docs, words, docs_words, tx, faults>>
tables == <<docs, words, docs_words>>

DbInit ==
  /\ connected = FALSE
  /\ docs = {} /\ words = {}
  /\ docs_words = [p \in Url \X Word |-> 0]
  /\ tx = NoTx
  /\ faults = 0

(* connect, CreateDBTable and create_templates of one run of the program.   *)
(* Without a connection every method returns -1.  A connection without all   *)
(* tables and templates is one on which statements fail (Fails).           *)
Connect ==
  /\ connected' \in Connects
  /\ UNCHANGED <<docs, words, docs_words, tx, faults>>

(* A pqxx::work is constructed. *)
BeginTx(t) ==
  /\ connected /\ tx = NoTx
  /\ tx' = t
  /\ UNCHANGED <<connected, docs, words, docs_words, faults>>

(* No connection, or another thread's transaction is open: -1 at once.      *)
Refused(t) ==
  /\ ~connected \/ tx \notin {NoTx, t}
  /\ UNCHANGED dbVars

(* tx.commit() of the transaction t has open. *)
Commit(t) ==
  /\ tx = t
  /\ tx' = NoTx
  /\ UNCHANGED <<connected, faults>>

(* The statement or the commit throws.  The server may have committed.      *)
Fails(t) ==
  /\ tx = t
  /\ tx' = NoTx
  /\ faults < MaxFaults
  /\ faults' = faults + 1
  /\ UNCHANGED connected

get_id_url(t, u, r) ==
  \/ Refused(t) /\ ~r
  \/ Commit(t) /\ r = (u \in docs) /\ UNCHANGED tables
  \/ Fails(t) /\ ~r /\ UNCHANGED tables

get_id_word(t, x, r) ==
  \/ Refused(t) /\ ~r
  \/ Commit(t) /\ r = (x \in words) /\ UNCHANGED tables
  \/ Fails(t) /\ ~r /\ UNCHANGED tables

(* An insert that keeps the row it finds and returns its id. *)
add_new_url(t, u, r) ==
  \/ Refused(t) /\ ~r
  \/ /\ Commit(t) /\ r
     /\ docs' = docs \cup {u}
     /\ UNCHANGED <<words, docs_words>>
  \/ /\ Fails(t) /\ ~r
     /\ docs' \in {docs, docs \cup {u}}
     /\ UNCHANGED <<words, docs_words>>

add_new_word(t, x, r) ==
  \/ Refused(t) /\ ~r
  \/ /\ Commit(t) /\ r
     /\ words' = words \cup {x}
     /\ UNCHANGED <<docs, docs_words>>
  \/ /\ Fails(t) /\ ~r
     /\ words' \in {words, words \cup {x}}
     /\ UNCHANGED <<docs, docs_words>>

(* A row that exists is increased by n.  Without a valid id of the word     *)
(* (hasId false) the foreign key makes the statement fail.                  *)
Added(u, x, n) == [docs_words EXCEPT ![<<u, x>>] = @ + n]

(* Mutant of add_new_url_word: the table has no foreign key.               *)
add_new_url_word_noFK(t, u, x, hasId, n) ==
  \/ Refused(t)
  \/ /\ Commit(t)
     /\ docs_words' = Added(u, x, n)
     /\ UNCHANGED <<docs, words>>

add_new_url_word(t, u, x, hasId, n) ==
  \/ Refused(t)
  \/ /\ Commit(t)
     /\ docs_words' = IF hasId THEN Added(u, x, n) ELSE docs_words
     /\ UNCHANGED <<docs, words>>
  \/ /\ Fails(t)
     /\ docs_words' \in {docs_words} \cup (IF hasId THEN {Added(u, x, n)} ELSE {})
     /\ UNCHANGED <<docs, words>>

(* The process ends: what is committed stays, an open transaction is lost.  *)
Disconnect ==
  /\ connected' = FALSE
  /\ tx' = NoTx
  /\ UNCHANGED <<docs, words, docs_words, faults>>
=============================================================================
