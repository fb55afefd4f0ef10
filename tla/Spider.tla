------------------------------- MODULE Spider -------------------------------
(***************************************************************************)
(* The crawler: class Spider (header_files/spider.h,                       *)
(* source_files/spider.cpp) and main() of Spider_programme, on top of      *)
(* the thread pool (PoolSpec, implemented by ThreadPool) and of the        *)
(* database (DataBase).                                                    *)
(*                                                                         *)
(* The n-th task submitted is the number n: its future is results[n].      *)
(* Pages, the links and words the parser finds on them and the way         *)
(* servers answer are constants.                                           *)
(***************************************************************************)
EXTENDS DataBase, FiniteSets, Integers

CONSTANTS
  start_url,
  search_depth,
  NumThreads,    \* max_threads_num
  Links,         \* Links[u]: what get_all_links returns for page u
  Words,         \* Words[u]: the sequence of <<word, count>> of new_words
  Replies,       \* Replies[u]: how a request of u may end (see Fetch)
  BadWords,      \* pages with a word utf8_to_cp1251_spider throws on
  MaxRuns        \* bound on the runs of the program

ASSUME SpiderAssumption ==
  /\ start_url \in Url
  /\ search_depth \in Nat /\ NumThreads \in Nat /\ MaxRuns \in Nat \ {0}
  /\ MaxFaults \in Nat
  /\ Connects \subseteq BOOLEAN
  /\ Links \in [Url -> Seq(Url)]
  /\ Words \in [Url -> Seq(Word \X (Nat \ {0}))]
  /\ Replies \in [Url -> SUBSET {"page", "empty", "other", "throw", "hang"}]
  /\ BadWords \subseteq Url
  /\ NoTx = 0

Main   == 0
Free   == -1
NoTask == 0
Worker == 1..NumThreads
Thread == {Main} \cup Worker

VARIABLES
  pending, running, finished, closed, down,  \* the pool's (see PoolSpec)
  tasks,         \* tasks[n]: url and depth of the n-th task submitted
  results,       \* length of Spider::results
  active_tasks,
  queue_mutex,   \* owner, or Free
  mtx_db,        \* owner, or Free
  pc,            \* where each thread is
  index,         \* index[w]: position in the loop over words or links
  word_id,       \* word_id[w]: url_word holds a valid id
  got,           \* futures work() has collected
  thrown,        \* tasks that ended with an exception
  runs,          \* runs of the program so far
  fetched        \* history: the <<url, depth>> requested in this run

poolVars == <<pending, running, finished, closed, down>>
loopVars == <<index, word_id>>
taskVars == <<tasks, results>>
histVars == <<thrown, fetched, runs>>
vars == <<dbVars, poolVars, loopVars, taskVars, histVars,
          active_tasks, queue_mutex, mtx_db, pc, got>>

Pool == INSTANCE PoolSpec WITH Task <- Nat \ {NoTask}

url(w)   == tasks[running[w]].url
depth(w) == tasks[running[w]].depth

Goto(t, l) == pc' = [pc EXCEPT ![t] = l]

(* The threads of a process that has just started. *)
BootPc == [t \in Thread |-> IF t = Main THEN "construct" ELSE "idle"]

Init ==
  /\ DbInit
  /\ Pool!Init
  /\ tasks = << >> /\ results = 0
  /\ active_tasks = 0
  /\ queue_mutex = Free /\ mtx_db = Free
  /\ pc = BootPc
  /\ index = [w \in Worker |-> 0]
  /\ word_id = [w \in Worker |-> FALSE]
  /\ got = 0
  /\ thrown = {} /\ fetched = {}
  /\ runs = 1

-----------------------------------------------------------------------------
(* Spider::task, executed by worker w.                                     *)
Take(w) ==
  /\ pc[w] = "idle"
  /\ Pool!Take(w)
  /\ Goto(w, "check")
  /\ UNCHANGED <<dbVars, loopVars, taskVars, histVars, active_tasks,
                 queue_mutex, mtx_db, got>>

(* The database calls of task() and of add_url_words_to_db().               *)
DbCalls == {"check", "add_url", "get_word", "add_word", "add_url_word"}

Begin(w) ==
  /\ pc[w] \in DbCalls
  /\ BeginTx(w)
  /\ UNCHANGED <<poolVars, loopVars, taskVars, histVars, active_tasks,
                 queue_mutex, mtx_db, pc, got>>

(* Mutant of Check: a url that is in the database is processed again.      *)
CheckIgnored(w) ==
  /\ pc[w] = "check"
  /\ \E r \in BOOLEAN : get_id_url(w, url(w), r)
  /\ Goto(w, "fetch")
  /\ UNCHANGED <<poolVars, loopVars, taskVars, histVars, active_tasks,
                 queue_mutex, mtx_db, got>>

(* get_id_url() > 0, asked without mtx_db. *)
Check(w) ==
  /\ pc[w] = "check"
  /\ \E r \in BOOLEAN :
       /\ get_id_url(w, url(w), r)
       /\ Goto(w, IF r THEN "returned" ELSE "fetch")
  /\ UNCHANGED <<poolVars, loopVars, taskVars, histVars, active_tasks,
                 queue_mutex, mtx_db, got>>

(* Mutant of Fetch: the return after an empty reply bypasses active_tasks--. *)
FetchUncounted(w) ==
  /\ pc[w] = "fetch"
  /\ \E reply \in Replies[url(w)] :
       Goto(w, CASE reply = "page"  -> "lock"
                 [] reply \in {"empty", "other"} -> "complete"
                 [] reply = "throw" -> "thrown"
                 [] reply = "hang"  -> "hung")
  /\ fetched' = fetched \cup {<<url(w), depth(w)>>}
  /\ UNCHANGED <<dbVars, poolVars, loopVars, taskVars, thrown, runs,
                 active_tasks, queue_mutex, mtx_db, got>>

(* From get_host_target to new_words.  The request brings a page; it brings *)
(* nothing, and task() says so under queue_mutex and returns; the url is    *)
(* neither http nor https, and task() returns at once; load_verify_file or  *)
(* a regular expression throws; or the server never answers, and nothing in *)
(* the client sets a timeout.                                              *)
Fetch(w) ==
  /\ pc[w] = "fetch"
  /\ \E reply \in Replies[url(w)] :
       /\ reply = "empty" => queue_mutex = Free
       /\ Goto(w, CASE reply = "page"  -> "lock"
                    [] reply \in {"empty", "other"} -> "returned"
                    [] reply = "throw" -> "thrown"
                    [] reply = "hang"  -> "hung")
  /\ fetched' = fetched \cup {<<url(w), depth(w)>>}
  /\ UNCHANGED <<dbVars, poolVars, loopVars, taskVars, thrown, runs,
                 active_tasks, queue_mutex, mtx_db, got>>

-----------------------------------------------------------------------------
(* The section of task() under mtx_db, and add_url_words_to_db() in it.     *)
LockDb(w) ==
  /\ pc[w] = "lock"
  /\ mtx_db = Free
  /\ mtx_db' = w
  /\ Goto(w, IF Words[url(w)] # << >> THEN "convert" ELSE "unlock")
  /\ UNCHANGED <<dbVars, poolVars, loopVars, taskVars, histVars, active_tasks,
                 queue_mutex, got>>

(* Printing the words; an exception releases mtx_db on its way out.         *)
Convert(w) ==
  /\ pc[w] = "convert"
  /\ IF url(w) \in BadWords
     THEN Goto(w, "thrown") /\ mtx_db' = Free
     ELSE Goto(w, "add_url") /\ UNCHANGED mtx_db
  /\ UNCHANGED <<dbVars, poolVars, loopVars, taskVars, histVars, active_tasks,
                 queue_mutex, got>>

AddUrl(w) ==
  /\ pc[w] = "add_url"
  /\ \E r \in BOOLEAN :
       /\ add_new_url(w, url(w), r)
       /\ Goto(w, IF r THEN "get_word" ELSE "unlock")
  /\ index' = [index EXCEPT ![w] = 1]
  /\ UNCHANGED <<poolVars, taskVars, histVars, active_tasks, queue_mutex,
                 mtx_db, word_id, got>>

word(w) == Words[url(w)][index[w]]

GetWord(w) ==
  /\ pc[w] = "get_word"
  /\ \E r \in BOOLEAN :
       /\ get_id_word(w, word(w)[1], r)
       /\ word_id' = [word_id EXCEPT ![w] = r]
       /\ Goto(w, IF r THEN "add_url_word" ELSE "add_word")
  /\ UNCHANGED <<poolVars, taskVars, histVars, active_tasks, queue_mutex,
                 mtx_db, index, got>>

(* Mutant of AddWord: a word that was not known is not linked to the url.  *)
AddWordOnly(w) ==
  /\ pc[w] = "add_word"
  /\ \E r \in BOOLEAN : add_new_word(w, word(w)[1], r)
  /\ index' = [index EXCEPT ![w] = @ + 1]
  /\ Goto(w, IF index[w] < Len(Words[url(w)]) THEN "get_word" ELSE "unlock")
  /\ UNCHANGED <<poolVars, taskVars, histVars, active_tasks, queue_mutex,
                 mtx_db, word_id, got>>

AddWord(w) ==
  /\ pc[w] = "add_word"
  /\ \E r \in BOOLEAN :
       /\ add_new_word(w, word(w)[1], r)
       /\ word_id' = [word_id EXCEPT ![w] = r]
  /\ Goto(w, "add_url_word")
  /\ UNCHANGED <<poolVars, taskVars, histVars, active_tasks, queue_mutex,
                 mtx_db, index, got>>

(* Mutant of AddUrlWord: the loop stops one word early.                    *)
AddUrlWordShort(w) ==
  /\ pc[w] = "add_url_word"
  /\ add_new_url_word(w, url(w), word(w)[1], word_id[w], word(w)[2])
  /\ index' = [index EXCEPT ![w] = @ + 1]
  /\ Goto(w, IF index[w] + 1 < Len(Words[url(w)]) THEN "get_word" ELSE "unlock")
  /\ UNCHANGED <<poolVars, taskVars, histVars, active_tasks, queue_mutex,
                 mtx_db, word_id, got>>

AddUrlWord(w) ==
  /\ pc[w] = "add_url_word"
  /\ add_new_url_word(w, url(w), word(w)[1], word_id[w], word(w)[2])
  /\ index' = [index EXCEPT ![w] = @ + 1]
  /\ Goto(w, IF index[w] < Len(Words[url(w)]) THEN "get_word" ELSE "unlock")
  /\ UNCHANGED <<poolVars, taskVars, histVars, active_tasks, queue_mutex,
                 mtx_db, word_id, got>>

UnlockDb(w) ==
  /\ pc[w] = "unlock"
  /\ mtx_db' = Free
  /\ index' = [index EXCEPT ![w] = 1]
  /\ Goto(w, IF depth(w) < search_depth THEN "links" ELSE "returned")
  /\ UNCHANGED <<dbVars, poolVars, taskVars, histVars, active_tasks,
                 queue_mutex, word_id, got>>

-----------------------------------------------------------------------------
(* Mutant of CountLink: active_tasks++ is forgotten.                       *)
LinkUncounted(w) ==
  /\ pc[w] = "links"
  /\ index[w] <= Len(Links[url(w)])
  /\ Goto(w, "submit")
  /\ UNCHANGED <<dbVars, poolVars, loopVars, taskVars, histVars, active_tasks,
                 queue_mutex, mtx_db, got>>

(* The loop over page_links.                                               *)
CountLink(w) ==
  /\ pc[w] = "links"
  /\ index[w] <= Len(Links[url(w)])
  /\ active_tasks' = active_tasks + 1
  /\ Goto(w, "submit")
  /\ UNCHANGED <<dbVars, poolVars, loopVars, taskVars, histVars, queue_mutex,
                 mtx_db, got>>

(* Mutant of LinksDone: the last link may be left out.                     *)
LinksShort(w) ==
  /\ pc[w] = "links"
  /\ index[w] >= Len(Links[url(w)])
  /\ Goto(w, "returned")
  /\ UNCHANGED <<dbVars, poolVars, loopVars, taskVars, histVars, active_tasks,
                 queue_mutex, mtx_db, got>>

LinksDone(w) ==
  /\ pc[w] = "links"
  /\ index[w] > Len(Links[url(w)])
  /\ Goto(w, "returned")
  /\ UNCHANGED <<dbVars, poolVars, loopVars, taskVars, histVars, active_tasks,
                 queue_mutex, mtx_db, got>>

(* queue_mutex is taken and the task is in the queue of the pool, from      *)
(* where it may be started before its future is in results.                 *)
Enqueue(t, task) ==
  /\ pc[t] = "submit"
  /\ queue_mutex = Free
  /\ queue_mutex' = t
  /\ Pool!Submit(Len(tasks) + 1)
  /\ tasks' = Append(tasks, task)
  /\ Goto(t, "push_back")
  /\ UNCHANGED <<dbVars, loopVars, histVars, results, active_tasks, mtx_db, got>>

SubmitLink(w) ==
  Enqueue(w, [url |-> Links[url(w)][index[w]], depth |-> depth(w) + 1])

PushBack(w) ==
  /\ pc[w] = "push_back"
  /\ results' = results + 1
  /\ queue_mutex' = Free
  /\ index' = [index EXCEPT ![w] = @ + 1]
  /\ Goto(w, "links")
  /\ UNCHANGED <<dbVars, poolVars, histVars, tasks, active_tasks, mtx_db,
                 word_id, got>>

-----------------------------------------------------------------------------
(* The end of the lambda around task(), and of the packaged_task around it. *)
Uncount(w) ==
  /\ pc[w] = "returned"
  /\ active_tasks' = active_tasks - 1
  /\ Goto(w, "complete")
  /\ UNCHANGED <<dbVars, poolVars, loopVars, taskVars, histVars, queue_mutex,
                 mtx_db, got>>

Complete(w) ==
  /\ pc[w] \in {"complete", "thrown"}
  /\ Pool!Finish(w)
  /\ thrown' = IF pc[w] = "thrown" THEN thrown \cup {running[w]} ELSE thrown
  /\ Goto(w, "idle")
  /\ UNCHANGED <<dbVars, loopVars, taskVars, fetched, runs, active_tasks,
                 queue_mutex, mtx_db, got>>

-----------------------------------------------------------------------------
(* main(): the constructor, work() and the destructor of Spider.           *)
Construct ==
  /\ pc[Main] = "construct"
  /\ Connect
  /\ Goto(Main, "count")
  /\ UNCHANGED <<poolVars, loopVars, taskVars, histVars, active_tasks,
                 queue_mutex, mtx_db, got>>

CountFirst ==
  /\ pc[Main] = "count"
  /\ active_tasks' = active_tasks + 1
  /\ Goto(Main, "submit")
  /\ UNCHANGED <<dbVars, poolVars, loopVars, taskVars, histVars, queue_mutex,
                 mtx_db, got>>

SubmitFirst == Enqueue(Main, [url |-> start_url, depth |-> 1])

PushFirst ==
  /\ pc[Main] = "push_back"
  /\ results' = results + 1
  /\ queue_mutex' = Free
  /\ Goto(Main, "wait")
  /\ UNCHANGED <<dbVars, poolVars, loopVars, histVars, tasks, active_tasks,
                 mtx_db, got>>

AllCounted ==
  /\ pc[Main] = "wait"
  /\ active_tasks <= 0
  /\ Goto(Main, "get")
  /\ UNCHANGED <<dbVars, poolVars, loopVars, taskVars, histVars, active_tasks,
                 queue_mutex, mtx_db, got>>

(* The loop over results, which holds no lock; get() waits for the future   *)
(* and rethrows, which ends work().                                         *)
GetResult ==
  /\ pc[Main] = "get"
  /\ got < results /\ got + 1 \in finished
  /\ got' = got + 1
  /\ Goto(Main, IF got + 1 \in thrown THEN "destroy" ELSE "get")
  /\ UNCHANGED <<dbVars, poolVars, loopVars, taskVars, histVars, active_tasks,
                 queue_mutex, mtx_db>>

WorkReturn ==
  /\ pc[Main] = "get"
  /\ got = results
  /\ Goto(Main, "destroy")
  /\ UNCHANGED <<dbVars, poolVars, loopVars, taskVars, histVars, active_tasks,
                 queue_mutex, mtx_db, got>>

(* ~Spider waits for the futures that are still valid; then its members are *)
(* destroyed, tpool first.                                                  *)
DestroyPool ==
  /\ pc[Main] = "destroy"
  /\ got + 1 .. results \subseteq finished
  /\ Pool!Close
  /\ Goto(Main, "join")
  /\ UNCHANGED <<dbVars, loopVars, taskVars, histVars, active_tasks,
                 queue_mutex, mtx_db, got>>

Destroyed ==
  /\ pc[Main] = "join"
  /\ Pool!ShutDown
  /\ Goto(Main, "done")
  /\ UNCHANGED <<dbVars, loopVars, taskVars, histVars, active_tasks,
                 queue_mutex, mtx_db, got>>

(* The process ends, at any moment, and the program is started again.       *)
Restart ==
  /\ runs < MaxRuns
  /\ runs' = runs + 1
  /\ Disconnect
  /\ pending' = << >> /\ finished' = {}
  /\ running' = [w \in Worker |-> NoTask]
  /\ closed' = FALSE /\ down' = FALSE
  /\ tasks' = << >> /\ results' = 0
  /\ active_tasks' = 0
  /\ queue_mutex' = Free /\ mtx_db' = Free
  /\ pc' = BootPc
  /\ index' = [w \in Worker |-> 0]
  /\ word_id' = [w \in Worker |-> FALSE]
  /\ got' = 0
  /\ thrown' = {} /\ fetched' = {}

Terminated == pc[Main] = "done" /\ UNCHANGED vars

-----------------------------------------------------------------------------
WorkerStep(w) ==
  \/ Take(w) \/ Begin(w) \/ Check(w) \/ Fetch(w)
  \/ LockDb(w) \/ Convert(w) \/ AddUrl(w) \/ GetWord(w) \/ AddWord(w)
  \/ AddUrlWord(w) \/ UnlockDb(w)
  \/ CountLink(w) \/ LinksDone(w) \/ SubmitLink(w) \/ PushBack(w)
  \/ Uncount(w) \/ Complete(w)

MainStep ==
  \/ Construct \/ CountFirst \/ SubmitFirst \/ PushFirst
  \/ AllCounted \/ GetResult \/ WorkReturn \/ DestroyPool \/ Destroyed

Next ==
  \/ \E w \in Worker : WorkerStep(w)
  \/ MainStep
  \/ Restart
  \/ Terminated

(***************************************************************************)
(* Every thread that can move is eventually scheduled.  Tasks are finitely *)
(* many, so a thread that waits for a mutex or for the connection is not   *)
(* overtaken for ever and weak fairness is enough.                         *)
(***************************************************************************)
Fairness ==
  /\ \A w \in Worker : WF_vars(WorkerStep(w))
  /\ WF_vars(MainStep)

Spec == Init /\ [][Next]_vars /\ Fairness

-----------------------------------------------------------------------------
WorkLocs == {"get_word", "add_word", "add_url_word"}
LinkLocs == {"links", "submit", "push_back"}
MainLocs == {"construct", "count", "submit", "push_back", "wait", "get",
             "destroy", "join", "done"}
TaskLocs == DbCalls \cup LinkLocs \cup
            {"fetch", "hung", "lock", "convert", "unlock", "returned",
             "complete", "thrown"}
Locations == {"idle"} \cup MainLocs \cup TaskLocs

(* The first task has depth 1 whatever search_depth is. *)
DepthLimit == IF search_depth > 1 THEN search_depth ELSE 1

DbTypeOK ==
  /\ connected \in BOOLEAN /\ docs \subseteq Url /\ words \subseteq Word
  /\ docs_words \in [Url \X Word -> Nat]
  /\ tx \in Thread /\ faults \in 0..MaxFaults

PoolTypeOK ==
  /\ tasks \in Seq([url : Url, depth : 1..DepthLimit])
  /\ pending \in Seq(1..Len(tasks))
  /\ running \in [Worker -> 0..Len(tasks)]
  /\ finished \subseteq 1..Len(tasks) /\ thrown \subseteq finished
  /\ closed \in BOOLEAN /\ down \in BOOLEAN

CrawlTypeOK ==
  /\ results \in 0..Len(tasks) /\ got \in 0..results
  /\ active_tasks \in Int
  /\ queue_mutex \in Thread \cup {Free} /\ mtx_db \in Worker \cup {Free}
  /\ pc \in [Thread -> Locations]
  /\ index \in [Worker -> Nat] /\ word_id \in [Worker -> BOOLEAN]
  /\ runs \in 1..MaxRuns
  /\ fetched \subseteq Url \X (1..DepthLimit)

(* Types of the spider's state. *)
TypeOK == DbTypeOK /\ PoolTypeOK /\ CrawlTypeOK

(* active_tasks counts, without a lock around the queue, the tasks that are *)
(* announced, queued or executed; a task that throws is never subtracted.   *)
Executing == {w \in Worker : running[w] # NoTask /\ pc[w] # "complete"}
Announced == {t \in Thread : pc[t] = "submit"}

CounterExact ==
  active_tasks = Len(pending) + Cardinality(Executing)
                 + Cardinality(Announced) + Cardinality(thrown)

(* When work() has left its waiting loop no task is queued or at work and   *)
(* every future is in results; when it returns it has collected them all    *)
(* and none rethrew.                                                        *)
WorkComplete ==
  /\ pc[Main] \in {"get", "destroy", "join", "done"} =>
       /\ pending = << >> /\ Executing = {} /\ thrown = {}
       /\ results = Len(tasks)
  /\ pc[Main] \in {"destroy", "join", "done"} =>
       got = results /\ finished = 1..Len(tasks)

(* work() iterates over results without queue_mutex: nothing may be added   *)
(* while it does, or the iterators would be invalidated.                    *)
ResultsStable ==
  [][pc[Main] = "get" /\ runs' = runs => results' = results]_<<results, pc, runs>>

(* A row of docs_words refers to rows that exist.                           *)
Integrity ==
  \A u \in Url, x \in Word :
    docs_words[<<u, x>>] > 0 => u \in docs /\ x \in words

Rows(s)     == {s[i] : i \in 1..Len(s)}
Count(u, x) == LET hits == {p \in Rows(Words[u]) : p[1] = x}
               IN  IF hits = {} THEN 0 ELSE (CHOOSE p \in hits : TRUE)[2]
Stored(u)   == u \in docs /\ \A x \in Word : docs_words[<<u, x>>] = Count(u, x)

(* Breadth-first reference: the pages within d links of the start page, the *)
(* links of the pages in From being followed.                               *)
Within(From) ==
  LET W[d \in 1..DepthLimit] ==
        IF d = 1 THEN {start_url}
        ELSE W[d-1] \cup UNION {Rows(Links[u]) : u \in W[d-1] \cap From}
  IN  W

Answering == {u \in Url : Replies[u] = {"page"} /\ u \notin BadWords}
Requested == {p[1] : p \in fetched}

(* work() returns and the program ends, in every run, whatever statements   *)
(* fail: only a task that throws and a server that never answers keep it.   *)
Stuck == thrown # {} \/ \E w \in Worker : pc[w] \in {"thrown", "hung"}

WorkReturns == []<>(pc[Main] = "done" \/ Stuck)

-----------------------------------------------------------------------------
(* What the program says of itself and does not keep.                      *)

(* "Число активных задач составляет ..." (the number of active tasks): when *)
(* nothing is announced, queued or executed, the number is zero.            *)
IdleMeansZero ==
  pending = << >> /\ Executing = {} /\ Announced = {} => active_tasks = 0

(* "Добавление url и новых слов в БД" (adding the url and the new words to  *)
(* the database): when task() releases mtx_db the words of its page, which  *)
(* were read without any failure of the database, are stored.               *)
WordsAreAdded ==
  [][\A w \in Worker : pc[w] = "unlock" /\ pc'[w] # "unlock"
                       /\ connected /\ Words[url(w)] # << >>
                       => Stored(url(w))]_vars

-----------------------------------------------------------------------------
(* The inductive invariant behind TypeOK, Integrity, CounterExact and       *)
(* WorkComplete.                                                            *)
PcInv ==
  /\ pc[Main] \in MainLocs
  /\ \A w \in Worker : pc[w] \in {"idle"} \cup TaskLocs

(* A worker is idle exactly when the pool has given it nothing.             *)
RunInv == \A w \in Worker : pc[w] = "idle" <=> running[w] = NoTask

(* The loops stay inside the words and the links of the page.               *)
LoopAt(w) ==
  /\ pc[w] \in WorkLocs => index[w] \in 1..Len(Words[url(w)])
  /\ pc[w] \in LinkLocs => depth(w) < search_depth /\ index[w] > 0
  /\ pc[w] \in {"submit", "push_back"} => index[w] \in 1..Len(Links[url(w)])
  /\ pc[w] \in {"convert", "add_url"} => Words[url(w)] # << >>

LoopInv == \A w \in Worker : LoopAt(w)

(* queue_mutex covers the moment between submit() and push_back().          *)
QueueInv ==
  /\ \A t \in Thread : queue_mutex = t <=> pc[t] = "push_back"
  /\ Len(tasks) = results + (IF queue_mutex = Free THEN 0 ELSE 1)

(* The pool executes every task at most once.                               *)
OnceInv ==
  /\ \A i, j \in 1..Len(pending) : pending[i] = pending[j] => i = j
  /\ \A v, w \in Worker :
       running[v] = running[w] /\ running[v] # NoTask => v = w
  /\ \A w \in Worker : running[w] \notin finished \cup Rows(pending)
  /\ finished \cap Rows(pending) = {}

(* A word is linked to its page only when both are in the database.        *)
HeldAt(w) ==
  /\ pc[w] \in WorkLocs => url(w) \in docs
  /\ pc[w] = "add_url_word" /\ word_id[w] => word(w)[1] \in words

HeldInv == \A w \in Worker : HeldAt(w)

GotInv == 1..got \subseteq finished

IInv == /\ TypeOK /\ PcInv /\ RunInv /\ LoopInv /\ QueueInv
        /\ HeldInv /\ Integrity
        /\ OnceInv /\ GotInv /\ CounterExact /\ WorkComplete
=============================================================================
