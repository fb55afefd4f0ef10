-------------------------- MODULE CrawlStoreProofs --------------------------
(***************************************************************************)
(* Theorems about what a crawl stores and skips, for any number of threads, *)
(* any web, any failures, kills and restarts: CrawlHistory remembers the    *)
(* pages for which something went wrong, and for all others nothing did.    *)
(***************************************************************************)
EXTENDS CrawlHistory, SpiderProofs

(* new_words returns a map: a word stands in it once. *)
DistinctWords ==
  \A u \in Url : \A i, j \in 1..Len(Words[u]) : Words[u][i][1] = Words[u][j][1] => i = j

(* Count gives a word of a page the count the page has for it.             *)
LEMMA CountOfWord ==
  ASSUME DistinctWords, NEW u \in Url, NEW i \in 1..Len(Words[u])
  PROVE  Count(u, Words[u][i][1]) = Words[u][i][2]
<1> DEFINE hits == {p \in Rows(Words[u]) : p[1] = Words[u][i][1]}
<1>1. Words[u][i] \in hits
  BY DEF Rows
<1>2. ASSUME NEW p \in hits PROVE p = Words[u][i]
  <2>1. PICK j \in 1..Len(Words[u]) : p = Words[u][j]
    BY <1>2 DEF Rows
  <2>2. i = j
    BY <1>2, <2>1 DEF DistinctWords
  <2> QED BY <2>1, <2>2
<1>3. hits # {} /\ (CHOOSE p \in hits : TRUE) = Words[u][i]
  BY <1>1, <1>2
<1> QED BY <1>3 DEF Count

(* A word that is not on a page has the count 0. *)
LEMMA CountOfOther ==
  ASSUME NEW u \in Url, NEW x \in Word, \A i \in 1..Len(Words[u]) : Words[u][i][1] # x
  PROVE  Count(u, x) = 0
<1>1. {p \in Rows(Words[u]) : p[1] = x} = {}
  BY DEF Rows
<1> QED BY <1>1 DEF Count

LEMMA CountIsNat ==
  ASSUME DistinctWords, NEW u \in Url, NEW x \in Word
  PROVE  Count(u, x) \in Nat
<1>1. CASE \E i \in 1..Len(Words[u]) : Words[u][i][1] = x
  <2>1. PICK i \in 1..Len(Words[u]) : Words[u][i][1] = x
    BY <1>1
  <2>2. Words[u][i] \in Word \X (Nat \ {0})
    BY SeqElement, SpiderAssumption
  <2> QED BY <2>1, <2>2, CountOfWord
<1>2. CASE ~\E i \in 1..Len(Words[u]) : Words[u][i][1] = x
  BY <1>2, CountOfOther
<1> QED BY <1>1, <1>2

LEMMA WordOfPage ==
  ASSUME NEW u \in Url, NEW i \in 1..Len(Words[u])
  PROVE  Words[u][i][1] \in Word /\ Words[u][i][2] \in Nat
<1>1. Words[u][i] \in Word \X (Nat \ {0})
  BY SeqElement, SpiderAssumption
<1> QED BY <1>1

-----------------------------------------------------------------------------
(* What a step of HSpec does to the history. *)
Watched ==
  /\ twice \subseteq twice' /\ lost \subseteq lost'
  /\ \A w \in Worker : /\ Again(w) => url(w) \in twice'
                       /\ Loses(w) => url(w) \in lost'
  /\ late' = IF runs' # runs THEN {} ELSE late \cup Urls({w \in Worker : Late(w)})

LEMMA Watching == [HNext]_<<vars, history>> => [Next]_vars /\ Watched
<1>1. ASSUME HNext PROVE Next /\ Watched
  BY <1>1 DEF HNext, Observe, Watched, Urls
<1>2. ASSUME UNCHANGED <<vars, history>> PROVE Watched
  <2>1. pc' = pc /\ runs' = runs /\ UNCHANGED <<twice, lost, late>>
    BY <1>2 DEF vars, histVars, history
  <2>2. \A w \in Worker : ~Again(w) /\ ~Loses(w) /\ ~Late(w)
    BY <2>1 DEF Again, Loses, Late, WorkLocs
  <2>3. Urls({w \in Worker : Late(w)}) = {}
    BY <2>2 DEF Urls
  <2> QED BY <2>1, <2>2, <2>3 DEF Watched
<1> QED BY <1>1, <1>2

(* A worker that stays where it is keeps its task, and so does one that     *)
(* moves within its task.                                                  *)
SameTask(v) == url(v)' = url(v) /\ depth(v)' = depth(v)

Stays(v) ==
  /\ pc'[v] = pc[v] /\ index'[v] = index[v]
  /\ pc[v] # "idle" => SameTask(v)

LEMMA TaskKept ==
  ASSUME CtlInv, NEW v \in Worker, pc[v] # "idle", running'[v] = running[v],
         \A i \in 1..Len(tasks) : tasks'[i] = tasks[i]
  PROVE  SameTask(v)
BY TaskFacts DEF SameTask, url, depth

LEMMA WorkerFrame ==
  ASSUME CtlInv, NEW w \in Worker, WorkerStep(w)
  PROVE  /\ \A v \in Worker \ {w} : Stays(v)
         /\ pc'[Main] = pc[Main] /\ runs' = runs
         /\ pc[w] # "idle" /\ ~Complete(w) => SameTask(w)
<1> USE ThreadFacts DEF poolVars, taskVars, loopVars, histVars
<1>1. pc' = pc \/ \E l : Goto(w, l)
  <2>1. CASE Take(w) \/ Fetch(w) \/ LockDb(w) \/ Convert(w) \/ UnlockDb(w) \/ CountLink(w)
    BY <2>1 DEF Take, Fetch, LockDb, Convert, UnlockDb, CountLink
  <2>2. CASE \/ Begin(w) \/ LinksDone(w) \/ SubmitLink(w) \/ PushBack(w) \/ Uncount(w)
             \/ Complete(w)
    BY <2>2 DEF Begin, LinksDone, SubmitLink, Enqueue, PushBack, Uncount, Complete
  <2>3. CASE Check(w) \/ AddUrl(w) \/ GetWord(w) \/ AddWord(w) \/ AddUrlWord(w)
    BY <2>3 DEF Check, AddUrl, GetWord, AddWord, AddUrlWord
  <2> QED BY <2>1, <2>2, <2>3 DEF WorkerStep
<1>2. pc'[Main] = pc[Main] /\ \A v \in Worker \ {w} : pc'[v] = pc[v]
  BY <1>1 DEF Goto, CtlInv, CrawlTypeOK
<1>3. runs' = runs
  BY DEF WorkerStep, Take, Begin, Check, Fetch, LockDb, Convert, AddUrl, GetWord, AddWord,
         AddUrlWord, UnlockDb, CountLink, LinksDone, SubmitLink, Enqueue, PushBack, Uncount,
         Complete
<1>4. \A v \in Worker \ {w} : index'[v] = index[v]
  BY DEF WorkerStep, Take, Begin, Check, Fetch, LockDb, Convert, AddUrl, GetWord, AddWord,
         AddUrlWord, UnlockDb, CountLink, LinksDone, SubmitLink, Enqueue, PushBack, Uncount,
         Complete, CtlInv, CrawlTypeOK
<1>5. /\ \A v \in Worker \ {w} : running'[v] = running[v]
      /\ pc[w] # "idle" /\ ~Complete(w) => running' = running
  <2>1. CASE Take(w)
    BY <2>1 DEF Take, Pool!Take, CtlInv, PoolTypeOK
  <2>2. CASE Complete(w)
    BY <2>2 DEF Complete, Pool!Finish, CtlInv, PoolTypeOK
  <2>3. CASE ~Take(w) /\ ~Complete(w)
    BY <2>3 DEF WorkerStep, Begin, Check, Fetch, LockDb, Convert, AddUrl, GetWord, AddWord,
       AddUrlWord, UnlockDb, CountLink, LinksDone, SubmitLink, Enqueue, Pool!Submit, PushBack,
       Uncount
  <2> QED BY <2>1, <2>2, <2>3 DEF Take
<1>6. \A i \in 1..Len(tasks) : tasks'[i] = tasks[i]
  BY DEF WorkerStep, Take, Begin, Check, Fetch, LockDb, Convert, AddUrl, GetWord, AddWord,
         AddUrlWord, UnlockDb, CountLink, LinksDone, SubmitLink, Enqueue, PushBack, Uncount,
         Complete, CtlInv, PoolTypeOK
<1>7. \A v \in Worker : pc[v] # "idle" /\ running'[v] = running[v] => SameTask(v)
  BY <1>6, TaskKept
<1> QED BY <1>2, <1>3, <1>4, <1>5, <1>7 DEF Stays

LEMMA MainFrame ==
  ASSUME CtlInv, MainStep
  PROVE  /\ \A v \in Worker : Stays(v)
         /\ UNCHANGED <<docs, docs_words, fetched, runs, finished>>
<1> USE ThreadFacts DEF poolVars, taskVars, loopVars, histVars, dbVars
<1>1. \A v \in Worker : pc'[v] = pc[v]
  BY DEF MainStep, Construct, CountFirst, SubmitFirst, Enqueue, PushFirst, AllCounted, GetResult,
         WorkReturn, DestroyPool, Destroyed, Goto, CtlInv, CrawlTypeOK
<1>2. UNCHANGED <<docs, docs_words, fetched, finished, index, running, runs>>
  BY DEF MainStep, Construct, Connect, CountFirst, SubmitFirst, Enqueue, PushFirst, AllCounted,
         GetResult, WorkReturn, DestroyPool, Destroyed, Pool!Submit, Pool!Close, Pool!ShutDown
<1>3. \A i \in 1..Len(tasks) : tasks'[i] = tasks[i]
  BY DEF MainStep, Construct, CountFirst, SubmitFirst, Enqueue, PushFirst, AllCounted,
         GetResult, WorkReturn, DestroyPool, Destroyed, CtlInv, PoolTypeOK
<1> QED BY <1>1, <1>2, <1>3, TaskKept DEF Stays

LEMMA StutterFrame ==
  ASSUME UNCHANGED vars
  PROVE  /\ \A v \in Worker : Stays(v)
         /\ UNCHANGED <<docs, docs_words, fetched, runs, finished>>
BY DEF vars, dbVars, poolVars, taskVars, loopVars, histVars, Stays, SameTask, url, depth

-----------------------------------------------------------------------------
(* Nobody reaches the words of a page, or the way to them, but by a step of *)
(* its own.                                                                *)
Keeps(v) ==
  /\ pc'[v] \in FreshLocs => pc[v] \in FreshLocs /\ url(v)' = url(v)
  /\ pc'[v] \in WorkLocs => pc[v] \in WorkLocs /\ url(v)' = url(v) /\ index'[v] = index[v]

LEMMA StaysKeeps ==
  ASSUME NEW v \in Worker, Stays(v)
  PROVE  Keeps(v)
BY DEF Stays, SameTask, Keeps, FreshLocs, WorkLocs

LEMMA OnceFrame ==
  ASSUME OnceOnly, twice \subseteq twice', UNCHANGED <<docs, docs_words>>,
         \A v \in Worker : Keeps(v)
  PROVE  OnceOnly'
<1>1. OneWriter'
  BY DEF OnceOnly, OneWriter, Keeps
<1>2. FreshInv'
  BY DEF OnceOnly, FreshInv, Keeps
<1>3. UncountedInv'
  <2> SUFFICES ASSUME NEW w \in Worker, pc'[w] \in WorkLocs, url(w)' \notin twice'
               PROVE  \A i \in 1..Len(Words[url(w)]') :
                        i >= index'[w] => docs_words'[<<url(w)', Words[url(w)]'[i][1]>>] = 0
    BY DEF UncountedInv
  <2>1. pc[w] \in WorkLocs /\ url(w)' = url(w) /\ index'[w] = index[w]
    BY DEF Keeps
  <2> QED BY <2>1 DEF OnceOnly, UncountedInv
<1>4. IndexedOnce'
  BY DEF OnceOnly, IndexedOnce
<1> QED BY <1>1, <1>2, <1>3, <1>4 DEF OnceOnly

(* The steps of task() that neither let a page through nor add a row.       *)
LEMMA QuietKeeps ==
  ASSUME CtlInv, NEW w \in Worker, WorkerStep(w), ~AddUrl(w), ~AddUrlWord(w),
         pc[w] = "check" => pc'[w] # "fetch"
  PROVE  /\ \A v \in Worker : Keeps(v)
         /\ UNCHANGED <<docs, docs_words>>
         /\ pc[w] \in WorkLocs => pc'[w] \in WorkLocs /\ url(w)' = url(w)
<1> USE ThreadFacts DEF dbVars, tables
<1>1. UNCHANGED <<docs, docs_words>>
  BY DEF WorkerStep, Take, Begin, BeginTx, Check, get_id_url, Refused, Fetch, LockDb, Convert, GetWord,
         get_id_word, AddWord, add_new_word, UnlockDb, CountLink, LinksDone, SubmitLink, Enqueue,
         PushBack, Uncount, Complete
<1>2. \A v \in Worker \ {w} : Keeps(v)
  BY WorkerFrame, StaysKeeps
<1>3. ASSUME NEW l, Goto(w, l) PROVE pc'[w] = l
  BY <1>3 DEF Goto, CtlInv, CrawlTypeOK
<1> USE DEF Keeps, FreshLocs, WorkLocs
<1>4. CASE Take(w) \/ UnlockDb(w) \/ CountLink(w) \/ LinksDone(w) \/ SubmitLink(w)
           \/ PushBack(w) \/ Uncount(w) \/ Complete(w)
  <2>1. PICK l \in {"check", "links", "returned", "submit", "push_back", "complete", "idle"} : Goto(w, l)
    BY <1>4 DEF Take, UnlockDb, CountLink, LinksDone, SubmitLink, Enqueue, PushBack, Uncount, Complete
  <2>2. pc[w] \notin WorkLocs
    BY <1>4 DEF Take, UnlockDb, CountLink, LinksDone, SubmitLink, Enqueue, PushBack, Uncount, Complete
  <2> QED BY <1>1, <1>2, <1>3, <2>1, <2>2
<1>5. CASE Begin(w) \/ Check(w) \/ Fetch(w) \/ LockDb(w) \/ Convert(w) \/ GetWord(w) \/ AddWord(w)
  <2>1. pc[w] # "idle" /\ ~Complete(w)
    BY <1>5 DEF Begin, Check, Fetch, LockDb, Convert, GetWord, AddWord, Complete, DbCalls
  <2>2. url(w)' = url(w)
    BY <2>1, WorkerFrame DEF SameTask
  <2>3. CASE Begin(w)
    BY <1>1, <1>2, <2>2, <2>3 DEF Begin, loopVars
  <2>4. CASE Check(w)
    <3>1. PICK l \in {"returned", "fetch"} : Goto(w, l)
      BY <2>4 DEF Check
    <3>2. pc'[w] = l /\ pc[w] = "check"
      BY <1>3, <2>4, <3>1 DEF Check
    <3> QED BY <1>1, <1>2, <3>1, <3>2
  <2>5. CASE Fetch(w)
    <3>1. PICK l \in {"lock", "returned", "thrown", "hung"} : Goto(w, l)
      BY <2>5, TaskFacts, SpiderAssumption DEF Fetch
    <3>2. pc'[w] = l /\ pc[w] = "fetch"
      BY <1>3, <2>5, <3>1 DEF Fetch
    <3> QED BY <1>1, <1>2, <2>2, <3>1, <3>2
  <2>6. CASE LockDb(w) \/ Convert(w)
    <3>1. PICK l \in {"convert", "unlock", "thrown", "add_url"} : Goto(w, l)
      BY <2>6 DEF LockDb, Convert
    <3>2. pc'[w] = l /\ pc[w] \in {"lock", "convert"}
      BY <1>3, <2>6, <3>1 DEF LockDb, Convert
    <3> QED BY <1>1, <1>2, <2>2, <3>1, <3>2
  <2>7. CASE GetWord(w) \/ AddWord(w)
    <3>1. PICK l \in {"add_url_word", "add_word"} : Goto(w, l)
      BY <2>7 DEF GetWord, AddWord
    <3>2. pc'[w] = l /\ pc[w] \in {"get_word", "add_word"} /\ index' = index
      BY <1>3, <2>7, <3>1 DEF GetWord, AddWord
    <3> QED BY <1>1, <1>2, <2>2, <3>1, <3>2
  <2> QED BY <1>5, <2>3, <2>4, <2>5, <2>6, <2>7
<1> QED BY <1>4, <1>5 DEF WorkerStep

(* A check that lets a page through, not again: no worker is at it, and it  *)
(* is not in DOCS.                                                         *)
LEMMA OnceCheck ==
  ASSUME CtlInv, DbInv, OnceOnly, Watched, NEW w \in Worker, Check(w), pc'[w] = "fetch"
  PROVE  OnceOnly'
<1> USE DEF dbVars, tables
<1>1. PICK r \in BOOLEAN :
        get_id_url(w, url(w), r) /\ Goto(w, IF r THEN "returned" ELSE "fetch")
  BY DEF Check
<1>2. pc[w] = "check" /\ ~r /\ UNCHANGED <<docs, docs_words>> /\ WorkerStep(w) /\ ~Complete(w)
  BY <1>1, ThreadFacts DEF Check, get_id_url, Refused, Goto, CtlInv, CrawlTypeOK, WorkerStep, Complete
<1>3. url(w)' = url(w) /\ \A v \in Worker \ {w} : Stays(v)
  BY <1>2, WorkerFrame DEF SameTask
<1>4. \A v \in Worker \ {w} : Keeps(v)
  BY <1>3, StaysKeeps
<1>5. twice \subseteq twice'
  BY DEF Watched
<1>6. ASSUME url(w) \notin twice'
      PROVE  /\ url(w) \notin docs
             /\ \A v \in Worker \ {w} : pc[v] \in FreshLocs => url(v) # url(w)
  <2>1. ~Again(w)
    BY <1>6 DEF Watched
  <2>2. Refused(w) \/ Fails(w) => Unanswered(w)
    BY DEF Unanswered
  <2> QED BY <1>1, <1>2, <2>1, <2>2 DEF Again, get_id_url
<1>7. \A v \in Worker : pc[v] \in WorkLocs => url(v) \in docs
  BY DEF DbInv, HeldInv, HeldAt
<1> USE DEF FreshLocs, WorkLocs
<1>8. OneWriter'
  <2> SUFFICES ASSUME NEW v \in Worker, NEW x \in Worker, v # x,
                      pc'[v] \in FreshLocs \cup WorkLocs, pc'[x] \in FreshLocs \cup WorkLocs,
                      url(v)' = url(x)', url(x)' \notin twice'
               PROVE  FALSE
    BY DEF OneWriter
  <2>1. CASE v = w \/ x = w
    <3>1. PICK y \in Worker \ {w} : pc'[y] \in FreshLocs \cup WorkLocs /\ url(y)' = url(w)
                                    /\ url(w) \notin twice'
      BY <1>3, <2>1
    <3>2. pc[y] \in FreshLocs \cup WorkLocs /\ url(y) = url(w)
      BY <1>4, <3>1 DEF Keeps
    <3> QED BY <1>6, <1>7, <3>1, <3>2
  <2>2. CASE v # w /\ x # w
    <3>1. /\ pc[v] \in FreshLocs \cup WorkLocs /\ url(v)' = url(v)
          /\ pc[x] \in FreshLocs \cup WorkLocs /\ url(x)' = url(x)
      BY <1>4, <2>2 DEF Keeps
    <3> QED BY <1>5, <3>1 DEF OnceOnly, OneWriter
  <2> QED BY <2>1, <2>2
<1>9. FreshInv'
  <2> SUFFICES ASSUME NEW v \in Worker, pc'[v] \in FreshLocs, url(v)' \notin twice'
               PROVE  url(v)' \notin docs
    BY <1>2 DEF FreshInv
  <2>1. CASE v = w
    BY <1>3, <1>6, <2>1
  <2>2. CASE v # w
    BY <1>4, <1>5, <2>2 DEF Keeps, OnceOnly, FreshInv
  <2> QED BY <2>1, <2>2
<1>10. UncountedInv'
  <2> SUFFICES ASSUME NEW v \in Worker, pc'[v] \in WorkLocs, url(v)' \notin twice'
               PROVE  \A i \in 1..Len(Words[url(v)]') :
                        i >= index'[v] => docs_words'[<<url(v)', Words[url(v)]'[i][1]>>] = 0
    BY DEF UncountedInv
  <2>1. v # w
    OBVIOUS
  <2>2. pc[v] \in WorkLocs /\ url(v)' = url(v) /\ index'[v] = index[v]
    BY <1>4, <2>1 DEF Keeps
  <2> QED BY <1>2, <1>5, <2>2 DEF OnceOnly, UncountedInv
<1>11. IndexedOnce'
  BY <1>2, <1>5 DEF OnceOnly, IndexedOnce
<1> QED BY <1>8, <1>9, <1>10, <1>11 DEF OnceOnly

(* The url is inserted: none of its words is there yet. *)
LEMMA OnceAddUrl ==
  ASSUME CtlInv, DbInv, OnceOnly, Watched, NEW w \in Worker, AddUrl(w)
  PROVE  OnceOnly'
<1> USE DEF dbVars
<1>1. PICK r \in BOOLEAN :
        add_new_url(w, url(w), r) /\ Goto(w, IF r THEN "get_word" ELSE "unlock")
  BY DEF AddUrl
<1>2. /\ pc[w] = "add_url" /\ pc'[w] \in {"get_word", "unlock"} /\ index'[w] = 1
      /\ docs' \subseteq docs \cup {url(w)} /\ docs_words' = docs_words
      /\ WorkerStep(w) /\ ~Complete(w)
  BY <1>1, ThreadFacts
     DEF AddUrl, add_new_url, Refused, Goto, CtlInv, CrawlTypeOK, WorkerStep, Complete
<1>3. url(w)' = url(w) /\ url(w) \in Url /\ \A v \in Worker \ {w} : Keeps(v)
  BY <1>2, WorkerFrame, StaysKeeps, TaskFacts DEF SameTask
<1>4. twice \subseteq twice'
  BY DEF Watched
<1> USE DEF FreshLocs, WorkLocs
<1>5. OneWriter'
  <2>1. \A v \in Worker : pc'[v] \in FreshLocs \cup WorkLocs =>
          pc[v] \in FreshLocs \cup WorkLocs /\ url(v)' = url(v)
    BY <1>2, <1>3 DEF Keeps
  <2> QED BY <1>4, <2>1 DEF OnceOnly, OneWriter
<1>6. FreshInv'
  <2> SUFFICES ASSUME NEW v \in Worker, pc'[v] \in FreshLocs, url(v)' \notin twice'
               PROVE  url(v)' \notin docs'
    BY DEF FreshInv
  <2>1. v # w /\ pc[v] \in FreshLocs /\ url(v)' = url(v)
    BY <1>2, <1>3 DEF Keeps
  <2>2. url(v) # url(w)
    BY <1>2, <1>4, <2>1 DEF OnceOnly, OneWriter
  <2> QED BY <1>2, <1>4, <2>1, <2>2 DEF OnceOnly, FreshInv
<1>7. UncountedInv'
  <2> SUFFICES ASSUME NEW v \in Worker, pc'[v] \in WorkLocs, url(v)' \notin twice',
                      NEW i \in 1..Len(Words[url(v)']), i >= index'[v]
               PROVE  docs_words'[<<url(v)', Words[url(v)'][i][1]>>] = 0
    BY DEF UncountedInv
  <2>1. CASE v = w
    <3>1. url(w) \notin docs
      BY <1>2, <1>3, <1>4, <2>1 DEF OnceOnly, FreshInv
    <3>2. Words[url(w)][i][1] \in Word
      BY <1>3, <2>1, WordOfPage
    <3>3. docs_words[<<url(w), Words[url(w)][i][1]>>] \in Nat
      BY <1>3, <3>2 DEF DbInv, DbTypeOK
    <3>4. docs_words[<<url(w), Words[url(w)][i][1]>>] = 0
      BY <1>3, <3>1, <3>2, <3>3 DEF DbInv, Integrity
    <3> QED BY <1>2, <1>3, <2>1, <3>4
  <2>2. CASE v # w
    <3>1. pc[v] \in WorkLocs /\ url(v)' = url(v) /\ index'[v] = index[v]
      BY <1>3, <2>2 DEF Keeps
    <3> QED BY <1>2, <1>4, <3>1 DEF OnceOnly, UncountedInv
  <2> QED BY <2>1, <2>2
<1>8. IndexedOnce'
  BY <1>2, <1>4 DEF OnceOnly, IndexedOnce
<1> QED BY <1>5, <1>6, <1>7, <1>8 DEF OnceOnly

(* What AddUrlWord does: the count of the word is added, or nothing is.     *)
LEMMA WordAdded ==
  ASSUME CtlInv, DbInv, NEW w \in Worker, AddUrlWord(w)
  PROVE  /\ pc[w] = "add_url_word" /\ pc'[w] \in {"get_word", "unlock"}
         /\ pc'[w] = "unlock" => index[w] = Len(Words[url(w)])
         /\ index[w] \in 1..Len(Words[url(w)]) /\ index'[w] = index[w] + 1
         /\ url(w)' = url(w) /\ url(w) \in Url /\ docs' = docs
         /\ \A v \in Worker \ {w} : Stays(v) /\ Keeps(v)
         /\ \/ docs_words' = docs_words
            \/ docs_words' = Added(url(w), Words[url(w)][index[w]][1], Words[url(w)][index[w]][2])
<1> USE DEF dbVars
<1>1. /\ pc[w] = "add_url_word" /\ pc'[w] = (IF index[w] < Len(Words[url(w)]) THEN "get_word" ELSE "unlock")
      /\ index'[w] = index[w] + 1 /\ WorkerStep(w) /\ ~Complete(w)
  BY ThreadFacts DEF AddUrlWord, Goto, CtlInv, CrawlTypeOK, WorkerStep, Complete
<1>2. index[w] \in 1..Len(Words[url(w)])
  BY <1>1 DEF CtlInv, LoopInv, LoopAt, WorkLocs
<1>3. url(w)' = url(w) /\ url(w) \in Url /\ \A v \in Worker \ {w} : Stays(v) /\ Keeps(v)
  BY <1>1, WorkerFrame, StaysKeeps, TaskFacts DEF SameTask
<1>4. add_new_url_word(w, url(w), Words[url(w)][index[w]][1], word_id[w], Words[url(w)][index[w]][2])
  BY DEF AddUrlWord, word
<1>5. docs' = docs /\ \/ docs_words' = docs_words
                      \/ docs_words' = Added(url(w), Words[url(w)][index[w]][1], Words[url(w)][index[w]][2])
  BY <1>4 DEF add_new_url_word, Refused
<1>6. Words[url(w)] \in Seq(Word \X (Nat \ {0}))
  BY <1>3, SpiderAssumption
<1>7. pc'[w] = "unlock" => index[w] = Len(Words[url(w)])
  BY <1>1, <1>2, <1>6
<1> QED BY <1>1, <1>2, <1>3, <1>5, <1>7

(* The effect of the addition on the rows. *)
LEMMA AddedRow ==
  ASSUME DbInv, NEW u \in Url, NEW x \in Word, NEW n \in Nat, docs_words' = Added(u, x, n)
  PROVE  /\ docs_words'[<<u, x>>] = docs_words[<<u, x>>] + n
         /\ \A v \in Url, y \in Word :
              <<v, y>> # <<u, x>> => docs_words'[<<v, y>>] = docs_words[<<v, y>>]
<1>1. docs_words \in [Url \X Word -> Nat]
  BY DEF DbInv, DbTypeOK
<1> QED BY <1>1 DEF Added

(* A word is counted for the page for the first time. *)
LEMMA OnceAddUrlWord ==
  ASSUME CtlInv, DbInv, DistinctWords, OnceOnly, Watched, NEW w \in Worker, AddUrlWord(w)
  PROVE  OnceOnly'
<1> DEFINE u == url(w)
           n == index[w]
           x == Words[u][n][1]
<1>1. /\ pc[w] = "add_url_word" /\ pc'[w] \in {"get_word", "unlock"}
      /\ n \in 1..Len(Words[u]) /\ index'[w] = n + 1
      /\ url(w)' = u /\ u \in Url /\ docs' = docs
      /\ \A v \in Worker \ {w} : Keeps(v)
      /\ docs_words' = docs_words \/ docs_words' = Added(u, x, Words[u][n][2])
  BY WordAdded
<1>2. twice \subseteq twice'
  BY DEF Watched
<1>3. x \in Word /\ Words[u][n][2] \in Nat
  BY <1>1, WordOfPage
<1>4. \A v \in Url, y \in Word :
        <<v, y>> # <<u, x>> => docs_words'[<<v, y>>] = docs_words[<<v, y>>]
  BY <1>1, <1>3, AddedRow
<1>5. u \notin twice' => docs_words[<<u, x>>] = 0
  <2>1. \A i \in 1..Len(Words[u]) : i >= n /\ u \notin twice => docs_words[<<u, Words[u][i][1]>>] = 0
    BY <1>1 DEF OnceOnly, UncountedInv, WorkLocs
  <2>2. n >= n
    BY <1>1
  <2> QED BY <1>1, <1>2, <2>1, <2>2
<1> USE DEF FreshLocs, WorkLocs
<1>6. OneWriter'
  <2>1. \A v \in Worker : pc'[v] \in FreshLocs \cup WorkLocs =>
          pc[v] \in FreshLocs \cup WorkLocs /\ url(v)' = url(v)
    BY <1>1 DEF Keeps
  <2> QED BY <1>2, <2>1 DEF OnceOnly, OneWriter
<1>7. FreshInv'
  <2> SUFFICES ASSUME NEW v \in Worker, pc'[v] \in FreshLocs, url(v)' \notin twice'
               PROVE  url(v)' \notin docs'
    BY DEF FreshInv
  <2>1. v # w
    BY <1>1
  <2> QED BY <1>1, <1>2, <2>1 DEF Keeps, OnceOnly, FreshInv
<1>8. UncountedInv'
  <2> SUFFICES ASSUME NEW v \in Worker, pc'[v] \in WorkLocs, url(v)' \notin twice',
                      NEW i \in 1..Len(Words[url(v)']), i >= index'[v]
               PROVE  docs_words'[<<url(v)', Words[url(v)'][i][1]>>] = 0
    BY DEF UncountedInv
  <2>1. CASE v = w
    <3>1. i \in 1..Len(Words[u]) /\ i >= n + 1 /\ u \notin twice
      BY <1>1, <1>2, <2>1
    <3>2. i # n /\ i >= n
      BY <1>1, <3>1
    <3>3. Words[u][i][1] # x
      BY <1>1, <3>1, <3>2 DEF DistinctWords
    <3>4. Words[u][i][1] \in Word
      BY <1>1, <3>1, WordOfPage
    <3>5. docs_words[<<u, Words[u][i][1]>>] = 0
      BY <1>1, <3>1, <3>2 DEF OnceOnly, UncountedInv
    <3> QED BY <1>1, <1>4, <2>1, <3>3, <3>4, <3>5
  <2>2. CASE v # w
    <3>1. pc[v] \in WorkLocs /\ url(v)' = url(v) /\ index'[v] = index[v] /\ url(v) \notin twice
      BY <1>1, <1>2, <2>2 DEF Keeps
    <3>2. url(v) # u
      BY <1>1, <2>2, <3>1 DEF OnceOnly, OneWriter
    <3>3. url(v) \in Url /\ i \in 1..Len(Words[url(v)]) /\ i >= index[v]
      BY <3>1, TaskFacts
    <3>4. Words[url(v)][i][1] \in Word
      BY <3>3, WordOfPage
    <3>5. docs_words[<<url(v), Words[url(v)][i][1]>>] = 0
      BY <3>1, <3>3 DEF OnceOnly, UncountedInv
    <3> QED BY <1>4, <3>1, <3>2, <3>3, <3>4, <3>5
  <2> QED BY <2>1, <2>2
<1>9. IndexedOnce'
  <2> SUFFICES ASSUME NEW v \in Url \ twice', NEW y \in Word
               PROVE  docs_words'[<<v, y>>] <= Count(v, y)
    BY DEF IndexedOnce, Count, Rows
  <2>1. docs_words[<<v, y>>] <= Count(v, y)
    BY <1>2 DEF OnceOnly, IndexedOnce
  <2>2. CASE <<v, y>> = <<u, x>>
    <3>1. Count(v, y) = Words[u][n][2]
      BY <1>1, <2>2, CountOfWord
    <3>2. docs_words[<<u, x>>] = 0
      BY <1>5, <2>2
    <3>3. docs_words'[<<u, x>>] = docs_words[<<u, x>>] + Words[u][n][2] \/ docs_words' = docs_words
      BY <1>1, <1>3, AddedRow
    <3>4. 0 + Words[u][n][2] = Words[u][n][2] /\ Words[u][n][2] <= Words[u][n][2]
      BY <1>3
    <3>5. CASE docs_words' = docs_words
      BY <2>1, <3>5
    <3>6. CASE docs_words'[<<u, x>>] = docs_words[<<u, x>>] + Words[u][n][2]
      BY <2>2, <3>1, <3>2, <3>4, <3>6
    <3> QED BY <3>3, <3>5, <3>6
  <2>3. CASE <<v, y>> # <<u, x>>
    BY <1>4, <2>1, <2>3
  <2> QED BY <2>2, <2>3
<1> QED BY <1>6, <1>7, <1>8, <1>9 DEF OnceOnly

LEMMA OnceStep ==
  ASSUME CtlInv, DbInv, DistinctWords, OnceOnly, [Next]_vars, Watched
  PROVE  OnceOnly'
<1>1. twice \subseteq twice'
  BY DEF Watched
<1>2. ASSUME NEW w \in Worker, WorkerStep(w) PROVE OnceOnly'
  <2>1. CASE pc[w] = "check" /\ pc'[w] = "fetch"
    <3>1. Check(w)
      BY <1>2, <2>1, ThreadFacts DEF WorkerStep, Take, Begin, Check, Fetch, LockDb, Convert, AddUrl,
         GetWord, AddWord, AddUrlWord, UnlockDb, CountLink, LinksDone, SubmitLink, Enqueue, PushBack,
         Uncount, Complete
    <3> QED BY <2>1, <3>1, OnceCheck
  <2>2. CASE AddUrl(w) \/ AddUrlWord(w)
    BY <2>2, OnceAddUrl, OnceAddUrlWord
  <2>3. CASE ~(pc[w] = "check" /\ pc'[w] = "fetch") /\ ~AddUrl(w) /\ ~AddUrlWord(w)
    BY <1>1, <1>2, <2>3, QuietKeeps, OnceFrame
  <2> QED BY <2>1, <2>2, <2>3
<1>3. CASE MainStep
  BY <1>1, <1>3, MainFrame, StaysKeeps, OnceFrame
<1>4. CASE Restart
  <2>1. \A v \in Worker : Keeps(v)
    BY <1>4, ThreadFacts DEF Restart, BootPc, Keeps, FreshLocs, WorkLocs
  <2> QED BY <1>1, <1>4, <2>1, OnceFrame DEF Restart, Disconnect
<1>5. CASE UNCHANGED vars
  BY <1>1, <1>5, StutterFrame, StaysKeeps, OnceFrame
<1> QED BY <1>2, <1>3, <1>4, <1>5 DEF Next, Terminated

LEMMA OnceInit ==
  ASSUME HInit, DistinctWords
  PROVE  OnceOnly
<1>1. /\ docs = {} /\ \A w \in Worker : pc[w] = "idle"
      /\ \A u \in Url, x \in Word : docs_words[<<u, x>>] = 0
  BY ThreadFacts DEF HInit, Init, DbInit, BootPc
<1>2. IndexedOnce
  <2> SUFFICES ASSUME NEW u \in Url, NEW x \in Word
               PROVE  docs_words[<<u, x>>] <= Count(u, x)
    BY DEF IndexedOnce
  <2>1. docs_words[<<u, x>>] = 0
    BY <1>1
  <2>2. Count(u, x) \in Nat
    BY CountIsNat
  <2> QED BY <2>1, <2>2
<1> QED BY <1>1, <1>2 DEF OnceOnly, OneWriter, FreshInv, UncountedInv, FreshLocs, WorkLocs

(* No word of add_url_words_to_db is counted twice for a page, in any run   *)
(* and by any number of threads, unless the page was let through again by a *)
(* check that was too early or got no answer.                              *)
THEOREM PagesAreStoredOnce ==
  ASSUME DistinctWords
  PROVE  HSpec => []IndexedOnce
<1> DEFINE Inv == CtlInv /\ DbInv /\ OnceOnly
<1>1. HInit => Inv
  BY CtlInit, DbStart, OnceInit DEF HInit
<1>2. Inv /\ [HNext]_<<vars, history>> => Inv'
  BY Watching, CtlStep, DbStep, OnceStep
<1>3. Inv => IndexedOnce
  BY DEF OnceOnly
<1> QED BY <1>1, <1>2, <1>3, PTL DEF HSpec

-----------------------------------------------------------------------------
(* What is stored stays stored. *)
More ==
  /\ docs \subseteq docs'
  /\ \A u \in Url, x \in Word : docs_words'[<<u, x>>] >= docs_words[<<u, x>>]

LEMMA AllThereKept ==
  ASSUME DistinctWords, DbInv, DbInv', More, NEW u \in Url, AllThere(u)
  PROVE  AllThere(u)'
<1> SUFFICES ASSUME NEW x \in Word PROVE docs_words'[<<u, x>>] >= Count(u, x)
  BY DEF AllThere, More, Count, Rows
<1>1. docs_words[<<u, x>>] \in Nat /\ docs_words'[<<u, x>>] \in Nat
  BY DEF DbInv, DbTypeOK
<1>2. docs_words[<<u, x>>] >= Count(u, x) /\ docs_words'[<<u, x>>] >= docs_words[<<u, x>>]
  BY DEF AllThere, More
<1> QED BY <1>1, <1>2, CountIsNat

CountedAt(w) ==
  pc[w] \in WorkLocs /\ url(w) \notin lost =>
    \A i \in 1..Len(Words[url(w)]) :
      i < index[w] => docs_words[<<url(w), Words[url(w)][i][1]>>] >= Words[url(w)][i][2]

LEMMA CountedKept ==
  ASSUME CtlInv, DbInv, DbInv', More, lost \subseteq lost', NEW v \in Worker, CountedAt(v), Keeps(v)
  PROVE  CountedAt(v)'
<1> SUFFICES ASSUME pc'[v] \in WorkLocs, url(v)' \notin lost', NEW i \in 1..Len(Words[url(v)']),
                    i < index'[v]
             PROVE  docs_words'[<<url(v)', Words[url(v)'][i][1]>>] >= Words[url(v)'][i][2]
  BY DEF CountedAt
<1>1. pc[v] \in WorkLocs /\ url(v)' = url(v) /\ index'[v] = index[v] /\ url(v) \in Url
  BY TaskFacts DEF Keeps, WorkLocs
<1>2. docs_words[<<url(v), Words[url(v)][i][1]>>] >= Words[url(v)][i][2]
  BY <1>1 DEF CountedAt
<1>3. Words[url(v)][i][1] \in Word /\ Words[url(v)][i][2] \in Nat
  BY <1>1, WordOfPage
<1>4. /\ docs_words[<<url(v), Words[url(v)][i][1]>>] \in Nat
      /\ docs_words'[<<url(v), Words[url(v)][i][1]>>] \in Nat
      /\ docs_words'[<<url(v), Words[url(v)][i][1]>>] >= docs_words[<<url(v), Words[url(v)][i][1]>>]
  BY <1>1, <1>3 DEF DbInv, DbTypeOK, More
<1> QED BY <1>1, <1>2, <1>3, <1>4

(* DOCS and the words, when a step adds nothing to the tables.              *)
LEMMA DocsFrame ==
  ASSUME CtlInv, DbInv, DbInv', DistinctWords, CountedInv, DocsInv,
         UNCHANGED <<docs, docs_words>>, lost \subseteq lost',
         \A v \in Worker : Keeps(v),
         \A v \in Worker : pc[v] \in WorkLocs =>
           url(v) \in lost' \/ (pc'[v] \in WorkLocs /\ url(v)' = url(v))
  PROVE  CountedInv' /\ DocsInv'
<1>1. More
  <2>1. \A u \in Url, x \in Word : docs_words[<<u, x>>] \in Nat
    BY DEF DbInv, DbTypeOK
  <2> QED BY <2>1 DEF More
<1>2. CountedInv'
  <2>1. \A v \in Worker : CountedAt(v)
    BY DEF CountedInv, CountedAt
  <2>2. \A v \in Worker : CountedAt(v)'
    BY <1>1, <2>1, CountedKept
  <2> QED BY <2>2 DEF CountedInv, CountedAt
<1>3. DocsInv'
  <2> SUFFICES ASSUME NEW u \in docs PROVE Accounted(u)'
    BY DEF DocsInv
  <2>1. u \in Url /\ Accounted(u)
    BY DEF DocsInv, DbInv, DbTypeOK
  <2>2. CASE AllThere(u)
    BY <1>1, <2>1, <2>2, AllThereKept DEF Accounted
  <2>3. CASE u \in lost
    BY <2>3 DEF Accounted
  <2>4. CASE \E v \in Worker : Storing(v, u)
    BY <2>4 DEF Accounted, Storing
  <2> QED BY <2>1, <2>2, <2>3, <2>4 DEF Accounted
<1> QED BY <1>2, <1>3

(* A url enters DOCS and its words follow, or it is lost.                   *)
LEMMA DocsAddUrl ==
  ASSUME CtlInv, DbInv, DbInv', DistinctWords, CountedInv, DocsInv, Watched,
         NEW w \in Worker, AddUrl(w)
  PROVE  CountedInv' /\ DocsInv' /\ url(w) \in docs' \cup lost'
<1> USE DEF dbVars
<1>1. PICK r \in BOOLEAN :
        add_new_url(w, url(w), r) /\ Goto(w, IF r THEN "get_word" ELSE "unlock")
  BY DEF AddUrl
<1>2. /\ pc[w] = "add_url" /\ pc'[w] = (IF r THEN "get_word" ELSE "unlock") /\ index'[w] = 1
      /\ docs' \in {docs, docs \cup {url(w)}} /\ (r => docs' = docs \cup {url(w)})
      /\ docs_words' = docs_words
      /\ WorkerStep(w) /\ ~Complete(w)
  BY <1>1, ThreadFacts
     DEF AddUrl, add_new_url, Refused, Goto, CtlInv, CrawlTypeOK, WorkerStep, Complete
<1>3. url(w)' = url(w) /\ url(w) \in Url /\ \A v \in Worker \ {w} : Stays(v) /\ Keeps(v)
  BY <1>2, WorkerFrame, StaysKeeps, TaskFacts DEF SameTask
<1>4. lost \subseteq lost' /\ (~r => url(w) \in lost')
  BY <1>2 DEF Watched, Loses
<1>5. More
  <2>1. \A u \in Url, x \in Word : docs_words[<<u, x>>] \in Nat
    BY DEF DbInv, DbTypeOK
  <2> QED BY <1>2, <2>1 DEF More
<1>6. CountedInv'
  <2>1. \A v \in Worker : CountedAt(v)
    BY DEF CountedInv, CountedAt
  <2>2. \A v \in Worker \ {w} : CountedAt(v)'
    BY <1>3, <1>4, <1>5, <2>1, CountedKept
  <2>3. CountedAt(w)'
    BY <1>2 DEF CountedAt
  <2> QED BY <2>2, <2>3 DEF CountedInv, CountedAt
<1>7. DocsInv'
  <2> SUFFICES ASSUME NEW u \in docs' PROVE Accounted(u)'
    BY DEF DocsInv
  <2>1. CASE u = url(w)
    <3>1. CASE r
      BY <1>2, <1>3, <2>1, <3>1 DEF Accounted, Storing, WorkLocs
    <3>2. CASE ~r
      BY <1>4, <2>1, <3>2 DEF Accounted
    <3> QED BY <3>1, <3>2
  <2>2. CASE u # url(w)
    <3>1. u \in Url /\ Accounted(u)
      BY <1>2, <2>2 DEF DocsInv, DbInv, DbTypeOK
    <3>2. CASE AllThere(u)
      BY <1>5, <3>1, <3>2, AllThereKept DEF Accounted
    <3>3. CASE u \in lost
      BY <1>4, <3>3 DEF Accounted
    <3>4. CASE \E v \in Worker : Storing(v, u)
      <4>1. PICK v \in Worker : Storing(v, u)
        BY <3>4
      <4>2. v # w
        BY <1>2, <4>1 DEF Storing, WorkLocs
      <4> QED BY <1>3, <4>1, <4>2 DEF Accounted, Storing, Stays, SameTask, WorkLocs
    <3> QED BY <3>1, <3>2, <3>3, <3>4 DEF Accounted
  <2> QED BY <2>1, <2>2
<1> QED BY <1>2, <1>4, <1>6, <1>7

(* A word is added, or the page is lost; after the last one the page is     *)
(* complete.                                                               *)
LEMMA DocsAddUrlWord ==
  ASSUME CtlInv, DbInv, DbInv', DistinctWords, CountedInv, DocsInv, Watched,
         NEW w \in Worker, AddUrlWord(w)
  PROVE  CountedInv' /\ DocsInv'
<1> DEFINE u == url(w)
           n == index[w]
           x == Words[u][n][1]
           c == Words[u][n][2]
<1>1. /\ pc[w] = "add_url_word" /\ pc'[w] \in {"get_word", "unlock"}
      /\ pc'[w] = "unlock" => n = Len(Words[u])
      /\ n \in 1..Len(Words[u]) /\ index'[w] = n + 1
      /\ url(w)' = u /\ u \in Url /\ docs' = docs
      /\ \A v \in Worker \ {w} : Stays(v) /\ Keeps(v)
      /\ docs_words' = docs_words \/ docs_words' = Added(u, x, c)
  BY WordAdded
<1>2. lost \subseteq lost' /\ (docs_words' = docs_words => u \in lost')
  BY <1>1 DEF Watched, Loses
<1>3. x \in Word /\ c \in Nat
  BY <1>1, WordOfPage
<1>4. \A v \in Url, y \in Word : docs_words[<<v, y>>] \in Nat /\ docs_words'[<<v, y>>] \in Nat
  BY DEF DbInv, DbTypeOK
<1>5. CASE docs_words' = docs_words
  <2>1. More
    BY <1>1, <1>4, <1>5 DEF More
  <2>2. CountedInv'
    <3>1. \A v \in Worker : CountedAt(v)
      BY DEF CountedInv, CountedAt
    <3>2. \A v \in Worker \ {w} : CountedAt(v)'
      BY <1>1, <1>2, <2>1, <3>1, CountedKept
    <3>3. CountedAt(w)'
      BY <1>1, <1>2, <1>5 DEF CountedAt
    <3> QED BY <3>2, <3>3 DEF CountedInv, CountedAt
  <2>3. DocsInv'
    <3> SUFFICES ASSUME NEW d \in docs PROVE Accounted(d)'
      BY <1>1 DEF DocsInv
    <3>1. d \in Url /\ Accounted(d)
      BY DEF DocsInv, DbInv, DbTypeOK
    <3>2. CASE d = u
      BY <1>2, <1>5, <3>2 DEF Accounted
    <3>3. CASE AllThere(d)
      BY <2>1, <3>1, <3>3, AllThereKept DEF Accounted
    <3>4. CASE d \in lost
      BY <1>2, <3>4 DEF Accounted
    <3>5. CASE d # u /\ \E v \in Worker : Storing(v, d)
      BY <1>1, <3>5 DEF Accounted, Storing, Stays, SameTask, WorkLocs
    <3> QED BY <3>1, <3>2, <3>3, <3>4, <3>5 DEF Accounted
  <2> QED BY <2>2, <2>3
<1>6. CASE docs_words' = Added(u, x, c)
  <2>1. /\ docs_words'[<<u, x>>] = docs_words[<<u, x>>] + c
        /\ \A v \in Url, y \in Word :
             <<v, y>> # <<u, x>> => docs_words'[<<v, y>>] = docs_words[<<v, y>>]
    BY <1>1, <1>3, <1>6, AddedRow
  <2>2. docs_words'[<<u, x>>] >= docs_words[<<u, x>>] /\ docs_words'[<<u, x>>] >= c
    BY <1>1, <1>3, <1>4, <2>1
  <2>3. More
    <3> SUFFICES ASSUME NEW v \in Url, NEW y \in Word
                 PROVE  docs_words'[<<v, y>>] >= docs_words[<<v, y>>]
      BY <1>1 DEF More
    <3>1. CASE <<v, y>> = <<u, x>>
      BY <2>2, <3>1
    <3>2. CASE <<v, y>> # <<u, x>>
      <4>1. docs_words'[<<v, y>>] = docs_words[<<v, y>>]
        BY <2>1, <3>2
      <4> QED BY <1>4, <4>1
    <3> QED BY <3>1, <3>2
  (* The words up to the n-th are all counted now. *)
  <2>4. u \notin lost' =>
          \A i \in 1..Len(Words[u]) : i < n + 1 => docs_words'[<<u, Words[u][i][1]>>] >= Words[u][i][2]
    <3> SUFFICES ASSUME u \notin lost', NEW i \in 1..Len(Words[u]), i < n + 1
                 PROVE  docs_words'[<<u, Words[u][i][1]>>] >= Words[u][i][2]
      OBVIOUS
    <3>1. CASE i = n
      BY <2>2, <3>1
    <3>2. CASE i # n
      <4>1. i < n
        BY <1>1, <3>2
      <4>2. docs_words[<<u, Words[u][i][1]>>] >= Words[u][i][2]
        BY <1>1, <1>2, <4>1 DEF CountedInv, WorkLocs
      <4>3. Words[u][i][1] \in Word /\ Words[u][i][2] \in Nat
        BY <1>1, WordOfPage
      <4>4. docs_words'[<<u, Words[u][i][1]>>] >= docs_words[<<u, Words[u][i][1]>>]
        BY <1>1, <2>3, <4>3 DEF More
      <4>5. docs_words[<<u, Words[u][i][1]>>] \in Nat /\ docs_words'[<<u, Words[u][i][1]>>] \in Nat
        BY <1>1, <1>4, <4>3
      <4> QED BY <4>2, <4>3, <4>4, <4>5
    <3> QED BY <3>1, <3>2
  <2>5. CountedInv'
    <3>1. \A v \in Worker : CountedAt(v)
      BY DEF CountedInv, CountedAt
    <3>2. \A v \in Worker \ {w} : CountedAt(v)'
      BY <1>1, <1>2, <2>3, <3>1, CountedKept
    <3>3. CountedAt(w)'
      BY <1>1, <2>4 DEF CountedAt
    <3> QED BY <3>2, <3>3 DEF CountedInv, CountedAt
  <2>6. DocsInv'
    <3> SUFFICES ASSUME NEW d \in docs PROVE Accounted(d)'
      BY <1>1 DEF DocsInv
    <3>1. d \in Url /\ Accounted(d)
      BY DEF DocsInv, DbInv, DbTypeOK
    <3>2. CASE AllThere(d)
      BY <2>3, <3>1, <3>2, AllThereKept DEF Accounted
    <3>3. CASE d \in lost'
      BY <3>3 DEF Accounted
    <3>4. CASE d \notin lost' /\ \E v \in Worker : Storing(v, d)
      <4>1. PICK v \in Worker : Storing(v, d)
        BY <3>4
      <4>2. CASE v # w
        BY <1>1, <4>1, <4>2 DEF Accounted, Storing, Stays, SameTask, WorkLocs
      <4>3. CASE v = w /\ pc'[w] = "get_word"
        BY <1>1, <4>1, <4>3 DEF Accounted, Storing, WorkLocs
      <4>4. CASE v = w /\ pc'[w] = "unlock"
        <5>1. d = u /\ n = Len(Words[u])
          BY <1>1, <4>1, <4>4 DEF Storing
        <5>2. ASSUME NEW y \in Word PROVE docs_words'[<<u, y>>] >= Count(u, y)
          <6>1. CASE \E i \in 1..Len(Words[u]) : Words[u][i][1] = y
            <7>1. PICK i \in 1..Len(Words[u]) : Words[u][i][1] = y
              BY <6>1
            <7>2. i < n + 1
              BY <1>1, <5>1
            <7>3. Count(u, y) = Words[u][i][2]
              BY <1>1, <7>1, CountOfWord
            <7> QED BY <2>4, <3>4, <5>1, <7>1, <7>2, <7>3
          <6>2. CASE ~\E i \in 1..Len(Words[u]) : Words[u][i][1] = y
            <7>1. Count(u, y) = 0
              BY <1>1, <6>2, CountOfOther
            <7>2. docs_words'[<<u, y>>] \in Nat
              BY <1>1, <1>4
            <7> QED BY <7>1, <7>2
          <6> QED BY <6>1, <6>2
        <5> QED BY <1>1, <5>1, <5>2 DEF Accounted, AllThere, Count, Rows
      <4> QED BY <1>1, <4>2, <4>3, <4>4
    <3> QED BY <1>2, <3>1, <3>2, <3>3, <3>4 DEF Accounted
  <2> QED BY <2>5, <2>6
<1> QED BY <1>1, <1>5, <1>6

-----------------------------------------------------------------------------
(* What a request has brought is on its way to the database. *)
ToStore == {"lock", "convert", "add_url"}

LEMMA RequestedFrame ==
  ASSUME RequestedInv, docs \subseteq docs', lost \subseteq lost', Requested' = Requested,
         \A v \in Worker, u \in Answering :
           Words[u] # << >> /\ Indexing(v, u) => Indexing(v, u)' \/ u \in docs' \cup lost'
  PROVE  RequestedInv'
BY DEF RequestedInv

LEMMA StaysIndexing ==
  ASSUME NEW v \in Worker, Stays(v), NEW u, Indexing(v, u)
  PROVE  Indexing(v, u)'
BY DEF Stays, SameTask, Indexing

LEMMA RequestedWorker ==
  ASSUME CtlInv, DbInv, DbInv', DistinctWords, KeptInv, Watched,
         NEW w \in Worker, WorkerStep(w)
  PROVE  RequestedInv'
<1> USE ThreadFacts DEF dbVars
<1>1. /\ RequestedInv /\ lost \subseteq lost'
      /\ \A v \in Worker \ {w} : \A u : Indexing(v, u) => Indexing(v, u)'
  BY WorkerFrame, StaysIndexing DEF KeptInv, Watched
<1>2. ASSUME NEW l, Goto(w, l) PROVE pc'[w] = l
  BY <1>2 DEF Goto, CtlInv, CrawlTypeOK
<1>3. docs \subseteq docs'
  BY DEF WorkerStep, Take, Begin, BeginTx, Check, get_id_url, Refused, tables, Fetch, LockDb, Convert,
         AddUrl, add_new_url, GetWord, get_id_word, AddWord, add_new_word, AddUrlWord, add_new_url_word,
         UnlockDb, CountLink, LinksDone, SubmitLink, Enqueue, PushBack, Uncount, Complete
<1>4. CASE Fetch(w)
  <2>1. /\ pc[w] = "fetch" /\ fetched' = fetched \cup {<<url(w), depth(w)>>}
        /\ ~Complete(w)
    BY <1>4 DEF Fetch, Complete
  <2>2. PICK l : Goto(w, l) /\ (Replies[url(w)] = {"page"} => l = "lock")
    BY <1>4 DEF Fetch
  <2>3. pc'[w] = l /\ url(w)' = url(w)
    BY <1>2, <2>1, <2>2, WorkerFrame DEF SameTask
  <2>4. url(w) \in Answering => pc'[w] = "lock"
    BY <2>2, <2>3 DEF Answering
  <2>5. Requested' \subseteq Requested \cup {url(w)}
    <3> SUFFICES ASSUME NEW p \in fetched' PROVE p[1] \in Requested \cup {url(w)}
      BY DEF Requested
    <3>1. CASE p \in fetched
      BY <3>1 DEF Requested
    <3>2. CASE p = <<url(w), depth(w)>>
      BY <3>2
    <3> QED BY <2>1, <3>1, <3>2
  <2>6. \A u : ~Indexing(w, u)
    BY <2>1 DEF Indexing
  <2> SUFFICES ASSUME NEW u \in Requested' \cap Answering, Words[u] # << >>
               PROVE  u \in docs' \cup lost' \/ \E v \in Worker : Indexing(v, u)'
    BY DEF RequestedInv
  <2>7. CASE u = url(w)
    BY <2>3, <2>4, <2>7 DEF Indexing
  <2>8. CASE u \in Requested
    <3>1. u \in docs \cup lost \/ \E v \in Worker \ {w} : Indexing(v, u)
      BY <1>1, <2>6, <2>8 DEF RequestedInv
    <3> QED BY <1>1, <1>3, <3>1
  <2> QED BY <2>5, <2>7, <2>8
<1>5. CASE ~Fetch(w)
  <2>1. Requested' = Requested
    BY <1>5 DEF WorkerStep, Take, Begin, Check, LockDb, Convert, AddUrl, GetWord, AddWord, AddUrlWord,
       UnlockDb, CountLink, LinksDone, SubmitLink, Enqueue, PushBack, Uncount, Complete, histVars,
       Requested
  <2>2. ASSUME NEW u \in Answering, Words[u] # << >>, Indexing(w, u)
        PROVE  Indexing(w, u)' \/ u \in docs' \cup lost'
    <3>1. pc[w] \in ToStore /\ url(w) = u /\ pc[w] # "idle" /\ ~Complete(w) /\ u \notin BadWords
      BY <2>2 DEF Indexing, ToStore, Complete, Answering
    <3>2. url(w)' = u
      BY <3>1, WorkerFrame DEF SameTask
    <3>3. CASE Begin(w)
      BY <3>1, <3>2, <3>3 DEF Begin, Indexing, ToStore
    <3>4. CASE LockDb(w)
      <4>1. Goto(w, "convert")
        BY <2>2, <3>1, <3>4 DEF LockDb
      <4> QED BY <1>2, <3>2, <4>1 DEF Indexing
    <3>5. CASE Convert(w)
      <4>1. Goto(w, "add_url")
        BY <3>1, <3>5 DEF Convert
      <4> QED BY <1>2, <3>2, <4>1 DEF Indexing
    <3>6. CASE AddUrl(w)
      BY <3>1, <3>6, DocsAddUrl DEF KeptInv
    <3> QED BY <1>5, <3>1, <3>3, <3>4, <3>5, <3>6
            DEF WorkerStep, ToStore, Take, Check, GetWord, AddWord, AddUrlWord, UnlockDb, CountLink,
                LinksDone, SubmitLink, Enqueue, PushBack, Uncount
  <2> QED BY <1>1, <1>3, <2>1, <2>2, RequestedFrame
<1> QED BY <1>4, <1>5

LEMMA KeptStep ==
  ASSUME CtlInv, DbInv, DbInv', DistinctWords, KeptInv, [Next]_vars, Watched
  PROVE  KeptInv'
<1>1. CountedInv /\ DocsInv /\ RequestedInv /\ lost \subseteq lost'
  BY DEF KeptInv, Watched
<1>2. ASSUME NEW w \in Worker, WorkerStep(w) PROVE CountedInv' /\ DocsInv'
  <2>1. CASE AddUrl(w) \/ AddUrlWord(w)
    BY <1>1, <2>1, DocsAddUrl, DocsAddUrlWord
  <2>2. CASE pc[w] = "check" /\ pc'[w] = "fetch"
    <3>1. Check(w)
      BY <1>2, <2>2, ThreadFacts DEF WorkerStep, Take, Begin, Check, Fetch, LockDb, Convert, AddUrl,
         GetWord, AddWord, AddUrlWord, UnlockDb, CountLink, LinksDone, SubmitLink, Enqueue, PushBack,
         Uncount, Complete
    <3>2. UNCHANGED <<docs, docs_words>>
      BY <3>1 DEF Check, get_id_url, Refused, dbVars, tables
    <3>3. \A v \in Worker \ {w} : Stays(v)
      BY <1>2, WorkerFrame
    <3>4. CountedInv'
      <4>1. \A v \in Worker : CountedAt(v)
        BY <1>1 DEF CountedInv, CountedAt
      <4>2. More
        <5>1. \A u \in Url, x \in Word : docs_words[<<u, x>>] \in Nat
          BY DEF DbInv, DbTypeOK
        <5> QED BY <3>2, <5>1 DEF More
      <4>3. \A v \in Worker \ {w} : CountedAt(v)'
        BY <1>1, <3>3, <4>1, <4>2, StaysKeeps, CountedKept
      <4>4. CountedAt(w)'
        BY <2>2 DEF CountedAt, WorkLocs
      <4> QED BY <4>3, <4>4 DEF CountedInv, CountedAt
    <3>5. DocsInv'
      <4> SUFFICES ASSUME NEW u \in docs PROVE Accounted(u)'
        BY <3>2 DEF DocsInv
      <4>1. Accounted(u)
        BY <1>1 DEF DocsInv
      <4>2. CASE AllThere(u) \/ u \in lost
        BY <1>1, <3>2, <4>2 DEF Accounted, AllThere
      <4>3. CASE \E v \in Worker : Storing(v, u)
        BY <2>2, <3>3, <4>3 DEF Accounted, Storing, Stays, SameTask, WorkLocs
      <4> QED BY <4>1, <4>2, <4>3 DEF Accounted
    <3> QED BY <3>4, <3>5
  <2>3. CASE ~(pc[w] = "check" /\ pc'[w] = "fetch") /\ ~AddUrl(w) /\ ~AddUrlWord(w)
    <3>1. /\ \A v \in Worker : Keeps(v)
          /\ UNCHANGED <<docs, docs_words>>
          /\ pc[w] \in WorkLocs => pc'[w] \in WorkLocs /\ url(w)' = url(w)
      BY <1>2, <2>3, QuietKeeps
    <3>2. \A v \in Worker \ {w} : pc[v] \in WorkLocs => pc'[v] \in WorkLocs /\ url(v)' = url(v)
      BY <1>2, WorkerFrame DEF Stays, SameTask, WorkLocs
    <3> QED BY <1>1, <3>1, <3>2, DocsFrame
  <2> QED BY <2>1, <2>2, <2>3
<1>3. CASE MainStep \/ UNCHANGED vars
  <2>1. /\ \A v \in Worker : Stays(v)
        /\ UNCHANGED <<docs, docs_words, fetched>>
    BY <1>3, MainFrame, StutterFrame
  <2>2. \A v \in Worker : Keeps(v) /\ (pc[v] \in WorkLocs => pc'[v] \in WorkLocs /\ url(v)' = url(v))
    BY <2>1, StaysKeeps DEF Stays, SameTask, WorkLocs
  <2>3. CountedInv' /\ DocsInv'
    BY <1>1, <2>1, <2>2, DocsFrame
  <2>4. RequestedInv'
    BY <1>1, <2>1, StaysIndexing, RequestedFrame DEF Requested
  <2> QED BY <2>3, <2>4 DEF KeptInv
<1>4. CASE Restart
  <2>1. UNCHANGED <<docs, docs_words>> /\ fetched' = {} /\ \A v \in Worker : pc'[v] = "idle"
    BY <1>4, ThreadFacts DEF Restart, Disconnect, BootPc
  <2>2. \A v \in Worker : Keeps(v) /\ (pc[v] \in WorkLocs => url(v) \in lost')
    BY <2>1 DEF Keeps, FreshLocs, WorkLocs, Loses, Watched
  <2>3. CountedInv' /\ DocsInv'
    BY <1>1, <2>1, <2>2, DocsFrame
  <2> QED BY <2>1, <2>3 DEF KeptInv, RequestedInv, Requested
<1> QED BY <1>2, <1>3, <1>4, RequestedWorker DEF KeptInv, Next, Terminated

LEMMA KeptInit == HInit => KeptInv
<1> SUFFICES ASSUME HInit PROVE KeptInv
  OBVIOUS
<1>1. docs = {} /\ fetched = {} /\ \A w \in Worker : pc[w] = "idle"
  BY ThreadFacts DEF HInit, Init, DbInit, BootPc
<1> QED BY <1>1 DEF KeptInv, CountedInv, DocsInv, RequestedInv, Requested, WorkLocs

LEMMA KeptAlways ==
  ASSUME DistinctWords
  PROVE  HSpec => [](CtlInv /\ DbInv /\ KeptInv)
<1> DEFINE Inv == CtlInv /\ DbInv /\ KeptInv
<1>1. HInit => Inv
  BY CtlInit, DbStart, KeptInit DEF HInit
<1>2. Inv /\ [HNext]_<<vars, history>> => Inv'
  <2> SUFFICES ASSUME Inv, [HNext]_<<vars, history>> PROVE Inv'
    OBVIOUS
  <2>1. [Next]_vars /\ Watched
    BY Watching
  <2>2. CtlInv' /\ DbInv'
    BY <2>1, CtlStep, DbStep
  <2> QED BY <2>1, <2>2, KeptStep
<1> QED BY <1>1, <1>2, PTL DEF HSpec

-----------------------------------------------------------------------------
(* Only a check whose statement finds the page in DOCS skips it.            *)
LEMMA FoundInDocs ==
  ASSUME CtlInv, [Next]_vars, NEW w \in Worker, pc[w] = "check", pc'[w] = "returned"
  PROVE  url(w) \in docs
<1>1. ~MainStep /\ ~UNCHANGED vars
  BY MainFrame DEF Stays, vars
<1>2. ~Restart
  BY ThreadFacts DEF Restart, BootPc
<1>3. PICK v \in Worker : WorkerStep(v)
  BY <1>1, <1>2 DEF Next, Terminated
<1>4. v = w
  BY <1>3, WorkerFrame DEF Stays
<1>5. Check(w)
  BY <1>3, <1>4, ThreadFacts DEF WorkerStep, Take, Begin, Fetch, LockDb, Convert, AddUrl, GetWord,
     AddWord, AddUrlWord, UnlockDb, CountLink, LinksDone, SubmitLink, Enqueue, PushBack,
     Uncount, Complete
<1>6. PICK r \in BOOLEAN :
        get_id_url(w, url(w), r) /\ Goto(w, IF r THEN "returned" ELSE "fetch")
  BY <1>5 DEF Check
<1>7. r
  BY <1>6, ThreadFacts DEF Goto, CtlInv, CrawlTypeOK
<1> QED BY <1>6, <1>7 DEF get_id_url

(* A page that get_id_url finds, in any run and with any number of threads, *)
(* has all its words, or another worker is adding them at this moment, or   *)
(* some have been lost.                                                    *)
THEOREM SkippedPagesAreStored ==
  ASSUME DistinctWords
  PROVE  HSpec => SkipMeansProcessed
<1>1. CtlInv /\ DbInv /\ KeptInv /\ [HNext]_<<vars, history>> =>
        [\A w \in Worker :
           pc[w] = "check" /\ pc'[w] = "returned" => Accounted(url(w))]_vars
  <2> SUFFICES ASSUME CtlInv, DbInv, KeptInv, [Next]_vars, NEW w \in Worker,
                      pc[w] = "check", pc'[w] = "returned"
               PROVE  Accounted(url(w))
    BY Watching
  <2> QED BY FoundInDocs DEF KeptInv, DocsInv
<1> QED BY <1>1, KeptAlways, PTL DEF HSpec, SkipMeansProcessed
=============================================================================
