---------------------------- MODULE SpiderProofs ----------------------------
(***************************************************************************)
(* Theorems about Spider, for any number of threads, any web and any       *)
(* outcome of requests and statements.                                     *)
(***************************************************************************)
EXTENDS Spider, FiniteSetTheorems, TLAPS

-----------------------------------------------------------------------------
LEMMA ThreadFacts ==
  /\ Main \in Thread /\ Main \notin Worker /\ Worker \subseteq Thread
  /\ Free \notin Thread /\ Worker \subseteq Int /\ NoTx \in Thread
BY SpiderAssumption DEF Main, Worker, Thread, Free

(* The control part of the invariant: everything but the database.         *)
CtlInv == PoolTypeOK /\ CrawlTypeOK /\ PcInv /\ RunInv /\ LoopInv /\ QueueInv

LEMMA SeqElement == \A S : \A s \in Seq(S) : \A i \in 1..Len(s) : s[i] \in S
OBVIOUS

(* What the actions read of a task is defined.                             *)
LEMMA TaskFacts ==
  ASSUME CtlInv, NEW w \in Worker, pc[w] # "idle"
  PROVE  /\ running[w] \in 1..Len(tasks)
         /\ url(w) \in Url /\ depth(w) \in 1..DepthLimit
<1>1. running[w] \in 1..Len(tasks)
  BY DEF CtlInv, RunInv, PoolTypeOK, NoTask
<1>2. tasks[running[w]] \in [url : Url, depth : 1..DepthLimit]
  BY <1>1, SeqElement DEF CtlInv, PoolTypeOK
<1>3. QED
  BY <1>1, <1>2 DEF url, depth

LEMMA CtlInit == Init => CtlInv
<1> SUFFICES ASSUME Init PROVE CtlInv
  OBVIOUS
<1>1. tasks = << >> /\ Len(tasks) = 0 /\ tasks \in Seq([url : Url, depth : 1..DepthLimit])
  BY DEF Init
<1>2. PoolTypeOK
  <2>1. pending = << >> /\ pending \in Seq(1..Len(tasks))
    BY DEF Init, Pool!Init
  <2>2. running \in [Worker -> 0..Len(tasks)]
    BY <1>1 DEF Init, Pool!Init, NoTask
  <2>3. /\ finished \subseteq 1..Len(tasks) /\ thrown \subseteq finished
        /\ closed \in BOOLEAN /\ down \in BOOLEAN
    BY DEF Init, Pool!Init
  <2>4. QED
    BY <1>1, <2>1, <2>2, <2>3 DEF PoolTypeOK
<1>3. CrawlTypeOK
  BY <1>1, ThreadFacts, SpiderAssumption
     DEF Init, BootPc, CrawlTypeOK, Locations, MainLocs
<1>4. PcInv /\ RunInv /\ LoopInv /\ QueueInv
  BY <1>1, ThreadFacts
     DEF Init, Pool!Init, BootPc, PcInv, MainLocs, RunInv, LoopInv, LoopAt,
         QueueInv, WorkLocs, LinkLocs, NoTask, Free
<1>5. QED
  BY <1>2, <1>3, <1>4 DEF CtlInv

(* A step that moves worker w inside task() and touches neither the pool   *)
(* nor results.                                                            *)
LEMMA TaskMove ==
  ASSUME CtlInv, NEW w \in Worker, NEW l \in TaskLocs \ {"push_back"},
         pc[w] \notin {"idle", "push_back"}, Goto(w, l),
         UNCHANGED <<poolVars, taskVars, queue_mutex, got, thrown, runs>>,
         active_tasks' \in Int, mtx_db' \in Worker \cup {Free},
         index' \in [Worker -> Nat], word_id' \in [Worker -> BOOLEAN],
         fetched' \subseteq Url \X (1..DepthLimit),
         \A v \in Worker \ {w} : index'[v] = index[v],
         LoopAt(w)'
  PROVE  CtlInv'
<1> USE ThreadFacts DEF CtlInv
<1>1. /\ pc' \in [Thread -> Locations] /\ pc'[w] = l
      /\ \A t \in Thread \ {w} : pc'[t] = pc[t]
  BY DEF Goto, CrawlTypeOK, Locations
<1>2. PoolTypeOK'
  BY DEF PoolTypeOK, poolVars, taskVars
<1>3. CrawlTypeOK'
  BY <1>1 DEF CrawlTypeOK, taskVars
<1>4. PcInv'
  BY <1>1 DEF PcInv
<1>5. RunInv'
  BY <1>1 DEF RunInv, poolVars, TaskLocs, DbCalls, LinkLocs
<1>6. QueueInv'
  BY <1>1 DEF QueueInv, taskVars
<1>7. LoopInv'
  BY <1>1 DEF LoopInv, LoopAt, url, depth, poolVars, taskVars
<1>8. QED
  BY <1>2, <1>3, <1>4, <1>5, <1>6, <1>7

(* A step that moves the main thread and touches neither tasks nor results. *)
LEMMA MainMove ==
  ASSUME CtlInv, NEW l \in MainLocs \ {"push_back"},
         pc[Main] # "push_back", Goto(Main, l), PoolTypeOK',
         UNCHANGED <<running, loopVars, taskVars, queue_mutex, mtx_db, runs, fetched>>,
         active_tasks' \in Int, got' \in 0..results
  PROVE  CtlInv'
<1> USE ThreadFacts DEF CtlInv
<1>1. /\ pc' \in [Thread -> Locations] /\ pc'[Main] = l
      /\ \A t \in Thread \ {Main} : pc'[t] = pc[t]
  BY DEF Goto, CrawlTypeOK, Locations
<1>3. CrawlTypeOK'
  BY <1>1 DEF CrawlTypeOK, taskVars, loopVars
<1>4. PcInv' /\ RunInv'
  BY <1>1 DEF PcInv, RunInv
<1>6. QueueInv'
  BY <1>1 DEF QueueInv, taskVars
<1>7. LoopInv'
  BY <1>1 DEF LoopInv, LoopAt, url, depth, loopVars, taskVars
<1>8. QED
  BY <1>3, <1>4, <1>6, <1>7

(* The steps of task() that are covered by TaskMove.                       *)
TaskStep(w) ==
  \/ Check(w) \/ Fetch(w) \/ LockDb(w) \/ Convert(w) \/ AddUrl(w) \/ GetWord(w)
  \/ AddWord(w) \/ AddUrlWord(w) \/ UnlockDb(w)
  \/ CountLink(w) \/ LinksDone(w) \/ Uncount(w)

LEMMA TaskStepInv ==
  ASSUME CtlInv, NEW w \in Worker, TaskStep(w)
  PROVE  CtlInv'
<1> USE DEF TaskLocs, DbCalls, LinkLocs, WorkLocs, poolVars, taskVars, loopVars, histVars
<1>0. /\ CrawlTypeOK /\ LoopAt(w)
      /\ index \in [Worker -> Nat] /\ word_id \in [Worker -> BOOLEAN]
      /\ pc \in [Thread -> Locations] /\ w \in Thread
  BY ThreadFacts DEF CtlInv, LoopInv, CrawlTypeOK
<1>00. /\ pc[w] # "idle" => url(w) \in Url /\ depth(w) \in 1..DepthLimit
       /\ pc[w] # "idle" => Len(Words[url(w)]) \in Nat
       /\ pc[w] # "idle" /\ Words[url(w)] # << >> => Len(Words[url(w)]) > 0
       /\ pc[w] # "idle" => Replies[url(w)] \subseteq {"page", "empty", "other", "throw", "hang"}
  BY TaskFacts, SpiderAssumption
<1> USE <1>0, <1>00 DEF LoopAt
<1>1. CASE Check(w)
  <2>1. PICK l \in {"returned", "fetch"} : Goto(w, l)
    BY <1>1 DEF Check
  <2>2. LoopAt(w)'
    BY <1>1, <2>1 DEF Check, Goto
  <2>3. QED
    BY TaskMove, <1>1, <2>1, <2>2 DEF CrawlTypeOK, Check
<1>2. CASE Fetch(w)
  <2>1. PICK l \in {"lock", "returned", "thrown", "hung"} : Goto(w, l)
    BY <1>2 DEF Fetch
  <2>2. LoopAt(w)'
    BY <1>2, <2>1 DEF Fetch, Goto
  <2>3. fetched' \subseteq Url \X (1..DepthLimit)
    BY <1>2 DEF Fetch, CrawlTypeOK
  <2>4. QED
    BY TaskMove, <1>2, <2>1, <2>2, <2>3 DEF CrawlTypeOK, Fetch
<1>3. CASE LockDb(w)
  <2>1. PICK l \in {"convert", "unlock"} :
          Goto(w, l) /\ (l = "convert" => Words[url(w)] # << >>)
    BY <1>3 DEF LockDb
  <2>2. LoopAt(w)'
    BY <1>3, <2>1 DEF LockDb, Goto, url
  <2>3. QED
    BY TaskMove, <1>3, <2>1, <2>2 DEF CrawlTypeOK, LockDb
<1>4. CASE Convert(w)
  <2>1. PICK l \in {"thrown", "add_url"} : Goto(w, l)
    BY <1>4 DEF Convert
  <2>2. LoopAt(w)'
    BY <1>4, <2>1 DEF Convert, Goto, url
  <2>3. QED
    BY TaskMove, <1>4, <2>1, <2>2 DEF CrawlTypeOK, Convert
<1>5. CASE AddUrl(w)
  <2>1. PICK l \in {"get_word", "unlock"} : Goto(w, l)
    BY <1>5 DEF AddUrl
  <2>2. LoopAt(w)'
    <3>1. index'[w] = 1 /\ Len(Words[url(w)]) \in Nat \ {0}
      BY <1>5 DEF AddUrl
    <3>2. QED
      BY <1>5, <2>1, <3>1 DEF AddUrl, Goto, url
  <2>3. QED
    BY TaskMove, <1>5, <2>1, <2>2 DEF CrawlTypeOK, AddUrl
<1>6. CASE GetWord(w)
  <2>1. PICK l \in {"add_url_word", "add_word"} : Goto(w, l)
    BY <1>6 DEF GetWord
  <2>2. LoopAt(w)'
    BY <1>6, <2>1 DEF GetWord, Goto, url
  <2>3. word_id' \in [Worker -> BOOLEAN]
    BY <1>6 DEF GetWord
  <2>4. QED
    BY TaskMove, <1>6, <2>1, <2>2, <2>3 DEF CrawlTypeOK, GetWord
<1>7. CASE AddWord(w)
  <2>1. word_id' \in [Worker -> BOOLEAN]
    BY <1>7 DEF AddWord
  <2>2. /\ pc'[w] = "add_url_word" /\ index[w] \in 1..Len(Words[url(w)])
        /\ Words[url(w)]' = Words[url(w)] /\ index' = index
    BY <1>7 DEF AddWord, Goto, url
  <2>3. LoopAt(w)'
    BY <2>2
  <2>4. QED
    BY TaskMove, <1>7, <2>1, <2>3 DEF CrawlTypeOK, AddWord
<1>8. CASE AddUrlWord(w)
  <2>1. PICK l \in {"get_word", "unlock"} :
          Goto(w, l) /\ (l = "get_word" => index[w] < Len(Words[url(w)]))
    BY <1>8 DEF AddUrlWord
  <2>2. /\ index' \in [Worker -> Nat] /\ index'[w] = index[w] + 1
        /\ \A v \in Worker \ {w} : index'[v] = index[v]
    BY <1>8 DEF AddUrlWord
  <2>3. Len(Words[url(w)]) \in Nat /\ Words[url(w)]' = Words[url(w)]
    BY <1>8 DEF AddUrlWord, url
  <2>4. /\ pc'[w] = l /\ index[w] \in 1..Len(Words[url(w)])
        /\ l = "get_word" => index'[w] \in 1..Len(Words[url(w)])
    BY <1>8, <2>1, <2>2, <2>3 DEF AddUrlWord, Goto
  <2>5. LoopAt(w)'
    BY <2>3, <2>4
  <2>6. QED
    BY TaskMove, <1>8, <2>1, <2>2, <2>5 DEF CrawlTypeOK, AddUrlWord
<1>9. CASE UnlockDb(w)
  <2>1. PICK l \in {"links", "returned"} :
          Goto(w, l) /\ (l = "links" => depth(w) < search_depth)
    BY <1>9 DEF UnlockDb
  <2>2. /\ pc'[w] = l /\ index' \in [Worker -> Nat] /\ index'[w] = 1
        /\ depth(w)' = depth(w)
    BY <1>9, <2>1 DEF UnlockDb, Goto, depth
  <2>3. LoopAt(w)'
    BY <2>1, <2>2
  <2>4. QED
    BY TaskMove, <1>9, <2>1, <2>2, <2>3 DEF CrawlTypeOK, UnlockDb
<1>10. CASE CountLink(w)
  <2>1. active_tasks' \in Int
    BY <1>10 DEF CountLink, CrawlTypeOK
  <2>2. LoopAt(w)'
    BY <1>10 DEF CountLink, Goto, url, depth
  <2>3. QED
    BY TaskMove, <1>10, <2>1, <2>2 DEF CrawlTypeOK, CountLink
<1>11. CASE LinksDone(w)
  <2>2. LoopAt(w)'
    BY <1>11 DEF LinksDone, Goto, url, depth
  <2>3. QED
    BY TaskMove, <1>11, <2>2 DEF CrawlTypeOK, LinksDone
<1>12. CASE Uncount(w)
  <2>1. Goto(w, "complete") /\ pc'[w] = "complete"
    BY <1>12 DEF Uncount, Goto
  <2>2. LoopAt(w)'
    BY <2>1
  <2>3. active_tasks' \in Int
    BY <1>12 DEF Uncount, CrawlTypeOK
  <2>4. QED
    BY TaskMove, <1>12, <2>1, <2>2, <2>3 DEF CrawlTypeOK, Uncount
<1>13. QED
  BY <1>1, <1>2, <1>3, <1>4, <1>5, <1>6, <1>7, <1>8, <1>9, <1>10, <1>11,
     <1>12 DEF TaskStep

(* The steps of main() that are covered by MainMove.                       *)
MainMoves ==
  Construct \/ CountFirst \/ AllCounted \/ GetResult \/ WorkReturn
  \/ DestroyPool \/ Destroyed

LEMMA MainStepInv ==
  ASSUME CtlInv, MainMoves
  PROVE  CtlInv'
<1> USE ThreadFacts, MainMove DEF MainLocs, poolVars, taskVars, loopVars, histVars
<1>0. CrawlTypeOK /\ PoolTypeOK
  BY DEF CtlInv
<1>a. UNCHANGED <<tasks, pending, running, finished, thrown>>
        /\ closed' \in BOOLEAN /\ down' \in BOOLEAN => PoolTypeOK'
  BY <1>0 DEF PoolTypeOK
<1> USE <1>0, <1>a DEF CrawlTypeOK
<1>1. CASE Construct
  <2>1. PoolTypeOK'
    BY <1>1 DEF Construct, PoolTypeOK
  <2>2. QED
    BY <1>1, <2>1 DEF Construct
<1>2. CASE CountFirst
  <2>1. PoolTypeOK'
    BY <1>2 DEF CountFirst, PoolTypeOK
  <2>2. active_tasks' \in Int
    BY <1>2 DEF CountFirst
  <2>3. QED
    BY <1>2, <2>1, <2>2 DEF CountFirst
<1>3. CASE AllCounted
  <2>1. PoolTypeOK'
    BY <1>3 DEF AllCounted, PoolTypeOK
  <2>2. QED
    BY <1>3, <2>1 DEF AllCounted
<1>4. CASE GetResult
  <2>1. PoolTypeOK'
    BY <1>4 DEF GetResult, PoolTypeOK
  <2>2. PICK l \in {"destroy", "get"} : Goto(Main, l)
    BY <1>4 DEF GetResult
  <2>3. got' \in 0..results
    BY <1>4 DEF GetResult
  <2>4. QED
    BY <1>4, <2>1, <2>2, <2>3 DEF GetResult
<1>5. CASE WorkReturn
  <2>1. PoolTypeOK'
    BY <1>5 DEF WorkReturn, PoolTypeOK
  <2>2. QED
    BY <1>5, <2>1 DEF WorkReturn
<1>6. CASE DestroyPool
  <2>1. PoolTypeOK'
    BY <1>6 DEF DestroyPool, Pool!Close, PoolTypeOK
  <2>2. QED
    BY <1>6, <2>1 DEF DestroyPool, Pool!Close
<1>7. CASE Destroyed
  <2>1. PoolTypeOK'
    BY <1>7 DEF Destroyed, Pool!ShutDown, PoolTypeOK
  <2>2. QED
    BY <1>7, <2>1 DEF Destroyed, Pool!ShutDown
<1>8. QED
  BY <1>1, <1>2, <1>3, <1>4, <1>5, <1>6, <1>7 DEF MainMoves

(* LoopInv when worker w starts or ends a task.                            *)
LEMMA LoopFrame ==
  ASSUME LoopInv, NEW w \in Worker, pc'[w] \in {"idle", "check"},
         UNCHANGED <<tasks, index>>,
         \A v \in Worker \ {w} : pc'[v] = pc[v] /\ running'[v] = running[v]
  PROVE  LoopInv'
<1> SUFFICES ASSUME NEW v \in Worker PROVE LoopAt(v)'
  BY DEF LoopInv
<1>1. CASE v = w
  BY <1>1 DEF LoopAt, WorkLocs, LinkLocs
<1>2. CASE v # w
  <2>1. url(v)' = url(v) /\ depth(v)' = depth(v) /\ pc'[v] = pc[v]
    BY <1>2 DEF url, depth
  <2>2. QED
    BY <2>1 DEF LoopInv, LoopAt
<1>3. QED
  BY <1>1, <1>2

(* A worker takes a task from the queue, or ends the one it executes.      *)
LEMMA TakeInv ==
  ASSUME CtlInv, NEW w \in Worker, Take(w)
  PROVE  CtlInv'
<1> USE ThreadFacts DEF CtlInv
<1>1. /\ pc' \in [Thread -> Locations] /\ pc'[w] = "check"
      /\ \A t \in Thread \ {w} : pc'[t] = pc[t]
  BY DEF Take, Goto, CrawlTypeOK, Locations, TaskLocs, DbCalls
<1>2. Len(pending) > 0 /\ pending \in Seq(1..Len(tasks))
  BY DEF Take, Pool!Take, PoolTypeOK
<1>3. Head(pending) \in 1..Len(tasks) /\ Tail(pending) \in Seq(1..Len(tasks))
  BY <1>2
<1>4. running' = [running EXCEPT ![w] = Head(pending)] /\ pending' = Tail(pending)
  BY DEF Take, Pool!Take
<1>5. PoolTypeOK'
  <2>1. UNCHANGED <<tasks, finished, thrown, closed, down>>
    BY DEF Take, Pool!Take, taskVars, histVars
  <2>2. running' \in [Worker -> 0..Len(tasks)]
    BY <1>3, <1>4, SMTT(30) DEF PoolTypeOK
  <2>3. QED
    BY <1>3, <1>4, <2>1, <2>2 DEF PoolTypeOK
<1>6. CrawlTypeOK'
  BY <1>1 DEF Take, CrawlTypeOK, taskVars, loopVars, histVars
<1>7. PcInv'
  BY <1>1 DEF PcInv, TaskLocs, DbCalls
<1>8. RunInv'
  <2>1. /\ running'[w] = Head(pending) /\ Head(pending) # NoTask
        /\ \A v \in Worker \ {w} : running'[v] = running[v]
    BY <1>3, <1>4 DEF PoolTypeOK, NoTask
  <2>2. QED
    BY <1>1, <2>1 DEF RunInv
<1>9. QueueInv'
  BY <1>1 DEF Take, QueueInv, taskVars
<1>10. LoopInv'
  BY <1>1, <1>4, LoopFrame DEF Take, taskVars, loopVars, PoolTypeOK
<1>11. QED
  BY <1>5, <1>6, <1>7, <1>8, <1>9, <1>10

LEMMA CompleteInv ==
  ASSUME CtlInv, NEW w \in Worker, Complete(w)
  PROVE  CtlInv'
<1> USE ThreadFacts DEF CtlInv
<1>1. /\ pc' \in [Thread -> Locations] /\ pc'[w] = "idle"
      /\ \A t \in Thread \ {w} : pc'[t] = pc[t]
  BY DEF Complete, Goto, CrawlTypeOK, Locations
<1>2. /\ running' = [running EXCEPT ![w] = NoTask]
      /\ finished' = finished \cup {running[w]}
      /\ UNCHANGED <<pending, closed, down>>
  BY DEF Complete, Pool!Finish
<1>3. running[w] \in 1..Len(tasks)
  BY TaskFacts DEF Complete
<1>4. PoolTypeOK'
  <2>1. Len(tasks) \in Nat /\ NoTask \in 0..Len(tasks)
    BY DEF PoolTypeOK, NoTask
  <2>2. running' \in [Worker -> 0..Len(tasks)]
    BY <1>2, <2>1 DEF PoolTypeOK
  <2>3. finished' \subseteq 1..Len(tasks) /\ thrown' \subseteq finished'
    BY <1>2, <1>3 DEF Complete, PoolTypeOK
  <2>4. QED
    BY <1>2, <2>2, <2>3 DEF Complete, PoolTypeOK, taskVars
<1>5. CrawlTypeOK'
  BY <1>1 DEF Complete, CrawlTypeOK, taskVars, loopVars
<1>6. PcInv'
  BY <1>1 DEF PcInv
<1>7. RunInv'
  BY <1>1, <1>2 DEF RunInv, PoolTypeOK
<1>8. QueueInv'
  BY <1>1 DEF Complete, QueueInv, taskVars
<1>9. LoopInv'
  BY <1>1, <1>2, LoopFrame DEF Complete, taskVars, loopVars, PoolTypeOK
<1>10. QED
  BY <1>4, <1>5, <1>6, <1>7, <1>8, <1>9

(* The two halves of the section under queue_mutex.                        *)
LEMMA EnqueueInv ==
  ASSUME CtlInv, NEW t \in Thread,
         NEW task \in [url : Url, depth : 1..DepthLimit], Enqueue(t, task)
  PROVE  CtlInv'
<1> USE ThreadFacts DEF CtlInv
<1>1. /\ pc[t] = "submit" /\ pc' \in [Thread -> Locations] /\ pc'[t] = "push_back"
      /\ \A u \in Thread \ {t} : pc'[u] = pc[u]
  BY DEF Enqueue, Goto, CrawlTypeOK, Locations, TaskLocs, LinkLocs
<1>2. /\ tasks' \in Seq([url : Url, depth : 1..DepthLimit])
      /\ Len(tasks) \in Nat /\ Len(tasks') = Len(tasks) + 1
      /\ \A i \in 1..Len(tasks) : tasks'[i] = tasks[i]
  BY DEF Enqueue, PoolTypeOK
<1>3. /\ pending' = Append(pending, Len(tasks'))
      /\ UNCHANGED <<running, finished, closed, down>>
  BY <1>2 DEF Enqueue, Pool!Submit
<1>4. PoolTypeOK'
  <2>1. pending \in Seq(1..Len(tasks')) /\ Len(tasks') \in 1..Len(tasks')
    BY <1>2 DEF PoolTypeOK
  <2>2. pending' \in Seq(1..Len(tasks'))
    BY <1>3, <2>1
  <2>3. QED
    BY <1>2, <1>3, <2>2 DEF Enqueue, PoolTypeOK, histVars
<1>5. CrawlTypeOK'
  BY <1>1, <1>2 DEF Enqueue, CrawlTypeOK, loopVars, histVars
<1>6. PcInv'
  BY <1>1 DEF PcInv, MainLocs, TaskLocs, LinkLocs
<1>7. RunInv'
  BY <1>1, <1>3 DEF RunInv
<1>8. QueueInv'
  BY <1>1, <1>2 DEF Enqueue, QueueInv, CrawlTypeOK
<1>9. LoopInv'
  <2> SUFFICES ASSUME NEW v \in Worker PROVE LoopAt(v)'
    BY DEF LoopInv
  <2>1. CASE pc[v] = "idle"
    BY <1>1, <2>1 DEF LoopAt, WorkLocs, LinkLocs
  <2>2. CASE pc[v] # "idle"
    <3>1. url(v)' = url(v) /\ depth(v)' = depth(v) /\ index'[v] = index[v]
      <4>1. running[v] \in 1..Len(tasks) /\ running'[v] = running[v]
        BY <1>3, <2>2, TaskFacts
      <4>2. QED
        BY <1>2, <4>1 DEF Enqueue, url, depth, loopVars
    <3>2. pc'[v] = pc[v] \/ (pc[v] = "submit" /\ pc'[v] = "push_back")
      BY <1>1
    <3>3. LoopAt(v)
      BY DEF LoopInv
    <3>4. CASE pc'[v] = pc[v]
      BY <3>1, <3>3, <3>4 DEF LoopAt
    <3>5. CASE pc[v] = "submit" /\ pc'[v] = "push_back"
      BY <3>1, <3>3, <3>5 DEF LoopAt, WorkLocs, LinkLocs
    <3>6. QED
      BY <3>2, <3>4, <3>5
  <2>3. QED
    BY <2>1, <2>2
<1>10. QED
  BY <1>4, <1>5, <1>6, <1>7, <1>8, <1>9

LEMMA SubmitInv ==
  ASSUME CtlInv, SubmitFirst \/ \E w \in Worker : SubmitLink(w)
  PROVE  CtlInv'
<1>1. CASE SubmitFirst
  <2>1. 1 \in 1..DepthLimit /\ start_url \in Url
    BY SpiderAssumption DEF DepthLimit
  <2>2. QED
    BY <1>1, <2>1, EnqueueInv, ThreadFacts DEF SubmitFirst
<1>2. ASSUME NEW w \in Worker, SubmitLink(w) PROVE CtlInv'
  <2>1. pc[w] = "submit" /\ depth(w) \in 1..DepthLimit /\ url(w) \in Url
    BY <1>2, TaskFacts DEF SubmitLink, Enqueue
  <2>2. depth(w) < search_depth /\ index[w] \in 1..Len(Links[url(w)])
    BY <2>1 DEF CtlInv, LoopInv, LoopAt, LinkLocs
  <2>3. depth(w) + 1 \in 1..DepthLimit
    BY <2>1, <2>2, SpiderAssumption DEF DepthLimit
  <2>4. Links[url(w)] \in Seq(Url)
    BY <2>1, SpiderAssumption
  <2>5. Links[url(w)][index[w]] \in Url
    BY <2>2, <2>4, SeqElement
  <2>6. QED
    BY <1>2, <2>3, <2>5, EnqueueInv, ThreadFacts DEF SubmitLink
<1>3. QED
  BY <1>1, <1>2

LEMMA PushInv ==
  ASSUME CtlInv, PushFirst \/ \E w \in Worker : PushBack(w)
  PROVE  CtlInv'
<1> USE ThreadFacts DEF CtlInv
<1>1. PICK t \in Thread, l \in {"wait", "links"} :
        /\ pc[t] = "push_back" /\ Goto(t, l)
        /\ l = "wait" <=> t = Main
        /\ t # Main => index' = [index EXCEPT ![t] = @ + 1]
        /\ t = Main => index' = index
  BY DEF PushFirst, PushBack, loopVars
<1>2. /\ results' = results + 1 /\ queue_mutex' = Free
      /\ UNCHANGED <<poolVars, histVars, tasks, active_tasks, mtx_db, got, word_id>>
  BY DEF PushFirst, PushBack, loopVars
<1>3. /\ pc' \in [Thread -> Locations] /\ pc'[t] = l
      /\ \A u \in Thread \ {t} : pc'[u] = pc[u]
  BY <1>1 DEF Goto, CrawlTypeOK, Locations, MainLocs, TaskLocs, LinkLocs
<1>4. queue_mutex = t /\ Len(tasks) = results + 1 /\ results \in Nat
  BY <1>1 DEF QueueInv, CrawlTypeOK, PoolTypeOK
<1>5. PoolTypeOK'
  BY <1>2 DEF PoolTypeOK, poolVars, histVars
<1>6. CrawlTypeOK'
  <2>1. results' \in 0..Len(tasks') /\ got' \in 0..results'
    BY <1>2, <1>4 DEF CrawlTypeOK
  <2>2. index' \in [Worker -> Nat]
    BY <1>1 DEF CrawlTypeOK
  <2>3. QED
    BY <1>2, <1>3, <2>1, <2>2 DEF CrawlTypeOK, histVars
<1>7. PcInv'
  BY <1>1, <1>3 DEF PcInv, MainLocs, TaskLocs, LinkLocs, Thread
<1>8. RunInv'
  BY <1>1, <1>2, <1>3 DEF RunInv, poolVars
<1>9. QueueInv'
  BY <1>1, <1>2, <1>3, <1>4 DEF QueueInv
<1>10. LoopInv'
  <2> SUFFICES ASSUME NEW v \in Worker PROVE LoopAt(v)'
    BY DEF LoopInv
  <2>1. url(v)' = url(v) /\ depth(v)' = depth(v)
    BY <1>2 DEF url, depth, poolVars
  <2>2. CASE v # t
    BY <1>1, <1>3, <2>1, <2>2 DEF LoopInv, LoopAt, CrawlTypeOK
  <2>3. CASE v = t
    <3>1. index[v] \in Nat /\ index'[v] = index[v] + 1 /\ depth(v) < search_depth
      BY <1>1, <2>3 DEF LoopInv, LoopAt, CrawlTypeOK, LinkLocs
    <3>2. pc'[v] = "links"
      BY <1>1, <1>3, <2>3
    <3>3. QED
      BY <2>1, <3>1, <3>2 DEF LoopAt, WorkLocs
  <2>4. QED
    BY <2>2, <2>3
<1>11. QED
  BY <1>5, <1>6, <1>7, <1>8, <1>9, <1>10

LEMMA RestartInv ==
  ASSUME CtlInv, Restart
  PROVE  CtlInv'
<1> USE ThreadFacts DEF CtlInv
<1>1. /\ tasks' = << >> /\ Len(tasks') = 0 /\ results' = 0 /\ pending' = << >>
      /\ finished' = {} /\ thrown' = {} /\ fetched' = {} /\ got' = 0
      /\ running' = [w \in Worker |-> NoTask] /\ pc' = BootPc
      /\ queue_mutex' = Free /\ mtx_db' = Free /\ active_tasks' = 0
  BY DEF Restart
<1>2. PoolTypeOK'
  <2>1. /\ tasks' \in Seq([url : Url, depth : 1..DepthLimit])
        /\ pending' \in Seq(1..Len(tasks'))
    BY <1>1
  <2>2. running' \in [Worker -> 0..Len(tasks')]
    BY <1>1 DEF NoTask
  <2>3. closed' \in BOOLEAN /\ down' \in BOOLEAN
    BY DEF Restart
  <2>4. QED
    BY <1>1, <2>1, <2>2, <2>3 DEF PoolTypeOK
<1>3. pc' \in [Thread -> Locations] /\ runs' \in 1..MaxRuns
  BY <1>1, SpiderAssumption DEF Restart, BootPc, Locations, MainLocs, CrawlTypeOK
<1>4. CrawlTypeOK'
  BY <1>1, <1>3 DEF Restart, CrawlTypeOK
<1>5. PcInv' /\ RunInv' /\ LoopInv' /\ QueueInv'
  BY <1>1 DEF BootPc, PcInv, MainLocs, RunInv, LoopInv, LoopAt,
     QueueInv, WorkLocs, LinkLocs, NoTask, Free
<1>6. QED
  BY <1>2, <1>4, <1>5

LEMMA CtlStutter ==
  ASSUME CtlInv,
         UNCHANGED <<poolVars, loopVars, taskVars, histVars, active_tasks,
                     queue_mutex, mtx_db, pc, got>>
  PROVE  CtlInv'
<1> USE DEF poolVars, loopVars, taskVars, histVars
<1>1. PoolTypeOK' /\ CrawlTypeOK'
  BY DEF CtlInv, PoolTypeOK, CrawlTypeOK
<1>2. PcInv' /\ RunInv' /\ QueueInv'
  BY DEF CtlInv, PcInv, RunInv, QueueInv
<1>3. LoopInv'
  BY DEF CtlInv, LoopInv, LoopAt, url, depth
<1>4. QED
  BY <1>1, <1>2, <1>3 DEF CtlInv

LEMMA CtlStep == CtlInv /\ [Next]_vars => CtlInv'
<1> SUFFICES ASSUME CtlInv, [Next]_vars PROVE CtlInv'
  OBVIOUS
<1>1. ASSUME NEW w \in Worker, WorkerStep(w) PROVE CtlInv'
  <2>1. CASE TaskStep(w)
    BY <2>1, TaskStepInv
  <2>2. CASE Begin(w)
    BY <2>2, CtlStutter DEF Begin
  <2>3. CASE Take(w)
    BY <2>3, TakeInv
  <2>4. CASE SubmitLink(w)
    BY <2>4, SubmitInv
  <2>5. CASE PushBack(w)
    BY <2>5, PushInv
  <2>6. CASE Complete(w)
    BY <2>6, CompleteInv
  <2>7. QED
    BY <1>1, <2>1, <2>2, <2>3, <2>4, <2>5, <2>6 DEF WorkerStep, TaskStep
<1>2. CASE MainStep
  BY <1>2, MainStepInv, SubmitInv, PushInv DEF MainStep, MainMoves
<1>3. CASE Restart
  BY <1>3, RestartInv
<1>4. CASE UNCHANGED vars
  BY <1>4, CtlStutter DEF vars
<1>5. QED
  BY <1>1, <1>2, <1>3, <1>4 DEF Next, Terminated

-----------------------------------------------------------------------------
(* The database part of the invariant.                                     *)
DbInv == DbTypeOK /\ Integrity /\ HeldInv

LEMMA WordFacts ==
  ASSUME CtlInv, NEW w \in Worker, pc[w] \in WorkLocs
  PROVE  /\ word(w) \in Word \X (Nat \ {0})
         /\ word(w)[1] \in Word /\ word(w)[2] \in Nat \ {0}
<1>1. url(w) \in Url
  BY TaskFacts DEF WorkLocs
<1>2. Words[url(w)] \in Seq(Word \X (Nat \ {0})) /\ index[w] \in 1..Len(Words[url(w)])
  BY <1>1, SpiderAssumption DEF CtlInv, LoopInv, LoopAt
<1>3. word(w) \in Word \X (Nat \ {0})
  BY <1>2, SeqElement DEF word
<1>4. QED
  BY <1>3

(* What a worker has established about the tables stays true while rows    *)
(* are only added and the worker does not move.                            *)
LEMMA HeldFrame ==
  ASSUME CtlInv, NEW v \in Worker, HeldAt(v),
         docs \subseteq docs', words \subseteq words',
         \A i \in 1..Len(tasks) : tasks'[i] = tasks[i],
         pc'[v] \in WorkLocs =>
           UNCHANGED <<pc[v], running[v], index[v], word_id[v]>>
  PROVE  HeldAt(v)'
<1> SUFFICES ASSUME pc'[v] \in WorkLocs PROVE HeldAt(v)'
  BY DEF HeldAt, WorkLocs
<1>1. running[v] \in 1..Len(tasks)
  BY TaskFacts DEF WorkLocs
<1>2. url(v)' = url(v)
  BY <1>1 DEF url
<1>3. word(v)' = word(v)
  BY <1>2 DEF word
<1>4. QED
  BY <1>2, <1>3 DEF HeldAt

(* A step that changes no table.                                           *)
LEMMA DbFrame ==
  ASSUME CtlInv, DbInv, UNCHANGED tables, connected' \in BOOLEAN,
         tx' \in Thread, faults' \in 0..MaxFaults,
         \A i \in 1..Len(tasks) : tasks'[i] = tasks[i],
         \A v \in Worker : pc'[v] \in WorkLocs =>
           UNCHANGED <<pc[v], running[v], index[v], word_id[v]>>
  PROVE  DbInv'
<1>1. DbTypeOK' /\ Integrity'
  BY DEF DbInv, DbTypeOK, Integrity, tables
<1>2. HeldInv'
  BY HeldFrame DEF DbInv, HeldInv, tables
<1>3. QED
  BY <1>1, <1>2 DEF DbInv

(* The steps of worker w that leave the database alone.                    *)
LEMMA DbIdleStep ==
  ASSUME CtlInv, DbInv, NEW w \in Worker,
         \/ Take(w) \/ Fetch(w) \/ LockDb(w) \/ Convert(w) \/ UnlockDb(w)
         \/ CountLink(w) \/ LinksDone(w) \/ SubmitLink(w) \/ PushBack(w)
         \/ Uncount(w) \/ Complete(w)
  PROVE  DbInv'
<1> USE DEF taskVars, loopVars, poolVars
<1>0. UNCHANGED dbVars
  BY DEF Take, Fetch, LockDb, Convert, UnlockDb, CountLink, LinksDone,
         SubmitLink, Enqueue, PushBack, Uncount, Complete
<1>1. UNCHANGED word_id /\ \A v \in Worker \ {w} : UNCHANGED <<index[v], running[v]>>
  BY DEF Take, Pool!Take, Fetch, LockDb, Convert, UnlockDb, CountLink, LinksDone,
         SubmitLink, Enqueue, Pool!Submit, PushBack, Uncount, Complete, Pool!Finish,
         CtlInv, PoolTypeOK, CrawlTypeOK
<1>2. PICK l \in Locations \ WorkLocs : Goto(w, l)
  <2>1. PICK l \in {"idle", "check", "lock", "hung", "convert", "add_url", "unlock",
                    "links", "submit", "push_back", "returned", "thrown",
                    "complete"} : Goto(w, l)
    <3>1. CASE Take(w)
      BY <3>1 DEF Take
    <3>2. CASE SubmitLink(w)
      BY <3>2 DEF SubmitLink, Enqueue
    <3>3. CASE PushBack(w)
      BY <3>3 DEF PushBack
    <3>4. CASE Uncount(w)
      BY <3>4 DEF Uncount
    <3>5. CASE Complete(w)
      BY <3>5 DEF Complete
    <3>6. CASE Fetch(w)
      <4>1. PICK l \in {"lock", "returned", "thrown", "hung"} : Goto(w, l)
        BY <3>6, TaskFacts, SpiderAssumption DEF Fetch
      <4>2. QED
        BY <4>1
    <3>7. CASE LockDb(w) \/ Convert(w) \/ UnlockDb(w)
      BY <3>7 DEF LockDb, Convert, UnlockDb
    <3>8. CASE CountLink(w) \/ LinksDone(w)
      BY <3>8 DEF CountLink, LinksDone
    <3>9. QED
      BY <3>1, <3>2, <3>3, <3>4, <3>5, <3>6, <3>7, <3>8
  <2>2. QED
    BY <2>1 DEF Locations, WorkLocs, LinkLocs, DbCalls, TaskLocs
<1>3. pc'[w] = l /\ \A v \in Worker \ {w} : pc'[v] = pc[v]
  BY <1>2, ThreadFacts DEF Goto, CtlInv, CrawlTypeOK
<1>4. \A i \in 1..Len(tasks) : tasks'[i] = tasks[i]
  BY DEF Take, Fetch, LockDb, Convert, UnlockDb, CountLink, LinksDone,
         SubmitLink, Enqueue, PushBack, Uncount, Complete, CtlInv, PoolTypeOK
<1>5. QED
  BY <1>0, <1>1, <1>3, <1>4, DbFrame DEF dbVars, tables, DbInv, DbTypeOK

(* The statements that may change a table.                                 *)
LEMMA AddUrlDb ==
  ASSUME CtlInv, DbInv, NEW w \in Worker, AddUrl(w)
  PROVE  DbInv'
<1> USE ThreadFacts DEF poolVars, taskVars
<1>1. PICK r \in BOOLEAN :
        add_new_url(w, url(w), r) /\ Goto(w, IF r THEN "get_word" ELSE "unlock")
  BY DEF AddUrl
<1>2. /\ docs' \in {docs, docs \cup {url(w)}} /\ UNCHANGED <<words, docs_words, connected>>
      /\ tx' \in Thread /\ faults' \in 0..MaxFaults
      /\ r => docs' = docs \cup {url(w)}
  BY <1>1, SpiderAssumption
     DEF add_new_url, Refused, Commit, Fails, dbVars, DbInv, DbTypeOK
<1>3. url(w) \in Url /\ pc[w] = "add_url"
  BY TaskFacts DEF AddUrl
<1>4. DbTypeOK' /\ Integrity'
  BY <1>2, <1>3 DEF DbInv, DbTypeOK, Integrity
<1>5. /\ pc'[w] = IF r THEN "get_word" ELSE "unlock"
      /\ \A v \in Worker \ {w} : UNCHANGED <<pc[v], running[v], index[v], word_id[v]>>
      /\ UNCHANGED tasks /\ url(w)' = url(w)
  BY <1>1 DEF AddUrl, Goto, CtlInv, CrawlTypeOK, url
<1>6. HeldAt(w)'
  BY <1>2, <1>5 DEF HeldAt, WorkLocs
<1>7. \A v \in Worker \ {w} : HeldAt(v)'
  BY <1>2, <1>5, HeldFrame DEF DbInv, HeldInv
<1>8. QED
  BY <1>4, <1>6, <1>7 DEF DbInv, HeldInv

LEMMA GetWordDb ==
  ASSUME CtlInv, DbInv, NEW w \in Worker, GetWord(w)
  PROVE  DbInv'
<1> USE ThreadFacts DEF poolVars, taskVars
<1>1. PICK r \in BOOLEAN :
        /\ get_id_word(w, word(w)[1], r)
        /\ word_id' = [word_id EXCEPT ![w] = r]
        /\ Goto(w, IF r THEN "add_url_word" ELSE "add_word")
  BY DEF GetWord
<1>2. /\ UNCHANGED <<docs, words, docs_words, connected>>
      /\ tx' \in Thread /\ faults' \in 0..MaxFaults
      /\ r => word(w)[1] \in words
  BY <1>1, SpiderAssumption
     DEF get_id_word, Refused, Commit, Fails, dbVars, tables, DbInv, DbTypeOK
<1>3. DbTypeOK' /\ Integrity'
  BY <1>2, SMTT(30) DEF DbInv, DbTypeOK, Integrity
<1>4. /\ pc'[w] = (IF r THEN "add_url_word" ELSE "add_word") /\ word_id'[w] = r
      /\ \A v \in Worker \ {w} : UNCHANGED <<pc[v], running[v], index[v], word_id[v]>>
      /\ UNCHANGED tasks /\ url(w)' = url(w) /\ word(w)' = word(w)
  BY <1>1 DEF GetWord, Goto, CtlInv, CrawlTypeOK, url, word
<1>5. HeldAt(w)'
  BY <1>2, <1>4 DEF HeldAt, WorkLocs, GetWord, DbInv, HeldInv
<1>6. \A v \in Worker \ {w} : HeldAt(v)'
  BY <1>2, <1>4, HeldFrame DEF DbInv, HeldInv
<1>7. QED
  BY <1>3, <1>5, <1>6 DEF DbInv, HeldInv

LEMMA AddWordDb ==
  ASSUME CtlInv, DbInv, NEW w \in Worker, AddWord(w)
  PROVE  DbInv'
<1> USE ThreadFacts DEF poolVars, taskVars
<1>1. PICK r \in BOOLEAN :
        add_new_word(w, word(w)[1], r) /\ word_id' = [word_id EXCEPT ![w] = r]
  BY DEF AddWord
<1>2. /\ words' \in {words, words \cup {word(w)[1]}}
      /\ UNCHANGED <<docs, docs_words, connected>>
      /\ tx' \in Thread /\ faults' \in 0..MaxFaults
      /\ r => words' = words \cup {word(w)[1]}
  BY <1>1, SpiderAssumption
     DEF add_new_word, Refused, Commit, Fails, dbVars, DbInv, DbTypeOK
<1>3. word(w)[1] \in Word
  BY WordFacts DEF AddWord, WorkLocs
<1>4. DbTypeOK' /\ Integrity'
  BY <1>2, <1>3, SMTT(30) DEF DbInv, DbTypeOK, Integrity
<1>5. /\ pc[w] = "add_word" /\ pc'[w] = "add_url_word" /\ word_id'[w] = r
      /\ \A v \in Worker \ {w} : UNCHANGED <<pc[v], running[v], index[v], word_id[v]>>
      /\ UNCHANGED tasks /\ url(w)' = url(w) /\ word(w)' = word(w)
  BY <1>1 DEF AddWord, Goto, CtlInv, CrawlTypeOK, url, word
<1>6. HeldAt(w)'
  BY <1>2, <1>5 DEF HeldAt, WorkLocs, DbInv, HeldInv
<1>7. \A v \in Worker \ {w} : HeldAt(v)'
  BY <1>2, <1>5, HeldFrame DEF DbInv, HeldInv
<1>8. QED
  BY <1>4, <1>6, <1>7 DEF DbInv, HeldInv

LEMMA AddUrlWordDb ==
  ASSUME CtlInv, DbInv, NEW w \in Worker, AddUrlWord(w)
  PROVE  DbInv'
<1> USE ThreadFacts DEF poolVars, taskVars
<1> DEFINE u == url(w)  x == word(w)[1]  n == word(w)[2]
<1>1. pc[w] = "add_url_word" /\ u \in Url /\ x \in Word /\ n \in Nat
  BY WordFacts, TaskFacts DEF AddUrlWord, WorkLocs
<1>2. u \in docs /\ (word_id[w] => x \in words)
  BY <1>1 DEF DbInv, HeldInv, HeldAt, WorkLocs
<1>3. add_new_url_word(w, u, x, word_id[w], n)
  BY DEF AddUrlWord
<1>4. /\ docs_words' = docs_words \/ (word_id[w] /\ docs_words' = Added(u, x, n))
      /\ UNCHANGED <<docs, words, connected>>
      /\ tx' \in Thread /\ faults' \in 0..MaxFaults
  BY <1>3, SpiderAssumption
     DEF add_new_url_word, Refused, Commit, Fails, dbVars, DbInv, DbTypeOK
<1>5. /\ docs_words' \in [Url \X Word -> Nat]
      /\ \A p \in Url \X Word :
            docs_words'[p] = docs_words[p] \/ (p = <<u, x>> /\ word_id[w])
  BY <1>1, <1>4 DEF Added, DbInv, DbTypeOK
<1>6. DbTypeOK'
  BY <1>4, <1>5 DEF DbInv, DbTypeOK
<1>7. Integrity'
  BY <1>2, <1>4, <1>5 DEF DbInv, Integrity
<1>8. /\ pc'[w] \in {"get_word", "unlock"} /\ UNCHANGED tasks /\ url(w)' = url(w)
      /\ \A v \in Worker \ {w} : UNCHANGED <<pc[v], running[v], index[v], word_id[v]>>
  BY DEF AddUrlWord, Goto, CtlInv, CrawlTypeOK, url
<1>9. HeldAt(w)'
  BY <1>2, <1>4, <1>8 DEF HeldAt
<1>10. \A v \in Worker \ {w} : HeldAt(v)'
  BY <1>4, <1>8, HeldFrame DEF DbInv, HeldInv
<1>11. QED
  BY <1>6, <1>7, <1>9, <1>10 DEF DbInv, HeldInv

LEMMA DbStep == CtlInv /\ DbInv /\ [Next]_vars => DbInv'
<1> SUFFICES ASSUME CtlInv, DbInv, [Next]_vars PROVE DbInv'
  OBVIOUS
<1> USE DEF taskVars, loopVars, poolVars
<1>1. ASSUME NEW w \in Worker, WorkerStep(w) PROVE DbInv'
  <2>1. CASE Begin(w)
    <3>1. tx' \in Thread
      BY <2>1, ThreadFacts DEF Begin, BeginTx
    <3>2. QED
      BY <2>1, <3>1, DbFrame DEF Begin, BeginTx, tables, DbInv, DbTypeOK
  <2>2. CASE Check(w)
    <3>1. UNCHANGED tables /\ connected' \in BOOLEAN /\ tx' \in Thread
          /\ faults' \in 0..MaxFaults
      BY <2>2, ThreadFacts, SpiderAssumption DEF Check, get_id_url, Refused, Commit,
         Fails, dbVars, tables, DbInv, DbTypeOK
    <3>2. PICK l \in {"returned", "fetch"} : Goto(w, l)
      BY <2>2 DEF Check
    <3>3. \A v \in Worker : pc'[v] \in WorkLocs => pc'[v] = pc[v]
      BY <3>2, ThreadFacts DEF Goto, CtlInv, CrawlTypeOK, WorkLocs
    <3>4. QED
      BY <2>2, <3>1, <3>3, DbFrame DEF Check
  <2>3. CASE AddUrl(w) \/ GetWord(w) \/ AddWord(w) \/ AddUrlWord(w)
    BY <2>3, AddUrlDb, GetWordDb, AddWordDb, AddUrlWordDb
  <2>4. QED
    BY <1>1, <2>1, <2>2, <2>3, DbIdleStep DEF WorkerStep
<1>2. CASE MainStep
  <2>1. UNCHANGED <<tables, tx, faults>> /\ connected' \in BOOLEAN
    BY <1>2, SpiderAssumption
       DEF MainStep, Construct, Connect, CountFirst, SubmitFirst, Enqueue, PushFirst,
           AllCounted, GetResult, WorkReturn, DestroyPool, Destroyed, dbVars, tables,
           DbInv, DbTypeOK
  <2>2. UNCHANGED <<index, word_id, running>>
    BY <1>2
       DEF MainStep, Construct, CountFirst, SubmitFirst, Enqueue, Pool!Submit,
           PushFirst, AllCounted, GetResult, WorkReturn, DestroyPool, Pool!Close,
           Destroyed, Pool!ShutDown
  <2>3. \A i \in 1..Len(tasks) : tasks'[i] = tasks[i]
    BY <1>2
       DEF MainStep, Construct, CountFirst, SubmitFirst, Enqueue, PushFirst,
           AllCounted, GetResult, WorkReturn, DestroyPool, Destroyed,
           CtlInv, PoolTypeOK
  <2>4. \A v \in Worker : pc'[v] = pc[v]
    BY <1>2, ThreadFacts
       DEF MainStep, Construct, CountFirst, SubmitFirst, Enqueue, PushFirst,
           AllCounted, GetResult, WorkReturn, DestroyPool, Destroyed, Goto,
           CtlInv, CrawlTypeOK
  <2>5. QED
    BY <2>1, <2>2, <2>3, <2>4, DbFrame DEF DbInv, DbTypeOK
<1>3. CASE Restart
  <2>1. DbTypeOK' /\ Integrity'
    BY <1>3, ThreadFacts DEF Restart, Disconnect, DbInv, DbTypeOK, Integrity
  <2>2. HeldInv'
    BY <1>3, ThreadFacts DEF Restart, BootPc, HeldInv, HeldAt, WorkLocs
  <2>3. QED
    BY <2>1, <2>2 DEF DbInv
<1>4. CASE UNCHANGED vars
  BY <1>4, DbFrame DEF vars, dbVars, tables, DbInv, DbTypeOK
<1>5. QED
  BY <1>1, <1>2, <1>3, <1>4 DEF Next, Terminated

LEMMA DbStart == Init => DbInv
<1> SUFFICES ASSUME Init PROVE DbInv
  OBVIOUS
<1>1. /\ connected = FALSE /\ docs = {} /\ words = {} /\ tx = NoTx /\ faults = 0
      /\ docs_words = [p \in Url \X Word |-> 0]
  BY DEF Init, DbInit
<1>2. DbTypeOK
  <2>1. docs_words \in [Url \X Word -> Nat]
    BY <1>1
  <2>2. tx \in Thread /\ faults \in 0..MaxFaults
    BY <1>1, ThreadFacts, SpiderAssumption
  <2>3. QED
    BY <1>1, <2>1, <2>2 DEF DbTypeOK
<1>3. Integrity
  BY <1>1 DEF Integrity
<1>4. HeldInv
  BY ThreadFacts DEF Init, BootPc, HeldInv, HeldAt, WorkLocs
<1>5. QED
  BY <1>2, <1>3, <1>4 DEF DbInv

-----------------------------------------------------------------------------
(* Types of the spider and of its database are kept by every step.         *)
THEOREM TypeCorrect == Spec => []TypeOK
<1> DEFINE Inv == CtlInv /\ DbInv
<1>1. Init => Inv
  BY CtlInit, DbStart
<1>2. Inv /\ [Next]_vars => Inv'
  BY CtlStep, DbStep
<1>3. Inv => TypeOK
  BY DEF TypeOK, CtlInv, DbInv
<1>4. QED
  BY <1>1, <1>2, <1>3, PTL DEF Spec

(* A row of docs_words refers to rows that exist, whatever statements fail  *)
(* and whenever the program is killed and restarted.                        *)
THEOREM ReferencesHold == Spec => []Integrity
<1> DEFINE Inv == CtlInv /\ DbInv
<1>1. Init => Inv
  BY CtlInit, DbStart
<1>2. Inv /\ [Next]_vars => Inv'
  BY CtlStep, DbStep
<1>3. Inv => Integrity
  BY DEF DbInv
<1>4. QED
  BY <1>1, <1>2, <1>3, PTL DEF Spec

-----------------------------------------------------------------------------
(* The counter: its invariant, on top of CtlInv.                           *)
CountInv == OnceInv /\ GotInv /\ CounterExact /\ WorkComplete

AfterLoop == {"get", "destroy", "join", "done"}

LEMMA Finiteness ==
  ASSUME PoolTypeOK
  PROVE  /\ IsFiniteSet(Executing) /\ Cardinality(Executing) \in Nat
         /\ IsFiniteSet(Announced) /\ Cardinality(Announced) \in Nat
         /\ IsFiniteSet(thrown) /\ Cardinality(thrown) \in Nat
         /\ Len(pending) \in Nat
<1>1. IsFiniteSet(Worker)
  BY FS_Interval, SpiderAssumption DEF Worker
<1>2. IsFiniteSet(Thread)
  BY <1>1, FS_Singleton, FS_Union DEF Thread
<1>3. IsFiniteSet(1..Len(tasks))
  BY FS_Interval DEF PoolTypeOK
<1>4. /\ Executing \subseteq Worker /\ Announced \subseteq Thread
      /\ thrown \subseteq 1..Len(tasks)
  BY DEF Executing, Announced, PoolTypeOK
<1>5. IsFiniteSet(Executing) /\ IsFiniteSet(Announced) /\ IsFiniteSet(thrown)
  BY <1>1, <1>2, <1>3, <1>4, FS_Subset
<1>6. QED
  BY <1>5, FS_CardinalityType DEF PoolTypeOK

(* While a worker is inside task(), work() is still in its waiting loop.   *)
LEMMA WorkerBusy ==
  ASSUME CtlInv, WorkComplete, NEW w \in Worker, pc[w] \notin {"idle", "complete"}
  PROVE  pc[Main] \notin AfterLoop /\ w \in Executing
<1>1. w \in Executing
  BY DEF Executing, CtlInv, RunInv
<1>2. QED
  BY <1>1 DEF WorkComplete, AfterLoop

(* A step that moves thread t, announces nothing and ends nothing.         *)
LEMMA CountFrame ==
  ASSUME CtlInv, CountInv, NEW t \in Thread, NEW l \in Locations \ {"submit", "complete"},
         pc[t] \notin {"submit", "complete"}, Goto(t, l),
         UNCHANGED <<pending, running, finished, thrown, active_tasks>>
  PROVE  OnceInv' /\ CounterExact' /\ Executing' = Executing
<1>1. pc'[t] = l /\ \A u \in Thread \ {t} : pc'[u] = pc[u]
  BY DEF Goto, CtlInv, CrawlTypeOK
<1>2. Executing' = Executing /\ Announced' = Announced
  BY <1>1, ThreadFacts DEF Executing, Announced
<1>3. OnceInv'
  BY DEF CountInv, OnceInv, Rows
<1>4. QED
  BY <1>2, <1>3 DEF CountInv, CounterExact

(* The steps of worker w inside task() that leave the counter alone.       *)
LEMMA CountQuiet ==
  ASSUME CtlInv, CountInv, NEW w \in Worker,
         \/ Check(w) \/ Fetch(w) \/ LockDb(w) \/ Convert(w) \/ AddUrl(w)
         \/ GetWord(w) \/ AddWord(w) \/ AddUrlWord(w) \/ UnlockDb(w)
         \/ LinksDone(w) \/ PushBack(w)
  PROVE  CountInv'
<1> USE ThreadFacts DEF poolVars, taskVars, histVars
<1>1. PICK l \in Locations \ {"submit", "complete"} : Goto(w, l)
  <2> DEFINE Ls == {"fetch", "lock", "hung", "convert", "add_url", "get_word",
                    "add_word", "add_url_word", "unlock", "links", "returned",
                    "thrown"}
  <2>1. ASSUME Fetch(w) PROVE \E l \in Ls : Goto(w, l)
    <3>1. PICK l \in {"lock", "returned", "thrown", "hung"} : Goto(w, l)
      BY <2>1, TaskFacts, SpiderAssumption DEF Fetch
    <3>2. QED
      BY <3>1
  <2>2. ASSUME Check(w) \/ LockDb(w) \/ Convert(w) \/ AddUrl(w)
        PROVE  \E l \in Ls : Goto(w, l)
    BY <2>2 DEF Check, LockDb, Convert, AddUrl
  <2>3. ASSUME GetWord(w) \/ AddWord(w) \/ AddUrlWord(w)
        PROVE  \E l \in Ls : Goto(w, l)
    BY <2>3 DEF GetWord, AddWord, AddUrlWord
  <2>4. ASSUME UnlockDb(w) \/ LinksDone(w) \/ PushBack(w)
        PROVE  \E l \in Ls : Goto(w, l)
    BY <2>4 DEF UnlockDb, LinksDone, PushBack
  <2>5. Ls \subseteq Locations \ {"submit", "complete"}
    BY DEF Locations, TaskLocs, LinkLocs, DbCalls
  <2>6. QED
    BY <2>1, <2>2, <2>3, <2>4, <2>5
<1>2. /\ pc[w] \notin {"idle", "submit", "complete"}
      /\ UNCHANGED <<pending, running, finished, thrown, active_tasks, got>>
  BY DEF Check, Fetch, LockDb, Convert, AddUrl, GetWord, AddWord, AddUrlWord,
         UnlockDb, LinksDone, PushBack
<1>3. pc[Main] \notin AfterLoop /\ pc'[Main] = pc[Main]
  BY <1>1, <1>2, WorkerBusy DEF CountInv, Goto, CtlInv, CrawlTypeOK
<1>4. OnceInv' /\ CounterExact'
  BY <1>1, <1>2, CountFrame
<1>5. GotInv'
  BY <1>2 DEF CountInv, GotInv
<1>6. WorkComplete'
  BY <1>3 DEF WorkComplete, AfterLoop
<1>7. QED
  BY <1>4, <1>5, <1>6 DEF CountInv

LEMMA CountTake ==
  ASSUME CtlInv, CountInv, NEW w \in Worker, Take(w)
  PROVE  CountInv'
<1> USE ThreadFacts DEF taskVars, histVars
<1>1. /\ pc[w] = "idle" /\ pc'[w] = "check"
      /\ \A t \in Thread \ {w} : pc'[t] = pc[t]
      /\ pending # << >> /\ pending \in Seq(1..Len(tasks)) /\ Len(tasks) \in Nat
  BY DEF Take, Pool!Take, Goto, CtlInv, CrawlTypeOK, PoolTypeOK
<1>2. /\ Len(pending) \in Nat \ {0} /\ Len(Tail(pending)) = Len(pending) - 1
      /\ Head(pending) = pending[1] /\ pending[1] \in 1..Len(tasks)
      /\ \A i \in 1..Len(Tail(pending)) : Tail(pending)[i] = pending[i + 1]
  BY <1>1
<1>3. /\ pending' = Tail(pending) /\ running'[w] = pending[1] /\ running[w] = NoTask
      /\ \A v \in Worker \ {w} : running'[v] = running[v]
      /\ UNCHANGED <<finished, thrown, active_tasks, got>>
  BY <1>2 DEF Take, Pool!Take, CtlInv, PoolTypeOK
<1>4. OnceInv'
  <2>1. \A i, j \in 1..Len(pending') : pending'[i] = pending'[j] => i = j
    BY <1>2, <1>3 DEF CountInv, OnceInv
  <2>2. pending[1] \in Rows(pending) /\ pending[1] \notin Rows(pending')
    BY <1>2, <1>3 DEF CountInv, OnceInv, Rows
  <2>3. Rows(pending') \subseteq Rows(pending)
    BY <1>2, <1>3 DEF Rows
  <2>4. \A v \in Worker \ {w} : running[v] # pending[1]
    BY <2>2 DEF CountInv, OnceInv
  <2>5. \A v, u \in Worker :
          running'[v] = running'[u] /\ running'[v] # NoTask => v = u
    BY <1>3, <2>4 DEF CountInv, OnceInv
  <2>6. \A v \in Worker : running'[v] \notin finished' \cup Rows(pending')
    BY <1>3, <2>2, <2>3 DEF CountInv, OnceInv
  <2>7. finished' \cap Rows(pending') = {}
    BY <1>3, <2>3 DEF CountInv, OnceInv
  <2>8. QED
    BY <2>1, <2>5, <2>6, <2>7 DEF OnceInv
<1>5. CounterExact'
  <2>0. pending[1] # NoTask
    BY <1>2 DEF NoTask
  <2>1. Executing' = Executing \cup {w} /\ w \notin Executing
    <3>1. w \in Executing' /\ w \notin Executing
      BY <1>1, <1>3, <2>0 DEF Executing
    <3>2. \A v \in Worker \ {w} : pc'[v] = pc[v] /\ running'[v] = running[v]
      BY <1>1, <1>3
    <3>3. \A v \in Worker \ {w} : v \in Executing' <=> v \in Executing
      BY <3>2 DEF Executing
    <3>4. Executing \subseteq Worker /\ Executing' \subseteq Worker
      BY DEF Executing
    <3>5. QED
      BY <3>1, <3>3, <3>4
  <2>2. Announced' = Announced
    BY <1>1 DEF Announced
  <2>3. Cardinality(Executing') = Cardinality(Executing) + 1
    BY <2>1, Finiteness, FS_AddElement DEF CtlInv
  <2>4. QED
    BY <1>2, <1>3, <2>2, <2>3, Finiteness DEF CountInv, CounterExact, CtlInv
<1>6. GotInv'
  BY <1>3 DEF CountInv, GotInv
<1>7. WorkComplete'
  BY <1>1 DEF CountInv, WorkComplete
<1>8. QED
  BY <1>4, <1>5, <1>6, <1>7 DEF CountInv

(* active_tasks++ before submit().                                         *)
LEMMA CountUp ==
  ASSUME CtlInv, CountInv, CountFirst \/ \E w \in Worker : CountLink(w)
  PROVE  CountInv'
<1> USE ThreadFacts DEF poolVars, taskVars, histVars
<1>1. PICK t \in Thread : /\ pc[t] \in {"count", "links"} /\ Goto(t, "submit")
                          /\ t = Main => pc[t] = "count"
  BY DEF CountFirst, CountLink
<1>2. /\ active_tasks' = active_tasks + 1
      /\ UNCHANGED <<pending, running, finished, thrown, tasks, results, got>>
  BY DEF CountFirst, CountLink
<1>3. pc'[t] = "submit" /\ \A u \in Thread \ {t} : pc'[u] = pc[u]
  BY <1>1 DEF Goto, CtlInv, CrawlTypeOK
<1>4. pc[Main] \notin AfterLoop
  BY <1>1, WorkerBusy DEF AfterLoop, Thread, CountInv
<1>5. OnceInv' /\ GotInv'
  BY <1>2 DEF CountInv, OnceInv, GotInv, Rows
<1>6. CounterExact'
  <2>1. Executing' = Executing
    BY <1>1, <1>2, <1>3 DEF Executing
  <2>2. Announced' = Announced \cup {t} /\ t \notin Announced
    BY <1>1, <1>3 DEF Announced
  <2>3. Cardinality(Announced') = Cardinality(Announced) + 1
    BY <2>2, Finiteness, FS_AddElement DEF CtlInv
  <2>4. QED
    BY <1>2, <2>1, <2>3, Finiteness DEF CountInv, CounterExact, CtlInv
<1>7. WorkComplete'
  BY <1>3, <1>4 DEF WorkComplete, AfterLoop
<1>8. QED
  BY <1>5, <1>6, <1>7 DEF CountInv

LEMMA CountEnqueue ==
  ASSUME CtlInv, CountInv, NEW t \in Thread, NEW task, Enqueue(t, task)
  PROVE  CountInv'
<1> USE ThreadFacts DEF histVars
<1>1. /\ pc[t] = "submit" /\ pc'[t] = "push_back"
      /\ \A u \in Thread \ {t} : pc'[u] = pc[u]
  BY DEF Enqueue, Goto, CtlInv, CrawlTypeOK
<1>2. /\ pending' = Append(pending, Len(tasks) + 1)
      /\ UNCHANGED <<running, finished, thrown, active_tasks, got>>
  BY DEF Enqueue, Pool!Submit
<1>3. pending \in Seq(1..Len(tasks)) /\ Len(tasks) \in Nat /\ finished \subseteq 1..Len(tasks)
      /\ running \in [Worker -> 0..Len(tasks)]
  BY DEF CtlInv, PoolTypeOK
<1>4. /\ Len(pending') = Len(pending) + 1 /\ Len(pending) \in Nat
      /\ pending'[Len(pending) + 1] = Len(tasks) + 1
      /\ \A i \in 1..Len(pending) :
            pending'[i] = pending[i] /\ pending[i] \in 1..Len(tasks)
  BY <1>2, <1>3, SeqElement
<1>5. OnceInv'
  <2>1. \A i, j \in 1..Len(pending') : pending'[i] = pending'[j] => i = j
    <3>1. \A i \in 1..Len(pending') :
            \/ i \in 1..Len(pending) /\ pending'[i] = pending[i] /\ pending'[i] \in 1..Len(tasks)
            \/ i = Len(pending') /\ pending'[i] = Len(tasks) + 1
      BY <1>4
    <3>2. Len(tasks) + 1 \notin 1..Len(tasks)
      BY <1>3
    <3>3. QED
      BY <3>1, <3>2 DEF CountInv, OnceInv
  <2>2. Rows(pending') \subseteq Rows(pending) \cup {Len(tasks) + 1}
    BY <1>4 DEF Rows
  <2>3. /\ Len(tasks) + 1 \notin finished
        /\ \A v \in Worker : running[v] # Len(tasks) + 1
    BY <1>3
  <2>4. QED
    BY <1>2, <2>1, <2>2, <2>3 DEF CountInv, OnceInv
<1>6. CounterExact'
  <2>1. Executing' = Executing
    BY <1>1, <1>2 DEF Executing
  <2>2. Announced' = Announced \ {t} /\ t \in Announced
    BY <1>1 DEF Announced
  <2>3. Cardinality(Announced') = Cardinality(Announced) - 1
    BY <2>2, Finiteness, FS_RemoveElement DEF CtlInv
  <2>4. QED
    BY <1>2, <1>4, <2>1, <2>3, Finiteness DEF CountInv, CounterExact, CtlInv
<1>7. GotInv'
  BY <1>2 DEF CountInv, GotInv
<1>8. pc[Main] \notin AfterLoop
  BY <1>1, WorkerBusy DEF AfterLoop, Thread, CountInv
<1>9. WorkComplete'
  BY <1>1, <1>8 DEF WorkComplete, AfterLoop
<1>10. QED
  BY <1>5, <1>6, <1>7, <1>9 DEF CountInv

(* active_tasks-- after task().                                            *)
LEMMA CountDown ==
  ASSUME CtlInv, CountInv, NEW w \in Worker, Uncount(w)
  PROVE  CountInv'
<1> USE ThreadFacts DEF poolVars, taskVars, histVars
<1>1. /\ pc[w] = "returned" /\ pc'[w] = "complete"
      /\ \A u \in Thread \ {w} : pc'[u] = pc[u]
      /\ active_tasks' = active_tasks - 1
      /\ UNCHANGED <<pending, running, finished, thrown, tasks, results, got>>
  BY DEF Uncount, Goto, CtlInv, CrawlTypeOK
<1>2. pc[Main] \notin AfterLoop /\ w \in Executing
  BY <1>1, WorkerBusy DEF CountInv
<1>3. OnceInv' /\ GotInv'
  BY <1>1 DEF CountInv, OnceInv, GotInv, Rows
<1>4. CounterExact'
  <2>1. Executing' = Executing \ {w}
    BY <1>1 DEF Executing
  <2>2. Announced' = Announced
    BY <1>1 DEF Announced
  <2>3. Cardinality(Executing') = Cardinality(Executing) - 1
    BY <1>2, <2>1, Finiteness, FS_RemoveElement DEF CtlInv
  <2>4. QED
    BY <1>1, <2>2, <2>3, Finiteness DEF CountInv, CounterExact, CtlInv
<1>5. WorkComplete'
  BY <1>1, <1>2 DEF WorkComplete, AfterLoop
<1>6. QED
  BY <1>3, <1>4, <1>5 DEF CountInv

(* The task ends: an exception moves it from Executing to thrown.          *)
LEMMA CountComplete ==
  ASSUME CtlInv, CountInv, NEW w \in Worker, Complete(w)
  PROVE  CountInv'
<1> USE ThreadFacts DEF taskVars
<1>1. /\ pc[w] \in {"complete", "thrown"} /\ pc'[w] = "idle"
      /\ \A u \in Thread \ {w} : pc'[u] = pc[u]
      /\ running'[w] = NoTask /\ \A v \in Worker \ {w} : running'[v] = running[v]
      /\ finished' = finished \cup {running[w]}
      /\ UNCHANGED <<pending, active_tasks, tasks, results, got>>
  BY DEF Complete, Pool!Finish, Goto, CtlInv, CrawlTypeOK, PoolTypeOK
<1>2. /\ running[w] \in 1..Len(tasks) /\ running[w] # NoTask
      /\ running[w] \notin finished \cup Rows(pending) /\ running[w] \notin thrown
  BY <1>1, TaskFacts DEF CountInv, OnceInv, CtlInv, PoolTypeOK, RunInv
<1>3. OnceInv'
  <2>1. \A v \in Worker \ {w} : running[v] # running[w]
    BY <1>2 DEF CountInv, OnceInv
  <2>2. Rows(pending') = Rows(pending)
    BY <1>1 DEF Rows
  <2>3. NoTask \notin finished' \cup Rows(pending')
    <3>1. NoTask \notin finished
      BY DEF CtlInv, PoolTypeOK, NoTask
    <3>2. NoTask \notin Rows(pending)
      BY SeqElement DEF CtlInv, PoolTypeOK, NoTask, Rows
    <3>3. QED
      BY <1>1, <1>2, <2>2, <3>1, <3>2
  <2>4. \A v \in Worker : running'[v] \notin finished' \cup Rows(pending')
    BY <1>1, <2>1, <2>2, <2>3 DEF CountInv, OnceInv
  <2>5. \A v, u \in Worker :
          running'[v] = running'[u] /\ running'[v] # NoTask => v = u
    BY <1>1 DEF CountInv, OnceInv
  <2>6. QED
    BY <1>1, <1>2, <2>2, <2>4, <2>5 DEF CountInv, OnceInv
<1>4. Announced' = Announced
  BY <1>1 DEF Announced
<1>5. CASE pc[w] = "complete"
  <2>1. Executing' = Executing /\ thrown' = thrown
    BY <1>1, <1>5 DEF Executing, Complete
  <2>2. CounterExact'
    BY <1>1, <1>4, <2>1 DEF CountInv, CounterExact
  <2>3. WorkComplete'
    BY <1>1, <1>2, <2>1 DEF CountInv, WorkComplete
  <2>4. QED
    BY <1>1, <1>3, <2>2, <2>3 DEF CountInv, GotInv
<1>6. CASE pc[w] = "thrown"
  <2>1. pc[Main] \notin AfterLoop /\ w \in Executing
    BY <1>6, WorkerBusy DEF CountInv
  <2>2. Executing' = Executing \ {w} /\ thrown' = thrown \cup {running[w]}
    BY <1>1, <1>6 DEF Executing, Complete
  <2>3. /\ Cardinality(Executing') = Cardinality(Executing) - 1
        /\ Cardinality(thrown') = Cardinality(thrown) + 1
    BY <1>2, <2>1, <2>2, Finiteness, FS_AddElement, FS_RemoveElement DEF CtlInv
  <2>4. CounterExact'
    BY <1>1, <1>4, <2>3, Finiteness DEF CountInv, CounterExact, CtlInv
  <2>5. WorkComplete'
    BY <1>1, <2>1 DEF WorkComplete, AfterLoop
  <2>6. QED
    BY <1>1, <1>3, <2>4, <2>5 DEF CountInv, GotInv
<1>7. QED
  BY <1>1, <1>5, <1>6

LEMMA CountRestart ==
  ASSUME Restart
  PROVE  CountInv'
<1>1. /\ pending' = << >> /\ finished' = {} /\ thrown' = {} /\ got' = 0
      /\ running' = [w \in Worker |-> NoTask] /\ pc' = BootPc /\ active_tasks' = 0
  BY DEF Restart
<1>2. OnceInv' /\ GotInv'
  BY <1>1 DEF OnceInv, GotInv, Rows, NoTask
<1>3. Executing' = {} /\ Announced' = {}
  BY <1>1 DEF Executing, Announced, BootPc
<1>4. CounterExact'
  BY <1>1, <1>3, FS_EmptySet DEF CounterExact
<1>5. WorkComplete'
  BY <1>1, ThreadFacts DEF WorkComplete, BootPc
<1>6. QED
  BY <1>2, <1>4, <1>5 DEF CountInv

(* work(): its loop ends when the counter is zero.                         *)
LEMMA CountMain ==
  ASSUME CtlInv, CountInv,
         \/ Construct \/ PushFirst \/ AllCounted \/ GetResult \/ WorkReturn
         \/ DestroyPool \/ Destroyed
  PROVE  CountInv'
<1> USE ThreadFacts DEF poolVars, taskVars, histVars
<1>1. UNCHANGED <<pending, running, finished, thrown, tasks, active_tasks>>
  BY DEF Construct, PushFirst, AllCounted, GetResult, WorkReturn, DestroyPool,
         Pool!Close, Destroyed, Pool!ShutDown
<1>2. PICK l \in {"count", "wait", "get", "destroy", "join", "done"} : Goto(Main, l)
  BY DEF Construct, PushFirst, AllCounted, GetResult, WorkReturn, DestroyPool, Destroyed
<1>3. pc[Main] \notin {"submit", "complete"} /\ l \in Locations \ {"submit", "complete"}
  BY DEF Construct, PushFirst, AllCounted, GetResult, WorkReturn, DestroyPool,
         Destroyed, Locations, MainLocs
<1>4. OnceInv' /\ CounterExact' /\ Executing' = Executing
  BY <1>1, <1>2, <1>3, CountFrame
<1>5. pc'[Main] = l
  BY <1>2 DEF Goto, CtlInv, CrawlTypeOK
<1>6. CASE Construct \/ PushFirst
  <2>1. GotInv'
    BY <1>1, <1>6 DEF Construct, PushFirst, CountInv, GotInv
  <2>2. pc'[Main] \notin AfterLoop
    BY <1>6 DEF Construct, PushFirst, Goto, CtlInv, CrawlTypeOK, AfterLoop
  <2>3. QED
    BY <1>4, <2>1, <2>2 DEF CountInv, WorkComplete, AfterLoop
<1>7. CASE AllCounted
  <2>1. /\ Len(pending) = 0 /\ Cardinality(Executing) = 0 /\ Cardinality(thrown) = 0
    BY <1>7, Finiteness DEF AllCounted, CountInv, CounterExact, CtlInv, CrawlTypeOK
  <2>2. pending = << >> /\ Executing = {} /\ thrown = {}
    BY <2>1, Finiteness, FS_EmptySet DEF CtlInv, PoolTypeOK
  <2>3. queue_mutex = Free
    <3>1. pc[queue_mutex] = "push_back" \/ queue_mutex = Free
      BY DEF CtlInv, QueueInv, CrawlTypeOK
    <3>2. \A w \in Worker : pc[w] # "push_back"
      BY <2>2 DEF Executing, CtlInv, RunInv
    <3>3. QED
      BY <1>7, <3>1, <3>2 DEF AllCounted, CtlInv, CrawlTypeOK, QueueInv, Thread
  <2>4. results = Len(tasks)
    BY <2>3 DEF CtlInv, QueueInv, CrawlTypeOK, PoolTypeOK
  <2>5. l = "get" /\ UNCHANGED <<results, got>>
    BY <1>5, <1>7 DEF AllCounted, Goto, CtlInv, CrawlTypeOK
  <2>6. WorkComplete'
    BY <1>1, <1>4, <1>5, <2>2, <2>4, <2>5 DEF WorkComplete
  <2>7. QED
    BY <1>1, <1>4, <2>5, <2>6 DEF CountInv, GotInv
<1>8. CASE GetResult \/ WorkReturn \/ DestroyPool \/ Destroyed
  <2>1. /\ pending = << >> /\ Executing = {} /\ thrown = {}
        /\ results = Len(tasks) /\ results' = results
    BY <1>8 DEF GetResult, WorkReturn, DestroyPool, Destroyed, CountInv, WorkComplete
  <2>2. GotInv'
    <3>1. CASE GetResult
      <4>1. got' = got + 1 /\ got + 1 \in finished /\ got \in Nat
        BY <3>1 DEF GetResult, CtlInv, CrawlTypeOK, PoolTypeOK
      <4>2. QED
        BY <1>1, <4>1 DEF CountInv, GotInv
    <3>2. CASE WorkReturn \/ DestroyPool \/ Destroyed
      BY <1>1, <3>2 DEF WorkReturn, DestroyPool, Destroyed, CountInv, GotInv
    <3>3. QED
      BY <1>8, <3>1, <3>2
  <2>3. pc'[Main] \in {"destroy", "join", "done"} =>
          got' = results' /\ finished' = 1..Len(tasks')
    <3>1. CASE GetResult
      BY <2>1, <1>5, <3>1 DEF GetResult, Goto, CtlInv, CrawlTypeOK
    <3>2. CASE WorkReturn
      <4>1. got' = results /\ 1..got \subseteq finished /\ got = results
        BY <3>2 DEF WorkReturn, CountInv, GotInv
      <4>2. QED
        BY <1>1, <2>1, <4>1 DEF CtlInv, PoolTypeOK
    <3>3. CASE DestroyPool \/ Destroyed
      BY <1>1, <2>1, <3>3 DEF DestroyPool, Destroyed, CountInv, WorkComplete
    <3>4. QED
      BY <1>8, <3>1, <3>2, <3>3
  <2>4. WorkComplete'
    BY <1>1, <1>4, <2>1, <2>3 DEF WorkComplete
  <2>5. QED
    BY <1>4, <2>2, <2>4 DEF CountInv
<1>9. QED
  BY <1>6, <1>7, <1>8

LEMMA CountStart == Init => CountInv
<1> SUFFICES ASSUME Init PROVE CountInv
  OBVIOUS
<1>1. /\ pending = << >> /\ finished = {} /\ thrown = {} /\ got = 0
      /\ running = [w \in Worker |-> NoTask] /\ pc = BootPc /\ active_tasks = 0
  BY DEF Init, Pool!Init
<1>2. OnceInv /\ GotInv
  BY <1>1 DEF OnceInv, GotInv, Rows, NoTask
<1>3. Executing = {} /\ Announced = {}
  BY <1>1 DEF Executing, Announced, BootPc
<1>4. CounterExact
  BY <1>1, <1>3, FS_EmptySet DEF CounterExact
<1>5. WorkComplete
  BY <1>1, ThreadFacts DEF WorkComplete, BootPc
<1>6. QED
  BY <1>2, <1>4, <1>5 DEF CountInv

LEMMA CountStutter ==
  ASSUME CountInv,
         UNCHANGED <<poolVars, taskVars, thrown, active_tasks, pc, got>>
  PROVE  CountInv'
<1> USE DEF poolVars, taskVars
<1>1. OnceInv' /\ GotInv'
  BY DEF CountInv, OnceInv, GotInv, Rows
<1>2. Executing' = Executing /\ Announced' = Announced
  BY DEF Executing, Announced
<1>3. CounterExact' /\ WorkComplete'
  BY <1>2 DEF CountInv, CounterExact, WorkComplete
<1>4. QED
  BY <1>1, <1>3 DEF CountInv

LEMMA CountStep == CtlInv /\ CountInv /\ [Next]_vars => CountInv'
<1> SUFFICES ASSUME CtlInv, CountInv, [Next]_vars PROVE CountInv'
  OBVIOUS
<1>1. ASSUME NEW w \in Worker, WorkerStep(w) PROVE CountInv'
  <2>1. CASE Begin(w)
    BY <2>1, CountStutter DEF Begin, histVars
  <2>2. CASE Take(w)
    BY <2>2, CountTake
  <2>3. CASE CountLink(w)
    BY <2>3, CountUp
  <2>4. CASE SubmitLink(w)
    BY <2>4, CountEnqueue, ThreadFacts DEF SubmitLink
  <2>5. CASE Uncount(w)
    BY <2>5, CountDown
  <2>6. CASE Complete(w)
    BY <2>6, CountComplete
  <2>7. QED
    BY <1>1, <2>1, <2>2, <2>3, <2>4, <2>5, <2>6, CountQuiet DEF WorkerStep
<1>2. CASE MainStep
  <2>1. CASE CountFirst
    BY <2>1, CountUp
  <2>2. CASE SubmitFirst
    BY <2>2, CountEnqueue, ThreadFacts DEF SubmitFirst
  <2>3. QED
    BY <1>2, <2>1, <2>2, CountMain DEF MainStep
<1>3. CASE Restart
  BY <1>3, CountRestart
<1>4. CASE UNCHANGED vars
  BY <1>4, CountStutter DEF vars, histVars
<1>5. QED
  BY <1>1, <1>2, <1>3, <1>4 DEF Next, Terminated

LEMMA CountAlways == Spec => [](CtlInv /\ CountInv)
<1> DEFINE Inv == CtlInv /\ CountInv
<1>1. Init => Inv
  BY CtlInit, CountStart
<1>2. Inv /\ [Next]_vars => Inv'
  BY CtlStep, CountStep
<1>3. QED
  BY <1>1, <1>2, PTL DEF Spec

(* active_tasks is exact in every state: the threads change it without the  *)
(* lock of the queue, before submit() and after task().                     *)
THEOREM CounterIsExact == Spec => []CounterExact
<1>1. CtlInv /\ CountInv => CounterExact
  BY DEF CountInv
<1>2. QED
  BY <1>1, CountAlways, PTL

(* work() leaves its waiting loop only when every task has ended normally   *)
(* and every future is in results, and returns having collected them all.   *)
THEOREM WorkIsComplete == Spec => []WorkComplete
<1>1. CtlInv /\ CountInv => WorkComplete
  BY DEF CountInv
<1>2. QED
  BY <1>1, CountAlways, PTL

(* Nothing is added to results while work() iterates over it, although it   *)
(* holds no lock.                                                           *)
THEOREM ResultsAreStable == Spec => ResultsStable
<1> USE DEF poolVars, taskVars, loopVars, histVars
<1>1. ASSUME CtlInv, CountInv, [Next]_vars, pc[Main] = "get", runs' = runs
      PROVE  results' = results
  <2>1. \A w \in Worker : pc[w] # "push_back"
    BY <1>1 DEF CountInv, WorkComplete, Executing, CtlInv, RunInv
  <2>2. ~Restart
    BY <1>1, SpiderAssumption DEF Restart, CtlInv, CrawlTypeOK
  <2>3. CASE MainStep
    BY <1>1, <2>3 DEF MainStep, Construct, CountFirst, SubmitFirst, Enqueue,
       PushFirst, AllCounted, GetResult, WorkReturn, DestroyPool, Destroyed
  <2>4. ASSUME NEW w \in Worker, WorkerStep(w) PROVE results' = results
    BY <2>1, <2>4 DEF WorkerStep, Take, Begin, Check, Fetch, LockDb, Convert,
       AddUrl, GetWord, AddWord, AddUrlWord, UnlockDb, CountLink, LinksDone,
       SubmitLink, Enqueue, PushBack, Uncount, Complete
  <2>5. CASE UNCHANGED vars
    BY <2>5 DEF vars
  <2>6. QED
    BY <1>1, <2>2, <2>3, <2>4, <2>5 DEF Next, Terminated
<1>2. CtlInv /\ CountInv /\ [Next]_vars =>
        [pc[Main] = "get" /\ runs' = runs => results' = results]_<<results, pc, runs>>
  BY <1>1
<1>3. QED
  BY <1>2, CountAlways, PTL DEF Spec, ResultsStable
=============================================================================
