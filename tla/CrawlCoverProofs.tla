-------------------------- MODULE CrawlCoverProofs --------------------------
(***************************************************************************)
(* Theorems about what a crawl visits, for any number of threads, any web, *)
(* any failures, kills and restarts: no request lies deeper than its task  *)
(* says, and a crawl that ends has met every page that is not behind one   *)
(* that came too late; in a first crawl by one thread, or down to the      *)
(* depth of 2 that the program is shipped with, none does.                 *)
(***************************************************************************)
EXTENDS CrawlStoreProofs, DataInduction

-----------------------------------------------------------------------------
LEMMA LinkIsUrl ==
  ASSUME NEW u \in Url, NEW i \in 1..Len(Links[u])
  PROVE  Links[u][i] \in Url
<1>1. Links[u] \in Seq(Url)
  BY SpiderAssumption
<1> QED BY <1>1, SeqElement

(* The breadth-first reference satisfies the equation that defines it.     *)
LEMMA WithinEquation ==
  ASSUME NEW From, NEW d \in 1..DepthLimit
  PROVE  Within(From)[d] =
           IF d = 1 THEN {start_url}
           ELSE Within(From)[d-1] \cup UNION {Rows(Links[u]) : u \in Within(From)[d-1] \cap From}
<1> DEFINE Layer(X) == X \cup UNION {Rows(Links[u]) : u \in X \cap From}
           IsW(W) == W = [n \in 1..DepthLimit |-> IF n = 1 THEN {start_url} ELSE Layer(W[n-1])]
           F == [n \in 1..DepthLimit |-> [X \in SUBSET Url |-> Layer(X)]]
<1>1. 1 \in Int /\ DepthLimit \in Int /\ {start_url} \in SUBSET Url
  BY SpiderAssumption DEF DepthLimit
<1>2. ASSUME NEW X \in SUBSET Url PROVE Layer(X) \in SUBSET Url
  <2> SUFFICES ASSUME NEW x \in Layer(X), x \notin X PROVE x \in Url
    OBVIOUS
  <2>1. PICK u \in X : x \in Rows(Links[u])
    OBVIOUS
  <2>2. PICK i \in 1..Len(Links[u]) : x = Links[u][i]
    BY <2>1 DEF Rows
  <2> QED BY <2>2, LinkIsUrl
<1>3. CanIterate(SUBSET Url, {start_url}, 1, DepthLimit, F)
  BY <1>1, <1>2 DEF CanIterate
<1>4. PICK g : IsIteration(g, SUBSET Url, {start_url}, 1, DepthLimit, F)
  <2> HIDE DEF F
  <2> QED BY <1>3, Iteration
<1>5. ASSUME NEW n \in 1..DepthLimit
      PROVE  g[n] = IF n = 1 THEN {start_url} ELSE Layer(g[n-1])
  <2>1. n # 1 => n - 1 \in 1..DepthLimit
    BY <1>1
  <2>2. n # 1 => g[n-1] \in SUBSET Url
    BY <1>4, <2>1 DEF IsIteration
  <2> QED BY <1>4, <2>2 DEF IsIteration
<1>6. IsW(g)
  BY <1>4, <1>5 DEF IsIteration
<1>7. IsW(Within(From))
  <2>1. Within(From) = CHOOSE W : IsW(W)
    BY DEF Within
  <2> HIDE DEF IsW
  <2> QED BY <1>6, <2>1
<1> QED BY <1>7

LEMMA WithinStart ==
  ASSUME NEW From
  PROVE  1 \in 1..DepthLimit /\ Within(From)[1] = {start_url}
<1>1. 1 \in 1..DepthLimit
  BY SpiderAssumption DEF DepthLimit
<1> QED BY <1>1, WithinEquation

LEMMA WithinNext ==
  ASSUME NEW From, NEW d \in 1..DepthLimit, d < search_depth,
         NEW u \in From, u \in Within(From)[d], NEW i \in 1..Len(Links[u])
  PROVE  d + 1 \in 1..DepthLimit /\ Links[u][i] \in Within(From)[d+1]
<1>1. d + 1 \in 1..DepthLimit /\ d + 1 # 1 /\ (d + 1) - 1 = d
  BY SpiderAssumption DEF DepthLimit
<1>2. Within(From)[d+1] = Within(From)[d] \cup UNION {Rows(Links[v]) : v \in Within(From)[d] \cap From}
  BY <1>1, WithinEquation
<1> QED BY <1>1, <1>2 DEF Rows

-----------------------------------------------------------------------------
(* The first task is that of the start page.                               *)
Starting == {"construct", "count", "submit"}

FirstInv ==
  IF pc[Main] \in Starting
  THEN tasks = << >> /\ fetched = {}
  ELSE tasks # << >> /\ tasks[1] = [url |-> start_url, depth |-> 1]

(* Tasks and requests lie within as many links of it as their depth says.   *)
ReachInv ==
  /\ \A n \in 1..Len(tasks) : tasks[n].url \in Within(Url)[tasks[n].depth]
  /\ \A p \in fetched : p[1] \in Within(Url)[p[2]]

(* A task past its check has met its page: it has been requested at the     *)
(* depth of the task or nearer to the start page, or it is late.  What is   *)
(* on its way to the database has been requested, and so has, in the first  *)
(* run, what is in it.                                                     *)
Asked(u, d) == \E p \in fetched : p[1] = u /\ p[2] <= d

Met(u, d) == Asked(u, d) \/ u \in late

Settled == TaskLocs \ {"check", "fetch"}

AskedInv ==
  /\ runs = 1 => docs \subseteq Requested
  /\ \A w \in Worker : pc[w] \in ToStore => Asked(url(w), depth(w))
  /\ \A w \in Worker : pc[w] \in Settled => Met(url(w), depth(w))
  /\ \A n \in finished : Met(tasks[n].url, tasks[n].depth)

(* The links of a page that has been requested and answers are tasks, or a  *)
(* worker is on the way to submit them: after k turns of its loop, k are.   *)
Followed(u, d, k) ==
  \A i \in 1..k : \E n \in 1..Len(tasks) : tasks[n] = [url |-> Links[u][i], depth |-> d + 1]

StoreLocs == {"lock", "convert", "add_url", "get_word", "add_word", "add_url_word", "unlock"}

Following(w, u, d) ==
  /\ pc[w] # "idle" /\ url(w) = u /\ depth(w) = d
  /\ \/ pc[w] \in StoreLocs
     \/ pc[w] \in {"links", "submit"} /\ Followed(u, d, index[w] - 1)
     \/ pc[w] = "push_back" /\ Followed(u, d, index[w])

FollowInv ==
  \A p \in fetched : p[1] \in Answering /\ p[2] < search_depth =>
    \/ Followed(p[1], p[2], Len(Links[p[1]]))
    \/ \E w \in Worker : Following(w, p[1], p[2])

CoverInv == FirstInv /\ ReachInv /\ AskedInv /\ FollowInv

LEMMA CoverInit == Init => CoverInv
<1> SUFFICES ASSUME Init PROVE CoverInv
  OBVIOUS
<1>1. /\ tasks = << >> /\ Len(tasks) = 0 /\ fetched = {} /\ docs = {} /\ finished = {}
      /\ pc[Main] = "construct" /\ \A w \in Worker : pc[w] = "idle"
  BY ThreadFacts DEF Init, DbInit, Pool!Init, BootPc
<1>2. FirstInv /\ ReachInv /\ FollowInv
  BY <1>1 DEF FirstInv, ReachInv, FollowInv, Starting
<1>3. AskedInv
  BY <1>1 DEF AskedInv, Settled, ToStore, TaskLocs, DbCalls, LinkLocs
<1> QED BY <1>2, <1>3 DEF CoverInv

LEMMA CoverRestart ==
  ASSUME CtlInv, Restart
  PROVE  CoverInv'
<1>1. /\ tasks' = << >> /\ Len(tasks') = 0 /\ fetched' = {} /\ finished' = {}
      /\ pc'[Main] = "construct" /\ runs' # 1 /\ \A w \in Worker : pc'[w] = "idle"
  BY ThreadFacts, SpiderAssumption DEF Restart, BootPc, CtlInv, CrawlTypeOK
<1>2. FirstInv' /\ ReachInv' /\ FollowInv'
  BY <1>1 DEF FirstInv, ReachInv, FollowInv, Starting
<1>3. AskedInv'
  BY <1>1 DEF AskedInv, Settled, ToStore, TaskLocs, DbCalls, LinkLocs
<1> QED BY <1>2, <1>3 DEF CoverInv

(* What has been met stays met while the run lasts.                        *)
LEMMA MetStays ==
  ASSUME Watched, fetched \subseteq fetched', runs' = runs
  PROVE  /\ late \subseteq late'
         /\ \A u, d : Asked(u, d) => \E p \in fetched' : p[1] = u /\ p[2] <= d
BY DEF Watched, Asked

(* A step that adds tasks at the end keeps what is said of the others.      *)
LEMMA TasksGrow ==
  ASSUME CtlInv, NEW task, tasks' = Append(tasks, task)
  PROVE  /\ Len(tasks') = Len(tasks) + 1 /\ Len(tasks) \in Nat
         /\ tasks'[Len(tasks) + 1] = task
         /\ \A n \in 1..Len(tasks) : n \in 1..Len(tasks') /\ tasks'[n] = tasks[n]
BY DEF CtlInv, PoolTypeOK

(* A busy worker shows that the first task has been submitted.             *)
LEMMA BusyStarted ==
  ASSUME CtlInv, CoverInv, NEW w \in Worker, pc[w] # "idle"
  PROVE  pc[Main] \notin Starting
<1>1. Len(tasks) # 0
  BY TaskFacts DEF CtlInv, PoolTypeOK
<1> QED BY <1>1 DEF CoverInv, FirstInv

(* A step of worker w inside task() that submits nothing, requests nothing  *)
(* and ends nothing.                                                       *)
LEMMA CoverMove ==
  ASSUME CtlInv, CoverInv, Watched, NEW w \in Worker, NEW l \in TaskLocs, pc[w] # "idle", Goto(w, l),
         UNCHANGED <<tasks, running, finished, fetched, runs>>,
         \A v \in Worker \ {w} : index'[v] = index[v],
         runs = 1 => docs' \subseteq docs \cup Requested,
         l \in ToStore => pc[w] \in ToStore,
         l \in Settled => pc[w] \in Settled \/ Asked(url(w), depth(w)) \/ url(w) \in late',
         \A u \in Answering, d \in Nat :
           d < search_depth /\ Following(w, u, d) =>
             Following(w, u, d)' \/ Followed(u, d, Len(Links[u]))
  PROVE  CoverInv'
<1>1. /\ pc'[w] = l /\ pc'[Main] = pc[Main]
      /\ \A v \in Worker \ {w} : pc'[v] = pc[v]
      /\ \A v \in Worker : url(v)' = url(v) /\ depth(v)' = depth(v)
  BY ThreadFacts DEF Goto, CtlInv, CrawlTypeOK, url, depth
<1>2. FirstInv' /\ ReachInv'
  BY <1>1 DEF CoverInv, FirstInv, ReachInv
<1>3. /\ \A u, d : Asked(u, d)' <=> Asked(u, d)
      /\ late \subseteq late'
  BY DEF Asked, Watched
<1>4. \A u, d, k : Followed(u, d, k)' <=> Followed(u, d, k)
  BY DEF Followed
<1>5. AskedInv'
  <2>1. AskedInv
    BY DEF CoverInv
  <2>2. runs = 1 => docs' \subseteq Requested
    BY <2>1 DEF AskedInv
  <2>3. ASSUME NEW v \in Worker, pc'[v] \in ToStore PROVE Asked(url(v), depth(v))
    <3>1. pc[v] \in ToStore
      BY <1>1, <2>3
    <3> QED BY <2>1, <3>1 DEF AskedInv
  <2>4. ASSUME NEW v \in Worker, pc'[v] \in Settled PROVE Asked(url(v), depth(v)) \/ url(v) \in late'
    <3>1. CASE pc[v] \in Settled
      <4>1. Asked(url(v), depth(v)) \/ url(v) \in late
        BY <2>1, <3>1 DEF AskedInv, Met
      <4> QED BY <1>3, <4>1
    <3>2. CASE pc[v] \notin Settled
      <4>1. v = w
        BY <1>1, <2>4, <3>2
      <4> QED BY <1>1, <2>4, <3>2, <4>1
    <3> QED BY <3>1, <3>2
  <2>5. ASSUME NEW n \in finished PROVE Asked(tasks[n].url, tasks[n].depth) \/ tasks[n].url \in late'
    <3>1. Asked(tasks[n].url, tasks[n].depth) \/ tasks[n].url \in late
      BY <2>1 DEF AskedInv, Met
    <3> QED BY <1>3, <3>1
  <2>6. /\ \A v \in Worker : pc'[v] \in ToStore => Asked(url(v), depth(v))'
        /\ \A v \in Worker : pc'[v] \in Settled => Met(url(v), depth(v))'
    BY <1>1, <1>3, <2>3, <2>4 DEF Met
  <2>7. \A n \in finished' : Met(tasks[n].url, tasks[n].depth)'
    BY <1>3, <2>5 DEF Met
  <2> QED BY <2>2, <2>6, <2>7 DEF AskedInv, Requested
<1>6. FollowInv'
  <2> SUFFICES ASSUME NEW p \in fetched, p[1] \in Answering, p[2] < search_depth
               PROVE  \/ Followed(p[1], p[2], Len(Links[p[1]]))
                      \/ \E v \in Worker : Following(v, p[1], p[2])'
    BY <1>4 DEF FollowInv
  <2>1. p[2] \in Nat
    BY SpiderAssumption DEF CtlInv, CrawlTypeOK, DepthLimit
  <2>2. CASE \E v \in Worker \ {w} : Following(v, p[1], p[2])
    <3>1. PICK v \in Worker \ {w} : Following(v, p[1], p[2])
      BY <2>2
    <3>2. Following(v, p[1], p[2])'
      BY <1>1, <1>4, <3>1 DEF Following
    <3> QED BY <3>2
  <2> QED BY <2>1, <2>2 DEF CoverInv, FollowInv
<1> QED BY <1>2, <1>5, <1>6 DEF CoverInv

(* The steps of task() that CoverMove covers.                              *)
LEMMA CoverTask ==
  ASSUME CtlInv, CoverInv, Watched, NEW w \in Worker,
         \/ Begin(w) \/ LockDb(w) \/ Convert(w) \/ AddUrl(w) \/ GetWord(w) \/ AddWord(w)
         \/ AddUrlWord(w) \/ UnlockDb(w) \/ CountLink(w) \/ LinksDone(w) \/ PushBack(w) \/ Uncount(w)
  PROVE  CoverInv'
<1> USE ThreadFacts DEF poolVars, taskVars, loopVars, histVars, dbVars
<1> DEFINE u == url(w)
           d == depth(w)
<1>1. /\ pc[w] # "idle" /\ UNCHANGED <<tasks, running, finished, fetched, runs>>
      /\ \A v \in Worker \ {w} : index'[v] = index[v]
      /\ u \in Url /\ d \in 1..DepthLimit /\ Len(Links[u]) \in Nat
  <2>1. pc[w] # "idle" /\ UNCHANGED <<tasks, running, finished, fetched, runs>>
    BY DEF Begin, LockDb, Convert, AddUrl, GetWord, AddWord, AddUrlWord, UnlockDb, CountLink,
           LinksDone, PushBack, Uncount, DbCalls
  <2>2. \A v \in Worker \ {w} : index'[v] = index[v]
    BY DEF Begin, LockDb, Convert, AddUrl, GetWord, AddWord, AddUrlWord, UnlockDb, CountLink,
           LinksDone, PushBack, Uncount, CtlInv, CrawlTypeOK
  <2> QED BY <2>1, <2>2, TaskFacts, SpiderAssumption
<1>2. \A k, x, y : Followed(x, y, k)' <=> Followed(x, y, k)
  BY <1>1 DEF Followed
<1>3. ASSUME NEW l \in TaskLocs, Goto(w, l)
      PROVE  pc'[w] = l /\ url(w)' = u /\ depth(w)' = d
  BY <1>1, <1>3 DEF Goto, CtlInv, CrawlTypeOK, url, depth
<1>4. docs' \subseteq docs \cup Requested
  <2>1. CASE AddUrl(w)
    <3>1. Asked(u, d)
      BY <2>1 DEF AddUrl, CoverInv, AskedInv, ToStore
    <3>2. docs' \subseteq docs \cup {u}
      BY <2>1 DEF AddUrl, add_new_url, Refused
    <3> QED BY <3>1, <3>2 DEF Asked, Requested
  <2>2. CASE ~AddUrl(w)
    BY <2>2 DEF Begin, BeginTx, LockDb, Convert, GetWord, get_id_word, Refused, tables, AddWord,
       add_new_word, AddUrlWord, add_new_url_word, UnlockDb, CountLink, LinksDone, PushBack, Uncount
  <2> QED BY <2>1, <2>2
<1>5. ASSUME NEW l \in TaskLocs, Goto(w, l), l \in Settled => pc[w] \in Settled,
             l \in ToStore => pc[w] \in ToStore,
             \A x \in Answering : d < search_depth /\ Following(w, x, d) =>
               Following(w, x, d)' \/ Followed(x, d, Len(Links[x]))
      PROVE  CoverInv'
  <2>1. \A x \in Answering, y \in Nat :
          y < search_depth /\ Following(w, x, y) =>
            Following(w, x, y)' \/ Followed(x, y, Len(Links[x]))
    <3> SUFFICES ASSUME NEW x \in Answering, NEW y \in Nat, y < search_depth, Following(w, x, y)
                 PROVE  Following(w, x, y)' \/ Followed(x, y, Len(Links[x]))
      OBVIOUS
    <3>1. y = d
      BY DEF Following
    <3>2. depth(w)' = d
      BY <1>3, <1>5
    <3> QED BY <1>5, <3>1, <3>2
  <2> QED BY <1>1, <1>4, <1>5, <2>1, CoverMove
<1> USE DEF Settled, TaskLocs, DbCalls, LinkLocs, StoreLocs, ToStore
<1>6. CASE Begin(w)
  <2>1. Goto(w, pc[w]) /\ pc[w] \in TaskLocs /\ pc' = pc
    BY <1>6 DEF Begin, Goto, CtlInv, CrawlTypeOK
  <2>2. \A x : Following(w, x, d) => Following(w, x, d)'
    BY <1>6, <1>2, <1>3, <2>1 DEF Begin, Following
  <2> QED BY <1>5, <2>1, <2>2
<1>7. CASE LockDb(w) \/ AddUrl(w) \/ GetWord(w) \/ AddWord(w) \/ AddUrlWord(w)
  <2>1. PICK l \in StoreLocs : Goto(w, l) /\ (l \in ToStore => pc[w] \in ToStore)
    BY <1>7 DEF LockDb, AddUrl, GetWord, AddWord, AddUrlWord
  <2>2. pc[w] \in {"lock", "add_url", "get_word", "add_word", "add_url_word"}
    BY <1>7 DEF LockDb, AddUrl, GetWord, AddWord, AddUrlWord
  <2>3. \A x : Following(w, x, d) => Following(w, x, d)'
    BY <1>3, <2>1 DEF Following
  <2> QED BY <1>5, <2>1, <2>2, <2>3
<1>8. CASE Convert(w)
  <2>1. CASE u \in BadWords
    <3>1. Goto(w, "thrown") /\ pc[w] = "convert"
      BY <1>8, <2>1 DEF Convert
    <3>2. \A x \in Answering : ~Following(w, x, d)
      BY <2>1 DEF Following, Answering
    <3> QED BY <1>5, <3>1, <3>2
  <2>2. CASE u \notin BadWords
    <3>1. Goto(w, "add_url") /\ pc[w] = "convert"
      BY <1>8, <2>2 DEF Convert
    <3>2. \A x : Following(w, x, d) => Following(w, x, d)'
      BY <1>3, <3>1 DEF Following
    <3> QED BY <1>5, <3>1, <3>2
  <2> QED BY <2>1, <2>2
<1>9. CASE UnlockDb(w)
  <2>1. PICK l \in {"links", "returned"} : Goto(w, l) /\ (d < search_depth => l = "links")
    BY <1>9 DEF UnlockDb
  <2>2. pc[w] = "unlock" /\ index'[w] = 1
    BY <1>9 DEF UnlockDb, CtlInv, CrawlTypeOK
  <2>3. \A x : Followed(x, d, 0)
    BY DEF Followed
  <2>4. ASSUME NEW x, d < search_depth, Following(w, x, d) PROVE Following(w, x, d)'
    <3>1. index'[w] - 1 = 0
      BY <2>2
    <3> QED BY <1>2, <1>3, <2>1, <2>3, <2>4, <3>1 DEF Following
  <2> QED BY <1>5, <2>1, <2>2, <2>4
<1>10. CASE CountLink(w)
  <2>1. Goto(w, "submit") /\ pc[w] = "links" /\ index' = index
    BY <1>10 DEF CountLink
  <2>2. \A x : Following(w, x, d) => Following(w, x, d)'
    BY <1>2, <1>3, <2>1 DEF Following
  <2> QED BY <1>5, <2>1, <2>2
<1>11. CASE LinksDone(w)
  <2>1. Goto(w, "returned") /\ pc[w] = "links" /\ index[w] > Len(Links[u]) /\ index[w] \in Nat
    BY <1>11 DEF LinksDone, CtlInv, CrawlTypeOK
  <2>2. ASSUME NEW x, Following(w, x, d) PROVE Followed(x, d, Len(Links[x]))
    <3>1. x = u /\ Followed(u, d, index[w] - 1)
      BY <2>1, <2>2 DEF Following
    <3>2. \A i \in 1..Len(Links[u]) : i \in 1..(index[w] - 1)
      BY <1>1, <2>1
    <3> QED BY <3>1, <3>2 DEF Followed
  <2> QED BY <1>5, <2>1, <2>2
<1>12. CASE PushBack(w)
  <2>1. Goto(w, "links") /\ pc[w] = "push_back" /\ index'[w] = index[w] + 1 /\ index[w] \in Nat
    BY <1>12 DEF PushBack, CtlInv, CrawlTypeOK
  <2>2. index'[w] - 1 = index[w]
    BY <2>1
  <2>3. \A x : Following(w, x, d) => Following(w, x, d)'
    BY <1>2, <1>3, <2>1, <2>2 DEF Following
  <2> QED BY <1>5, <2>1, <2>3
<1>13. CASE Uncount(w)
  <2>1. Goto(w, "complete") /\ pc[w] = "returned"
    BY <1>13 DEF Uncount
  <2>2. \A x : ~Following(w, x, d)
    BY <2>1 DEF Following
  <2> QED BY <1>5, <2>1, <2>2
<1> QED BY <1>6, <1>7, <1>8, <1>9, <1>10, <1>11, <1>12, <1>13

(* The check: a page it finds has been requested no deeper, or is late.     *)
LEMMA CoverCheck ==
  ASSUME CtlInv, CoverInv, Watched, NEW w \in Worker, Check(w)
  PROVE  CoverInv'
<1> USE DEF poolVars, taskVars, loopVars, histVars, dbVars, tables
<1>1. PICK r \in BOOLEAN :
        get_id_url(w, url(w), r) /\ Goto(w, IF r THEN "returned" ELSE "fetch")
  BY DEF Check
<1> DEFINE l == IF r THEN "returned" ELSE "fetch"
<1>2. pc[w] = "check" /\ l \in TaskLocs /\ Goto(w, l) /\ pc'[w] = l
  BY <1>1, ThreadFacts DEF Check, TaskLocs, Goto, CtlInv, CrawlTypeOK
<1>3. UNCHANGED <<tasks, running, finished, fetched, runs, index>>
  BY DEF Check
<1>4. docs' = docs
  BY <1>1 DEF get_id_url, Refused
<1>5. l \in Settled => Asked(url(w), depth(w)) \/ url(w) \in late'
  <2> SUFFICES ASSUME r PROVE Asked(url(w), depth(w)) \/ url(w) \in late'
    BY DEF Settled
  <2>1. CASE Late(w)
    <3>1. url(w) \in Urls({v \in Worker : Late(v)})
      BY <2>1 DEF Urls
    <3> QED BY <1>3, <3>1 DEF Watched
  <2>2. CASE ~Late(w)
    <3>1. PICK p \in fetched : p[1] = url(w) /\ ~(p[2] > depth(w))
      BY <1>2, <2>2 DEF Late
    <3>2. p[2] \in Int /\ depth(w) \in Int
      BY <1>2, TaskFacts, SpiderAssumption DEF CtlInv, CrawlTypeOK, DepthLimit
    <3>3. p[2] <= depth(w)
      BY <3>1, <3>2
    <3> QED BY <3>1, <3>3 DEF Asked
  <2> QED BY <2>1, <2>2
<1>6. /\ \A u, d : ~Following(w, u, d)
      /\ l \notin ToStore
  BY <1>2 DEF Following, StoreLocs, ToStore
<1> HIDE DEF l
<1> QED BY <1>2, <1>3, <1>4, <1>5, <1>6, CoverMove

(* The request: its page will be followed if it answers.                   *)
LEMMA CoverFetch ==
  ASSUME CtlInv, CoverInv, Watched, NEW w \in Worker, Fetch(w)
  PROVE  CoverInv'
<1> USE DEF poolVars, taskVars, loopVars, histVars, dbVars
<1> DEFINE u == url(w)
           d == depth(w)
<1>1. PICK l \in {"lock", "returned", "thrown", "hung"} :
        Goto(w, l) /\ (Replies[u] = {"page"} => l = "lock")
  BY TaskFacts, SpiderAssumption DEF Fetch
<1>2. /\ pc[w] = "fetch" /\ fetched' = fetched \cup {<<u, d>>}
      /\ UNCHANGED <<tasks, running, finished, docs, index, runs>>
  BY DEF Fetch
<1>3. /\ pc'[w] = l /\ pc'[Main] = pc[Main]
      /\ \A v \in Worker \ {w} : pc'[v] = pc[v]
      /\ \A v \in Worker : url(v)' = url(v) /\ depth(v)' = depth(v)
  BY <1>1, <1>2, ThreadFacts DEF Goto, CtlInv, CrawlTypeOK, url, depth
<1>4. FirstInv'
  BY <1>2, <1>3, BusyStarted DEF CoverInv, FirstInv
<1>5. ReachInv'
  BY <1>2, TaskFacts DEF CoverInv, ReachInv, url, depth
<1>6. /\ \A x, y : Asked(x, y) => Asked(x, y)'
      /\ Asked(u, d)' /\ Requested \subseteq Requested'
  <2>1. \A x, y : Asked(x, y) => Asked(x, y)'
    BY <1>2 DEF Asked
  <2>2. d \in Nat /\ d <= d
    BY <1>2, TaskFacts, SpiderAssumption DEF DepthLimit
  <2>3. \A x : \A y \in Nat : <<x, y>> \in fetched' => Asked(x, y)'
    BY DEF Asked
  <2>4. Asked(u, d)'
    BY <1>2, <1>3, <2>2, <2>3
  <2>5. Requested \subseteq Requested'
    BY <1>2 DEF Requested
  <2> QED BY <2>1, <2>4, <2>5
<1>7. AskedInv'
  <2>1. AskedInv /\ late \subseteq late' /\ Requested \subseteq Requested'
    BY <1>2, <1>6 DEF CoverInv, Watched
  <2>2. ASSUME NEW v \in Worker, pc'[v] \in Settled
        PROVE  Met(url(v), depth(v))' /\ (pc'[v] \in ToStore => Asked(url(v), depth(v))')
    <3>1. CASE v = w
      BY <1>6, <3>1 DEF Met
    <3>2. CASE v # w
      <4>1. Asked(url(v), depth(v)) => Asked(url(v), depth(v))'
        BY <1>2, <1>3 DEF Asked
      <4>2. /\ Asked(url(v), depth(v)) \/ url(v) \in late
            /\ pc[v] \in ToStore => Asked(url(v), depth(v))
        BY <1>3, <2>1, <2>2, <3>2 DEF AskedInv, Met
      <4> QED BY <1>3, <2>1, <3>2, <4>1, <4>2 DEF Met
    <3> QED BY <3>1, <3>2
  <2>3. ASSUME NEW n \in finished PROVE Met(tasks[n].url, tasks[n].depth)'
    <3>1. Asked(tasks[n].url, tasks[n].depth) \/ tasks[n].url \in late
      BY <2>1 DEF AskedInv, Met
    <3>2. Asked(tasks[n].url, tasks[n].depth) => Asked(tasks[n].url, tasks[n].depth)'
      BY <1>2 DEF Asked
    <3> QED BY <1>2, <2>1, <3>1, <3>2 DEF Met
  <2>4. ToStore \subseteq Settled
    BY DEF ToStore, Settled, TaskLocs, DbCalls
  <2> QED BY <1>2, <2>1, <2>2, <2>3, <2>4 DEF AskedInv
<1>8. FollowInv'
  <2>1. \A x, y, k : Followed(x, y, k)' <=> Followed(x, y, k)
    BY <1>2 DEF Followed
  <2> SUFFICES ASSUME NEW p \in fetched', p[1] \in Answering, p[2] < search_depth
               PROVE  \/ Followed(p[1], p[2], Len(Links[p[1]]))
                      \/ \E v \in Worker : Following(v, p[1], p[2])'
    BY <1>2, <2>1 DEF FollowInv
  <2>2. CASE p \in fetched
    <3>1. CASE \E v \in Worker : Following(v, p[1], p[2])
      <4>1. PICK v \in Worker : Following(v, p[1], p[2])
        BY <3>1
      <4>2. v # w
        BY <1>2, <4>1 DEF Following, StoreLocs
      <4>3. Following(v, p[1], p[2])'
        BY <1>2, <1>3, <2>1, <4>1, <4>2 DEF Following
      <4> QED BY <4>3
    <3> QED BY <2>2, <3>1 DEF CoverInv, FollowInv
  <2>3. CASE p = <<u, d>>
    <3>1. l = "lock"
      BY <1>1, <2>3 DEF Answering
    <3>2. Following(w, p[1], p[2])'
      BY <1>3, <2>3, <3>1 DEF Following, StoreLocs
    <3> QED BY <3>2
  <2> QED BY <1>2, <2>2, <2>3
<1> QED BY <1>4, <1>5, <1>7, <1>8 DEF CoverInv

(* A task is submitted: by work() the first one, by a worker that of the    *)
(* link its loop is at.                                                    *)
LEMMA CoverEnqueue ==
  ASSUME CtlInv, CoverInv, Watched, NEW t \in Thread, NEW task, Enqueue(t, task),
         t = Main => task = [url |-> start_url, depth |-> 1],
         t \in Worker => /\ task = [url |-> Links[url(t)][index[t]], depth |-> depth(t) + 1]
                         /\ task.url \in Within(Url)[task.depth]
  PROVE  CoverInv'
<1> USE ThreadFacts DEF poolVars, taskVars, loopVars, histVars, dbVars
<1>1. /\ pc[t] = "submit" /\ pc'[t] = "push_back"
      /\ \A v \in Thread \ {t} : pc'[v] = pc[v]
      /\ UNCHANGED <<running, finished, fetched, docs, index, runs>>
  BY DEF Enqueue, Pool!Submit, Goto, CtlInv, CrawlTypeOK
<1>2. /\ Len(tasks') = Len(tasks) + 1 /\ Len(tasks) \in Nat /\ tasks'[Len(tasks) + 1] = task
      /\ \A n \in 1..Len(tasks) : n \in 1..Len(tasks') /\ tasks'[n] = tasks[n]
  BY TasksGrow DEF Enqueue
<1>3. \A v \in Worker : pc[v] # "idle" =>
        running[v] \in 1..Len(tasks) /\ url(v)' = url(v) /\ depth(v)' = depth(v)
  BY <1>1, <1>2, TaskFacts DEF url, depth
<1>4. CASE t = Main
  <2>1. tasks = << >> /\ Len(tasks) = 0 /\ fetched = {}
    BY <1>1, <1>4 DEF CoverInv, FirstInv, Starting
  <2>2. /\ Len(tasks') = 1 /\ tasks'[1] = [url |-> start_url, depth |-> 1]
        /\ tasks' # << >>
    BY <1>2, <1>4, <2>1
  <2>3. \A w \in Worker : pc'[w] = "idle"
    <3> SUFFICES ASSUME NEW w \in Worker PROVE pc[w] = "idle"
      BY <1>1, <1>4
    <3> QED BY <1>3, <2>1
  <2>4. FirstInv'
    BY <1>1, <1>4, <2>2 DEF FirstInv, Starting
  <2>5. ReachInv'
    BY <1>1, <2>1, <2>2, WithinStart DEF ReachInv
  <2>6. AskedInv' /\ FollowInv'
    <3>1. finished = {}
      BY <2>1 DEF CtlInv, PoolTypeOK
    <3>2. runs = 1 => docs \subseteq Requested
      BY DEF CoverInv, AskedInv
    <3> QED BY <1>1, <2>1, <2>3, <3>1, <3>2
            DEF AskedInv, FollowInv, Settled, ToStore, TaskLocs, DbCalls, LinkLocs, Requested
  <2> QED BY <2>4, <2>5, <2>6 DEF CoverInv
<1>5. CASE t \in Worker
  <2>1. FirstInv'
    <3>1. pc[Main] \notin Starting /\ pc'[Main] = pc[Main] /\ tasks # << >> /\ Len(tasks) > 0
      <4>1. pc[Main] \notin Starting /\ pc'[Main] = pc[Main] /\ pc[t] # "idle"
        BY <1>1, <1>5, BusyStarted
      <4> QED BY <1>2, <1>3, <1>5, <4>1
    <3>2. tasks' # << >>
      BY <1>2
    <3> QED BY <1>2, <3>1, <3>2 DEF CoverInv, FirstInv
  <2>2. ReachInv'
    BY <1>1, <1>2, <1>5 DEF CoverInv, ReachInv
  <2>3. AskedInv'
    <3>1. \A n \in finished : n \in 1..Len(tasks)
      BY DEF CtlInv, PoolTypeOK
    <3>2. AskedInv /\ late \subseteq late'
      BY <1>1 DEF CoverInv, Watched
    <3>3. ASSUME NEW v \in Worker, pc'[v] \in Settled
          PROVE  Met(url(v), depth(v))' /\ (pc'[v] \in ToStore => Asked(url(v), depth(v))')
      <4>1. pc[v] \in Settled /\ pc[v] # "idle" /\ (pc'[v] \in ToStore => pc[v] \in ToStore)
        BY <1>1, <1>5, <3>3 DEF Settled, ToStore, TaskLocs, DbCalls, LinkLocs
      <4>2. Asked(url(v), depth(v)) => Asked(url(v), depth(v))'
        BY <1>1, <1>3, <4>1 DEF Asked
      <4>3. /\ Asked(url(v), depth(v)) \/ url(v) \in late
            /\ pc[v] \in ToStore => Asked(url(v), depth(v))
        BY <3>2, <4>1 DEF AskedInv, Met
      <4> QED BY <1>3, <3>2, <4>1, <4>2, <4>3 DEF Met
    <3>4. ASSUME NEW n \in finished PROVE Met(tasks[n].url, tasks[n].depth)'
      <4>1. Asked(tasks[n].url, tasks[n].depth) \/ tasks[n].url \in late
        BY <3>2 DEF AskedInv, Met
      <4>2. tasks'[n] = tasks[n]
        BY <1>2, <3>1
      <4>3. Asked(tasks[n].url, tasks[n].depth) => Asked(tasks[n].url, tasks[n].depth)'
        BY <1>1, <4>2 DEF Asked
      <4> QED BY <3>2, <4>1, <4>2, <4>3 DEF Met
    <3>5. ToStore \subseteq Settled
      BY DEF ToStore, Settled, TaskLocs, DbCalls
    <3>6. runs' = 1 => docs' \subseteq Requested'
      BY <1>1, <3>2 DEF AskedInv, Requested
    <3> QED BY <1>1, <3>3, <3>4, <3>5, <3>6 DEF AskedInv
  <2>4. FollowInv'
    <3>1. \A x, y, k : Followed(x, y, k) => Followed(x, y, k)'
      BY <1>2 DEF Followed
    <3>2. ASSUME NEW p \in fetched, p[1] \in Answering, p[2] < search_depth,
                 NEW v \in Worker, Following(v, p[1], p[2])
          PROVE  Following(v, p[1], p[2])'
      <4>1. CASE v # t
        BY <1>1, <1>3, <3>1, <3>2, <4>1 DEF Following
      <4>2. CASE v = t
        <5>1. Followed(p[1], p[2], index[t] - 1) /\ p[1] = url(t) /\ p[2] = depth(t)
          BY <1>1, <3>2, <4>2 DEF Following, StoreLocs
        <5>2. Followed(p[1], p[2], index[t])'
          <6> SUFFICES ASSUME NEW i \in 1..index[t]
                       PROVE  \E n \in 1..Len(tasks') :
                                tasks'[n] = [url |-> Links[p[1]][i], depth |-> p[2] + 1]
            BY <1>1 DEF Followed
          <6>1. index[t] \in Nat
            BY <1>5 DEF CtlInv, CrawlTypeOK
          <6>2. CASE i = index[t]
            <7>1. Len(tasks) + 1 \in 1..Len(tasks')
              BY <1>2
            <7> QED BY <1>2, <1>5, <5>1, <6>2, <7>1
          <6>3. CASE i # index[t]
            <7>1. i \in 1..(index[t] - 1)
              BY <6>1, <6>3
            <7> QED BY <1>2, <5>1, <7>1 DEF Followed
          <6> QED BY <6>2, <6>3
        <5> QED BY <1>1, <1>3, <4>2, <5>1, <5>2 DEF Following
      <4> QED BY <4>1, <4>2
    <3> QED BY <1>1, <3>1, <3>2 DEF CoverInv, FollowInv
  <2> QED BY <2>1, <2>2, <2>3, <2>4 DEF CoverInv
<1> QED BY <1>4, <1>5 DEF Thread

(* A worker takes a task, or ends one whose page has been asked for.        *)
LEMMA CoverPool ==
  ASSUME CtlInv, CoverInv, Watched, NEW w \in Worker, Take(w) \/ Complete(w)
  PROVE  CoverInv'
<1> USE ThreadFacts DEF poolVars, taskVars, loopVars, histVars, dbVars
<1>1. /\ pc'[w] \in {"idle", "check"} /\ pc'[Main] = pc[Main]
      /\ \A v \in Worker \ {w} : pc'[v] = pc[v] /\ running'[v] = running[v]
      /\ UNCHANGED <<tasks, fetched, docs, index, runs>>
  BY DEF Take, Complete, Goto, Pool!Take, Pool!Finish, CtlInv, CrawlTypeOK, PoolTypeOK
<1>2. \A v \in Worker \ {w} : url(v)' = url(v) /\ depth(v)' = depth(v)
  BY <1>1 DEF url, depth
<1>3. FirstInv' /\ ReachInv'
  BY <1>1 DEF CoverInv, FirstInv, ReachInv
<1>4. AskedInv'
  <2>1. AskedInv /\ late \subseteq late' /\ Requested' = Requested
    BY <1>1 DEF CoverInv, Watched, Requested
  <2>2. ASSUME NEW v \in Worker, pc'[v] \in Settled
        PROVE  Met(url(v), depth(v))' /\ (pc'[v] \in ToStore => Asked(url(v), depth(v))')
    <3>1. v # w /\ pc[v] \in Settled /\ (pc'[v] \in ToStore => pc[v] \in ToStore)
      BY <1>1, <2>2 DEF Settled, TaskLocs, DbCalls, LinkLocs
    <3>2. Asked(url(v), depth(v)) => Asked(url(v), depth(v))'
      BY <1>1, <1>2, <3>1 DEF Asked
    <3>3. /\ Asked(url(v), depth(v)) \/ url(v) \in late
          /\ pc[v] \in ToStore => Asked(url(v), depth(v))
      BY <2>1, <3>1 DEF AskedInv, Met
    <3> QED BY <1>2, <2>1, <3>1, <3>2, <3>3 DEF Met
  <2>3. ASSUME NEW n \in finished' PROVE Met(tasks[n].url, tasks[n].depth)'
    <3>1. Asked(tasks[n].url, tasks[n].depth) => Asked(tasks[n].url, tasks[n].depth)'
      BY <1>1 DEF Asked
    <3>2. CASE n \in finished
      <4>1. Asked(tasks[n].url, tasks[n].depth) \/ tasks[n].url \in late
        BY <2>1, <3>2 DEF AskedInv, Met
      <4> QED BY <1>1, <2>1, <3>1, <4>1 DEF Met
    <3>3. CASE n \notin finished
      <4>1. n = running[w] /\ pc[w] \in Settled
        BY <3>3 DEF Take, Complete, Pool!Take, Pool!Finish, Settled, TaskLocs
      <4>2. Asked(url(w), depth(w)) \/ url(w) \in late
        BY <2>1, <4>1 DEF AskedInv, Met
      <4>3. Asked(tasks[n].url, tasks[n].depth) \/ tasks[n].url \in late
        BY <4>1, <4>2 DEF url, depth
      <4> QED BY <1>1, <2>1, <3>1, <4>3 DEF Met
    <3> QED BY <3>2, <3>3
  <2>4. ToStore \subseteq Settled
    BY DEF ToStore, Settled, TaskLocs, DbCalls
  <2> QED BY <1>1, <2>1, <2>2, <2>3, <2>4 DEF AskedInv
<1>5. FollowInv'
  <2>1. \A x, y, k : Followed(x, y, k)' <=> Followed(x, y, k)
    BY <1>1 DEF Followed
  <2>2. \A x, y : ~Following(w, x, y)
    BY DEF Take, Complete, Following, StoreLocs
  <2>3. \A v \in Worker \ {w} : \A x, y : Following(v, x, y) => Following(v, x, y)'
    BY <1>1, <1>2, <2>1 DEF Following
  <2> QED BY <1>1, <2>1, <2>2, <2>3 DEF CoverInv, FollowInv
<1> QED BY <1>3, <1>4, <1>5 DEF CoverInv

(* Steps that move no worker and change neither tasks nor tables.          *)
LEMMA CoverSame ==
  ASSUME CoverInv, Watched, UNCHANGED <<tasks, running, finished, fetched, docs, runs, index>>,
         \A w \in Worker : pc'[w] = pc[w],
         pc'[Main] \in Starting <=> pc[Main] \in Starting
  PROVE  CoverInv'
<1>1. \A v \in Worker : url(v)' = url(v) /\ depth(v)' = depth(v)
  BY DEF url, depth
<1>2. FirstInv' /\ ReachInv'
  BY DEF CoverInv, FirstInv, ReachInv
<1>3. AskedInv'
  <2>1. AskedInv /\ late \subseteq late'
    BY DEF CoverInv, Watched
  <2>2. \A u, d : Asked(u, d)' <=> Asked(u, d)
    BY DEF Asked
  <2>3. \A u, d : Met(u, d) => Met(u, d)'
    BY <2>1, <2>2 DEF Met
  <2> QED BY <1>1, <2>1, <2>2, <2>3 DEF AskedInv, Requested
<1>4. FollowInv'
  <2>1. \A x, y, k : Followed(x, y, k)' <=> Followed(x, y, k)
    BY DEF Followed
  <2>2. \A v \in Worker : \A x, y : Following(v, x, y) => Following(v, x, y)'
    BY <1>1, <2>1 DEF Following
  <2> QED BY <2>1, <2>2 DEF CoverInv, FollowInv
<1> QED BY <1>2, <1>3, <1>4 DEF CoverInv

LEMMA CoverMain ==
  ASSUME CtlInv, CoverInv, Watched, MainStep
  PROVE  CoverInv'
<1> USE ThreadFacts DEF poolVars, taskVars, loopVars, histVars, dbVars
<1>1. CASE SubmitFirst
  BY <1>1, CoverEnqueue DEF SubmitFirst
<1>2. CASE PushFirst \/ MainMoves
  <2>1. PICK l \in MainLocs : Goto(Main, l) /\ (l \in Starting <=> pc[Main] \in Starting)
    BY <1>2 DEF PushFirst, MainMoves, Construct, CountFirst, AllCounted, GetResult, WorkReturn,
                DestroyPool, Destroyed, Starting, MainLocs
  <2>2. pc'[Main] = l /\ \A w \in Worker : pc'[w] = pc[w]
    BY <2>1 DEF Goto, CtlInv, CrawlTypeOK
  <2>3. UNCHANGED <<tasks, running, finished, fetched, docs, runs, index>>
    BY <1>2 DEF PushFirst, MainMoves, Construct, Connect, CountFirst, AllCounted, GetResult,
                WorkReturn, DestroyPool, Destroyed, Pool!Close, Pool!ShutDown
  <2> QED BY <2>1, <2>2, <2>3, CoverSame
<1> QED BY <1>1, <1>2 DEF MainStep, MainMoves

LEMMA CoverStep ==
  ASSUME CtlInv, CoverInv, Watched, [Next]_vars
  PROVE  CoverInv'
<1>1. ASSUME NEW w \in Worker, WorkerStep(w) PROVE CoverInv'
  <2>1. CASE SubmitLink(w)
    <3> DEFINE task == [url |-> Links[url(w)][index[w]], depth |-> depth(w) + 1]
    <3>1. /\ pc[w] = "submit" /\ pc[w] # "idle" /\ w \in Thread /\ w # Main /\ Enqueue(w, task)
          /\ depth(w) < search_depth /\ index[w] \in 1..Len(Links[url(w)])
      BY <2>1, ThreadFacts DEF SubmitLink, Enqueue, CtlInv, LoopInv, LoopAt, LinkLocs
    <3>2. /\ url(w) \in Url /\ depth(w) \in 1..DepthLimit
          /\ url(w) \in Within(Url)[depth(w)]
      BY <3>1, TaskFacts DEF CoverInv, ReachInv, url, depth
    <3>3. task.url \in Within(Url)[task.depth]
      BY <3>1, <3>2, WithinNext
    <3> QED BY <3>1, <3>3, CoverEnqueue
  <2> QED BY <1>1, <2>1, CoverTask, CoverCheck, CoverFetch, CoverPool DEF WorkerStep
<1>2. CASE UNCHANGED vars
  BY <1>2, CoverSame DEF vars, poolVars, taskVars, loopVars, histVars, dbVars
<1> QED BY <1>1, <1>2, CoverMain, CoverRestart DEF Next, Terminated

-----------------------------------------------------------------------------
(* One thread executes the tasks in the order of their numbers, and their   *)
(* depths grow with them by at most one beyond that of the task at work.    *)
Started == Len(tasks) - Len(pending)

SortedInv ==
  /\ \A i \in 1..Len(pending) : pending[i] = Started + i
  /\ \A w \in Worker : pc[w] # "idle" => running[w] = Started
  /\ \A i, j \in 1..Len(tasks) : i <= j => tasks[i].depth <= tasks[j].depth
  /\ Started = 0 => Len(tasks) <= 1
  /\ Started > 0 => \A j \in 1..Len(tasks) : tasks[j].depth <= tasks[Started].depth + 1
  /\ \A p \in fetched : Started > 0 /\ p[2] <= tasks[Started].depth

LEMMA OneWorker ==
  ASSUME NumThreads = 1, NEW v \in Worker, NEW w \in Worker
  PROVE  v = w
BY DEF Worker

LEMMA TaskDepth ==
  ASSUME PoolTypeOK
  PROVE  \A n \in 1..Len(tasks) : tasks[n].depth \in Nat
<1>1. \A n \in 1..Len(tasks) : tasks[n] \in [url : Url, depth : 1..DepthLimit]
  BY SeqElement DEF PoolTypeOK
<1>2. DepthLimit \in Nat
  BY SpiderAssumption DEF DepthLimit
<1> QED BY <1>1, <1>2

LEMMA StartedRange ==
  ASSUME CtlInv, SortedInv
  PROVE  Started \in 0..Len(tasks) /\ Len(tasks) \in Nat /\ Len(pending) \in Nat
<1>1. Len(tasks) \in Nat /\ Len(pending) \in Nat
  BY DEF CtlInv, PoolTypeOK
<1>2. CASE Len(pending) = 0
  BY <1>1, <1>2 DEF Started
<1>3. CASE Len(pending) > 0
  <2>1. 1 \in 1..Len(pending)
    BY <1>1, <1>3
  <2>2. pending[1] \in 1..Len(tasks) /\ pending[1] = Started + 1
    BY <2>1, SeqElement DEF CtlInv, PoolTypeOK, SortedInv
  <2> QED BY <1>1, <1>3, <2>2 DEF Started
<1> QED BY <1>1, <1>2, <1>3

LEMMA SortedFrame ==
  ASSUME SortedInv, UNCHANGED <<tasks, pending, fetched>>,
         \A v \in Worker : pc'[v] # "idle" => pc[v] # "idle" /\ running'[v] = running[v]
  PROVE  SortedInv'
BY DEF SortedInv, Started

LEMMA SortedTake ==
  ASSUME CtlInv, SortedInv, NumThreads = 1, NEW w \in Worker, Take(w)
  PROVE  SortedInv'
<1>1. /\ UNCHANGED <<tasks, fetched>> /\ pending # << >> /\ pending' = Tail(pending)
      /\ running'[w] = Head(pending)
  BY DEF Take, Pool!Take, taskVars, histVars, CtlInv, PoolTypeOK
<1> DEFINE m == Started
           k == Len(pending)
<1>2. m \in 0..Len(tasks) /\ k \in Nat /\ Len(tasks) \in Nat /\ Len(tasks) # 0 /\ k > 0
  <2>1. m \in 0..Len(tasks) /\ k \in Nat /\ Len(tasks) \in Nat /\ k > 0
    BY <1>1, StartedRange DEF CtlInv, PoolTypeOK
  <2>2. m = Len(tasks) - k
    BY DEF Started
  <2> QED BY <2>1, <2>2
<1>3. /\ Len(pending') = k - 1 /\ Head(pending) = m + 1
      /\ \A i \in 1..(k-1) : pending'[i] = m + 1 + i
  <2>1. Head(pending) = pending[1] /\ Len(pending') = k - 1
        /\ \A i \in 1..(k-1) : pending'[i] = pending[i+1]
    BY <1>1, <1>2 DEF CtlInv, PoolTypeOK
  <2>2. \A i \in 1..k : pending[i] = m + i
    BY DEF SortedInv
  <2>3. pending[1] = m + 1
    BY <1>2, <2>2
  <2>4. \A i \in 1..(k-1) : pending[i+1] = m + 1 + i
    BY <1>2, <2>2
  <2> QED BY <2>1, <2>3, <2>4
<1>4. m + 1 \in 1..Len(tasks)
  BY <1>2 DEF Started
<1>10. Started' = m + 1
  BY <1>1, <1>2, <1>3, <1>4 DEF Started
<1>5. \A v \in Worker : pc'[v] # "idle" => running'[v] = m + 1
  BY <1>1, <1>3, OneWorker
<1>6. \A i, j \in 1..Len(tasks) : i <= j => tasks[i].depth <= tasks[j].depth
  BY DEF SortedInv
<1>7. \A n \in 1..Len(tasks) : tasks[n].depth \in Nat
  BY TaskDepth DEF CtlInv
<1>8. \A j \in 1..Len(tasks) : tasks[j].depth <= tasks[m+1].depth + 1
  <2>1. CASE m = 0
    <3>1. Started = 0 => Len(tasks) <= 1
      BY ZenonT(60) DEF SortedInv
    <3>2. m + 1 = 1 /\ m = 0
      BY <2>1
    <3>3. Len(tasks) <= 1
      BY <2>1, <3>1
    <3>4. Len(tasks) = 1
      <4>1. Len(tasks) \in Nat /\ Len(tasks) # 0
        BY <1>2
      <4>2. \A x \in Nat : x # 0 /\ x <= 1 => x = 1
        OBVIOUS
      <4> QED BY <3>3, <4>1, <4>2
    <3> QED BY <1>7, <3>2, <3>4
  <2>2. CASE m > 0
    <3>1. m \in 1..Len(tasks) /\ tasks[m].depth <= tasks[m+1].depth
      BY <1>2, <1>4, <1>6, <2>2
    <3>2. \A j \in 1..Len(tasks) : tasks[j].depth <= tasks[m].depth + 1
      BY <2>2 DEF SortedInv
    <3> QED BY <1>4, <1>7, <3>1, <3>2
  <2> QED BY <1>2, <2>1, <2>2
<1>9. \A p \in fetched : p[2] <= tasks[m+1].depth
  <2> SUFFICES ASSUME NEW p \in fetched PROVE p[2] <= tasks[m+1].depth
    OBVIOUS
  <2>1. m > 0 /\ p[2] <= tasks[m].depth
    BY DEF SortedInv
  <2>2. m \in 1..Len(tasks) /\ tasks[m].depth <= tasks[m+1].depth
    BY <1>2, <1>4, <1>6, <2>1
  <2>3. p[2] \in Int
    BY SpiderAssumption DEF CtlInv, CrawlTypeOK, DepthLimit
  <2> QED BY <1>4, <1>7, <2>1, <2>2, <2>3
<1> QED
  <2>1. \A i \in 1..Len(pending') : pending'[i] = Started' + i
    BY <1>3, <1>10
  <2>2. Started' > 0 /\ Started' # 0
    BY <1>2, <1>10
  <2> QED BY <1>1, <1>4, <1>10, <1>5, <1>6, <1>8, <1>9, <2>1, <2>2 DEF SortedInv

LEMMA SortedEnqueue ==
  ASSUME CtlInv, CoverInv, SortedInv, NumThreads = 1, NEW t \in Thread, NEW task, Enqueue(t, task),
         t = Main => task = [url |-> start_url, depth |-> 1],
         t \in Worker => task.depth = depth(t) + 1
  PROVE  SortedInv'
<1> USE ThreadFacts DEF poolVars, taskVars, loopVars, histVars, dbVars
<1> DEFINE m == Started
           n == Len(tasks)
<1>1. /\ pc[t] = "submit" /\ pc'[t] = "push_back"
      /\ \A v \in Thread \ {t} : pc'[v] = pc[v]
      /\ UNCHANGED <<running, fetched>> /\ pending' = Append(pending, n + 1)
  BY DEF Enqueue, Pool!Submit, Goto, CtlInv, CrawlTypeOK
<1>2. /\ Len(tasks') = n + 1 /\ n \in Nat /\ tasks'[n + 1] = task
      /\ \A i \in 1..n : i \in 1..Len(tasks') /\ tasks'[i] = tasks[i]
  BY TasksGrow DEF Enqueue
<1>3. m \in 0..n /\ Len(pending) \in Nat /\ m = n - Len(pending)
  BY StartedRange DEF Started
<1>4. /\ Len(pending') = Len(pending) + 1 /\ pending'[Len(pending) + 1] = n + 1
      /\ \A i \in 1..Len(pending) : pending'[i] = pending[i]
  BY <1>1 DEF CtlInv, PoolTypeOK
<1>5. Started' = m
  BY <1>2, <1>3, <1>4 DEF Started
<1>6. \A i \in 1..Len(pending') : pending'[i] = m + i
  <2>1. \A i \in 1..Len(pending) : pending[i] = m + i
    BY DEF SortedInv
  <2> QED BY <1>3, <1>4, <2>1
<1>7. \A i \in 1..n : tasks[i].depth \in Nat
  BY TaskDepth DEF CtlInv
<1>8. CASE t = Main
  <2>1. tasks = << >> /\ n = 0 /\ fetched = {} /\ m = 0
    BY <1>1, <1>3, <1>8 DEF CoverInv, FirstInv, Starting
  <2>2. \A w \in Worker : pc'[w] = "idle"
    BY <1>1, <1>8, <2>1, TaskFacts
  <2>3. Len(tasks') = 1 /\ tasks'[1].depth = 1
    BY <1>2, <1>8, <2>1
  <2> QED BY <1>1, <1>5, <1>6, <2>1, <2>2, <2>3 DEF SortedInv
<1>9. CASE t \in Worker
  <2>1. running[t] = m /\ m \in 1..n /\ task.depth = tasks[m].depth + 1
    BY <1>1, <1>9, TaskFacts DEF SortedInv, depth
  <2>2. \A v \in Worker : pc'[v] # "idle" => running'[v] = m
    BY <1>1, <1>9, <2>1, OneWorker
  <2>3. \A j \in 1..n : tasks[j].depth <= tasks[m].depth + 1
    <3>1. Started > 0
      BY <1>3, <2>1
    <3> QED BY <3>1 DEF SortedInv
  <2>4. \A j \in 1..n : tasks[j].depth <= task.depth
    BY <2>1, <2>3
  <2>5. ASSUME NEW i \in 1..(n+1), NEW j \in 1..(n+1), i <= j
        PROVE  tasks'[i].depth <= tasks'[j].depth
    <3>1. CASE j = n + 1
      BY <1>2, <1>7, <2>1, <2>4, <2>5, <3>1
    <3>2. CASE j # n + 1
      <4>1. i \in 1..n /\ j \in 1..n
        BY <1>2, <2>5, <3>2
      <4> QED BY <1>2, <2>5, <4>1 DEF SortedInv
    <3> QED BY <3>1, <3>2
  <2>6. \A j \in 1..(n+1) : tasks'[j].depth <= tasks'[m].depth + 1
    BY <1>2, <1>7, <2>1, <2>3
  <2>7. \A p \in fetched : Started > 0 /\ p[2] <= tasks'[m].depth
    BY <1>2, <2>1 DEF SortedInv
  <2>8. m > 0
    BY <2>1
  <2> QED BY <1>1, <1>2, <1>5, <1>6, <2>2, <2>5, <2>6, <2>7, <2>8 DEF SortedInv
<1> QED BY <1>8, <1>9 DEF Thread

LEMMA SortedFetch ==
  ASSUME CtlInv, SortedInv, NumThreads = 1, NEW w \in Worker, Fetch(w)
  PROVE  SortedInv'
<1>1. /\ pc[w] = "fetch" /\ fetched' = fetched \cup {<<url(w), depth(w)>>}
      /\ UNCHANGED <<tasks, pending, running>>
  BY DEF Fetch, poolVars, taskVars
<1>2. \A v \in Worker : pc[v] # "idle"
  BY <1>1, OneWorker
<1>3. running[w] = Started /\ Started \in 1..Len(tasks) /\ depth(w) = tasks[Started].depth
  BY <1>1, TaskFacts DEF SortedInv, depth
<1>4. Started > 0 /\ depth(w) <= tasks[Started].depth
  BY <1>3, TaskDepth DEF CtlInv
<1>5. Started' = Started
  BY <1>1 DEF Started
<1>6. \A p \in fetched' : Started > 0 /\ p[2] <= tasks[Started].depth
  BY <1>1, <1>4 DEF SortedInv
<1> QED BY <1>1, <1>2, <1>5, <1>6 DEF SortedInv

LEMMA SortedFresh ==
  ASSUME PoolTypeOK', tasks' = << >>, fetched' = {}, \A w \in Worker : pc'[w] = "idle"
  PROVE  SortedInv'
<1>1. Len(tasks') = 0
  OBVIOUS
<1>2. pending' = << >> /\ Len(pending') = 0
  <2>1. pending' \in Seq(1..0)
    BY <1>1 DEF PoolTypeOK
  <2>2. \A i \in 1..Len(pending') : pending'[i] \in 1..0
    BY <2>1, SeqElement
  <2> QED BY <2>1, <2>2
<1>3. Started' = 0
  BY <1>1, <1>2 DEF Started
<1> QED BY <1>1, <1>2, <1>3 DEF SortedInv

LEMMA SortedStep ==
  ASSUME CtlInv, CoverInv, SortedInv, NumThreads = 1, [Next]_vars
  PROVE  SortedInv'
<1> USE ThreadFacts DEF poolVars, taskVars, loopVars, histVars, dbVars
<1>1. ASSUME NEW w \in Worker, WorkerStep(w) PROVE SortedInv'
  <2>1. CASE SubmitLink(w)
    BY <2>1, SortedEnqueue DEF SubmitLink
  <2>2. CASE Complete(w)
    BY <2>2, SortedFrame DEF Complete, Pool!Finish, Goto, CtlInv, CrawlTypeOK, PoolTypeOK
  <2>3. CASE \/ Begin(w) \/ Check(w) \/ LockDb(w) \/ Convert(w) \/ AddUrl(w) \/ GetWord(w)
             \/ AddWord(w) \/ AddUrlWord(w) \/ UnlockDb(w) \/ CountLink(w) \/ LinksDone(w)
             \/ PushBack(w) \/ Uncount(w)
    <3>1. UNCHANGED <<tasks, pending, fetched, running>> /\ pc[w] # "idle"
      BY <2>3 DEF Begin, Check, LockDb, Convert, AddUrl, GetWord, AddWord, AddUrlWord, UnlockDb,
                  CountLink, LinksDone, PushBack, Uncount, DbCalls
    <3>2. \A v \in Worker : pc[v] # "idle"
      BY <3>1, OneWorker
    <3> QED BY <3>1, <3>2, SortedFrame
  <2> QED BY <1>1, <2>1, <2>2, <2>3, SortedTake, SortedFetch DEF WorkerStep
<1>2. CASE SubmitFirst
  BY <1>2, SortedEnqueue DEF SubmitFirst
<1>3. CASE PushFirst \/ MainMoves
  <2>1. UNCHANGED <<tasks, pending, fetched, running>>
    BY <1>3 DEF PushFirst, MainMoves, Construct, Connect, CountFirst, AllCounted, GetResult,
                WorkReturn, DestroyPool, Destroyed, Pool!Close, Pool!ShutDown
  <2>2. PICK l : Goto(Main, l)
    BY <1>3 DEF PushFirst, MainMoves, Construct, CountFirst, AllCounted, GetResult, WorkReturn,
                DestroyPool, Destroyed
  <2>3. \A w \in Worker : pc'[w] = pc[w]
    BY <2>2 DEF Goto, CtlInv, CrawlTypeOK
  <2> QED BY <2>1, <2>3, SortedFrame
<1>4. CASE Restart
  <2>1. PoolTypeOK'
    BY <1>4, CtlStep DEF Next, CtlInv
  <2>2. tasks' = << >> /\ fetched' = {} /\ \A w \in Worker : pc'[w] = "idle"
    BY <1>4 DEF Restart, BootPc
  <2> QED BY <2>1, <2>2, SortedFresh
<1>5. CASE UNCHANGED vars
  BY <1>5, SortedFrame DEF vars
<1> QED BY <1>1, <1>2, <1>3, <1>4, <1>5 DEF Next, MainStep, MainMoves, Terminated

-----------------------------------------------------------------------------
(* Down to depth 2: until the start page has been checked there is no other *)
(* task, and all others are at depth 2.                                     *)
FirstWaits ==
  \/ 1 \in Rows(pending)
  \/ \E w \in Worker : pc[w] = "check" /\ running[w] = 1

ShallowInv ==
  /\ \A n \in 1..Len(tasks) : tasks[n].depth = 1 => n = 1
  /\ FirstWaits => fetched = {} /\ Len(tasks) = 1

LEMMA ShallowFrame ==
  ASSUME ShallowInv, UNCHANGED <<tasks, fetched>>, FirstWaits' => FirstWaits
  PROVE  ShallowInv'
BY DEF ShallowInv

(* Where the first task waits, no worker is past its check.                *)
LEMMA NobodyElse ==
  ASSUME CtlInv, OnceInv, ShallowInv, FirstWaits, NEW w \in Worker, pc[w] # "idle"
  PROVE  pc[w] = "check" /\ running[w] = 1
<1>1. running[w] \in 1..Len(tasks) /\ Len(tasks) = 1
  BY TaskFacts DEF ShallowInv
<1>2. running[w] = 1 /\ running[w] # NoTask
  BY <1>1 DEF NoTask
<1>3. 1 \notin Rows(pending)
  BY <1>2 DEF OnceInv
<1> QED BY <1>2, <1>3 DEF FirstWaits, OnceInv

LEMMA ShallowStep ==
  ASSUME CtlInv, OnceInv, CoverInv, ShallowInv, search_depth <= 2, [Next]_vars
  PROVE  ShallowInv'
<1> USE ThreadFacts DEF poolVars, taskVars, loopVars, histVars, dbVars
<1>1. ASSUME NEW w \in Worker, WorkerStep(w) PROVE ShallowInv'
  <2>1. CASE SubmitLink(w)
    <3> DEFINE task == [url |-> Links[url(w)][index[w]], depth |-> depth(w) + 1]
    <3>1. /\ pc[w] = "submit" /\ pc'[w] = "push_back" /\ running' = running
          /\ \A v \in Worker \ {w} : pc'[v] = pc[v]
          /\ tasks' = Append(tasks, task) /\ fetched' = fetched
          /\ pending' = Append(pending, Len(tasks) + 1)
      BY <2>1 DEF SubmitLink, Enqueue, Pool!Submit, Goto, CtlInv, CrawlTypeOK
    <3>2. /\ Len(tasks') = Len(tasks) + 1 /\ Len(tasks) \in Nat /\ tasks'[Len(tasks) + 1] = task
          /\ \A n \in 1..Len(tasks) : n \in 1..Len(tasks') /\ tasks'[n] = tasks[n]
      BY <3>1, TasksGrow
    <3>3. ~FirstWaits /\ Len(tasks) >= 1
      BY <3>1, <3>2, NobodyElse, TaskFacts
    <3>4. task.depth # 1
      <4>1. depth(w) \in 1..DepthLimit /\ DepthLimit \in Nat
        BY <3>1, TaskFacts, SpiderAssumption DEF DepthLimit
      <4>2. task.depth = depth(w) + 1
        OBVIOUS
      <4> QED BY <4>1, <4>2
    <3>5. ASSUME NEW n \in 1..Len(tasks'), tasks'[n].depth = 1 PROVE n = 1
      <4>1. n # Len(tasks) + 1
        BY <3>2, <3>4, <3>5
      <4>2. n \in 1..Len(tasks)
        BY <3>2, <4>1
      <4> QED BY <3>2, <3>5, <4>2 DEF ShallowInv
    <3>6. ~FirstWaits'
      <4>1. \A i \in 1..Len(pending) : pending[i] # 1
        BY <3>3 DEF FirstWaits, Rows
      <4>2. Len(tasks) + 1 # 1
        BY <3>2, <3>3
      <4>3. \A i \in 1..Len(pending') : pending'[i] # 1
        <5> SUFFICES ASSUME NEW i \in 1..Len(pending') PROVE pending'[i] # 1
          OBVIOUS
        <5>1. /\ Len(pending') = Len(pending) + 1 /\ Len(pending) \in Nat
              /\ \A j \in 1..Len(pending) : pending'[j] = pending[j]
              /\ pending'[Len(pending) + 1] = Len(tasks) + 1
          BY <3>1 DEF CtlInv, PoolTypeOK
        <5>2. CASE i \in 1..Len(pending)
          BY <4>1, <5>1, <5>2
        <5>3. CASE i = Len(pending) + 1
          BY <4>2, <5>1, <5>3
        <5> QED BY <5>1, <5>2, <5>3
      <4> QED BY <3>1, <3>3, <4>3 DEF FirstWaits, Rows
    <3> QED BY <3>5, <3>6 DEF ShallowInv
  <2>2. CASE Take(w)
    <3>1. /\ UNCHANGED <<tasks, fetched>> /\ pending # << >> /\ pending' = Tail(pending)
          /\ running'[w] = Head(pending) /\ \A v \in Worker \ {w} : running'[v] = running[v]
          /\ \A v \in Worker \ {w} : pc'[v] = pc[v]
      BY <2>2 DEF Take, Pool!Take, Goto, CtlInv, PoolTypeOK, CrawlTypeOK
    <3>2. Head(pending) \in Rows(pending) /\ Rows(pending') \subseteq Rows(pending)
      BY <3>1 DEF Rows, CtlInv, PoolTypeOK
    <3> QED BY <3>1, <3>2, ShallowFrame DEF FirstWaits
  <2>3. CASE Fetch(w)
    <3>1. pc[w] = "fetch" /\ UNCHANGED <<tasks, pending, running>> /\ ~FirstWaits
      BY <2>3, NobodyElse DEF Fetch
    <3>2. PICK l \in {"lock", "returned", "thrown", "hung"} : Goto(w, l)
      BY <2>3, <3>1, TaskFacts, SpiderAssumption DEF Fetch
    <3>3. \A v \in Worker : pc'[v] = "check" => pc[v] = "check"
      BY <3>2 DEF Goto, CtlInv, CrawlTypeOK
    <3> QED BY <3>1, <3>3 DEF FirstWaits, ShallowInv, Rows
  <2>4. CASE \/ Begin(w) \/ Check(w) \/ LockDb(w) \/ Convert(w) \/ AddUrl(w) \/ GetWord(w)
             \/ AddWord(w) \/ AddUrlWord(w) \/ UnlockDb(w) \/ CountLink(w) \/ LinksDone(w)
             \/ PushBack(w) \/ Uncount(w) \/ Complete(w)
    <3>1. /\ UNCHANGED <<tasks, pending, fetched>> /\ pc[w] # "idle"
          /\ \A v \in Worker : pc'[v] = "check" => pc[v] = "check" /\ running'[v] = running[v]
      <4>1. CASE Complete(w)
        BY <4>1 DEF Complete, Pool!Finish, Goto, CtlInv, CrawlTypeOK, PoolTypeOK
      <4>2. CASE Begin(w)
        BY <4>2 DEF Begin, DbCalls
      <4>3. CASE ~Complete(w) /\ ~Begin(w)
        <5>1. UNCHANGED <<tasks, pending, fetched, running>> /\ pc[w] # "idle"
          BY <2>4, <4>3 DEF Check, LockDb, Convert, AddUrl, GetWord, AddWord, AddUrlWord, UnlockDb,
                      CountLink, LinksDone, PushBack, Uncount
        <5>2. PICK l : Goto(w, l) /\ l # "check"
          BY <2>4, <4>3 DEF Check, LockDb, Convert, AddUrl, GetWord, AddWord, AddUrlWord, UnlockDb,
                      CountLink, LinksDone, PushBack, Uncount
        <5> QED BY <5>1, <5>2 DEF Goto, CtlInv, CrawlTypeOK
      <4> QED BY <4>1, <4>2, <4>3
    <3>2. FirstWaits' => FirstWaits
      BY <3>1 DEF FirstWaits, Rows
    <3> QED BY <3>1, <3>2, ShallowFrame
  <2> QED BY <1>1, <2>1, <2>2, <2>3, <2>4 DEF WorkerStep
<1>2. CASE SubmitFirst
  <2>1. tasks = << >> /\ fetched = {} /\ UNCHANGED fetched
        /\ tasks' = Append(tasks, [url |-> start_url, depth |-> 1])
    BY <1>2 DEF SubmitFirst, Enqueue, CoverInv, FirstInv, Starting
  <2>2. Len(tasks') = 1 /\ Len(tasks) = 0
    BY <2>1
  <2> QED BY <2>1, <2>2 DEF ShallowInv
<1>3. CASE PushFirst \/ MainMoves
  <2>1. UNCHANGED <<tasks, pending, fetched, running>>
    BY <1>3 DEF PushFirst, MainMoves, Construct, Connect, CountFirst, AllCounted, GetResult,
                WorkReturn, DestroyPool, Destroyed, Pool!Close, Pool!ShutDown
  <2>2. PICK l : Goto(Main, l)
    BY <1>3 DEF PushFirst, MainMoves, Construct, CountFirst, AllCounted, GetResult, WorkReturn,
                DestroyPool, Destroyed
  <2>3. \A w \in Worker : pc'[w] = pc[w]
    BY <2>2 DEF Goto, CtlInv, CrawlTypeOK
  <2> QED BY <2>1, <2>3, ShallowFrame DEF FirstWaits, Rows
<1>4. CASE Restart
  <2>1. tasks' = << >> /\ fetched' = {} /\ pending' = << >> /\ \A w \in Worker : pc'[w] = "idle"
    BY <1>4 DEF Restart, BootPc
  <2>2. Len(tasks') = 0 /\ ~FirstWaits'
    BY <2>1 DEF FirstWaits, Rows
  <2> QED BY <2>2 DEF ShallowInv
<1>5. CASE UNCHANGED vars
  BY <1>5, ShallowFrame DEF vars, FirstWaits, Rows
<1> QED BY <1>1, <1>2, <1>3, <1>4, <1>5 DEF Next, MainStep, MainMoves, Terminated

-----------------------------------------------------------------------------
(* Either way, a check finds only what was requested at its depth or nearer *)
(* to the start page.                                                      *)
InOrder == NumThreads = 1 \/ search_depth <= 2

OrderInv ==
  InOrder => \A w \in Worker : pc[w] = "check" => \A p \in fetched : p[2] <= depth(w)

TurnInv == (NumThreads = 1 => SortedInv) /\ (search_depth <= 2 => ShallowInv)

LEMMA TurnOrder ==
  ASSUME CtlInv, TurnInv
  PROVE  OrderInv
<1> SUFFICES ASSUME InOrder, NEW w \in Worker, pc[w] = "check", NEW p \in fetched
             PROVE  p[2] <= depth(w)
  BY DEF OrderInv
<1>1. running[w] \in 1..Len(tasks) /\ depth(w) \in 1..DepthLimit
  BY TaskFacts
<1>2. p[2] \in 1..DepthLimit
  BY DEF CtlInv, CrawlTypeOK
<1>3. CASE NumThreads = 1
  BY <1>1, <1>3 DEF TurnInv, SortedInv, depth
<1>4. CASE search_depth <= 2
  <2>1. DepthLimit \in Nat /\ DepthLimit <= 2
    BY <1>4, SpiderAssumption DEF DepthLimit
  <2>2. depth(w) # 1
    <3>1. ~FirstWaits
      BY <1>4 DEF TurnInv, ShallowInv
    <3>2. running[w] # 1
      BY <3>1 DEF FirstWaits
    <3> QED BY <1>1, <1>4, <3>2 DEF TurnInv, ShallowInv, depth
  <2> QED BY <1>1, <1>2, <2>1, <2>2
<1> QED BY <1>3, <1>4 DEF InOrder
(* In a first run nothing is late then.                                     *)
TimelyInv == InOrder /\ runs = 1 => late = {}

(* All together.                                                           *)
CrawlInv == CtlInv /\ DbInv /\ CountInv /\ CoverInv /\ TurnInv /\ TimelyInv

LEMMA CrawlStart == HInit => CrawlInv
<1> SUFFICES ASSUME HInit PROVE CrawlInv
  OBVIOUS
<1> USE DEF HInit
<1>1. CtlInv /\ DbInv /\ CountInv /\ CoverInv
  BY CtlInit, DbStart, CountStart, CoverInit
<1>2. /\ tasks = << >> /\ fetched = {} /\ pending = << >> /\ Len(tasks) = 0 /\ Len(pending) = 0
      /\ \A w \in Worker : pc[w] = "idle"
  BY ThreadFacts DEF Init, Pool!Init, BootPc
<1>3. SortedInv
  <2>1. Started = 0
    BY <1>2 DEF Started
  <2> QED BY <1>2, <2>1 DEF SortedInv
<1>4. ShallowInv
  BY <1>2 DEF ShallowInv, FirstWaits, Rows
<1> QED BY <1>1, <1>3, <1>4 DEF CrawlInv, TurnInv, TimelyInv

LEMMA TimelyStep ==
  ASSUME CtlInv, CoverInv, OrderInv, TimelyInv, [Next]_vars, Watched
  PROVE  TimelyInv'
<1>1. CASE runs' # runs
  BY <1>1 DEF Watched, TimelyInv
<1>2. CASE runs' = runs
  <2> SUFFICES ASSUME InOrder, runs = 1, NEW w \in Worker, Late(w) PROVE FALSE
    BY <1>2 DEF Watched, TimelyInv, Urls
  <2>1. pc[w] = "check" /\ pc'[w] = "returned"
    BY DEF Late
  <2>2. url(w) \in docs
    BY <2>1, FoundInDocs
  <2>3. PICK p \in fetched : p[1] = url(w)
    BY <2>2 DEF CoverInv, AskedInv, Requested
  <2>4. p[2] <= depth(w) /\ p[2] > depth(w)
    BY <2>1, <2>3 DEF OrderInv, Late
  <2>5. p[2] \in Int /\ depth(w) \in Int
    BY <2>1, TaskFacts, SpiderAssumption DEF CtlInv, CrawlTypeOK, DepthLimit
  <2> QED BY <2>4, <2>5
<1> QED BY <1>1, <1>2

LEMMA CrawlStep ==
  ASSUME CrawlInv, [Next]_vars, Watched
  PROVE  CrawlInv'
<1> USE DEF CrawlInv
<1>1. CtlInv' /\ DbInv' /\ CountInv'
  BY CtlStep, DbStep, CountStep
<1>2. CoverInv' /\ TimelyInv'
  BY TurnOrder, CoverStep, TimelyStep
<1>3. NumThreads = 1 => SortedInv'
  BY SortedStep DEF TurnInv
<1>4. search_depth <= 2 => ShallowInv'
  BY ShallowStep DEF TurnInv, CountInv
<1> QED BY <1>1, <1>2, <1>3, <1>4 DEF TurnInv

LEMMA CrawlAlways == HSpec => []CrawlInv
<1>1. CrawlInv /\ [HNext]_<<vars, history>> => CrawlInv'
  BY Watching, CrawlStep
<1> QED BY <1>1, CrawlStart, PTL DEF HSpec

-----------------------------------------------------------------------------
(* At the end of a crawl nothing is left to follow: every page of the       *)
(* reference has been met, at its distance or nearer.                      *)
LEMMA CrawlEnds ==
  ASSUME CrawlInv, pc[Main] = "done"
  PROVE  /\ finished = 1..Len(tasks)
         /\ \A w \in Worker : pc[w] \in {"idle", "complete"}
         /\ \A w \in Worker : \A u, d : ~Following(w, u, d)
<1>1. finished = 1..Len(tasks) /\ Executing = {}
  BY DEF CrawlInv, CountInv, WorkComplete
<1>2. \A w \in Worker : pc[w] # "idle" => pc[w] = "complete"
  BY <1>1 DEF Executing, CrawlInv, CtlInv, RunInv
<1> QED BY <1>1, <1>2 DEF Following, StoreLocs

LEMMA AskedNearer ==
  ASSUME CtlInv, NEW u, NEW d \in Int, Asked(u, d), NEW e \in Int, d <= e
  PROVE  Asked(u, e)
<1>1. PICK p \in fetched : p[1] = u /\ p[2] <= d
  BY DEF Asked
<1>2. p[2] \in Int
  BY SpiderAssumption DEF CtlInv, CrawlTypeOK, DepthLimit
<1>3. p[2] <= e
  BY <1>1, <1>2
<1> QED BY <1>1, <1>3 DEF Asked

LEMMA Everywhere ==
  ASSUME CrawlInv, pc[Main] = "done"
  PROVE  \A d \in 1..DepthLimit : \A u \in Within(Answering \ late)[d] : Met(u, d)
<1> DEFINE From == Answering \ late
           Seen(d) == \A u \in Within(From)[d] : Met(u, d)
           S == {n \in Nat : n + 1 \in 1..DepthLimit => Seen(n + 1)}
<1>1. AskedInv /\ FollowInv /\ FirstInv /\ CtlInv
  BY DEF CrawlInv, CoverInv
<1>2. \A n \in 1..Len(tasks) : Met(tasks[n].url, tasks[n].depth)
  BY <1>1, CrawlEnds DEF AskedInv
<1>3. 0 \in S
  <2>1. tasks # << >> /\ tasks[1] = [url |-> start_url, depth |-> 1]
    BY <1>1 DEF FirstInv, Starting
  <2>2. 1 \in 1..Len(tasks)
    BY <1>1, <2>1 DEF CtlInv, PoolTypeOK
  <2>3. Met(start_url, 1)
    BY <1>2, <2>1, <2>2
  <2>4. 0 + 1 = 1
    OBVIOUS
  <2> QED BY <2>3, <2>4, WithinStart
<1>4. ASSUME NEW n \in Nat, n \in S PROVE n + 1 \in S
  <2> DEFINE d == n + 1
  <2> SUFFICES ASSUME d + 1 \in 1..DepthLimit, NEW u \in Within(From)[d + 1], u \notin late
               PROVE  Asked(u, d + 1)
    BY DEF Met
  <2>1. /\ d \in 1..DepthLimit /\ d \in Int /\ d + 1 \in Int /\ d <= d + 1
        /\ d + 1 # 1 /\ (d + 1) - 1 = d /\ d < search_depth
    BY SpiderAssumption DEF DepthLimit
  <2>2. Seen(d)
    BY <1>4, <2>1
  <2>3. Within(From)[d + 1] =
          Within(From)[d] \cup UNION {Rows(Links[v]) : v \in Within(From)[d] \cap From}
    BY <2>1, WithinEquation
  <2>4. CASE u \in Within(From)[d]
    BY <1>1, <2>1, <2>2, <2>4, AskedNearer DEF Met
  <2>5. CASE u \notin Within(From)[d]
    <3>1. PICK v \in Within(From)[d] \cap From : u \in Rows(Links[v])
      BY <2>3, <2>5
    <3>2. PICK i \in 1..Len(Links[v]) : u = Links[v][i]
      BY <3>1 DEF Rows
    <3>3. PICK p \in fetched : p[1] = v /\ p[2] <= d
      BY <2>2, <3>1 DEF Asked, Met
    <3>4. p[2] \in Nat /\ p[2] < search_depth /\ p[2] + 1 <= d + 1 /\ p[2] + 1 \in Int
      <4>1. p[2] \in 1..DepthLimit /\ DepthLimit \in Nat /\ search_depth \in Nat
        BY <1>1, SpiderAssumption DEF CtlInv, CrawlTypeOK, DepthLimit
      <4> QED BY <2>1, <3>3, <4>1
    <3>5. Followed(v, p[2], Len(Links[v]))
      BY <1>1, <3>1, <3>3, <3>4, CrawlEnds DEF FollowInv
    <3>6. PICK m \in 1..Len(tasks) : tasks[m] = [url |-> u, depth |-> p[2] + 1]
      BY <3>2, <3>5 DEF Followed
    <3>7. Asked(u, p[2] + 1)
      BY <1>2, <3>6 DEF Met
    <3> QED BY <1>1, <2>1, <3>4, <3>7, AskedNearer
  <2> QED BY <2>4, <2>5
<1>5. Nat \subseteq S
  <2> HIDE DEF S
  <2> QED BY <1>3, <1>4, Induction
<1> SUFFICES ASSUME NEW d \in 1..DepthLimit PROVE Seen(d)
  OBVIOUS
<1>6. d - 1 \in Nat /\ (d - 1) + 1 = d
  BY SpiderAssumption DEF DepthLimit
<1> QED BY <1>5, <1>6

LEMMA CoveredAtEnd ==
  ASSUME CrawlInv, pc[Main] = "done"
  PROVE  Within(Answering \ late)[DepthLimit] \subseteq Requested \cup late
<1>1. DepthLimit \in 1..DepthLimit
  BY SpiderAssumption DEF DepthLimit
<1> SUFFICES ASSUME NEW u \in Within(Answering \ late)[DepthLimit] PROVE u \in Requested \cup late
  OBVIOUS
<1>2. Met(u, DepthLimit)
  BY <1>1, Everywhere
<1> QED BY <1>2 DEF Met, Asked, Requested

(* No crawl requests anything deeper than the task that requests it, and a  *)
(* crawl that ends has met every page within search_depth along pages that  *)
(* answer and were not late: for any number of threads, any failures, kills *)
(* and restarts (spider.cpp:86 and 220).                                   *)
THEOREM CrawlCovers == HSpec => []Coverage
<1>1. CrawlInv => Coverage
  <2> SUFFICES ASSUME CrawlInv PROVE Coverage
    OBVIOUS
  <2>1. \A p \in fetched : p[1] \in Within(Url)[p[2]]
    BY DEF CrawlInv, CoverInv, ReachInv
  <2> QED BY <2>1, CoveredAtEnd DEF Coverage
<1> QED BY <1>1, CrawlAlways, PTL

(* With one thread at any depth, and with any number of threads down to the *)
(* depth of 2 of the shipped settings.ini, nothing is late in a first run:  *)
(* it has requested every page within search_depth along pages that answer. *)
THEOREM FirstCrawlCovers ==
  ASSUME NumThreads = 1 \/ search_depth <= 2
  PROVE  HSpec => [](pc[Main] = "done" /\ runs = 1 => Within(Answering)[DepthLimit] \subseteq Requested)
<1>1. CrawlInv => (pc[Main] = "done" /\ runs = 1 => Within(Answering)[DepthLimit] \subseteq Requested)
  <2> SUFFICES ASSUME CrawlInv, pc[Main] = "done", runs = 1
               PROVE  Within(Answering)[DepthLimit] \subseteq Requested
    OBVIOUS
  <2>1. late = {}
    BY DEF CrawlInv, TimelyInv, InOrder
  <2>2. Answering \ late = Answering /\ Requested \cup late = Requested
    BY <2>1
  <2> QED BY <2>2, CoveredAtEnd
<1> QED BY <1>1, CrawlAlways, PTL

(* When a crawl has ended, what it has requested and what answered is in    *)
(* the database with all its words, unless some have been lost; and a first *)
(* run has stored nothing else.                                            *)
THEOREM CrawlIsIndexed ==
  ASSUME DistinctWords
  PROVE  HSpec => []FullyIndexed
<1>1. CrawlInv /\ KeptInv => FullyIndexed
  <2> SUFFICES ASSUME CrawlInv, KeptInv, pc[Main] = "done" PROVE FullyIndexed
    BY DEF FullyIndexed
  <2>1. runs = 1 => docs \subseteq Requested
    BY DEF CrawlInv, CoverInv, AskedInv
  <2>2. \A w \in Worker : pc[w] \in {"idle", "complete"}
    BY CrawlEnds
  <2>3. ASSUME NEW u \in Requested \cap Answering, Words[u] # << >> PROVE AllThere(u) \/ u \in lost
    <3>1. \A w \in Worker : ~Indexing(w, u) /\ ~Storing(w, u)
      BY <2>2 DEF Indexing, Storing, WorkLocs
    <3>2. u \in docs \cup lost
      BY <2>3, <3>1 DEF KeptInv, RequestedInv
    <3> QED BY <3>1, <3>2 DEF KeptInv, DocsInv, Accounted
  <2> QED BY <2>1, <2>3 DEF FullyIndexed
<1> QED BY <1>1, CrawlAlways, KeptAlways, PTL
=============================================================================
