---------------------------- MODULE CrawlHistory ----------------------------
(***************************************************************************)
(* What a crawl leaves behind.  Three things happen to the pages of a      *)
(* crawl by Spider that its own state does not remember; here they are     *)
(* written down, as history variables beside the actions of Spider, which  *)
(* are the same.  The properties say that nothing else happens: what is    *)
(* stored, skipped and requested is as it should be for all other pages.   *)
(***************************************************************************)
EXTENDS Spider

VARIABLES
  twice,   \* pages processed again while they were stored, or after it
  lost,    \* pages of which the database has lost something
  late     \* pages skipped in this run by a task nearer to the start page
           \* than every request of theirs

history == <<twice, lost, late>>

(* From the check that has found nothing to the insertion of the url.      *)
FreshLocs == {"fetch", "lock", "convert", "add_url"}

(* The words of a page are being added. *)
Storing(w, u) == pc[w] \in WorkLocs /\ url(w) = u

(* The check of w gets no answer: it is refused, or the statement fails.    *)
Unanswered(w) == Refused(w) \/ Fails(w)

(* The check of w lets its page through, which another worker has let       *)
(* through and not stored, or which is stored and the check could not know. *)
Again(w) ==
  /\ pc[w] = "check" /\ pc'[w] = "fetch"
  /\ \/ \E v \in Worker \ {w} : pc[v] \in FreshLocs /\ url(v) = url(w)
     \/ url(w) \in docs /\ Unanswered(w)

(* The url is not inserted, a word is not linked to it, or the program is   *)
(* killed in between.                                                      *)
Loses(w) ==
  \/ pc[w] = "add_url" /\ pc'[w] = "unlock"
  \/ pc[w] = "add_url_word" /\ pc'[w] # pc[w] /\ docs_words' = docs_words
  \/ pc[w] \in WorkLocs /\ pc'[w] = "idle"

(* The check of w finds a page that this run has requested only for tasks   *)
(* further from the start page, or not at all.                             *)
Late(w) ==
  /\ pc[w] = "check" /\ pc'[w] = "returned"
  /\ \A p \in fetched : p[1] = url(w) => p[2] > depth(w)

Urls(W) == {url(w) : w \in W}

Observe ==
  /\ twice' = twice \cup Urls({w \in Worker : Again(w)})
  /\ lost' = lost \cup Urls({w \in Worker : Loses(w)})
  /\ late' = IF runs' # runs THEN {} ELSE late \cup Urls({w \in Worker : Late(w)})

HInit == Init /\ twice = {} /\ lost = {} /\ late = {}

HNext == Next /\ Observe

HSpec == HInit /\ [][HNext]_<<vars, history>>

-----------------------------------------------------------------------------
(* A word is counted for a page as often as it stands there and no more, in *)
(* every run, whatever fails and whenever the program is killed: only pages *)
(* let through again, by a check that was too early or got no answer, may   *)
(* be counted more than once (spider.cpp:86).                              *)
IndexedOnce ==
  \A u \in Url \ twice, x \in Word : docs_words[<<u, x>>] <= Count(u, x)

(* "Такая страница имеется в БД и ранее была обработана" (such a page is in  *)
(* the database and has been processed before): a page that is skipped has  *)
(* all its words, or another worker is adding them at this moment, or some  *)
(* have been lost.                                                         *)
AllThere(u) == u \in docs /\ \A x \in Word : docs_words[<<u, x>>] >= Count(u, x)

Accounted(u) == AllThere(u) \/ u \in lost \/ \E v \in Worker : Storing(v, u)

SkipMeansProcessed ==
  [][\A w \in Worker :
       pc[w] = "check" /\ pc'[w] = "returned" => Accounted(url(w))]_vars

(* When the program ends, every page it has requested and that answered is  *)
(* in the database with all its words, unless some have been lost; and a    *)
(* first run has stored nothing else.                                      *)
FullyIndexed ==
  pc[Main] = "done" =>
    /\ \A u \in Requested \cap Answering :
         Words[u] # << >> => AllThere(u) \/ u \in lost
    /\ runs = 1 => docs \subseteq Requested

(* A crawl that ends has met every page within search_depth of the start    *)
(* page along pages that answer, whatever failed on the way: it has         *)
(* requested it, or skipped it as stored.  The way does not lead over pages *)
(* that were skipped by a task nearer to the start page than their          *)
(* requests: such a task leaves the links to one that may not follow them.  *)
(* And no crawl requests anything deeper than the task that requests it.    *)
Coverage ==
  /\ \A p \in fetched : p[1] \in Within(Url)[p[2]]
  /\ pc[Main] = "done" =>
       Within(Answering \ late)[DepthLimit] \subseteq Requested \cup late

-----------------------------------------------------------------------------
(* The inductive invariants behind these properties.                       *)

(* A page not let through again has one worker at most between its check    *)
(* and its last word; the words before index[w] have been counted, and, as  *)
(* nobody else adds any, the others have not.                              *)
OneWriter ==
  \A v, w \in Worker :
    /\ pc[v] \in FreshLocs \cup WorkLocs /\ pc[w] \in FreshLocs \cup WorkLocs
    /\ url(v) = url(w) /\ url(w) \notin twice
    => v = w

FreshInv ==
  \A w \in Worker :
    pc[w] \in FreshLocs /\ url(w) \notin twice => url(w) \notin docs

UncountedInv ==
  \A w \in Worker :
    pc[w] \in WorkLocs /\ url(w) \notin twice =>
      \A i \in 1..Len(Words[url(w)]) :
        i >= index[w] => docs_words[<<url(w), Words[url(w)][i][1]>>] = 0

CountedInv ==
  \A w \in Worker :
    pc[w] \in WorkLocs /\ url(w) \notin lost =>
      \A i \in 1..Len(Words[url(w)]) :
        i < index[w] => docs_words[<<url(w), Words[url(w)][i][1]>>] >= Words[url(w)][i][2]

OnceOnly == OneWriter /\ FreshInv /\ UncountedInv /\ IndexedOnce

(* What is in DOCS is accounted for, and what has been requested will be.   *)
Indexing(w, u) == pc[w] \in {"lock", "convert", "add_url"} /\ url(w) = u

DocsInv == \A u \in docs : Accounted(u)

RequestedInv ==
  \A u \in Requested \cap Answering :
    Words[u] # << >> => u \in docs \cup lost \/ \E w \in Worker : Indexing(w, u)

KeptInv == CountedInv /\ DocsInv /\ RequestedInv
=============================================================================
