---------------------------- MODULE SearchEngine ----------------------------
(***************************************************************************)
(* What the two programs do together: the spider turns a document into     *)
(* words and stores them one by one, the searcher turns a request into     *)
(* words and lists the pages that have them.  The two never meet but in    *)
(* the tables, and each has its own idea of what a word is: the spider     *)
(* counts characters (html_parser.cpp), the searcher bytes                 *)
(* (http_server_async.cpp), and they do not remove the same characters.    *)
(*                                                                         *)
(* A text is a sequence of characters.  A document is a sequence of parts: *)
(* its title, its texts, scripts and tags, each in or outside the body.    *)
(***************************************************************************)
EXTENDS Naturals, FiniteSets, SequencesExt

CONSTANTS
  Space, Plus,      \* white space, and what a form sends for it
  Latin, Cyrillic,  \* letters of one byte and of two
  Digit,
  Mark,             \* removed from documents and from requests: . , : ? " ...
  Kept,             \* removed from documents only: - ( ) / @ ...
  Foreign,          \* any other character of two bytes, a quotation mark
  Lower,            \* what to_lower makes of a letter
  Page, Document,   \* Document[u] is what the page u holds
  Requests,         \* bodies of POST requests: [named, text]
  Files,            \* states of the result page's file
  min_word_length, max_word_length, search_results

Letter == Latin \cup Cyrillic
Char == Letter \cup Digit \cup Mark \cup Kept \cup Foreign \cup {Space, Plus}
Kinds == {"title", "text", "script", "tag"}

ASSUME LimitsAssumption ==
  /\ min_word_length \in Nat /\ max_word_length \in Nat /\ search_results \in Nat
  /\ Lower \in [Letter -> Letter]

VARIABLES
  docs,       \* DOCS
  docs_words, \* docs_words joined with WORDS: records [url, word, quantity]
  words_html, \* what add_url_words_to_db still has to store of each page
  cut,        \* history: pages whose storing a kill has cut short
  answer      \* the last response to a query

vars == <<docs, docs_words, words_html, cut, answer>>

-----------------------------------------------------------------------------
(* Texts and words. *)

ToLower(t) == [i \in DOMAIN t |-> IF t[i] \in Letter THEN Lower[t[i]] ELSE t[i]]

(* Where a stringstream finds a word: an interval without space that       *)
(* cannot be made longer.                                                  *)
Intervals(t) ==
  {r \in (DOMAIN t) \X (DOMAIN t) :
     /\ r[1] <= r[2]
     /\ \A i \in r[1]..r[2] : t[i] # Space
     /\ r[1] > 1 => t[r[1] - 1] = Space
     /\ r[2] < Len(t) => t[r[2] + 1] = Space}

WordsOf(t) == {SubSeq(t, r[1], r[2]) : r \in Intervals(t)}
Times(w, t) == Cardinality({r \in Intervals(t) : SubSeq(t, r[1], r[2]) = w})

(* std::string::size. *)
Bytes(w) == Len(w) + Len(SelectSeq(w, LAMBDA c : c \in Cyrillic \cup Foreign))

-----------------------------------------------------------------------------
(* The spider's side. *)

TitleOf(d) ==
  LET titles == SelectSeq(d, LAMBDA p : p.kind = "title")
  IN IF titles = << >> THEN << >> ELSE titles[1].text


(* Scripts are replaced first, then the body is taken if there is one,     *)
(* then tags are replaced, those around a title too.                       *)
TextOf(p) ==
  CASE p.kind = "text"  -> p.text
    [] p.kind = "title" -> <<Space>> \o p.text \o <<Space>>
    [] OTHER            -> <<Space>>

HasBody(d) == \E i \in DOMAIN d : d[i].body

Visible(d) ==
  LET whole == [i \in DOMAIN d |-> TextOf(d[i])]
      inside == SelectSeq(d, LAMBDA p : p.body)
  IN FlattenSeq(IF HasBody(d) THEN [i \in DOMAIN inside |-> TextOf(inside[i])] ELSE whole)

(* Digits leave nothing behind, so that what is around them is joined; of  *)
(* a foreign character a byte is left, which to_lower skips.               *)
Cleaned(c) == CASE c \in Digit -> << >> [] c \in Letter -> <<c>> [] OTHER -> <<Space>>

html_index(d) ==
  LET html == TitleOf(d) \o <<Space>> \o Visible(d)
  IN ToLower(FlattenSeq([i \in DOMAIN html |-> Cleaned(html[i])]))

new_words(html) ==
  {[word |-> w, quantity |-> Times(w, html)] :
     w \in {v \in WordsOf(html) : Len(v) > min_word_length /\ Len(v) < max_word_length}}

(* add_url_words_to_db: the url first, each word in a transaction of its   *)
(* own after it.                                                           *)
AddUrl(u) ==
  /\ u \notin docs
  /\ docs' = docs \cup {u}
  /\ words_html' = [words_html EXCEPT ![u] = new_words(html_index(Document[u]))]
  /\ UNCHANGED <<docs_words, cut, answer>>

AddWord(u) ==
  \E e \in words_html[u] :
    /\ docs_words' = docs_words \cup {[url |-> u, word |-> e.word, quantity |-> e.quantity]}
    /\ words_html' = [words_html EXCEPT ![u] = @ \ {e}]
    /\ UNCHANGED <<docs, cut, answer>>

(* The spider's process ends; no later run takes up a page in DOCS again.  *)
Kill ==
  /\ \E u \in Page : words_html[u] # {}
  /\ cut' = cut \cup {u \in Page : words_html[u] # {}}
  /\ words_html' = [u \in Page |-> {}]
  /\ UNCHANGED <<docs, docs_words, answer>>

-----------------------------------------------------------------------------
(* The searcher's side. *)

url_decode(t) == ReplaceAll(t, Plus, Space)

(* Mutant: the request keeps its capital letters. *)
clear_req_str_case(r) ==
  IF ~r.named THEN << >>
  ELSE LET text == url_decode(r.text)
       IN [i \in DOMAIN text |-> IF text[i] \in Mark THEN Space ELSE text[i]]

(* A body that does not begin with "query=" gives an empty string.         *)
clear_req_str(r) ==
  IF ~r.named THEN << >>
  ELSE LET text == url_decode(r.text)
       IN ToLower([i \in DOMAIN text |-> IF text[i] \in Mark THEN Space ELSE text[i]])

words_str(r) ==
  {w \in WordsOf(clear_req_str(r)) : Bytes(w) > min_word_length /\ Bytes(w) < max_word_length}

RowsFor(u, ws) == {row \in docs_words : row.url = u /\ row.word \in ws}
Rank(u, ws) == MapThenSumSet(LAMBDA row : row.quantity, RowsFor(u, ws))


(* One select: group by url, order by rank desc, limit search_results. The *)
(* order of equal ranks is the server's.                                   *)
Listings(ws) ==
  LET found == {u \in Page : RowsFor(u, ws) # {}}
      size == IF Cardinality(found) < search_results THEN Cardinality(found) ELSE search_results
  IN {s \in [1..size -> found] :
        /\ \A i, j \in 1..size : i < j => s[i] # s[j] /\ Rank(s[i], ws) >= Rank(s[j], ws)
        /\ \A u \in found : (\A i \in 1..size : s[i] # u)
                            => \A i \in 1..size : Rank(s[i], ws) >= Rank(u, ws)}

Response(kind, rows) == [kind |-> kind, rows |-> rows]

(* Without words the string is a blank; the select may fail.               *)
poisk_url_by_words(ws) ==
  IF ws = {} THEN {Response("blank", << >>)}
  ELSE {Response("error", << >>)} \cup
       {Response("list", [i \in DOMAIN s |-> [url |-> s[i], rank |-> Rank(s[i], ws)]])
          : s \in Listings(ws)}

(* The results replace the marker, or follow the file; without the file    *)
(* they are not in the page at all.                                        *)
prepare_string_to_html_result(file, res) ==
  IF file = "missing" THEN Response("no_file", << >>) ELSE res

handle_request(r) ==
  /\ \E res \in poisk_url_by_words(words_str(r)), file \in Files :
       answer' = [request |-> r, page |-> prepare_string_to_html_result(file, res)]
  /\ UNCHANGED <<docs, docs_words, words_html, cut>>

-----------------------------------------------------------------------------
Init ==
  /\ docs = {} /\ docs_words = {} /\ cut = {}
  /\ words_html = [u \in Page |-> {}]
  /\ answer = [request |-> [named |-> FALSE, text |-> << >>], page |-> Response("blank", << >>)]

Crawl == \E u \in Page : AddUrl(u) \/ AddWord(u)
Query == \E r \in Requests : handle_request(r)

Next == Crawl \/ Kill \/ Query
Spec == Init /\ [][Next]_vars

-----------------------------------------------------------------------------
(* What a document says and a request asks, defined without regard to how  *)
(* either program finds it out.                                            *)

(* The places in t where the letters w stand, with no letter before or     *)
(* after them.  Digits count as nothing, as the code says it wants it.     *)
Stands(w, t) ==
  LET s == SelectSeq(t, LAMBDA c : c \notin Digit)
      IsLetter(i) == i \in DOMAIN s /\ s[i] \in Letter
  IN {i \in DOMAIN s :
        /\ i + Len(w) - 1 \in DOMAIN s
        /\ \A k \in 1..Len(w) : IsLetter(i + k - 1) /\ Lower[s[i + k - 1]] = w[k]
        /\ ~IsLetter(i - 1) /\ ~IsLetter(i + Len(w))}

(* A reader sees the title and the texts of the body, or all texts.        *)
SeenParts(d) ==
  {i \in DOMAIN d : \/ d[i].kind = "title" /\ ~d[i].body
                    \/ d[i].kind = "text" /\ (HasBody(d) => d[i].body)}
Says(u, w) ==
  MapThenSumSet(LAMBDA i : Cardinality(Stands(w, Document[u][i].text)), SeenParts(Document[u]))

(* Words a user may ask for: letters only, and short enough in bytes.      *)
Findable(w) ==
  /\ \A i \in DOMAIN w : w[i] \in Letter
  /\ Len(w) > min_word_length /\ Bytes(w) < max_word_length
Asks(r) ==
  LET gap == Mark \cup {Space, Plus}
      text == [i \in DOMAIN r.text |-> IF r.text[i] \in gap THEN Space ELSE r.text[i]]
  IN IF r.named THEN {ToLower(w) : w \in WordsOf(text)} ELSE {}

SaysAny(u, ws) == MapThenSumSet(LAMBDA w : Says(u, w), ws)
Whole(u) == u \in docs \ cut /\ words_html[u] = {}

Listed(rows) == {rows[i].url : i \in DOMAIN rows}

(* A page that has been stored completely and says a word the user asks    *)
(* for is in the list, unless the list is full, although the two programs  *)
(* measure words differently.                                              *)
PagesAreFound ==
  [][LET asked == {w \in Asks(answer'.request) : Findable(w)}
         rows == answer'.page.rows
     IN answer'.page.kind = "list" =>
          \A u \in Page :
            (Whole(u) /\ SaysAny(u, asked) > 0)
            => u \in Listed(rows) \/ Len(rows) = search_results]_answer


=============================================================================
