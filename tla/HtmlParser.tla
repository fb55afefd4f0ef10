----------------------------- MODULE HtmlParser -----------------------------
(***************************************************************************)
(* The urls of the spider: class Html_parser (html_parser.cpp) completes   *)
(* the links of a page, Spider::task follows them.                         *)
(*                                                                         *)
(* A url or a reference is the sequence of the texts between its slashes:  *)
(* "https://h.ru/a/" is <<"https:", "", "h.ru", "a", "">>.                 *)
(***************************************************************************)
EXTENDS Naturals, Sequences

CONSTANTS
  Segment,      \* texts without a slash, the empty one aside
  Empty,        \* the empty text
  Http, Https,  \* "http:" and "https:"
  Colon,        \* the segments that end with a colon
  Dotted,       \* the segments that contain a dot
  Hash,         \* the segments that begin with #
  Dots,         \* "." and ".."
  HostOf,       \* the part of a segment before its first colon
  Hrefs,        \* the references that stand in pages
  Starts,       \* start pages
  search_depth

Text == Segment \cup {Empty}
Url  == Seq(Text) \ {<< >>}

ASSUME ParserAssumption ==
  /\ Empty \notin Segment /\ Http # Https
  /\ {Http, Https} \subseteq Colon
  /\ Colon \subseteq Segment /\ Dots \subseteq Dotted
  /\ Dotted \subseteq Segment /\ Hash \subseteq Segment
  /\ DOMAIN HostOf = Text
  /\ Hrefs \subseteq Url \ {<<Empty>>} /\ Starts \subseteq Url
  /\ search_depth \in Nat

VARIABLES
  url, depth,   \* the arguments of task()
  href          \* history: the reference that led to url

vars == <<url, depth, href>>

-----------------------------------------------------------------------------
Until(s, n) == SubSeq(s, 1, n)
From(s, n)  == SubSeq(s, n, Len(s))
LastOf(s)   == s[Len(s)]

(* The texts of s that are not empty. *)
NonEmpty(s) ==
  LET kept[i \in 0..Len(s)] == IF i = 0 THEN << >>
                               ELSE IF s[i] = Empty THEN kept[i - 1]
                               ELSE Append(kept[i - 1], s[i])
  IN kept[Len(s)]

(* "/{2,}" -> "/": texts between two slashes are not empty.                *)
Collapse(s) ==
  IF Len(s) < 3 THEN s
  ELSE <<s[1]>> \o NonEmpty(SubSeq(s, 2, Len(s) - 1)) \o <<LastOf(s)>>

(* find("://"): the segments in front of one, and the first of them. *)
Marks(s) == {i \in 1..(Len(s) - 2) : s[i] \in Colon /\ s[i+1] = Empty}
Mark(s)  == CHOOSE i \in Marks(s) : \A j \in Marks(s) : i <= j

(* find("http://") == 0 or find("https://") == 0 *)
HasScheme(s) == Len(s) > 2 /\ s[1] \in {Http, Https} /\ s[2] = Empty

Trim(s) == IF Len(s) > 1 /\ LastOf(s) = Empty THEN Until(s, Len(s) - 1) ELSE s

(* Mutant of DropFile: the name of the host is a last segment, too.        *)
DropFileOrHost(p) ==
  IF LastOf(p) \in Dotted THEN Append(Until(p, Len(p) - 1), Empty) ELSE p

(* Mutant of DropFile: the last segment is taken for a file, always.       *)
DropLast(p) == IF Len(p) < 2 THEN p ELSE Until(p, Len(p) - 1)

(* The last segment behind a slash goes if it contains a dot. The regular  *)
(* expression matches from the leftmost slash it can: its dot may be a     *)
(* slash itself.                                                           *)
DropFile(p) ==
  IF Len(p) < 2 \/ LastOf(p) \notin Dotted THEN p
  ELSE Until(p, IF Len(p) > 2 /\ p[Len(p)-1] = Empty THEN Len(p) - 2 ELSE Len(p) - 1)

get_base_path(s) ==
  LET t == Trim(s)
  IN  IF HasScheme(t) THEN Until(t, 2) \o Collapse(DropFile(From(t, 3)))
                      ELSE Collapse(DropFile(t))

FromRoot(h)  == Len(h) > 1 /\ h[1] = Empty
Complete(h)  == Marks(h) # {} \/ (Len(h) > 2 /\ h[1] = Empty /\ h[2] = Empty)

complete_url(h, base) ==
  IF h = <<Empty>> THEN base
  ELSE IF Complete(h) THEN h
  ELSE LET full == base \o (IF FromRoot(h) THEN Tail(h) ELSE h)
       IN  IF Marks(full) = {} THEN Collapse(full)
           ELSE Until(full, Mark(full) + 1) \o Collapse(From(full, Mark(full) + 2))

(* Mutant of get_all_links: the page itself is not left out.               *)
get_all_links_self(hs, current) ==
  {complete_url(h, get_base_path(current)) : h \in {g \in hs : g[1] \notin Hash}}

(* hs are the values of href on the page. *)
get_all_links(hs, current) ==
  {complete_url(h, get_base_path(current)) : h \in {g \in hs : g[1] \notin Hash}}
    \ {current}

get_host_target(s) ==
  LET r == IF Marks(s) = {} THEN s ELSE From(s, Mark(s) + 2)
  IN  [host   |-> HostOf[r[1]],
       target |-> IF Len(r) = 1 THEN <<Empty, Empty>> ELSE [r EXCEPT ![1] = Empty]]

-----------------------------------------------------------------------------
Init ==
  /\ url \in Starts
  /\ depth = 1
  /\ href = << >>

(* task() loads the page, whose scheme is http or https, and submits a task *)
(* for each of its links.                                                  *)
Follow ==
  /\ HasScheme(url)
  /\ depth < search_depth
  /\ \E h \in Hrefs :
       /\ url' \in get_all_links({h}, url)
       /\ href' = h
  /\ depth' = depth + 1

Next == Follow

Spec == Init /\ [][Next]_vars

-----------------------------------------------------------------------------
(* Urls stay urls, never empty, and nothing is deeper than search_depth.   *)
TypeOK ==
  /\ url \in Url
  /\ depth = 1 \/ depth \in 2..search_depth
  /\ href \in Hrefs \cup {<< >>}

(* What task() asks of the client: the protocol, the host and the target.  *)
Request(u) == [https |-> u[1] = Https, at |-> get_host_target(u)]

(* A reference that is not complete never leaves the host of the page, nor  *)
(* its protocol, however many of them have been glued together before. (A  *)
(* page without a host, "https://", loses one of its slashes.)             *)
StaysOnHost ==
  [][~Complete(href') /\ url # <<url[1], Empty, Empty>> =>
       /\ HasScheme(url')
       /\ url'[1] = url[1]
       /\ Request(url').at.host = Request(url).at.host]_vars

(* A page does not link to itself under another spelling of its url: the    *)
(* same request would be indexed twice.  Two spellings pass: the slash that *)
(* a bare host may have ("https://h.ru" and "https://h.ru/"), and, in a      *)
(* complete reference, the port, which get_host_target cuts off.  (An empty *)
(* host answers no request.)                                               *)
NoSelfLink ==
  [][HasScheme(url') /\ url[3] # Empty /\ Request(url') = Request(url) =>
       \/ Len(url) = 3 /\ url' = Append(url, Empty)
       \/ /\ Complete(href')
          /\ \/ url'[3] # url[3]
             \/ Len(url') = 3 /\ url = Append(url', Empty)]_vars

(* The target a relative reference has on a page by RFC 3986, 5.2.3.       *)
Resolve(h, u) ==
  LET p == From(u, 3)
      d == IF Len(p) = 1 \/ FromRoot(h) THEN Until(p, 1) ELSE Until(p, Len(p) - 1)
  IN  Until(u, 2) \o d \o (IF FromRoot(h) THEN Tail(h) ELSE h)

(* Pages whose kind the parser recognises: a host, a file with a dot in its *)
(* name, a directory with a final slash and no dot.                        *)
AtHost(u)  == Len(get_base_path(u)) = 3
Regular(u) ==
  \/ Len(u) = 3
  \/ LastOf(u) \in Dotted
  \/ /\ LastOf(u) = Empty
     /\ (Len(u) > 4 => u[Len(u)-1] \notin Dotted)

(* References the parser recognises: no second slash in a row, no "..", and *)
(* one from the root only on the pages of the root.                        *)
Plain(h, u) ==
  /\ ~Complete(h) /\ h[1] \notin Hash
  /\ \A i \in 2..(Len(h) - 1) : h[i] # Empty
  /\ \A i \in 1..Len(h) : h[i] \notin Dots
  /\ FromRoot(h) => AtHost(u)

(* "Получение ссылок текущей страницы" (the links of the current page): a   *)
(* link leads where the reference leads, whatever path led to the page.    *)
LinksResolve ==
  HasScheme(url) /\ Regular(url) /\ url[3] # Empty /\ (\A i \in 4..(Len(url)-1) : url[i] # Empty)
    => \A h \in Hrefs :
         Plain(h, url) => complete_url(h, get_base_path(url)) = Resolve(h, url)
=============================================================================
