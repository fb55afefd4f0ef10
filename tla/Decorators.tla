----------------------------- MODULE Decorators -----------------------------
(***************************************************************************)
(* The decorated texts of Lesson_2 (task-82-1.cpp).  Each decorator owns   *)
(* the text below it; SimpleText is at the bottom.  A string is its name   *)
(* and whether it is read backwards; the output is the sequence of what is *)
(* sent to std::cout.                                                      *)
(***************************************************************************)
EXTENDS Naturals, SequencesExt

CONSTANTS
  Strings,   \* texts to render
  MaxDepth   \* bound: decorators around a text

Tag == [ItalicText |-> "<i>", BoldText |-> "<b>", Paragraph |-> "<p>"]
LinkBegins == "<a href="
LinkGoesOn == ">"
LinkEnds   == "</a>"
Decorator == DOMAIN Tag \cup {"Reversed", "Link"}
StringValue == [name : Strings, backwards : BOOLEAN]
Sign(s) == [name |-> s, backwards |-> FALSE]

VARIABLES
  object,   \* the decorators, the innermost first
  out       \* the output of the last call of render

text_vars == <<object, out>>

(* Mutant: the copy is turned, the text itself is passed on. *)
Forwards(text) == text

Backwards(text) == [text EXCEPT !.backwards = ~@]

(* What render of the decorator d prints for each text, below being what   *)
(* render of the object it owns does.  Tags are opened twice.  A Link has  *)
(* no render of one argument of its own, so that a call through the base   *)
(* class prints the text alone.                                            *)
Decorated(below, d) ==
  [text \in StringValue |->
     IF d = "Link" THEN <<text>>
     ELSE IF d = "Reversed" THEN below[Backwards(text)]
     ELSE <<Sign(Tag[d])>> \o below[text] \o <<Sign(Tag[d])>>]

(* render(text) of the object at each height, 0 being the SimpleText.      *)
render(obj) ==
  LET r[i \in 0..Len(obj)] ==
        IF i = 0 THEN [text \in StringValue |-> <<text>>] ELSE Decorated(r[i - 1], obj[i])
  IN r

(* Link::render(text1, text2). *)
render_link(obj, text1, text2) ==
  LET below == render(obj)[Len(obj) - 1]
  IN <<Sign(LinkBegins)>> \o below[text1] \o <<Sign(LinkGoesOn)>> \o below[text2] \o <<Sign(LinkEnds)>>

Decorate(d) ==
  /\ Len(object) < MaxDepth
  /\ object' = Append(object, d)
  /\ UNCHANGED out

Render(s) ==
  /\ out' = render(object)[Len(object)][Sign(s)]
  /\ UNCHANGED object

RenderLink(s, t) ==
  /\ object # << >> /\ Last(object) = "Link"
  /\ out' = render_link(object, Sign(s), Sign(t))
  /\ UNCHANGED object

TextInit == object = << >> /\ out = << >>

TextNext ==
  \/ \E d \in Decorator : Decorate(d)
  \/ \E s \in Strings : Render(s)
  \/ \E s, t \in Strings : RenderLink(s, t)

TextSpec == TextInit /\ [][TextNext]_text_vars

-----------------------------------------------------------------------------
(* What is around the text: all decorators above the topmost Link in obj.  *)
Around(obj) ==
  LET links == {i \in DOMAIN obj : obj[i] = "Link"}
  IN SubSeq(obj, 1 + (IF links = {} THEN 0 ELSE Max(links)), Len(obj))

(* The text of an output, in the midst of its tags, the innermost first.   *)
Says(output, obj, s) ==
  LET around == Around(obj)
      tags == FlattenSeq([i \in DOMAIN around |-> IF around[i] = "Reversed" THEN << >> ELSE <<around[i]>>])
      turns == Len(around) - Len(tags)
      n == Len(tags)
  IN /\ Len(output) = 2 * n + 1
     /\ \A i \in 1..n : output[n + 1 - i] = Sign(Tag[tags[i]]) /\ output[n + 1 + i] = Sign(Tag[tags[i]])
     /\ output[n + 1] = [name |-> s, backwards |-> turns % 2 = 1]

(* Of one step: the new output is that of the text, or of a link to it.    *)
TextPrinted ==
  LET front == SubSeq(object, 1, Len(object) - 1)
  IN \/ \E s \in Strings : Says(out', object, s)
     \/ \E s, t \in Strings, m \in DOMAIN out' :
          /\ out'[1] = Sign(LinkBegins) /\ out'[m] = Sign(LinkGoesOn)
          /\ Last(out') = Sign(LinkEnds)
          /\ Says(SubSeq(out', 2, m - 1), front, s)
          /\ Says(SubSeq(out', m + 1, Len(out') - 1), front, t)

(* Every call prints its text once, decorated by everything above the      *)
(* topmost Link and turned once for every Reversed there; a Link decorates *)
(* both of its texts with all that is inside it.                           *)
TextIsDecorated == [][TextPrinted]_out
=============================================================================
