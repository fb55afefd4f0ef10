------------------------------ MODULE IniFile ------------------------------
(***************************************************************************)
(* The configuration both programs start from: the class ini_parcer        *)
(* (ini_parser.cpp, a copy in each) reads the file line by line, and main  *)
(* asks it for its settings in a fixed order.                              *)
(*                                                                         *)
(* A line is a sequence of characters; only those the code looks for are   *)
(* told apart.                                                             *)
(***************************************************************************)
EXTENDS Integers, SequencesExt

CONSTANTS
  Lines,      \* the lines a file may be made of
  MaxLines,   \* bound: lines of a file
  Settings,   \* what main asks for, in order: [section, key, type]
  Threads,    \* the setting of these that is max_threads
  Hardware,   \* what hardware_concurrency may return
  npos,       \* beyond all positions of a line
  MaxInt,     \* the greatest int
  Wrap        \* a size_t is a number below Wrap

Digits    == {"0", "1", "9"}
Space     == " "
Equals    == "="
Semicolon == ";"
Opening   == "["
Closing   == "]"
White     == {Space, "TAB"}
Special   == White \cup {Equals, Semicolon, Opening, Closing}
Types     == {"string", "int"}
IntRange  == -MaxInt - 1 .. MaxInt

(* A word has none of the characters the parser looks for.                 *)
Word(s) == s # << >> /\ \A i \in DOMAIN s : s[i] \notin Special

(* Lines are text; main asks for words; as a size_t, a negative int is     *)
(* greater than the number of threads of any machine.                      *)
ASSUME IniAssumption ==
  /\ MaxLines \in Nat /\ npos \in Nat
  /\ \A line \in Lines : line \in Seq(STRING) /\ Len(line) < npos
  /\ DOMAIN Settings = 1..Len(Settings) /\ Len(Settings) \in Nat
  /\ \A n \in DOMAIN Settings :
       /\ Settings[n].type \in Types
       /\ Settings[n].section \in Seq(STRING) /\ Word(Settings[n].section)
       /\ Settings[n].key \in Seq(STRING) /\ Word(Settings[n].key)
  /\ Threads \in DOMAIN Settings /\ Settings[Threads].type = "int"
  /\ MaxInt \in Nat /\ Wrap \in Nat \ {0}
  /\ Hardware # {} /\ IsFiniteSet(Hardware) /\ Hardware \subseteq 0..(Wrap - MaxInt - 2)

VARIABLES
  name_file,        \* history: the lines read so far
  current_section,
  config,           \* (section, key) -> value
  phase,            \* "read", "ask", "started" or "failed"
  ini_data,         \* the settings main has read
  max_threads       \* what Spider gets

ini_vars == <<name_file, current_section, config, phase, ini_data, max_threads>>

-----------------------------------------------------------------------------
(* std::string: positions are counted from 0. *)
find(s, c) == LET at == {i \in DOMAIN s : s[i] = c} IN IF at = {} THEN npos ELSE Min(at) - 1
substr(s, from, size) == SubSeq(s, from + 1, Min({Len(s), from + size}))
Back(s) == s[Len(s)]

(* substr throws out_of_range when the string has nothing but spaces. *)
Trimmable(s) == \E i \in DOMAIN s : s[i] # Space

(* pos_end is taken before the spaces in front are cut off: as many        *)
(* characters stay at the end.                                             *)
erase_ispace(s) ==
  LET kept == {i \in DOMAIN s : s[i] # Space}
      pos_begin == Min(kept) - 1
      pos_end == Max(kept) - 1
  IN substr(substr(s, pos_begin, npos), 0, pos_end + 1)

str_is_whitespace(s) == \A i \in DOMAIN s : s[i] \in White

Skipped(s) == str_is_whitespace(s) \/ (s # << >> /\ s[1] \in {Semicolon, Space})
IsSection(s) == s[1] = Opening /\ Back(s) = Closing

(* Key and value of any other line; without = both are the whole line, and *)
(* a ; is looked for in the line but cuts the value.                       *)
KeyOf(s) == substr(s, 0, find(s, Equals))
ValueOf(s) == substr(s, IF find(s, Equals) = npos THEN 0 ELSE find(s, Equals) + 1, npos)
Assigned(s) == [key |-> erase_ispace(KeyOf(s)),
                value |-> substr(erase_ispace(ValueOf(s)), 0, find(s, Semicolon))]

(* Mutant: insert() instead of an assignment: the first value stays. *)
SetFirst(f, k, v) == [x \in DOMAIN f \cup {k} |-> IF x \in DOMAIN f THEN f[x] ELSE v]

Set(f, k, v) == [x \in DOMAIN f \cup {k} |-> IF x = k THEN v ELSE f[x]]

ReadLine(line) ==
  /\ phase = "read" /\ Len(name_file) < MaxLines
  /\ name_file' = Append(name_file, line)
  /\ UNCHANGED <<ini_data, max_threads>>
  /\ \/ Skipped(line) /\ UNCHANGED <<current_section, config, phase>>
     \/ /\ ~Skipped(line) /\ IsSection(line)
        /\ current_section' = substr(line, 1, Len(line) - 2)
        /\ UNCHANGED <<config, phase>>
     \/ /\ ~Skipped(line) /\ ~IsSection(line)
        /\ LET s == erase_ispace(line)
           IN IF Trimmable(KeyOf(s)) /\ Trimmable(ValueOf(s))
              THEN /\ config' = Set(config, <<current_section, Assigned(s).key>>, Assigned(s).value)
                   /\ phase' = phase
              ELSE phase' = "failed" /\ config' = config
        /\ UNCHANGED current_section

EndOfFile ==
  /\ phase = "read" /\ phase' = "ask"
  /\ UNCHANGED <<name_file, current_section, config, ini_data, max_threads>>

-----------------------------------------------------------------------------
(* What >> takes from the value: a word, or as many digits as there are.   *)
FirstWord(s) ==
  LET words == {r \in (DOMAIN s) \X (DOMAIN s) :
                  /\ \A i \in DOMAIN s : i < r[1] => s[i] \in White
                  /\ r[1] <= r[2] /\ \A i \in r[1]..r[2] : s[i] \notin White
                  /\ r[2] < Len(s) => s[r[2] + 1] \in White}
  IN IF words = {} THEN << >> ELSE LET r == CHOOSE r \in words : TRUE IN SubSeq(s, r[1], r[2])

DigitOf == [d \in Digits |-> CASE d = "0" -> 0 [] d = "1" -> 1 [] OTHER -> 9]
Negative(w) == w # << >> /\ w[1] = "-"
Leading(w) ==
  LET body == IF Negative(w) THEN Tail(w) ELSE w
      first == {i \in 0..Len(body) : \A j \in 1..i : body[j] \in Digits}
  IN SubSeq(body, 1, Max(first))
NumberOf(digits) ==
  LET n[i \in 0..Len(digits)] == IF i = 0 THEN 0 ELSE 10 * n[i - 1] + DigitOf[digits[i]]
  IN n[Len(digits)]
Number(w) == IF Negative(w) THEN 0 - NumberOf(Leading(w)) ELSE NumberOf(Leading(w))

(* ss.fail(): nothing to convert, or a number that is no int. *)
IsInt(w) == Leading(w) # << >> /\ Number(w) \in IntRange
Converts(s, type) == IF type = "int" THEN IsInt(FirstWord(s)) ELSE FirstWord(s) # << >>
Converted(s, type) == IF type = "int" THEN Number(FirstWord(s)) ELSE FirstWord(s)

(* A missing value, or one of another type, ends main with 1. *)
get_value ==
  /\ phase = "ask" /\ Len(ini_data) < Len(Settings)
  /\ LET want == Settings[Len(ini_data) + 1]
         at == <<want.section, want.key>>
     IN IF at \in DOMAIN config /\ Converts(config[at], want.type)
        THEN ini_data' = Append(ini_data, Converted(config[at], want.type)) /\ phase' = phase
        ELSE phase' = "failed" /\ ini_data' = ini_data
  /\ UNCHANGED <<name_file, current_section, config, max_threads>>

(* Mutant: the setting is compared as the int it is. *)
SizeTSigned(n) == n

(* An int is compared with a size_t. *)
SizeT(n) == n % Wrap

Start ==
  /\ phase = "ask" /\ Len(ini_data) = Len(Settings)
  /\ \E numTread \in Hardware :
       max_threads' = IF SizeT(ini_data[Threads]) > numTread THEN numTread ELSE ini_data[Threads]
  /\ phase' = "started"
  /\ UNCHANGED <<name_file, current_section, config, ini_data>>

IniInit ==
  /\ name_file = << >> /\ current_section = << >> /\ config = << >>
  /\ phase = "read" /\ ini_data = << >> /\ max_threads = 0

IniNext == (\E line \in Lines : ReadLine(line)) \/ EndOfFile \/ get_value \/ Start
IniSpec == IniInit /\ [][IniNext]_ini_vars

-----------------------------------------------------------------------------
(* What a file says, by the form of its lines: "[section]", "key = value"  *)
(* with a comment after it, and lines that say nothing.                    *)
Blank(s) == \A i \in DOMAIN s : s[i] = Space

SectionForm(s, name) == s = <<Opening>> \o name \o <<Closing>> /\ Word(name)
SaysNothing(s) == Blank(s) \/ s[1] = Semicolon

(* The texts before =, between it and a comment, and the key and value.    *)
AssignForm(s, k, v) ==
  \E e, n \in DOMAIN s :
    /\ s[e] = Equals /\ e <= n /\ s[1] # Space
    /\ \E i \in 1..(e - 1) : SubSeq(s, 1, i) = k /\ Blank(SubSeq(s, i + 1, e - 1))
    /\ \E i, j \in (e + 1)..n : /\ SubSeq(s, i, j) = v
                                /\ Blank(SubSeq(s, e + 1, i - 1)) /\ Blank(SubSeq(s, j + 1, n))
    /\ n < Len(s) => s[n] = Space /\ s[n + 1] = Semicolon
    /\ Word(k) /\ Word(v)

Parts(s) == {SubSeq(s, i, j) : i, j \in DOMAIN s}
WellFormed(s) ==
  \/ SaysNothing(s)
  \/ \E name \in Parts(s) : SectionForm(s, name)
  \/ \E k, v \in Parts(s) : AssignForm(s, k, v)

Good  == {line \in Lines : WellFormed(line)}
Heads == {line \in Good : \E name \in Parts(line) : SectionForm(line, name)}

(* For each setting, the heads of its section and the lines that set it,   *)
(* with the value they name.                                               *)
HeadsOf == [n \in DOMAIN Settings |-> {line \in Heads : SectionForm(line, Settings[n].section)}]
ValuesOf ==
  [n \in DOMAIN Settings |->
     LET Names(line, v) == AssignForm(line, Settings[n].key, v)
     IN [line \in {l \in Good : \E v \in Parts(l) : Names(l, v)} |->
           CHOOSE v \in Parts(line) : Names(line, v)]]

(* The lines of the file that set the n-th setting: under a head of its    *)
(* section.                                                                *)
SetBy(n) ==
  {i \in DOMAIN name_file :
     /\ name_file[i] \in DOMAIN ValuesOf[n]
     /\ \E h \in 1..(i - 1) : /\ name_file[h] \in HeadsOf[n]
                              /\ \A g \in (h + 1)..(i - 1) : name_file[g] \notin Heads}
Said(n) == ValuesOf[n][name_file[Max(SetBy(n))]]

(* A program that has started from a well-formed file has every setting    *)
(* from the last line that sets it in its section, wherever the section    *)
(* stands and however often it is opened, and a program that has not lacks *)
(* one of them or has one that is no int.                                  *)
SettingsAreRead ==
  (\A i \in DOMAIN name_file : name_file[i] \in Good) =>
    /\ \A n \in DOMAIN ini_data :
         SetBy(n) # {} /\ ini_data[n] = Converted(Said(n), Settings[n].type)
    /\ phase = "failed" =>
         \E n \in DOMAIN Settings :
           \/ SetBy(n) = {}
           \/ Settings[n].type = "int" /\ ~IsInt(Said(n))

(* The spider has no more threads than the machine and than it was told;   *)
(* a negative number, which becomes a huge size_t, gives all of them and   *)
(* not an empty pool.                                                      *)
ThreadsInRange ==
  phase = "started" =>
    /\ max_threads <= Max(Hardware)
    /\ ini_data[Threads] > 0 => max_threads <= ini_data[Threads]
    /\ ini_data[Threads] # 0 /\ 0 \notin Hardware => max_threads > 0
=============================================================================
