---------------------------- MODULE LogObservers ----------------------------
(***************************************************************************)
(* The loggers of Lesson_3: LogObserver and its observers (task_83-2.cpp), *)
(* and the commands that write to the console or to a file                 *)
(* (task_83-1.cpp).  Both open a file anew for every message, which        *)
(* empties it.                                                             *)
(***************************************************************************)
EXTENDS Naturals, SequencesExt

CONSTANTS
  Observer,
  ClassOf,    \* WarningObserver, ErrorObserver or FatalErrorObserver
  Path,
  PathOf,     \* of the observers that write to a file
  Locked,     \* paths that cannot be opened
  Message,
  MaxAdded    \* bound: registrations at a time

Calls == {"warning", "error", "fatalError"}
Handled == [WarningObserver |-> "warning", ErrorObserver |-> "error",
            FatalErrorObserver |-> "fatalError"]

Refused == "cannot open the file"

ASSUME ObserverAssumption ==
  /\ IsFiniteSet(Observer)
  /\ ClassOf \in [Observer -> DOMAIN Handled] /\ PathOf \in [Observer -> Path]
  /\ Locked \subseteq Path /\ Refused \notin Message

VARIABLES
  observers,    \* __observers
  console,      \* the lines the last call has written to the console
  file,         \* the text of each file
  registered    \* history: registrations of each observer since it was removed

log_vars == <<observers, console, file, registered>>

(* std::ofstream f(path): what was in the file is gone.                    *)
Opened(path) == path \notin Locked
Saved(files, path, message) ==
  IF Opened(path) THEN [files EXCEPT ![path] = <<message>>] ELSE files

(* The commands of task_83-1. *)
LogConsoleCommand(message) ==
  console' = <<message>> /\ UNCHANGED <<observers, file, registered>>

LogFileCommand(path, message) ==
  /\ file' = Saved(file, path, message)
  /\ console' = IF Opened(path) THEN << >> ELSE <<Refused>>
  /\ UNCHANGED <<observers, registered>>

add_observer(o) ==
  /\ Len(observers) < MaxAdded
  /\ observers' = Append(observers, o)
  /\ registered' = [registered EXCEPT ![o] = @ + 1]
  /\ UNCHANGED <<console, file>>

(* std::remove moves what stays to the front; erase cuts off the rest,     *)
(* which is as many elements as have been taken out.                       *)
remove(s, o) ==
  LET kept == FlattenSeq([i \in DOMAIN s |-> IF s[i] = o THEN << >> ELSE <<s[i]>>])
  IN [list |-> kept \o SubSeq(s, Len(kept) + 1, Len(s)), it |-> Len(kept)]

(* Mutant: erase(it) takes one element only. *)
EraseOne(o) ==
  /\ observers' = LET r == remove(observers, o)
                  IN IF r.it < Len(r.list) THEN RemoveAt(r.list, r.it + 1) ELSE r.list
  /\ registered' = [registered EXCEPT ![o] = 0]
  /\ UNCHANGED <<console, file>>

remove_observer(o) ==
  /\ observers' = LET r == remove(observers, o) IN SubSeq(r.list, 1, r.it)
  /\ registered' = [registered EXCEPT ![o] = 0]
  /\ UNCHANGED <<console, file>>

(* What one observer does with a call: nothing unless its class overrides  *)
(* the handler.                                                            *)
LinesOf(o, call, message) ==
  IF Handled[ClassOf[o]] # call THEN << >>
  ELSE (IF call # "warning" /\ ~Opened(PathOf[o]) THEN <<Refused>> ELSE << >>)
       \o (IF call # "error" THEN <<message>> ELSE << >>)

Written(files, o, call, message) ==
  IF Handled[ClassOf[o]] = call /\ call # "warning" THEN Saved(files, PathOf[o], message) ELSE files

(* warning(), error() and fatalError() call the observers in turn.         *)
Notify(call, message) ==
  /\ console' = FlattenSeq([i \in DOMAIN observers |-> LinesOf(observers[i], call, message)])
  /\ file' =
       LET files[i \in 0..Len(observers)] ==
             IF i = 0 THEN file ELSE Written(files[i - 1], observers[i], call, message)
       IN files[Len(observers)]
  /\ UNCHANGED <<observers, registered>>

LogInit ==
  /\ observers = << >> /\ console = << >>
  /\ file = [p \in Path |-> << >>]
  /\ registered = [o \in Observer |-> 0]

LogNext ==
  \/ \E o \in Observer : add_observer(o) \/ remove_observer(o)
  \/ \E call \in Calls, message \in Message : Notify(call, message)
  \/ \E message \in Message :
       LogConsoleCommand(message) \/ \E p \in Path : LogFileCommand(p, message)

LogSpec == LogInit /\ [][LogNext]_log_vars

-----------------------------------------------------------------------------
(* Of one step: the lines and the files a call of theirs leaves.           *)
CallReaches ==
  \A call \in Calls, m \in Message :
    Notify(call, m) =>
      LET those == {o \in Observer : Handled[ClassOf[o]] = call}
          paths == {PathOf[o] : o \in {x \in those : registered[x] > 0}} \ Locked
      IN /\ call # "error" =>
              Cardinality({i \in DOMAIN console' : console'[i] = m})
                = SumFunctionOnSet(registered, those)
         /\ call = "warning" => file' = file
         /\ call # "warning" =>
              file' = [p \in Path |-> IF p \in paths THEN <<m>> ELSE file[p]]

(* A call reaches each observer as often as it has been added since it was *)
(* last removed, and none that has been removed: the lines on the console  *)
(* are one for each registration for the call, and exactly the files of    *)
(* the observers registered for it hold its message, and nothing else.     *)
CallsReachObservers == [][CallReaches]_log_vars
=============================================================================
