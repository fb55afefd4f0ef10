------------------------------ MODULE DbProxy ------------------------------
(***************************************************************************)
(* The database proxies of Lesson_2 (task_82-2.cpp).  Each owns the one    *)
(* below it: stack[1] is what main calls, stack[NumLayers] is a            *)
(* VeryHeavyDatabase.  A call of get_data goes down from proxy to proxy    *)
(* and its answer comes back up, one step at a time.                       *)
(***************************************************************************)
EXTENDS Naturals, FiniteSets

CONSTANTS
  Key,
  NumLayers,
  Stacks,       \* the stacks main may build
  limit_shots,  \* what an OneShotDB is given
  CountWrap,         \* a size_t is less than CountWrap
  MaxAsked      \* bound: calls main makes

Layer == 1..NumLayers
Kinds == {"CacheDB", "TestDB", "OneShotDB", "VeryHeavyDatabase"}

ASSUME ProxyAssumption ==
  /\ NumLayers \in Nat \ {0} /\ MaxAsked \in Nat
  /\ limit_shots \in Nat /\ CountWrap \in Nat /\ limit_shots < CountWrap
  /\ Stacks \subseteq [Layer -> Kinds]
  /\ \A s \in Stacks : \A i \in Layer : s[i] = "VeryHeavyDatabase" <=> i = NumLayers

Result(k) == [text |-> "Result of query", key |-> k]
Test  == [text |-> "Test data"]
Limit == [text |-> "Error. Limit of data query."]
None  == [text |-> "none"]
Value == {Result(k) : k \in Key} \cup {Test, Limit, None}

VARIABLES
  stack,
  at,        \* the layer whose get_data runs, 0 when main does
  key,       \* its argument
  value,     \* what the layer below has returned, None on the way down
  cache,   \* of each CacheDB, None where there is no entry
  count,     \* of each OneShotDB
  reached,   \* history: calls of get_data of each layer by key
  total      \* history: the same for all keys together

proxy_vars == <<stack, at, key, value, cache, count, reached, total>>

(* A call of get_data reaches the layer i. *)
Reach(i, k) ==
  /\ at' = i /\ value' = None
  /\ reached' = [reached EXCEPT ![i][k] = @ + 1]
  /\ total' = [total EXCEPT ![i] = @ + 1]

(* The layer i calls the one below it. *)
Descend(i) == Reach(i + 1, key) /\ UNCHANGED <<stack, key>>

(* The layer i returns v to the one above it. *)
Return(i, v) ==
  /\ at' = i - 1 /\ value' = v
  /\ UNCHANGED <<stack, key, reached, total>>

Ask(k) ==
  /\ at = 0 /\ total[1] < MaxAsked
  /\ key' = k /\ Reach(1, k)
  /\ UNCHANGED <<stack, cache, count>>

Running(i, kind) == at = i /\ stack[i] = kind /\ value = None

CacheHit(i) ==
  /\ Running(i, "CacheDB") /\ cache[i][key] # None
  /\ Return(i, cache[i][key])
  /\ UNCHANGED <<cache, count>>

CacheMiss(i) ==
  /\ Running(i, "CacheDB") /\ cache[i][key] = None
  /\ Descend(i)
  /\ UNCHANGED <<cache, count>>

(* Mutant: errors are not kept. *)
CacheFillGood(i) ==
  /\ at = i /\ stack[i] = "CacheDB" /\ value # None
  /\ cache' = IF value = Limit THEN cache ELSE [cache EXCEPT ![i][key] = value]
  /\ Return(i, value)
  /\ UNCHANGED count

(* The answer from below is kept, whatever it is. *)
CacheFill(i) ==
  /\ at = i /\ stack[i] = "CacheDB" /\ value # None
  /\ cache' = [cache EXCEPT ![i][key] = value]
  /\ Return(i, value)
  /\ UNCHANGED count

TestData(i) ==
  /\ Running(i, "TestDB")
  /\ Return(i, Test)
  /\ UNCHANGED <<cache, count>>

(* ++count, a size_t. *)
Succ(n) == IF n + 1 = CountWrap THEN 0 ELSE n + 1

(* Mutant: the count is looked at before it is increased. *)
ShotLate(i) ==
  /\ Running(i, "OneShotDB")
  /\ count' = [count EXCEPT ![i] = Succ(@)]
  /\ IF count[i] <= limit_shots THEN Descend(i) ELSE Return(i, Limit)
  /\ UNCHANGED cache

Shot(i) ==
  /\ Running(i, "OneShotDB")
  /\ count' = [count EXCEPT ![i] = Succ(@)]
  /\ IF Succ(count[i]) <= limit_shots THEN Descend(i) ELSE Return(i, Limit)
  /\ UNCHANGED cache

ShotAnswered(i) ==
  /\ at = i /\ stack[i] = "OneShotDB" /\ value # None
  /\ Return(i, value)
  /\ UNCHANGED <<cache, count>>

Heavy(i) ==
  /\ Running(i, "VeryHeavyDatabase")
  /\ Return(i, Result(key))
  /\ UNCHANGED <<cache, count>>

get_data(i) ==
  \/ CacheHit(i) \/ CacheMiss(i) \/ CacheFill(i)
  \/ TestData(i) \/ Shot(i) \/ ShotAnswered(i) \/ Heavy(i)

ProxyInit ==
  /\ stack \in Stacks
  /\ at = 0 /\ key \in Key /\ value = None
  /\ cache = [i \in Layer |-> [k \in Key |-> None]]
  /\ count = [i \in Layer |-> 0]
  /\ reached = [i \in Layer |-> [k \in Key |-> 0]]
  /\ total = [i \in Layer |-> 0]

ProxyNext == (\E k \in Key : Ask(k)) \/ (\E i \in Layer : get_data(i))

ProxySpec == ProxyInit /\ [][ProxyNext]_proxy_vars

-----------------------------------------------------------------------------
ProxyTypeOK ==
  /\ stack \in Stacks
  /\ at \in 0..NumLayers /\ key \in Key /\ value \in Value
  /\ cache \in [Layer -> [Key -> Value]]
  /\ count \in [Layer -> 0..(CountWrap - 1)]
  /\ reached \in [Layer -> [Key -> Nat]]
  /\ total \in [Layer -> Nat]

(* What stands below a CacheDB is asked for a key at most once, wherever   *)
(* in the stack the cache is and whatever the answer was: also an error is *)
(* never asked for again.                                                  *)
CacheAsksOnce ==
  \A i \in Layer : stack[i] = "CacheDB" => \A k \in Key : reached[i + 1][k] <= 1

(* What stands below an OneShotDB is asked limit_shots times at most, as   *)
(* long as the count of calls has not come round to 0.                     *)
LimitKept ==
  \A i \in Layer :
    (stack[i] = "OneShotDB" /\ total[i] < CountWrap) => total[i + 1] <= limit_shots

(* Main gets the data of the key it asked for, test data only if there is  *)
(* a TestDB, and an error only when some OneShotDB has no shots left.      *)
AnswersFit ==
  (at = 0 /\ value # None) =>
    \/ value = Result(key)
    \/ value = Test /\ \E i \in Layer : stack[i] = "TestDB"
    \/ value = Limit /\ \E i \in Layer : stack[i] = "OneShotDB" /\ total[i] > limit_shots
=============================================================================
