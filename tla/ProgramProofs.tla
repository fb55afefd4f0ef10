--------------------------- MODULE ProgramProofs ---------------------------
(***************************************************************************)
(* Theorems about the sequential parts (MCPrograms runs them): for any     *)
(* lines, pages, stacks of proxies and chains of handlers, of any length.  *)
(***************************************************************************)
EXTENDS HtmlParser, IniFile, DbProxy, LogChain, SqlQueryBuilder,
        LogObservers, Decorators, DataInduction

-----------------------------------------------------------------------------
(* DbProxy: the database proxies.                                          *)
(* The layer i has been called and has done nothing yet. *)
Entered(i) == at = i /\ value = None

(* The call a CacheDB at i has passed down is still on its way. *)
Awaits(i, k) == key = k /\ (at > i \/ (at = i /\ value # None))

(* What a CacheDB has asked for is in the cache or on its way into it. *)
CacheInv ==
  \A i \in Layer : stack[i] = "CacheDB" =>
    \A k \in Key :
      /\ reached[i + 1][k] <= 1
      /\ reached[i + 1][k] = 1 => cache[i][k] # None \/ Awaits(i, k)

(* The count is that of the calls, but for the one that has just come in.  *)
ShotInv ==
  \A i \in Layer : stack[i] = "OneShotDB" =>
    /\ count[i] <= total[i] /\ (Entered(i) => count[i] < total[i])
    /\ total[i] < CountWrap =>
         /\ Entered(i) => total[i] = count[i] + 1
         /\ ~Entered(i) => total[i] = count[i]
         /\ total[i + 1] <= count[i] /\ total[i + 1] <= limit_shots

(* An answer v to the key k that main may get. *)
Fits(k, v) ==
  \/ v = Result(k)
  \/ v = Test /\ \E i \in Layer : stack[i] = "TestDB"
  \/ v = Limit /\ \E i \in Layer : stack[i] = "OneShotDB" /\ total[i] > limit_shots

FitInv ==
  /\ value # None => Fits(key, value)
  /\ \A i \in Layer : \A k \in Key : cache[i][k] # None => Fits(k, cache[i][k])
-----------------------------------------------------------------------------
(* No answer is taken for the mark that there is none. *)
LEMMA AnswersAreSomething ==
  /\ \A k \in Key : Result(k) # None
  /\ Test # None /\ Limit # None
<1>1. ASSUME NEW k \in Key PROVE Result(k) # None
  <2>1. Result(k).text = "Result of query" /\ None.text = "none"
    BY DEF Result, None
  <2> QED BY <2>1
<1>2. Test # None /\ Limit # None
  <2>1. Test.text = "Test data" /\ Limit.text = "Error. Limit of data query." /\ None.text = "none"
    BY DEF Test, Limit, None
  <2> QED BY <2>1
<1> QED BY <1>1, <1>2

(* A proxy has a layer below it. *)
LEMMA ProxyHasBelow ==
  ASSUME stack \in Stacks, NEW i \in Layer, stack[i] # "VeryHeavyDatabase"
  PROVE  i + 1 \in Layer /\ i # NumLayers
BY ProxyAssumption DEF Layer

LEMMA InitType == ProxyInit => ProxyTypeOK
BY ProxyAssumption DEF ProxyInit, ProxyTypeOK, Value, Layer

(* A layer that is called, and one that returns, keep the types. *)
LEMMA ReachType ==
  ASSUME ProxyTypeOK, NEW i \in Layer, NEW k \in Key, Reach(i, k)
  PROVE  /\ at' \in 0..NumLayers /\ value' \in Value
         /\ reached' \in [Layer -> [Key -> Nat]] /\ total' \in [Layer -> Nat]
<1>1. at' \in 0..NumLayers /\ value' \in Value
  BY ProxyAssumption DEF Reach, Layer, Value
<1>2. reached' \in [Layer -> [Key -> Nat]]
  BY DEF Reach, ProxyTypeOK
<1>3. total' \in [Layer -> Nat]
  BY DEF Reach, ProxyTypeOK
<1> QED BY <1>1, <1>2, <1>3

LEMMA DescendType ==
  ASSUME ProxyTypeOK, NEW i \in Layer, stack[i] # "VeryHeavyDatabase", Descend(i),
         cache' \in [Layer -> [Key -> Value]], count' \in [Layer -> 0..(CountWrap - 1)]
  PROVE  ProxyTypeOK'
<1>1. i + 1 \in Layer
  BY ProxyHasBelow DEF ProxyTypeOK
<1>2. key \in Key /\ Reach(i + 1, key)
  BY DEF Descend, ProxyTypeOK
<1>3. /\ at' \in 0..NumLayers /\ value' \in Value
      /\ reached' \in [Layer -> [Key -> Nat]] /\ total' \in [Layer -> Nat]
  BY <1>1, <1>2, ReachType
<1> QED BY <1>3 DEF Descend, ProxyTypeOK

LEMMA ReturnType ==
  ASSUME ProxyTypeOK, NEW i \in Layer, NEW v \in Value, Return(i, v),
         cache' \in [Layer -> [Key -> Value]], count' \in [Layer -> 0..(CountWrap - 1)]
  PROVE  ProxyTypeOK'
<1>1. i - 1 \in 0..NumLayers
  BY ProxyAssumption DEF Layer
<1> QED BY <1>1 DEF Return, ProxyTypeOK

LEMMA SuccType ==
  ASSUME NEW n \in 0..(CountWrap - 1)
  PROVE  Succ(n) \in 0..(CountWrap - 1)
BY ProxyAssumption DEF Succ

(* The types are right. *)
LEMMA StepType ==
  ASSUME ProxyTypeOK, [ProxyNext]_proxy_vars
  PROVE  ProxyTypeOK'
<1>1. CASE UNCHANGED proxy_vars
  BY <1>1 DEF ProxyTypeOK, proxy_vars
<1>2. ASSUME NEW k \in Key, Ask(k) PROVE ProxyTypeOK'
  <2>1. 1 \in Layer
    BY ProxyAssumption DEF Layer
  <2>2. /\ at' \in 0..NumLayers /\ value' \in Value
        /\ reached' \in [Layer -> [Key -> Nat]] /\ total' \in [Layer -> Nat]
    BY <1>2, <2>1, ReachType DEF Ask
  <2> QED BY <1>2, <2>2 DEF Ask, ProxyTypeOK
<1>3. ASSUME NEW i \in Layer, get_data(i) PROVE ProxyTypeOK'
  <2>0. /\ cache \in [Layer -> [Key -> Value]] /\ count \in [Layer -> 0..(CountWrap - 1)]
        /\ key \in Key /\ value \in Value /\ cache[i][key] \in Value
    BY DEF ProxyTypeOK
  <2>1. CASE CacheHit(i)
    BY <2>0, <2>1, ReturnType DEF CacheHit
  <2>2. CASE CacheMiss(i)
    BY <2>0, <2>2, DescendType DEF CacheMiss, Running
  <2>3. CASE CacheFill(i)
    <3>1. cache' \in [Layer -> [Key -> Value]]
      BY <2>0, <2>3 DEF CacheFill
    <3> QED BY <2>0, <2>3, <3>1, ReturnType DEF CacheFill
  <2>4. CASE TestData(i)
    BY <2>0, <2>4, ReturnType DEF TestData, Value
  <2>5. CASE Shot(i)
    <3>1. count' \in [Layer -> 0..(CountWrap - 1)] /\ cache' \in [Layer -> [Key -> Value]]
      BY <2>0, <2>5, SuccType DEF Shot
    <3>2. Limit \in Value /\ stack[i] # "VeryHeavyDatabase"
      BY <2>5 DEF Value, Shot, Running
    <3>3. CASE Descend(i)
      BY <3>1, <3>2, <3>3, DescendType
    <3>4. CASE Return(i, Limit)
      BY <3>1, <3>2, <3>4, ReturnType
    <3> QED BY <2>5, <3>3, <3>4 DEF Shot
  <2>6. CASE ShotAnswered(i)
    BY <2>0, <2>6, ReturnType DEF ShotAnswered
  <2>7. CASE Heavy(i)
    BY <2>0, <2>7, ReturnType DEF Heavy, Value
  <2> QED BY <1>3, <2>1, <2>2, <2>3, <2>4, <2>5, <2>6, <2>7 DEF get_data
<1> QED BY <1>1, <1>2, <1>3 DEF ProxyNext

(* The variables keep their types, so that a count is one of a size_t and  *)
(* get_data is never called on a layer that does not exist.                *)
THEOREM ProxyTypeCorrect == ProxySpec => []ProxyTypeOK
BY InitType, StepType, PTL DEF ProxySpec
-----------------------------------------------------------------------------
LEMMA InitCache == ProxyInit => CacheInv
BY ProxyHasBelow DEF ProxyInit, CacheInv

(* A layer that answers leaves no call on its way above it. *)
LEMMA ReturnCache ==
  ASSUME ProxyTypeOK, CacheInv, NEW i \in Layer, at = i, NEW v, v # None, Return(i, v),
         \A j \in Layer, k \in Key : cache[j][k] # None => cache'[j][k] # None,
         (stack[i] = "CacheDB" /\ value # None) => cache'[i][key] # None
  PROVE  CacheInv'
<1> SUFFICES ASSUME NEW j \in Layer, stack'[j] = "CacheDB", NEW k \in Key
             PROVE  /\ reached'[j + 1][k] <= 1
                    /\ reached'[j + 1][k] = 1 => cache'[j][k] # None \/ Awaits(j, k)'
  BY DEF CacheInv
<1>1. /\ stack' = stack /\ key' = key /\ reached' = reached
      /\ at' = i - 1 /\ value' = v
  BY DEF Return
<1>2. /\ reached[j + 1][k] <= 1
      /\ reached[j + 1][k] = 1 => cache[j][k] # None \/ Awaits(j, k)
  BY <1>1 DEF CacheInv
<1>3. ASSUME Awaits(j, k) PROVE cache'[j][k] # None \/ Awaits(j, k)'
  <2>1. key = k /\ (i > j \/ (i = j /\ value # None))
    BY <1>3 DEF Awaits
  <2>2. CASE i = j
    BY <1>1, <2>1, <2>2 DEF Layer
  <2>3. CASE i > j
    <3>1. i - 1 > j \/ i - 1 = j
      BY <2>3 DEF Layer
    <3> QED BY <1>1, <2>1, <3>1 DEF Awaits
  <2> QED BY <2>1, <2>2, <2>3
<1> QED BY <1>1, <1>2, <1>3

(* A layer that calls the one below it is no CacheDB, or one that has      *)
(* never asked for the key.                                                *)
LEMMA DescendCache ==
  ASSUME ProxyTypeOK, CacheInv, NEW i \in Layer, at = i, value = None, Descend(i),
         stack[i] # "VeryHeavyDatabase", UNCHANGED cache,
         stack[i] = "CacheDB" => cache[i][key] = None
  PROVE  CacheInv'
<1> SUFFICES ASSUME NEW j \in Layer, stack'[j] = "CacheDB", NEW k \in Key
             PROVE  /\ reached'[j + 1][k] <= 1
                    /\ reached'[j + 1][k] = 1 => cache'[j][k] # None \/ Awaits(j, k)'
  BY DEF CacheInv
<1>0. i + 1 \in Layer
  BY ProxyHasBelow DEF ProxyTypeOK
<1>1. /\ stack' = stack /\ key' = key /\ at' = i + 1 /\ value' = None
      /\ reached' = [reached EXCEPT ![i + 1][key] = @ + 1]
  BY DEF Descend, Reach
<1>2. /\ reached[j + 1][k] <= 1
      /\ reached[j + 1][k] = 1 => cache[j][k] # None \/ Awaits(j, k)
  BY <1>1 DEF CacheInv
<1>3. j + 1 \in Layer
  BY <1>1, ProxyHasBelow DEF ProxyTypeOK
<1>4. i \in Nat /\ j \in Nat
  BY DEF Layer
<1>5. CASE j = i /\ k = key
  <2>1. reached[j + 1][k] \in Nat /\ reached[j + 1][k] # 1
    BY <1>1, <1>2, <1>3, <1>4, <1>5 DEF Awaits, ProxyTypeOK
  <2>2. reached'[j + 1][k] = reached[j + 1][k] + 1
    BY <1>0, <1>1, <1>5 DEF ProxyTypeOK
  <2>3. Awaits(j, k)'
    BY <1>1, <1>4, <1>5 DEF Awaits
  <2> QED BY <1>2, <2>1, <2>2, <2>3
<1>6. CASE ~(j = i /\ k = key)
  <2>1. reached'[j + 1][k] = reached[j + 1][k]
    BY <1>0, <1>1, <1>3, <1>4, <1>6 DEF ProxyTypeOK
  <2>2. Awaits(j, k) => Awaits(j, k)'
    BY <1>1, <1>4 DEF Awaits
  <2> QED BY <1>2, <2>1, <2>2
<1> QED BY <1>5, <1>6

LEMMA StepCache ==
  ASSUME ProxyTypeOK, CacheInv, [ProxyNext]_proxy_vars
  PROVE  CacheInv'
<1>1. CASE UNCHANGED proxy_vars
  BY <1>1 DEF CacheInv, Awaits, proxy_vars
<1>2. ASSUME NEW k \in Key, Ask(k) PROVE CacheInv'
  <2>1. /\ stack' = stack /\ cache' = cache /\ at = 0
        /\ reached' = [reached EXCEPT ![1][k] = @ + 1]
    BY <1>2 DEF Ask, Reach
  <2> SUFFICES ASSUME NEW j \in Layer, stack'[j] = "CacheDB", NEW l \in Key
               PROVE  /\ reached'[j + 1][l] <= 1
                      /\ reached'[j + 1][l] = 1 => cache'[j][l] # None
    BY DEF CacheInv
  <2>2. /\ reached[j + 1][l] <= 1
        /\ reached[j + 1][l] = 1 => cache[j][l] # None \/ Awaits(j, l)
    BY <2>1 DEF CacheInv
  <2>3. ~Awaits(j, l) /\ j + 1 # 1
    BY <2>1 DEF Awaits, Layer
  <2>4. reached'[j + 1] = reached[j + 1]
    BY <2>1, <2>3 DEF ProxyTypeOK
  <2> QED BY <2>1, <2>2, <2>3, <2>4
<1>3. ASSUME NEW i \in Layer, get_data(i) PROVE CacheInv'
  <2>0. key \in Key /\ cache \in [Layer -> [Key -> Value]]
    BY DEF ProxyTypeOK
  <2>1. CASE CacheHit(i)
    BY <2>1, ReturnCache DEF CacheHit, Running
  <2>2. CASE CacheMiss(i)
    BY <2>2, DescendCache DEF CacheMiss, Running
  <2>3. CASE CacheFill(i)
    <3>1. /\ at = i /\ value # None /\ Return(i, value)
          /\ cache' = [cache EXCEPT ![i][key] = value]
      BY <2>3 DEF CacheFill
    <3>2. cache'[i][key] # None
      BY <2>0, <3>1
    <3>3. \A j \in Layer, k \in Key : cache[j][k] # None => cache'[j][k] # None
      BY <2>0, <3>1
    <3> QED BY <3>1, <3>2, <3>3, ReturnCache
  <2>4. CASE TestData(i)
    BY <2>4, ReturnCache, AnswersAreSomething DEF TestData, Running
  <2>5. CASE Shot(i)
    BY <2>5, ReturnCache, DescendCache, AnswersAreSomething DEF Shot, Running
  <2>6. CASE ShotAnswered(i)
    BY <2>6, ReturnCache DEF ShotAnswered
  <2>7. CASE Heavy(i)
    BY <2>0, <2>7, ReturnCache, AnswersAreSomething DEF Heavy, Running
  <2> QED BY <1>3, <2>1, <2>2, <2>3, <2>4, <2>5, <2>6, <2>7 DEF get_data
<1> QED BY <1>1, <1>2, <1>3 DEF ProxyNext

(* A CacheDB, wherever it stands and whatever it is told, asks for a key   *)
(* once: get_data of Lesson_2 never forgets an answer.                     *)
THEOREM CacheAsksForAKeyOnce == ProxySpec => []CacheAsksOnce
<1>1. ProxyTypeOK /\ CacheInv /\ [ProxyNext]_proxy_vars => ProxyTypeOK' /\ CacheInv'
  BY StepType, StepCache
<1>2. CacheInv => CacheAsksOnce
  BY DEF CacheInv, CacheAsksOnce
<1> QED BY <1>1, <1>2, InitType, InitCache, PTL DEF ProxySpec
-----------------------------------------------------------------------------
LEMMA InitShot == ProxyInit => ShotInv
BY ProxyAssumption, ProxyHasBelow DEF ProxyInit, ShotInv, Entered, Layer

LEMMA SuccCounts ==
  ASSUME NEW c \in 0..(CountWrap - 1), NEW t \in Nat, c < t, t < CountWrap => t = c + 1
  PROVE  Succ(c) <= t /\ (t < CountWrap => t = Succ(c))
BY ProxyAssumption DEF Succ

(* A layer that answers changes no count, or its own. *)
LEMMA ReturnShot ==
  ASSUME ProxyTypeOK, ShotInv, NEW i \in Layer, at = i, NEW v, v # None, Return(i, v),
         \/ stack[i] = "OneShotDB" /\ value = None /\ count' = [count EXCEPT ![i] = Succ(@)]
         \/ (stack[i] # "OneShotDB" \/ value # None) /\ UNCHANGED count
  PROVE  ShotInv'
<1> SUFFICES ASSUME NEW j \in Layer, stack'[j] = "OneShotDB"
             PROVE  /\ count'[j] <= total'[j] /\ (Entered(j)' => count'[j] < total'[j])
                    /\ total'[j] < CountWrap =>
                         /\ Entered(j)' => total'[j] = count'[j] + 1
                         /\ ~Entered(j)' => total'[j] = count'[j]
                         /\ total'[j + 1] <= count'[j] /\ total'[j + 1] <= limit_shots
  BY DEF ShotInv
<1>1. stack' = stack /\ total' = total /\ ~Entered(j)'
  BY DEF Return, Entered
<1>2. /\ count[j] <= total[j] /\ (Entered(j) => count[j] < total[j])
      /\ total[j] < CountWrap =>
           /\ Entered(j) => total[j] = count[j] + 1
           /\ ~Entered(j) => total[j] = count[j]
           /\ total[j + 1] <= count[j] /\ total[j + 1] <= limit_shots
  BY <1>1 DEF ShotInv
<1>3. /\ total[j] \in Nat /\ count[j] \in 0..(CountWrap - 1) /\ CountWrap \in Nat
      /\ total[j + 1] \in Nat
  BY <1>1, ProxyHasBelow, ProxyAssumption DEF ProxyTypeOK
<1>4. CASE Entered(j)
  <2>1. i = j /\ count'[j] = Succ(count[j])
    BY <1>1, <1>4 DEF Entered, ProxyTypeOK
  <2>2. count[j] < total[j] /\ (total[j] < CountWrap => total[j] = count[j] + 1)
    BY <1>2, <1>4
  <2>3. count'[j] <= total[j] /\ (total[j] < CountWrap => total[j] = count'[j])
    BY <1>3, <2>1, <2>2, SuccCounts
  <2>4. total[j] < CountWrap => total[j + 1] <= count'[j] /\ total[j + 1] <= limit_shots
    <3>1. total[j] < CountWrap => count[j] <= count'[j]
      BY <1>3, <2>2, <2>3
    <3> QED BY <1>2, <1>3, <2>3, <3>1
  <2> QED BY <1>1, <2>3, <2>4
<1>5. CASE ~Entered(j)
  <2>1. count'[j] = count[j]
    BY <1>1, <1>5 DEF Entered, ProxyTypeOK
  <2> QED BY <1>1, <1>2, <1>3, <1>5, <2>1
<1> QED BY <1>4, <1>5

(* A layer that calls the one below it is no OneShotDB, or has a shot left. *)
LEMMA DescendShot ==
  ASSUME ProxyTypeOK, ShotInv, NEW i \in Layer, at = i, value = None, Descend(i),
         stack[i] # "VeryHeavyDatabase",
         \/ /\ stack[i] = "OneShotDB" /\ Succ(count[i]) <= limit_shots
            /\ count' = [count EXCEPT ![i] = Succ(@)]
         \/ stack[i] # "OneShotDB" /\ UNCHANGED count
  PROVE  ShotInv'
<1> SUFFICES ASSUME NEW j \in Layer, stack'[j] = "OneShotDB"
             PROVE  /\ count'[j] <= total'[j] /\ (Entered(j)' => count'[j] < total'[j])
                    /\ total'[j] < CountWrap =>
                         /\ Entered(j)' => total'[j] = count'[j] + 1
                         /\ ~Entered(j)' => total'[j] = count'[j]
                         /\ total'[j + 1] <= count'[j] /\ total'[j + 1] <= limit_shots
  BY DEF ShotInv
<1>0. i + 1 \in Layer /\ i \in Nat /\ j \in Nat
  BY ProxyHasBelow DEF ProxyTypeOK, Layer
<1>1. /\ stack' = stack /\ at' = i + 1 /\ value' = None
      /\ total' = [total EXCEPT ![i + 1] = @ + 1]
  BY DEF Descend, Reach
<1>2. /\ count[j] <= total[j] /\ (Entered(j) => count[j] < total[j])
      /\ total[j] < CountWrap =>
           /\ Entered(j) => total[j] = count[j] + 1
           /\ ~Entered(j) => total[j] = count[j]
           /\ total[j + 1] <= count[j] /\ total[j + 1] <= limit_shots
  BY <1>1 DEF ShotInv
<1>3. /\ total[j] \in Nat /\ count[j] \in 0..(CountWrap - 1) /\ CountWrap \in Nat
      /\ total[j + 1] \in Nat /\ j + 1 \in Layer
  BY <1>1, ProxyHasBelow, ProxyAssumption DEF ProxyTypeOK
<1>4. CASE j = i
  <2>1. /\ Entered(j) /\ ~Entered(j)' /\ count'[j] = Succ(count[j])
        /\ Succ(count[j]) <= limit_shots
    BY <1>0, <1>1, <1>4 DEF Entered, ProxyTypeOK
  <2>2. total'[j] = total[j] /\ total'[j + 1] = total[j + 1] + 1
    BY <1>0, <1>1, <1>3, <1>4 DEF ProxyTypeOK
  <2>3. count[j] < total[j] /\ (total[j] < CountWrap => total[j] = count[j] + 1)
    BY <1>2, <2>1
  <2>4. count'[j] <= total[j] /\ (total[j] < CountWrap => total[j] = count'[j])
    BY <1>3, <2>1, <2>3, SuccCounts
  <2>5. total[j] < CountWrap => total[j + 1] <= count[j] /\ count'[j] = count[j] + 1
    BY <1>2, <1>3, <2>3, <2>4
  <2>6. total[j] < CountWrap => total'[j + 1] <= count'[j] /\ total'[j + 1] <= limit_shots
    <3>1. PICK c : c = count'[j]
      OBVIOUS
    <3>2. ASSUME total[j] < CountWrap PROVE total[j + 1] + 1 <= c /\ c <= limit_shots
      BY <1>3, <2>1, <2>5, <3>1, <3>2
    <3>3. limit_shots \in Nat
      BY ProxyAssumption
    <3>4. ASSUME total[j] < CountWrap PROVE total[j + 1] + 1 <= limit_shots
      <4>1. c = count[j] + 1
        BY <2>5, <3>1, <3>4
      <4> QED BY <1>3, <3>2, <3>3, <3>4, <4>1
    <3> QED BY <2>2, <3>1, <3>2, <3>4
  <2> QED BY <2>1, <2>2, <2>4, <2>6
<1>5. CASE j = i + 1
  <2>1. ~Entered(j) /\ Entered(j)' /\ count'[j] = count[j]
    BY <1>0, <1>1, <1>5 DEF Entered, ProxyTypeOK
  <2>2. total'[j] = total[j] + 1 /\ total'[j + 1] = total[j + 1]
    BY <1>0, <1>1, <1>3, <1>5 DEF ProxyTypeOK
  <2> QED BY <1>2, <1>3, <2>1, <2>2
<1>6. CASE j # i /\ j # i + 1
  <2>1. ~Entered(j) /\ ~Entered(j)' /\ count'[j] = count[j]
    BY <1>0, <1>1, <1>6 DEF Entered, ProxyTypeOK
  <2>2. total'[j] = total[j] /\ total'[j + 1] = total[j + 1]
    BY <1>0, <1>1, <1>3, <1>6 DEF ProxyTypeOK
  <2> QED BY <1>2, <1>3, <2>1, <2>2
<1> QED BY <1>4, <1>5, <1>6

LEMMA StepShot ==
  ASSUME ProxyTypeOK, ShotInv, [ProxyNext]_proxy_vars
  PROVE  ShotInv'
<1>1. CASE UNCHANGED proxy_vars
  BY <1>1 DEF ShotInv, Entered, proxy_vars
<1>2. ASSUME NEW k \in Key, Ask(k) PROVE ShotInv'
  <2>1. /\ stack' = stack /\ count' = count /\ at = 0 /\ at' = 1 /\ value' = None
        /\ total' = [total EXCEPT ![1] = @ + 1]
    BY <1>2 DEF Ask, Reach
  <2> SUFFICES ASSUME NEW j \in Layer, stack'[j] = "OneShotDB"
               PROVE  /\ count'[j] <= total'[j] /\ (Entered(j)' => count'[j] < total'[j])
                      /\ total'[j] < CountWrap =>
                           /\ Entered(j)' => total'[j] = count'[j] + 1
                           /\ ~Entered(j)' => total'[j] = count'[j]
                           /\ total'[j + 1] <= count'[j] /\ total'[j + 1] <= limit_shots
    BY DEF ShotInv
  <2>2. j \in Nat \ {0} /\ j + 1 \in Layer
    BY <2>1, ProxyHasBelow DEF ProxyTypeOK, Layer
  <2>3. ~Entered(j) /\ (Entered(j)' <=> j = 1)
    BY <2>1, <2>2 DEF Entered
  <2>4. /\ count[j] <= total[j]
        /\ total[j] < CountWrap =>
             /\ total[j] = count[j]
             /\ total[j + 1] <= count[j] /\ total[j + 1] <= limit_shots
    BY <2>1, <2>3 DEF ShotInv
  <2>5. /\ total[j] \in Nat /\ count[j] \in Nat /\ CountWrap \in Nat /\ count'[j] = count[j]
    BY <2>1, ProxyAssumption DEF ProxyTypeOK
  <2>6. total'[j + 1] = total[j + 1] /\ total'[j] = IF j = 1 THEN total[j] + 1 ELSE total[j]
    BY <2>1, <2>2 DEF ProxyTypeOK
  <2> QED BY <2>3, <2>4, <2>5, <2>6
<1>3. ASSUME NEW i \in Layer, get_data(i) PROVE ShotInv'
  <2>1. CASE CacheHit(i)
    BY <2>1, ReturnShot DEF CacheHit, Running
  <2>2. CASE CacheMiss(i)
    BY <2>2, DescendShot DEF CacheMiss, Running
  <2>3. CASE CacheFill(i)
    BY <2>3, ReturnShot DEF CacheFill
  <2>4. CASE TestData(i)
    BY <2>4, ReturnShot, AnswersAreSomething DEF TestData, Running
  <2>5. CASE Shot(i)
    <3>1. CASE Descend(i) /\ Succ(count[i]) <= limit_shots
      BY <2>5, <3>1, DescendShot DEF Shot, Running
    <3>2. CASE Return(i, Limit)
      BY <2>5, <3>2, ReturnShot, AnswersAreSomething DEF Shot, Running
    <3> QED BY <2>5, <3>1, <3>2 DEF Shot
  <2>6. CASE ShotAnswered(i)
    BY <2>6, ReturnShot DEF ShotAnswered
  <2>7. CASE Heavy(i)
    BY <2>7, ReturnShot, AnswersAreSomething DEF Heavy, Running, ProxyTypeOK
  <2> QED BY <1>3, <2>1, <2>2, <2>3, <2>4, <2>5, <2>6, <2>7 DEF get_data
<1> QED BY <1>1, <1>2, <1>3 DEF ProxyNext

(* What stands below an OneShotDB answers limit_shots calls at most before *)
(* the count, a size_t, has come round: count is increased on every call   *)
(* and compared after that.                                                *)
THEOREM LimitIsKept == ProxySpec => []LimitKept
<1>1. ProxyTypeOK /\ ShotInv /\ [ProxyNext]_proxy_vars => ProxyTypeOK' /\ ShotInv'
  BY StepType, StepShot
<1>2. ShotInv => LimitKept
  BY DEF ShotInv, LimitKept
<1> QED BY <1>1, <1>2, InitType, InitShot, PTL DEF ProxySpec
-----------------------------------------------------------------------------
LEMMA InitFit == ProxyInit => FitInv
BY DEF ProxyInit, FitInv

(* A layer that is called grows the count of its calls and no other. *)
LEMMA ReachGrows ==
  ASSUME ProxyTypeOK, NEW i \in Layer, NEW k \in Key, Reach(i, k)
  PROVE  \A j \in Layer : total[j] > limit_shots => total'[j] > limit_shots
<1> SUFFICES ASSUME NEW j \in Layer, total[j] > limit_shots
             PROVE  total'[j] > limit_shots
  OBVIOUS
<1>1. total[j] \in Nat /\ limit_shots \in Nat
  BY ProxyAssumption DEF ProxyTypeOK
<1>2. total'[j] = IF j = i THEN total[j] + 1 ELSE total[j]
  BY DEF Reach, ProxyTypeOK
<1> QED BY <1>1, <1>2

(* A layer that is called, or main's question, leaves the answers as they are. *)
LEMMA DownFit ==
  ASSUME ProxyTypeOK, FitInv, NEW i \in Layer, NEW k \in Key, Reach(i, k),
         UNCHANGED <<stack, cache>>
  PROVE  FitInv'
<1>1. value' = None /\ stack' = stack /\ cache' = cache
  BY DEF Reach
<1>2. \A j \in Layer : total[j] > limit_shots => total'[j] > limit_shots
  BY ReachGrows
<1>3. ASSUME NEW j \in Layer, NEW l \in Key, cache'[j][l] # None PROVE Fits(l, cache[j][l])'
  <2>1. cache[j][l] # None /\ cache'[j][l] = cache[j][l]
    BY <1>1, <1>3
  <2>2. Fits(l, cache[j][l])
    BY <2>1 DEF FitInv
  <2> QED BY <1>1, <1>2, <2>1, <2>2 DEF Fits
<1> QED BY <1>1, <1>3 DEF FitInv

(* A layer that answers with what fits, and keeps that or nothing. *)
LEMMA UpFit ==
  ASSUME ProxyTypeOK, FitInv, NEW i \in Layer, NEW v, Fits(key, v), Return(i, v),
         cache' = cache \/ cache' = [cache EXCEPT ![i][key] = v]
  PROVE  FitInv'
<1>1. value' = v /\ stack' = stack /\ key' = key /\ total' = total /\ key \in Key
  BY DEF Return, ProxyTypeOK
<1>2. Fits(key, value)'
  BY <1>1 DEF Fits
<1>3. ASSUME NEW j \in Layer, NEW l \in Key, cache'[j][l] # None PROVE Fits(l, cache[j][l])'
  <2>1. cache'[j][l] = cache[j][l] \/ (l = key /\ cache'[j][l] = v)
    BY <1>1 DEF ProxyTypeOK
  <2>2. CASE cache'[j][l] = cache[j][l]
    <3>1. Fits(l, cache[j][l])
      BY <1>3, <2>2 DEF FitInv
    <3> QED BY <1>1, <2>2, <3>1 DEF Fits
  <2>3. CASE l = key /\ cache'[j][l] = v
    BY <1>1, <2>3 DEF Fits
  <2> QED BY <2>1, <2>2, <2>3
<1> QED BY <1>2, <1>3 DEF FitInv

LEMMA StepFit ==
  ASSUME ProxyTypeOK, ShotInv, FitInv, [ProxyNext]_proxy_vars
  PROVE  FitInv'
<1>1. CASE UNCHANGED proxy_vars
  BY <1>1 DEF FitInv, Fits, proxy_vars
<1>2. ASSUME NEW k \in Key, Ask(k) PROVE FitInv'
  <2>1. 1 \in Layer
    BY ProxyAssumption DEF Layer
  <2> QED BY <1>2, <2>1, DownFit DEF Ask
<1>3. ASSUME NEW i \in Layer, get_data(i) PROVE FitInv'
  <2>0. key \in Key
    BY DEF ProxyTypeOK
  <2>1. CASE CacheHit(i)
    <3>1. Fits(key, cache[i][key])
      BY <2>0, <2>1 DEF CacheHit, FitInv
    <3> QED BY <2>1, <3>1, UpFit DEF CacheHit
  <2>2. CASE CacheMiss(i)
    <3>1. i + 1 \in Layer
      BY <2>2, ProxyHasBelow DEF CacheMiss, Running, ProxyTypeOK
    <3> QED BY <2>0, <2>2, <3>1, DownFit DEF CacheMiss, Descend
  <2>3. CASE CacheFill(i)
    <3>1. Fits(key, value)
      BY <2>3 DEF CacheFill, FitInv
    <3> QED BY <2>3, <3>1, UpFit DEF CacheFill
  <2>4. CASE TestData(i)
    <3>1. Fits(key, Test)
      BY <2>4 DEF TestData, Running, Fits
    <3> QED BY <2>4, <3>1, UpFit DEF TestData
  <2>5. CASE Shot(i)
    <3>1. stack[i] = "OneShotDB" /\ Entered(i)
      BY <2>5 DEF Shot, Running, Entered
    <3>2. CASE Descend(i)
      <4>1. i + 1 \in Layer
        BY <3>1, ProxyHasBelow DEF ProxyTypeOK
      <4> QED BY <2>0, <2>5, <3>2, <4>1, DownFit DEF Shot, Descend
    <3>3. CASE Return(i, Limit) /\ ~(Succ(count[i]) <= limit_shots)
      <4>1. count[i] < total[i]
        BY <3>1 DEF ShotInv
      <4>2. /\ count[i] \in 0..(CountWrap - 1) /\ total[i] \in Nat
            /\ limit_shots \in Nat /\ CountWrap \in Nat
        BY ProxyAssumption DEF ProxyTypeOK
      <4>3. total[i] > limit_shots
        BY <3>3, <4>1, <4>2 DEF Succ
      <4>4. Fits(key, Limit)
        BY <3>1, <4>3 DEF Fits
      <4> QED BY <2>5, <3>3, <4>4, UpFit DEF Shot
    <3> QED BY <2>5, <3>2, <3>3 DEF Shot
  <2>6. CASE ShotAnswered(i)
    <3>1. Fits(key, value)
      BY <2>6 DEF ShotAnswered, FitInv
    <3> QED BY <2>6, <3>1, UpFit DEF ShotAnswered
  <2>7. CASE Heavy(i)
    <3>1. Fits(key, Result(key))
      BY DEF Fits
    <3> QED BY <2>7, <3>1, UpFit DEF Heavy
  <2> QED BY <1>3, <2>1, <2>2, <2>3, <2>4, <2>5, <2>6, <2>7 DEF get_data
<1> QED BY <1>1, <1>2, <1>3 DEF ProxyNext

(* Main gets the data of its key, or test data from a TestDB, or an error  *)
(* from an OneShotDB that has been called too often, through any caches.   *)
THEOREM AnswersAreFit == ProxySpec => []AnswersFit
<1>1. ProxyTypeOK /\ ShotInv /\ FitInv /\ [ProxyNext]_proxy_vars
        => ProxyTypeOK' /\ ShotInv' /\ FitInv'
  BY StepType, StepShot, StepFit
<1>2. FitInv => AnswersFit
  BY DEF FitInv, AnswersFit, Fits
<1> QED BY <1>1, <1>2, InitType, InitShot, InitFit, PTL DEF ProxySpec

-----------------------------------------------------------------------------
(* LogChain: the chain of responsibility.                                  *)
ChainTypeOK ==
  /\ next_handler \in [Handler -> Handler \cup {nullptr}]
  /\ handler \in Handler \cup {nullptr} /\ entry \in Handler \cup {nullptr}
  /\ message \in Type /\ terminated \in BOOLEAN

(* The handlers of the message's type that one given to h can come to.     *)
Able(h) == {g \in OnChain(h) : TypeOf[g] = message}

(* Handing a message on loses none of them, and the outcome is theirs.     *)
ChainInv ==
  /\ ChainTypeOK
  /\ handler # nullptr => entry # nullptr /\ outcome.what = "none" /\ Able(handler) = Able(entry)
  /\ outcome.what # "none" =>
       IF Able(entry) = {} THEN outcome.what = "unknown_type" ELSE outcome.by \in Able(entry)

(* A chain is its first handler and the chain of the next.                 *)
LEMMA OnChainNext ==
  ASSUME ChainTypeOK, NEW h \in Handler
  PROVE  OnChain(h) = {h} \cup (IF next_handler[h] = nullptr THEN {} ELSE OnChain(next_handler[h]))
<1> DEFINE n == next_handler[h]
           R == {h} \cup (IF n = nullptr THEN {} ELSE OnChain(n))
<1>1. ASSUME NEW k PROVE Closed(OnChain(k))
  BY DEF ChainTypeOK, Closed, OnChain
<1>2. R \in SUBSET Handler /\ h \in R /\ Closed(R)
  <2>1. n # nullptr => n \in OnChain(n)
    BY DEF ChainTypeOK, OnChain
  <2>2. R \in SUBSET Handler
    BY DEF OnChain
  <2> QED BY <1>1, <2>1, <2>2 DEF Closed
<1>3. OnChain(h) \subseteq R
  BY <1>2 DEF OnChain
<1>4. h \in OnChain(h)
  BY DEF OnChain
<1>5. n # nullptr => OnChain(n) \subseteq OnChain(h)
  <2> SUFFICES ASSUME n # nullptr, NEW g \in OnChain(n), NEW S \in SUBSET Handler, h \in S, Closed(S)
               PROVE  g \in S
    BY DEF OnChain
  <2>1. n \in S
    BY DEF Closed
  <2> QED BY <2>1 DEF OnChain
<1> QED BY <1>3, <1>4, <1>5

LEMMA ChainStep == ChainInv /\ [ChainNext]_chain_vars => ChainInv'
<1> SUFFICES ASSUME ChainInv, [ChainNext]_chain_vars PROVE ChainInv'
  OBVIOUS
<1> USE ChainAssumption DEF chain_vars
<1>0. ChainTypeOK
  BY DEF ChainInv
<1>1. ASSUME NEW h \in Handler, NEW g \in Handler, set_next_handler(h, g) PROVE ChainInv'
  <2>1. outcome'.what = "none" /\ handler' = nullptr
    BY <1>1 DEF set_next_handler
  <2>2. ChainTypeOK'
    BY <1>0, <1>1 DEF set_next_handler, ChainTypeOK
  <2> QED BY <2>1, <2>2 DEF ChainInv
<1>2. ASSUME NEW h \in Handler, NEW type \in Type, handler_request(h, type) PROVE ChainInv'
  <2>1. outcome'.what = "none" /\ handler' = h /\ entry' = h /\ h # nullptr
    BY <1>2 DEF handler_request
  <2>2. ChainTypeOK'
    BY <1>0, <1>2 DEF handler_request, ChainTypeOK
  <2> QED BY <2>1, <2>2 DEF ChainInv
<1>3. CASE UNCHANGED chain_vars
  BY <1>0, <1>3 DEF ChainInv, ChainTypeOK, Able, OnChain, Closed
<1>4. ASSUME next_handler' = next_handler, message' = message PROVE \A h : Able(h)' = Able(h)
  BY <1>4 DEF Able, OnChain, Closed
<1>5. CASE handler # nullptr
  <2>1. handler \in Handler /\ Able(handler) = Able(entry) /\ entry # nullptr /\ outcome.what = "none"
    BY <1>0, <1>5 DEF ChainInv, ChainTypeOK
  <2>2. OnChain(handler) =
          {handler} \cup (IF next_handler[handler] = nullptr THEN {} ELSE OnChain(next_handler[handler]))
    BY <1>0, <2>1, OnChainNext
  <2>3. CASE HandOn
    <3>1. /\ UNCHANGED <<next_handler, message, entry, outcome>>
          /\ handler' = next_handler[handler] /\ handler' # nullptr /\ TypeOf[handler] # message
      BY <2>3 DEF HandOn, Handles
    <3>2. Able(next_handler[handler]) = Able(handler)
      BY <2>2, <3>1 DEF Able
    <3>3. Able(handler') = Able(entry)
      BY <2>1, <3>1, <3>2
    <3>4. Able(handler)' = Able(entry)'
      BY <3>1, <3>3 DEF Able, OnChain, Closed
    <3>5. ChainTypeOK'
      BY <1>0, <2>1, <2>3, <3>1 DEF HandOn, ChainTypeOK
    <3> QED BY <2>1, <3>1, <3>4, <3>5 DEF ChainInv
  <2>4. ASSUME NEW what, Finish(what), terminated' \in BOOLEAN,
               IF Able(handler) = {} THEN what = "unknown_type" ELSE handler \in Able(handler)
        PROVE  ChainInv'
    <3>1. /\ UNCHANGED <<next_handler, message, entry>> /\ handler' = nullptr
          /\ outcome' = [what |-> what, by |-> handler]
      BY <2>4 DEF Finish
    <3>2. outcome'.what = what /\ outcome'.by = handler
      BY <3>1
    <3>3. Able(entry)' = Able(handler)
      BY <2>1, <3>1 DEF Able, OnChain, Closed
    <3>4. ChainTypeOK'
      BY <1>0, <2>4, <3>1 DEF ChainTypeOK
    <3> QED BY <2>4, <3>1, <3>2, <3>3, <3>4 DEF ChainInv
  <2>5. CASE Warn \/ Write \/ Throw
    <3>1. handler \in Able(handler)
      BY <2>2, <2>5 DEF Warn, Write, Throw, Handles, Able
    <3>2. PICK what : Finish(what) /\ terminated' \in BOOLEAN
      BY <1>0, <2>5 DEF Warn, Write, Throw, ChainTypeOK
    <3> QED BY <2>4, <3>1, <3>2
  <2>6. CASE GiveUp
    <3>1. Able(handler) = {}
      BY <2>2, <2>6 DEF GiveUp, Handles, Able
    <3>2. Finish("unknown_type") /\ terminated' \in BOOLEAN
      BY <1>0, <2>6 DEF GiveUp, ChainTypeOK
    <3> QED BY <2>4, <3>1, <3>2
  <2>7. ~Main
    BY <1>5 DEF Main, set_next_handler, handler_request
  <2> QED BY <1>3, <2>3, <2>5, <2>6, <2>7 DEF ChainNext, Respond
<1>6. CASE handler = nullptr
  BY <1>1, <1>2, <1>3, <1>6 DEF ChainNext, Main, Respond
<1> QED BY <1>5, <1>6

(* A message is handled by a handler of its type if the chain has one,      *)
(* wherever main gives it in and however its handlers are linked, in a      *)
(* circle too, and handler_request calls it unknown only if it has none.    *)
THEOREM MessagesAreHandled == ChainSpec => []HandledByItsType
<1>1. ChainInit => ChainInv
  <2> SUFFICES ASSUME ChainInit PROVE ChainInv
    OBVIOUS
  <2>1. ChainTypeOK /\ handler = nullptr /\ outcome.what = "none"
    BY ChainAssumption DEF ChainInit, ChainTypeOK, Type
  <2> QED BY <2>1 DEF ChainInv
<1>2. ChainInv => HandledByItsType
  BY DEF ChainInv, HandledByItsType, Able
<1> QED BY <1>1, <1>2, ChainStep, PTL DEF ChainSpec

-----------------------------------------------------------------------------
(* HtmlParser: the links of a page.                                        *)
LEMMA NonEmptyIs ==
  ASSUME NEW s \in Seq(Text)
  PROVE  /\ NonEmpty(s) \in Seq(Text)
         /\ (\A i \in 1..Len(s) : s[i] # Empty) => NonEmpty(s) = s
<1> DEFINE Next1(d, x) == IF s[d] = Empty THEN x ELSE Append(x, s[d])
           IsKept(f) == f = [i \in 0..Len(s) |-> IF i = 0 THEN << >>
                                                ELSE IF s[i] = Empty THEN f[i - 1]
                                                ELSE Append(f[i - 1], s[i])]
           F == [d \in 0..Len(s) |-> [x \in Seq(Text) |-> IF d = 0 THEN x ELSE Next1(d, x)]]
<1>0. Len(s) \in Nat /\ \A i \in 1..Len(s) : s[i] \in Text
  OBVIOUS
<1>1. ASSUME NEW d \in 0..Len(s), d # 0, NEW x \in Seq(Text) PROVE Next1(d, x) \in Seq(Text)
  <2>1. s[d] \in Text
    BY <1>0, <1>1
  <2> QED BY <2>1
<1>2. CanIterate(Seq(Text), << >>, 0, Len(s), F)
  <2>1. << >> \in Seq(Text)
    OBVIOUS
  <2> HIDE DEF Next1
  <2> QED BY <1>0, <1>1, <2>1 DEF CanIterate
<1>3. PICK g : IsIteration(g, Seq(Text), << >>, 0, Len(s), F)
  <2> HIDE DEF F
  <2> QED BY <1>2, Iteration
<1>4. ASSUME NEW i \in 0..Len(s) PROVE g[i] = IF i = 0 THEN << >> ELSE Next1(i, g[i - 1])
  <2>1. i # 0 => i - 1 \in 0..Len(s)
    BY <1>0
  <2>2. i # 0 => g[i - 1] \in Seq(Text)
    BY <1>3, <2>1 DEF IsIteration
  <2> HIDE DEF Next1
  <2> QED BY <1>3, <2>2 DEF IsIteration
<1>5. IsKept(g)
  <2>1. g = [i \in 0..Len(s) |-> g[i]]
    BY <1>3 DEF IsIteration
  <2> QED BY <1>4, <2>1
<1> DEFINE f == CHOOSE f : IsKept(f)
<1>6. NonEmpty(s) = f[Len(s)]
  BY DEF NonEmpty
<1>7. IsKept(f)
  <2> HIDE DEF IsKept
  <2> QED BY <1>5
<1>8. \A i \in 0..Len(s) : f[i] = IF i = 0 THEN << >> ELSE Next1(i, f[i - 1])
  <2> HIDE DEF f
  <2> QED BY <1>7
<1> HIDE DEF f, F, IsKept
<1> DEFINE KeptTo(n) == n <= Len(s) =>
                        /\ f[n] \in Seq(Text)
                        /\ (\A i \in 1..Len(s) : s[i] # Empty) =>
                             Len(f[n]) = n /\ \A i \in 1..n : f[n][i] = s[i]
           G == {n \in Nat : KeptTo(n)}
<1>9. 0 \in G
  <2>1. f[0] = << >>
    BY <1>0, <1>8
  <2>2. f[0] \in Seq(Text) /\ Len(f[0]) = 0
    BY <2>1
  <2> QED BY <2>2
<1>10. ASSUME NEW n \in Nat, n \in G PROVE n + 1 \in G
  <2> SUFFICES ASSUME n + 1 <= Len(s) PROVE KeptTo(n + 1)
    OBVIOUS
  <2>0. n + 1 \in 0..Len(s) /\ n + 1 # 0 /\ (n + 1) - 1 = n /\ n <= Len(s) /\ n + 1 \in 1..Len(s)
    BY <1>0
  <2>1. f[n + 1] = Next1(n + 1, f[n])
    <3> HIDE DEF Next1
    <3> QED BY <1>8, <2>0
  <2>2. /\ f[n] \in Seq(Text)
        /\ (\A i \in 1..Len(s) : s[i] # Empty) => Len(f[n]) = n /\ \A i \in 1..n : f[n][i] = s[i]
    BY <1>10, <2>0
  <2>3. f[n + 1] \in Seq(Text)
    <3> HIDE DEF Next1
    <3> QED BY <1>1, <2>0, <2>1, <2>2
  <2>4. ASSUME \A i \in 1..Len(s) : s[i] # Empty
        PROVE  Len(f[n + 1]) = n + 1 /\ \A i \in 1..(n + 1) : f[n + 1][i] = s[i]
    <3>1. f[n + 1] = Append(f[n], s[n + 1])
      BY <2>0, <2>1, <2>4
    <3>2. s[n + 1] \in Text
      BY <1>0, <2>0
    <3>3. /\ Len(f[n + 1]) = n + 1 /\ f[n + 1][n + 1] = s[n + 1]
          /\ \A i \in 1..n : f[n + 1][i] = f[n][i]
      BY <2>2, <2>4, <3>1, <3>2, AppendProperties
    <3>4. \A i \in 1..(n + 1) : i \in 1..n \/ i = n + 1
      OBVIOUS
    <3> QED BY <2>2, <2>4, <3>3, <3>4
  <2> QED BY <2>3, <2>4
<1>11. Len(s) \in G
  <2> HIDE DEF G
  <2> QED BY <1>0, <1>9, <1>10, Induction
<1>12. /\ f[Len(s)] \in Seq(Text)
       /\ (\A i \in 1..Len(s) : s[i] # Empty) =>
            Len(f[Len(s)]) = Len(s) /\ \A i \in 1..Len(s) : f[Len(s)][i] = s[i]
  BY <1>0, <1>11
<1> QED BY <1>6, <1>12, SeqEqual

(* Slashes in a row are one, the texts at both ends stay.                  *)
LEMMA CollapseIs ==
  ASSUME NEW s \in Seq(Text)
  PROVE  /\ Collapse(s) \in Seq(Text)
         /\ s # << >> => Len(Collapse(s)) >= 1 /\ Collapse(s)[1] = s[1]
         /\ Len(s) >= 2 => Len(Collapse(s)) >= 2
         /\ (\A i \in 2..(Len(s) - 1) : s[i] # Empty) => Collapse(s) = s
<1>1. CASE Len(s) < 3
  BY <1>1 DEF Collapse
<1>2. CASE Len(s) >= 3
  <2> DEFINE n == Len(s)
             m == SubSeq(s, 2, n - 1)
             k == NonEmpty(m)
             c == <<s[1]>> \o k \o <<s[n]>>
  <2>0. n \in Nat /\ s[1] \in Text /\ s[n] \in Text
    BY <1>2
  <2>1. Collapse(s) = c
    BY <1>2 DEF Collapse, LastOf
  <2>2. m \in Seq(Text) /\ Len(m) = n - 2 /\ \A i \in 1..(n - 2) : m[i] = s[i + 1]
    <3>1. 2 \in Int /\ n - 1 \in Int /\ 1 <= 2 /\ 2 <= (n - 1) + 1 /\ n - 1 <= n
      BY <1>2, <2>0
    <3>2. m \in Seq(Text) /\ Len(m) = (n - 1) - 2 + 1
          /\ \A i \in 1..((n - 1) - 2 + 1) : m[i] = s[2 + i - 1]
      BY <3>1, Cut
    <3>3. (n - 1) - 2 + 1 = n - 2 /\ \A i \in 1..(n - 2) : 2 + i - 1 = i + 1
      BY <2>0
    <3> HIDE DEF m, n
    <3> QED BY <3>2, <3>3
  <2> HIDE DEF m
  <2>3. k \in Seq(Text) /\ ((\A i \in 1..Len(m) : m[i] # Empty) => k = m)
    BY <2>2, NonEmptyIs
  <2> HIDE DEF k, n
  <2>4. /\ c \in Seq(Text) /\ Len(c) = Len(k) + 2 /\ Len(k) \in Nat
        /\ c[1] = s[1] /\ c[Len(k) + 2] = s[n] /\ \A i \in 1..Len(k) : c[i + 1] = k[i]
    BY <2>0, <2>3
  <2> HIDE DEF c
  <2>5. ASSUME \A i \in 2..(n - 1) : s[i] # Empty PROVE c = s
    <3>1. k = m
      <4>1. \A i \in 1..Len(m) : i + 1 \in 2..(n - 1) /\ i \in 1..(n - 2)
        BY <2>0, <2>2
      <4> QED BY <2>2, <2>3, <2>5, <4>1
    <3>2. Len(c) = n /\ n = Len(s)
      BY <2>0, <2>2, <2>4, <3>1 DEF n
    <3>3. ASSUME NEW i \in 1..n PROVE c[i] = s[i]
      <4>1. CASE i = 1
        BY <2>4, <4>1
      <4>2. CASE i = n
        BY <2>0, <2>2, <2>4, <3>1, <4>2
      <4>3. CASE i # 1 /\ i # n
        <5>1. i - 1 \in 1..(n - 2) /\ (i - 1) + 1 = i
          BY <2>0, <4>3
        <5>2. c[(i - 1) + 1] = m[i - 1] /\ m[i - 1] = s[(i - 1) + 1]
          BY <2>2, <2>4, <3>1, <5>1
        <5> QED BY <5>1, <5>2
      <4> QED BY <4>1, <4>2, <4>3
    <3> QED BY <2>4, <3>2, <3>3, SeqEqual
  <2>6. Len(c) >= 2 /\ s # << >>
    BY <2>4, <1>2
  <2> QED BY <2>1, <2>4, <2>5, <2>6 DEF n
<1> QED BY <1>1, <1>2

(* One text after the other.                                               *)
LEMMA GlueIs ==
  ASSUME NEW s \in Seq(Text), NEW r \in Seq(Text)
  PROVE  /\ s \o r \in Seq(Text) /\ Len(s \o r) = Len(s) + Len(r)
         /\ \A i \in 1..Len(s) : (s \o r)[i] = s[i]
         /\ \A i \in 1..Len(r) : (s \o r)[Len(s) + i] = r[i]
<1>1. s \o r \in Seq(Text) /\ Len(s \o r) = Len(s) + Len(r)
  BY ConcatProperties
<1>2. ASSUME NEW i \in 1..Len(s) PROVE (s \o r)[i] = s[i]
  OBVIOUS
<1>3. ASSUME NEW i \in 1..Len(r) PROVE (s \o r)[Len(s) + i] = r[i]
  OBVIOUS
<1> QED BY <1>1, <1>2, <1>3

LEMMA MarkIs ==
  ASSUME NEW s \in Seq(Text), Marks(s) # {}
  PROVE  /\ Mark(s) \in 1..(Len(s) - 2)
         /\ 1 \in Marks(s) => Mark(s) = 1
<1>1. Marks(s) \in SUBSET Nat /\ \A i \in Marks(s) : i \in 1..(Len(s) - 2)
  BY DEF Marks
<1>2. \E i \in Marks(s) : \A j \in Marks(s) : i <= j
  BY <1>1, Least
<1>3. Mark(s) \in Marks(s) /\ \A j \in Marks(s) : Mark(s) <= j
  BY <1>2 DEF Mark
<1>4. Mark(s) \in 1..(Len(s) - 2)
  BY <1>1, <1>3
<1>5. 1 \in Marks(s) => Mark(s) = 1
  BY <1>3, <1>4
<1> QED BY <1>4, <1>5

(* The first n texts, and those from the n-th.                             *)
LEMMA UntilIs ==
  ASSUME NEW s \in Seq(Text), NEW n \in Nat, n <= Len(s)
  PROVE  Until(s, n) \in Seq(Text) /\ Len(Until(s, n)) = n /\ \A i \in 1..n : Until(s, n)[i] = s[i]
<1>1. 1 \in Int /\ n \in Int /\ 1 <= 1 /\ 1 <= n + 1 /\ n <= Len(s)
  OBVIOUS
<1>2. /\ SubSeq(s, 1, n) \in Seq(Text) /\ Len(SubSeq(s, 1, n)) = n - 1 + 1
      /\ \A i \in 1..(n - 1 + 1) : SubSeq(s, 1, n)[i] = s[1 + i - 1]
  BY <1>1, Cut
<1>3. n - 1 + 1 = n /\ \A i \in 1..n : 1 + i - 1 = i
  OBVIOUS
<1> QED BY <1>2, <1>3 DEF Until

LEMMA FromIs ==
  ASSUME NEW s \in Seq(Text), NEW n \in Nat \ {0}, n <= Len(s)
  PROVE  /\ From(s, n) \in Seq(Text) /\ Len(From(s, n)) = Len(s) - n + 1
         /\ \A i \in 1..(Len(s) - n + 1) : From(s, n)[i] = s[n + i - 1]
<1>1. Len(s) \in Int /\ n \in Int /\ 1 <= n /\ n <= Len(s) + 1 /\ Len(s) <= Len(s)
  OBVIOUS
<1> QED BY <1>1, Cut DEF From

LEMMA DropFileIs ==
  ASSUME NEW p \in Seq(Text), Len(p) >= 1
  PROVE  \E n \in 1..Len(p) :
           /\ DropFile(p) = Until(p, n)
           /\ LastOf(p) \notin Dotted => n = Len(p)
           /\ Len(p) >= 2 /\ LastOf(p) \in Dotted /\ p[Len(p) - 1] # Empty => n = Len(p) - 1
           /\ Len(p) = 1 => n = 1
<1>1. Until(p, Len(p)) = p
  BY SubSeqFull DEF Until
<1>2. CASE Len(p) < 2 \/ LastOf(p) \notin Dotted
  <2>1. DropFile(p) = Until(p, Len(p)) /\ Len(p) \in 1..Len(p)
    BY <1>1, <1>2 DEF DropFile
  <2>2. ~(Len(p) >= 2 /\ LastOf(p) \in Dotted)
    BY <1>2
  <2>3. Len(p) = 1 => Len(p) = 1
    OBVIOUS
  <2> QED BY <2>1, <2>2
<1>3. CASE Len(p) >= 2 /\ LastOf(p) \in Dotted
  <2>1. CASE Len(p) > 2 /\ p[Len(p) - 1] = Empty
    <3>1. DropFile(p) = Until(p, Len(p) - 2)
      BY <1>3, <2>1 DEF DropFile
    <3>2. Len(p) - 2 \in 1..Len(p) /\ Len(p) # 1
      BY <2>1
    <3> QED BY <1>3, <2>1, <3>1, <3>2
  <2>2. CASE ~(Len(p) > 2 /\ p[Len(p) - 1] = Empty)
    <3>1. DropFile(p) = Until(p, Len(p) - 1) /\ Len(p) - 1 \in 1..Len(p)
      <4>1. DropFile(p) = Until(p, Len(p) - 1)
        BY <1>3, <2>2 DEF DropFile
      <4> QED BY <1>3, <4>1
    <3>2. Len(p) # 1
      <4>1. \A l \in Nat : l >= 2 => l # 1
        OBVIOUS
      <4>2. Len(p) \in Nat
        OBVIOUS
      <4> QED BY <1>3, <4>1, <4>2
    <3> QED BY <1>3, <3>1, <3>2
  <2> QED BY <2>1, <2>2
<1> QED BY <1>2, <1>3

(* The base keeps protocol and host; of a page the parser recognises, it   *)
(* is all but the last text.                                               *)
LEMMA BaseIs ==
  ASSUME NEW u \in Seq(Text), HasScheme(u), NEW b, b = get_base_path(u)
  PROVE  /\ b \in Seq(Text)
         /\ u # <<u[1], Empty, Empty>> =>
              Len(b) >= 3 /\ b[1] = u[1] /\ b[2] = Empty /\ b[3] = u[3]
         /\ Regular(u) /\ u[3] # Empty /\ (\A i \in 4..(Len(u) - 1) : u[i] # Empty) =>
              b = IF Len(u) = 3 THEN u ELSE Until(u, Len(u) - 1)
<1> DEFINE t == Trim(u)
           n == Len(u)
<1>0. n \in Nat /\ n > 2 /\ u[1] \in {Http, Https} /\ u[2] = Empty
  BY DEF HasScheme
<1>1. CASE u = <<u[1], Empty, Empty>>
  <2>1. n = 3 /\ u[3] = Empty
    BY <1>1
  <2>2. t = Until(u, 2)
    BY <2>1 DEF Trim, LastOf
  <2>3. t \in Seq(Text) /\ Len(t) = 2 /\ t[2] = u[2]
    <3>1. 2 \in Nat /\ 2 <= Len(u) /\ 2 \in 1..2
      BY <1>0
    <3> HIDE DEF t
    <3> QED BY <2>2, <3>1, UntilIs
  <2> HIDE DEF t
  <2>4. ~HasScheme(t) /\ LastOf(t) = Empty
    BY <1>0, <2>3 DEF HasScheme, LastOf
  <2>5. DropFile(t) = t
    BY <2>3, <2>4, ParserAssumption DEF DropFile
  <2>6. b = Collapse(t)
    BY <2>4, <2>5 DEF get_base_path, t
  <2> QED BY <1>1, <2>1, <2>3, <2>6, CollapseIs
<1>2. CASE u # <<u[1], Empty, Empty>>
  <2>1. PICK m \in Nat : /\ m >= 3 /\ m <= n /\ t = Until(u, m)
                         /\ LastOf(u) = Empty => m = n - 1
                         /\ LastOf(u) # Empty => m = n
    <3>1. CASE LastOf(u) = Empty
      <4>1. n # 3
        <5> SUFFICES ASSUME n = 3 PROVE FALSE
          OBVIOUS
        <5>1. u[3] = Empty
          BY <3>1 DEF LastOf
        <5>2. u = <<u[1], u[2], u[3]>>
          OBVIOUS
        <5> QED BY <1>0, <1>2, <5>1, <5>2
      <4>2. n - 1 \in Nat /\ n - 1 >= 3 /\ n - 1 <= n
        <5> HIDE DEF n
        <5> QED BY <1>0, <4>1
      <4>3. t = Until(u, n - 1)
        BY <1>0, <3>1 DEF Trim
      <4> HIDE DEF t, n
      <4> QED BY <3>1, <4>2, <4>3
    <3>2. CASE LastOf(u) # Empty
      <4>1. t = u
        BY <3>2 DEF Trim
      <4>2. Until(u, n) = u
        BY SubSeqFull DEF Until
      <4>3. n >= 3 /\ n <= n
        BY <1>0
      <4> HIDE DEF t, n
      <4> QED BY <1>0, <3>2, <4>1, <4>2, <4>3 DEF n
    <3> QED BY <3>1, <3>2
  <2>2. t \in Seq(Text) /\ Len(t) = m /\ \A i \in 1..m : t[i] = u[i]
    BY <2>1, UntilIs
  <2> HIDE DEF t, n
  <2> DEFINE p == From(t, 3)
  <2>3. p \in Seq(Text) /\ Len(p) = m - 2 /\ \A i \in 1..(m - 2) : p[i] = u[i + 2]
    <3>1. 3 \in Nat \ {0} /\ 3 <= Len(t)
      BY <2>1, <2>2
    <3>2. p \in Seq(Text) /\ Len(p) = Len(t) - 3 + 1 /\ \A i \in 1..(Len(t) - 3 + 1) : p[i] = t[3 + i - 1]
      BY <2>2, <3>1, FromIs
    <3>3. Len(t) - 3 + 1 = m - 2 /\ \A i \in 1..(m - 2) : 3 + i - 1 = i + 2 /\ i + 2 \in 1..m
      BY <2>1, <2>2
    <3> HIDE DEF p
    <3> QED BY <2>2, <3>2, <3>3
  <2> HIDE DEF p
  <2>4. PICK k \in 1..Len(p) :
           /\ DropFile(p) = Until(p, k)
           /\ LastOf(p) \notin Dotted => k = Len(p)
           /\ Len(p) >= 2 /\ LastOf(p) \in Dotted /\ p[Len(p) - 1] # Empty => k = Len(p) - 1
           /\ Len(p) = 1 => k = 1
    <3>1. p \in Seq(Text) /\ Len(p) >= 1
      BY <2>1, <2>3
    <3>2. PICK q : q = p
      OBVIOUS
    <3>3. \E k \in 1..Len(q) :
            /\ DropFile(q) = Until(q, k)
            /\ LastOf(q) \notin Dotted => k = Len(q)
            /\ Len(q) >= 2 /\ LastOf(q) \in Dotted /\ q[Len(q) - 1] # Empty => k = Len(q) - 1
            /\ Len(q) = 1 => k = 1
      BY <3>1, <3>2, DropFileIs
    <3> QED BY <3>2, <3>3, Zenon
  <2>5. k \in Nat /\ k >= 1 /\ k <= m - 2
    BY <2>1, <2>3, <2>4
  <2> DEFINE d == Until(p, k)
             c == Collapse(d)
  <2>6. d \in Seq(Text) /\ Len(d) = k /\ \A i \in 1..k : d[i] = u[i + 2]
    <3>1. d \in Seq(Text) /\ Len(d) = k /\ \A i \in 1..k : d[i] = p[i]
      BY <2>3, <2>5, UntilIs
    <3> HIDE DEF d
    <3>2. \A i \in 1..k : i \in 1..(m - 2)
      BY <2>5
    <3> QED BY <2>3, <3>1, <3>2
  <2> HIDE DEF d
  <2>7. /\ c \in Seq(Text) /\ Len(c) >= 1 /\ c[1] = d[1]
        /\ (\A i \in 2..(k - 1) : d[i] # Empty) => c = d
    <3>1. d # << >>
      BY <2>5, <2>6
    <3> QED BY <2>6, <3>1, CollapseIs
  <2>8. b = Until(t, 2) \o c
    <3>1. HasScheme(t)
      BY <1>0, <2>1, <2>2 DEF HasScheme
    <3>2. b = Until(t, 2) \o Collapse(DropFile(p))
      BY <3>1 DEF get_base_path, t, p
    <3> QED BY <2>4, <3>2 DEF d
  <2> HIDE DEF c
  <2>9. Until(t, 2) \in Seq(Text) /\ Len(Until(t, 2)) = 2 /\ Until(t, 2)[1] = u[1] /\ Until(t, 2)[2] = u[2]
    <3>1. 2 \in Nat /\ 2 <= Len(t) /\ 1 \in 1..2 /\ 2 \in 1..2 /\ 1 \in 1..m /\ 2 \in 1..m
      BY <2>1, <2>2
    <3>2. Until(t, 2) \in Seq(Text) /\ Len(Until(t, 2)) = 2 /\ \A i \in 1..2 : Until(t, 2)[i] = t[i]
      BY <2>2, <3>1, UntilIs
    <3> QED BY <2>2, <3>1, <3>2
  <2>10. /\ b \in Seq(Text) /\ Len(b) = 2 + Len(c) /\ Len(c) \in Nat
         /\ b[1] = u[1] /\ b[2] = u[2] /\ \A i \in 1..Len(c) : b[2 + i] = c[i]
    <3>0. PICK a : a = Until(t, 2)
      OBVIOUS
    <3>1. 1 \in 1..2 /\ 2 \in 1..2
      OBVIOUS
    <3>2. /\ a \o c \in Seq(Text) /\ Len(a \o c) = Len(a) + Len(c)
          /\ \A i \in 1..Len(a) : (a \o c)[i] = a[i]
          /\ \A i \in 1..Len(c) : (a \o c)[Len(a) + i] = c[i]
      BY <2>7, <2>9, <3>0, GlueIs
    <3>3. b = a \o c /\ Len(a) = 2 /\ a[1] = u[1] /\ a[2] = u[2]
      BY <2>8, <2>9, <3>0
    <3>4. Len(c) \in Nat
      BY <2>7
    <3>5. b \in Seq(Text) /\ Len(b) = 2 + Len(c) /\ b[1] = u[1] /\ b[2] = u[2]
      BY <3>1, <3>2, <3>3
    <3>6. \A i \in 1..Len(c) : b[2 + i] = c[i]
      BY <3>2, <3>3
    <3> QED BY <3>4, <3>5, <3>6
  <2>11. b[3] = u[3] /\ Len(b) >= 3
    <3>1. 1 \in 1..Len(c) /\ 2 + 1 = 3 /\ 1 \in 1..k /\ 1 + 2 = 3
      BY <2>5, <2>7, <2>10
    <3> QED BY <2>6, <2>7, <2>10, <3>1
  <2>12. ASSUME Regular(u), u[3] # Empty, \A i \in 4..(n - 1) : u[i] # Empty
         PROVE  b = IF n = 3 THEN u ELSE Until(u, n - 1)
    <3>1. k = (IF n = 3 THEN n ELSE n - 1) - 2
      <4>1. LastOf(p) = u[m]
        <5>1. m - 2 \in 1..(m - 2) /\ m - 2 + 2 = m
          BY <2>1
        <5> QED BY <2>3, <5>1 DEF LastOf
      <4>2. LastOf(u) = u[n]
        BY DEF LastOf, n
      <4>3. CASE n = 3
        BY <2>1, <2>3, <2>4, <4>3
      <4>4. CASE n # 3 /\ LastOf(u) \in Dotted
        <5>1. m = n
          BY <2>1, <4>4, ParserAssumption
        <5>2. p[Len(p) - 1] # Empty
          <6>1. m - 3 \in 1..(m - 2) /\ m - 3 + 2 = n - 1 /\ (n - 1 = 3 \/ n - 1 \in 4..(n - 1))
            BY <1>0, <2>1, <4>4, <5>1 DEF n
          <6> QED BY <2>3, <2>12, <6>1
        <5> QED BY <1>0, <2>1, <2>3, <2>4, <4>1, <4>2, <4>4, <5>1, <5>2 DEF n
      <4>5. CASE n # 3 /\ LastOf(u) = Empty /\ (n > 4 => u[n - 1] \notin Dotted)
        <5>1. m = n - 1
          BY <2>1, <4>5
        <5>2. n > 4 => k = Len(p)
          BY <2>4, <4>1, <4>5, <5>1
        <5>3. n = 4 => k = 1
          BY <2>3, <2>4, <5>1
        <5>4. n > 4 \/ n = 4
          <6>1. \A l \in Nat : l > 2 /\ l # 3 => l > 4 \/ l = 4
            OBVIOUS
          <6> QED BY <1>0, <4>5, <6>1 DEF n
        <5>5. Len(p) = n - 1 - 2 /\ (n = 4 => n - 1 - 2 = 1)
          BY <2>3, <5>1
        <5>6. k = n - 1 - 2
          BY <5>2, <5>3, <5>4, <5>5
        <5> QED BY <4>5, <5>6
      <4> QED BY <2>12, <4>3, <4>4, <4>5 DEF Regular, n
    <3>2. c = d
      <4>1. ASSUME NEW i \in 2..(k - 1) PROVE d[i] # Empty
        <5>1. i \in 1..k /\ i + 2 \in 4..(n - 1)
          BY <1>0, <2>5, <3>1 DEF n
        <5> QED BY <2>6, <2>12, <5>1
      <4> QED BY <2>7, <4>1
    <3> HIDE DEF n
    <3> DEFINE v == Until(u, k + 2)
    <3>3. v \in Seq(Text) /\ Len(v) = k + 2 /\ \A i \in 1..(k + 2) : v[i] = u[i]
      <4>1. k + 2 \in Nat /\ k + 2 <= Len(u)
        BY <2>1, <2>5 DEF n
      <4> QED BY <4>1, UntilIs
    <3> HIDE DEF v
    <3>4. Len(b) = k + 2
      BY <2>6, <2>10, <3>2
    <3>5. ASSUME NEW i \in 1..(k + 2) PROVE b[i] = v[i]
      <4>1. i = 1 \/ i = 2 \/ (i - 2 \in 1..k /\ 2 + (i - 2) = i /\ (i - 2) + 2 = i)
        BY <2>5
      <4>2. v[i] = u[i]
        BY <3>3
      <4>3. CASE i = 1 \/ i = 2
        BY <2>10, <4>2, <4>3
      <4>4. CASE i - 2 \in 1..k /\ 2 + (i - 2) = i /\ (i - 2) + 2 = i
        <5>1. b[2 + (i - 2)] = d[i - 2]
          BY <2>6, <2>10, <3>2, <4>4
        <5>2. d[i - 2] = u[(i - 2) + 2]
          BY <2>6, <4>4
        <5> QED BY <4>2, <4>4, <5>1, <5>2
      <4> QED BY <4>1, <4>3, <4>4
    <3>6. b = v
      BY <2>10, <3>3, <3>4, <3>5, SeqEqual
    <3>7. n = 3 => Until(u, n) = u
      BY SubSeqFull DEF Until, n
    <3>8. k + 2 = IF n = 3 THEN n ELSE n - 1
      BY <1>0, <3>1 DEF n
    <3> QED BY <3>6, <3>7, <3>8 DEF v
  <2> QED BY <1>0, <2>10, <2>11, <2>12 DEF n
<1> QED BY <1>1, <1>2

(* The first two texts of s, and the rest without slashes in a row.        *)
LEMMA TidyIs ==
  ASSUME NEW s \in Seq(Text), Len(s) >= 3, NEW v, v = Until(s, 2) \o Collapse(From(s, 3))
  PROVE  /\ v \in Seq(Text) /\ Len(v) >= 3 /\ (Len(s) >= 4 => Len(v) >= 4)
         /\ v[1] = s[1] /\ v[2] = s[2] /\ v[3] = s[3]
         /\ (\A i \in 4..(Len(s) - 1) : s[i] # Empty) => v = s
<1>1. PICK n \in Nat : n = Len(s) /\ n >= 3
  OBVIOUS
<1>2. PICK a : a = Until(s, 2)
  OBVIOUS
<1>3. a \in Seq(Text) /\ Len(a) = 2 /\ a[1] = s[1] /\ a[2] = s[2]
  <2>1. 2 \in Nat /\ 2 <= Len(s) /\ 1 \in 1..2 /\ 2 \in 1..2
    BY <1>1
  <2> QED BY <1>2, <2>1, UntilIs
<1>4. PICK f : f = From(s, 3)
  OBVIOUS
<1>5. f \in Seq(Text) /\ Len(f) = n - 2 /\ \A i \in 1..(n - 2) : f[i] = s[i + 2]
  <2>1. 3 \in Nat \ {0} /\ 3 <= Len(s)
    BY <1>1
  <2>2. f \in Seq(Text) /\ Len(f) = n - 3 + 1 /\ \A i \in 1..(n - 3 + 1) : f[i] = s[3 + i - 1]
    BY <1>1, <1>4, <2>1, FromIs
  <2>3. n - 3 + 1 = n - 2 /\ \A i \in 1..(n - 2) : 3 + i - 1 = i + 2
    BY <1>1
  <2> QED BY <2>2, <2>3
<1>6. PICK c : c = Collapse(f)
  OBVIOUS
<1>7. /\ c \in Seq(Text) /\ Len(c) >= 1 /\ c[1] = f[1]
      /\ Len(f) >= 2 => Len(c) >= 2
      /\ (\A i \in 2..(Len(f) - 1) : f[i] # Empty) => c = f
  <2>1. f # << >>
    BY <1>1, <1>5
  <2> QED BY <1>5, <1>6, <2>1, CollapseIs
<1>8. v = a \o c
  BY <1>2, <1>4, <1>6
<1>9. /\ v \in Seq(Text) /\ Len(v) = 2 + Len(c) /\ Len(c) \in Nat
      /\ v[1] = s[1] /\ v[2] = s[2] /\ \A i \in 1..Len(c) : v[2 + i] = c[i]
  <2>1. /\ v \in Seq(Text) /\ Len(v) = Len(a) + Len(c)
        /\ \A i \in 1..Len(a) : v[i] = a[i]
        /\ \A i \in 1..Len(c) : v[Len(a) + i] = c[i]
    <3>1. a \in Seq(Text) /\ c \in Seq(Text)
      BY <1>3, <1>7
    <3>2. /\ a \o c \in Seq(Text) /\ Len(a \o c) = Len(a) + Len(c)
          /\ \A i \in 1..Len(a) : (a \o c)[i] = a[i]
          /\ \A i \in 1..Len(c) : (a \o c)[Len(a) + i] = c[i]
      BY <3>1, GlueIs, Zenon
    <3> QED BY <1>8, <3>2, Zenon
  <2>2. 1 \in 1..2 /\ 2 \in 1..2
    OBVIOUS
  <2>3. Len(c) \in Nat
    BY <1>7
  <2> QED BY <1>3, <2>1, <2>2, <2>3
<1>10. v[3] = s[3]
  <2>1. 1 \in 1..Len(c) /\ 2 + 1 = 3 /\ 1 \in 1..(n - 2) /\ 1 + 2 = 3
    BY <1>1, <1>7, <1>9
  <2> QED BY <1>5, <1>7, <1>9, <2>1
<1>11. ASSUME \A i \in 4..(n - 1) : s[i] # Empty PROVE v = s
  <2>1. c = f
    <3>1. ASSUME NEW i \in 2..(Len(f) - 1) PROVE f[i] # Empty
      <4>1. i \in 1..(n - 2) /\ i + 2 \in 4..(n - 1)
        BY <1>1, <1>5
      <4> QED BY <1>5, <1>11, <4>1
    <3> QED BY <1>7, <3>1
  <2>2. Len(v) = n /\ Len(c) = n - 2
    BY <1>1, <1>5, <1>9, <2>1
  <2>3. ASSUME NEW i \in 1..n PROVE v[i] = s[i]
    <3>1. i = 1 \/ i = 2 \/ (i - 2 \in 1..(n - 2) /\ 2 + (i - 2) = i /\ (i - 2) + 2 = i)
      BY <1>1
    <3>2. CASE i = 1 \/ i = 2
      BY <1>9, <3>2
    <3>3. CASE i - 2 \in 1..(n - 2) /\ 2 + (i - 2) = i /\ (i - 2) + 2 = i
      <4>1. v[2 + (i - 2)] = f[i - 2]
        BY <1>9, <2>1, <2>2, <3>3
      <4>2. f[i - 2] = s[(i - 2) + 2]
        BY <1>5, <3>3
      <4> QED BY <3>3, <4>1, <4>2
    <3> QED BY <3>1, <3>2, <3>3
  <2> QED BY <1>1, <1>9, <2>2, <2>3, SeqEqual
<1>12. Len(v) >= 3 /\ (n >= 4 => Len(v) >= 4)
  BY <1>1, <1>5, <1>7, <1>9
<1> QED BY <1>1, <1>9, <1>10, <1>11, <1>12

(* What a link adds to the base.                                           *)
Added(h) == IF FromRoot(h) THEN Tail(h) ELSE h

LEMMA AddedIs ==
  ASSUME NEW h \in Url
  PROVE  /\ Added(h) \in Seq(Text) /\ Len(Added(h)) >= 1
         /\ (\A i \in 2..(Len(h) - 1) : h[i] # Empty) =>
              \A i \in 1..(Len(Added(h)) - 1) : Added(h)[i] # Empty
<1>0. h \in Seq(Text) /\ Len(h) \in Nat /\ Len(h) >= 1
  BY DEF Url
<1>1. CASE FromRoot(h)
  <2>1. PICK r : r = Tail(h)
    OBVIOUS
  <2>2. PICK n \in Nat : n = Len(h) /\ n > 1
    BY <1>0, <1>1 DEF FromRoot
  <2>3. r \in Seq(Text) /\ Len(r) = n - 1 /\ \A i \in 1..(n - 1) : r[i] = h[i + 1]
    <3>1. h # << >>
      BY <1>0
    <3>2. Tail(h) \in Seq(Text) /\ Len(Tail(h)) = Len(h) - 1 /\ \A i \in 1..Len(Tail(h)) : Tail(h)[i] = h[i + 1]
      BY <1>0, <3>1, HeadTailProperties
    <3> QED BY <2>1, <2>2, <3>2
  <2>4. ASSUME \A i \in 2..(Len(h) - 1) : h[i] # Empty, NEW i \in 1..(Len(r) - 1) PROVE r[i] # Empty
    <3>1. i \in 1..(n - 1) /\ i + 1 \in 2..(n - 1)
      BY <2>2, <2>3
    <3> QED BY <2>2, <2>3, <2>4, <3>1
  <2>5. Len(r) >= 1
    BY <2>2, <2>3
  <2>6. Added(h) = r
    BY <1>1, <2>1 DEF Added
  <2> QED BY <2>3, <2>4, <2>5, <2>6
<1>2. CASE ~FromRoot(h)
  <2>1. ASSUME \A i \in 2..(Len(h) - 1) : h[i] # Empty, NEW i \in 1..(Len(h) - 1) PROVE h[i] # Empty
    <3>1. Len(h) > 1 /\ (i = 1 \/ i \in 2..(Len(h) - 1))
      BY <1>0
    <3> QED BY <1>2, <2>1, <3>1 DEF FromRoot
  <2> QED BY <1>0, <1>2, <2>1 DEF Added
<1> QED BY <1>1, <1>2

(* A reference is completed on the host of the base.                       *)
LEMMA CompleteIs ==
  ASSUME NEW b \in Seq(Text), HasScheme(b), NEW h \in Url, h # <<Empty>>, ~Complete(h),
         NEW v, v = complete_url(h, b)
  PROVE  /\ v \in Seq(Text) /\ Len(v) >= 4
         /\ v[1] = b[1] /\ v[2] = Empty /\ v[3] = b[3]
         /\ (\A i \in 4..(Len(b) + Len(Added(h)) - 1) : (b \o Added(h))[i] # Empty) =>
              v = b \o Added(h)
<1>1. PICK r : r = Added(h)
  OBVIOUS
<1>2. r \in Seq(Text) /\ Len(r) \in Nat /\ Len(r) >= 1
  BY <1>1, AddedIs
<1>3. b[1] \in {Http, Https} /\ b[2] = Empty /\ Len(b) \in Nat /\ Len(b) >= 3
  BY DEF HasScheme
<1>4. PICK f : f = b \o r
  OBVIOUS
<1>5. /\ f \in Seq(Text) /\ Len(f) = Len(b) + Len(r)
      /\ \A i \in 1..Len(b) : f[i] = b[i]
  BY <1>2, <1>4, GlueIs
<1>6. Len(f) \in Nat /\ Len(f) >= 4 /\ f[1] = b[1] /\ f[2] = Empty /\ f[3] = b[3]
  <2>1. 1 \in 1..Len(b) /\ 2 \in 1..Len(b) /\ 3 \in 1..Len(b)
    BY <1>3
  <2>2. Len(f) \in Nat /\ Len(f) >= 4
    BY <1>2, <1>3, <1>5
  <2> QED BY <1>3, <1>5, <2>1, <2>2
<1>7. 1 \in Marks(f)
  <2>1. 1 \in 1..(Len(f) - 2)
    BY <1>6
  <2>2. f[1] \in Colon
    BY <1>3, <1>6, ParserAssumption
  <2> QED BY <1>6, <2>1, <2>2 DEF Marks
<1>8. Marks(f) # {} /\ Mark(f) = 1
  BY <1>5, <1>7, MarkIs
<1>9. v = Until(f, 2) \o Collapse(From(f, 3))
  <2>1. PICK x, y : x = Mark(f) + 1 /\ y = Mark(f) + 2
    OBVIOUS
  <2>2. v = Until(f, x) \o Collapse(From(f, y))
    BY <1>1, <1>4, <1>8, <2>1 DEF complete_url, Added
  <2>3. x = 2 /\ y = 3
    BY <1>8, <2>1
  <2> QED BY <2>2, <2>3, Zenon
<1>10. /\ v \in Seq(Text) /\ Len(v) >= 4 /\ v[1] = f[1] /\ v[2] = f[2] /\ v[3] = f[3]
       /\ (\A i \in 4..(Len(f) - 1) : f[i] # Empty) => v = f
  <2>1. Len(f) >= 3 /\ f \in Seq(Text)
    BY <1>5, <1>6
  <2> QED BY <1>6, <1>9, <2>1, TidyIs
<1>11. ASSUME \A i \in 4..(Len(b) + Len(r) - 1) : f[i] # Empty PROVE v = f
  BY <1>5, <1>10, <1>11
<1> QED BY <1>1, <1>4, <1>6, <1>10, <1>11

(* Completed references are urls.                                          *)
LEMMA CompleteType ==
  ASSUME NEW b \in Seq(Text), NEW h \in Url, h # <<Empty>>
  PROVE  complete_url(h, b) \in Url
<1>1. CASE Complete(h)
  BY <1>1 DEF complete_url
<1>2. CASE ~Complete(h)
  <2>1. PICK f : f = b \o Added(h)
    OBVIOUS
  <2>2. f \in Seq(Text) /\ Len(f) \in Nat /\ Len(f) >= 1
    <3>1. Added(h) \in Seq(Text) /\ Len(Added(h)) >= 1
      BY AddedIs
    <3>2. PICK r : r = Added(h)
      OBVIOUS
    <3>3. f \in Seq(Text) /\ Len(f) = Len(b) + Len(r) /\ Len(b) \in Nat /\ Len(r) \in Nat
      BY <2>1, <3>1, <3>2, GlueIs
    <3> QED BY <3>1, <3>2, <3>3
  <2>3. CASE Marks(f) = {}
    <3>1. complete_url(h, b) = Collapse(f)
      BY <1>2, <2>1, <2>3 DEF complete_url, Added
    <3>2. Collapse(f) \in Seq(Text) /\ Len(Collapse(f)) >= 1
      BY <2>2, CollapseIs
    <3> QED BY <3>1, <3>2 DEF Url
  <2>4. CASE Marks(f) # {}
    <3>1. PICK m : m = Mark(f)
      OBVIOUS
    <3>2. complete_url(h, b) = Until(f, m + 1) \o Collapse(From(f, m + 2))
      BY <1>2, <2>1, <2>4, <3>1 DEF complete_url, Added
    <3>3. m \in Nat /\ m >= 1 /\ m + 2 <= Len(f) /\ m + 1 \in Nat /\ m + 2 \in Nat \ {0} /\ m + 1 <= Len(f)
      <4>1. m \in 1..(Len(f) - 2)
        BY <2>2, <2>4, <3>1, MarkIs
      <4> QED BY <2>2, <4>1
    <3>4. PICK a : a = Until(f, m + 1)
      OBVIOUS
    <3>5. a \in Seq(Text) /\ Len(a) = m + 1
      BY <2>2, <3>3, <3>4, UntilIs
    <3>6. PICK c : c = Collapse(From(f, m + 2))
      OBVIOUS
    <3>7. c \in Seq(Text)
      <4>1. From(f, m + 2) \in Seq(Text)
        BY <2>2, <3>3, FromIs
      <4>2. PICK g : g = From(f, m + 2)
        OBVIOUS
      <4> QED BY <3>6, <4>1, <4>2, CollapseIs
    <3>8. a \o c \in Seq(Text) /\ Len(a \o c) = (m + 1) + Len(c) /\ Len(c) \in Nat
      <4>1. a \in Seq(Text)
        BY <3>5
      <4>2. a \o c \in Seq(Text) /\ Len(a \o c) = Len(a) + Len(c)
        BY <3>7, <4>1, GlueIs, Zenon
      <4>3. Len(c) \in Nat
        BY <3>7
      <4> QED BY <3>5, <4>2, <4>3
    <3>9. a \o c # << >>
      <4>1. Len(a \o c) # 0
        BY <3>3, <3>8
      <4> QED BY <4>1
    <3> QED BY <3>2, <3>4, <3>6, <3>8, <3>9 DEF Url
  <2> QED BY <2>3, <2>4
<1> QED BY <1>1, <1>2

(* What task() asks of the client for a page.                              *)
LEMMA RequestIs ==
  ASSUME NEW s \in Seq(Text), HasScheme(s)
  PROVE  /\ get_host_target(s).host = HostOf[s[3]]
         /\ Len(s) = 3 => get_host_target(s).target = <<Empty, Empty>>
         /\ Len(s) >= 4 => get_host_target(s).target = [From(s, 3) EXCEPT ![1] = Empty]
         /\ From(s, 3) \in Seq(Text) /\ Len(From(s, 3)) = Len(s) - 2
         /\ \A i \in 1..(Len(s) - 2) : From(s, 3)[i] = s[i + 2]
<1>1. s[1] \in {Http, Https} /\ s[2] = Empty /\ Len(s) \in Nat /\ Len(s) >= 3
  BY DEF HasScheme
<1>2. 1 \in Marks(s)
  <2>1. 1 \in 1..(Len(s) - 2)
    BY <1>1
  <2> QED BY <1>1, <2>1, ParserAssumption DEF Marks
<1>3. Marks(s) # {} /\ Mark(s) + 2 = 3
  BY <1>2, MarkIs
<1>4. PICK r : r = From(s, 3)
  OBVIOUS
<1>5. r \in Seq(Text) /\ Len(r) = Len(s) - 2 /\ \A i \in 1..(Len(s) - 2) : r[i] = s[i + 2]
  <2>1. 3 \in Nat \ {0} /\ 3 <= Len(s)
    BY <1>1
  <2>2. /\ r \in Seq(Text) /\ Len(r) = Len(s) - 3 + 1
        /\ \A i \in 1..(Len(s) - 3 + 1) : r[i] = s[3 + i - 1]
    BY <1>4, <2>1, FromIs
  <2>3. Len(s) - 3 + 1 = Len(s) - 2 /\ \A i \in 1..(Len(s) - 2) : 3 + i - 1 = i + 2
    BY <1>1
  <2> QED BY <2>2, <2>3
<1>6. get_host_target(s) = [host   |-> HostOf[r[1]],
                            target |-> IF Len(r) = 1 THEN <<Empty, Empty>> ELSE [r EXCEPT ![1] = Empty]]
  BY <1>3, <1>4 DEF get_host_target
<1>7. r[1] = s[3]
  <2>1. 1 \in 1..(Len(s) - 2) /\ 1 + 2 = 3
    BY <1>1
  <2> QED BY <1>5, <2>1
<1>8. (Len(s) >= 4 => Len(r) # 1) /\ (Len(s) = 3 => Len(r) = 1)
  <2>1. (\A l \in Nat : l >= 4 => l - 2 # 1) /\ 3 - 2 = 1
    OBVIOUS
  <2> QED BY <1>1, <1>5, <2>1
<1>9. get_host_target(s).host = HostOf[s[3]]
  BY <1>6, <1>7
<1>10. Len(s) >= 4 => get_host_target(s).target = [r EXCEPT ![1] = Empty]
  BY <1>6, <1>8
<1>11. Len(s) = 3 => get_host_target(s).target = <<Empty, Empty>>
  BY <1>6, <1>8
<1> QED BY <1>4, <1>5, <1>9, <1>10, <1>11

(* Every reference is completed where it should be, whatever the page.     *)
LEMMA ResolveIs ==
  ASSUME NEW u \in Seq(Text), HasScheme(u), Regular(u), u[3] # Empty,
         \A i \in 4..(Len(u) - 1) : u[i] # Empty,
         NEW h \in Url, h # <<Empty>>, Plain(h, u)
  PROVE  complete_url(h, get_base_path(u)) = Resolve(h, u)
<1>1. PICK n \in Nat : n = Len(u) /\ n >= 3
  BY DEF HasScheme
<1>2. PICK b : b = get_base_path(u)
  OBVIOUS
<1>3. b \in Seq(Text) /\ b = (IF n = 3 THEN u ELSE Until(u, n - 1))
  BY <1>1, <1>2, BaseIs
<1>4. /\ Len(b) = (IF n = 3 THEN n ELSE n - 1) /\ Len(b) \in Nat /\ Len(b) >= 3
      /\ \A i \in 1..Len(b) : b[i] = u[i]
  <2>1. CASE n = 3
    BY <1>1, <1>3, <2>1
  <2>2. CASE n # 3
    <3>1. n - 1 \in Nat /\ n - 1 <= Len(u) /\ n - 1 >= 3
      BY <1>1, <2>2
    <3>2. PICK m : m = n - 1
      OBVIOUS
    <3>3. Until(u, m) \in Seq(Text) /\ Len(Until(u, m)) = m /\ \A i \in 1..m : Until(u, m)[i] = u[i]
      BY <3>1, <3>2, UntilIs
    <3>4. b = Until(u, m)
      BY <1>3, <2>2, <3>2
    <3>5. Len(b) = m /\ \A i \in 1..Len(b) : b[i] = u[i]
      BY <3>3, <3>4
    <3> QED BY <2>2, <3>1, <3>2, <3>5
  <2> QED BY <2>1, <2>2
<1>5. PICK r : r = Added(h)
  OBVIOUS
<1>6. r \in Seq(Text) /\ Len(r) \in Nat /\ Len(r) >= 1 /\ \A i \in 1..(Len(r) - 1) : r[i] # Empty
  <2>1. \A i \in 2..(Len(h) - 1) : h[i] # Empty
    BY DEF Plain
  <2> QED BY <1>5, <2>1, AddedIs
<1>7. complete_url(h, b) = b \o r
  <2>1. HasScheme(b)
    <3>1. 1 \in 1..Len(b) /\ 2 \in 1..Len(b) /\ Len(b) > 2
      BY <1>4
    <3> QED BY <1>4, <3>1 DEF HasScheme
  <2>2. ASSUME NEW i \in 4..(Len(b) + Len(r) - 1) PROVE (b \o r)[i] # Empty
    <3>1. CASE i <= Len(b)
      <4>1. i \in 1..Len(b) /\ i \in 4..(n - 1)
        BY <1>1, <1>4, <3>1
      <4>2. (b \o r)[i] = b[i]
        BY <1>3, <1>6, <4>1, GlueIs
      <4> QED BY <1>1, <1>4, <4>1, <4>2
    <3>2. CASE i > Len(b)
      <4>1. i - Len(b) \in 1..(Len(r) - 1) /\ i - Len(b) \in 1..Len(r) /\ Len(b) + (i - Len(b)) = i
        BY <1>4, <1>6, <3>2
      <4>2. (b \o r)[Len(b) + (i - Len(b))] = r[i - Len(b)]
        BY <1>3, <1>6, <4>1, GlueIs
      <4> QED BY <1>6, <4>1, <4>2
    <3> QED BY <1>4, <3>1, <3>2
  <2>3. ~Complete(h)
    BY DEF Plain
  <2>4. PICK v : v = complete_url(h, b)
    OBVIOUS
  <2>5. \A i \in 4..(Len(b) + Len(Added(h)) - 1) : (b \o Added(h))[i] # Empty
    BY <1>5, <2>2
  <2>6. b \in Seq(Text)
    BY <1>3
  <2>7. v = b \o Added(h)
    BY <2>1, <2>3, <2>4, <2>5, <2>6, CompleteIs
  <2> QED BY <1>5, <2>4, <2>7
<1> DEFINE p == From(u, 3)
           d == IF Len(p) = 1 \/ FromRoot(h) THEN Until(p, 1) ELSE Until(p, Len(p) - 1)
<1>8. p \in Seq(Text) /\ Len(p) = n - 2 /\ \A i \in 1..(n - 2) : p[i] = u[i + 2]
  BY <1>1, RequestIs
<1>9. Resolve(h, u) = Until(u, 2) \o d \o r
  BY <1>5 DEF Resolve, Added
<1>10. PICK k \in Nat : k >= 1 /\ k <= n - 2 /\ d = Until(p, k) /\ k + 2 = Len(b)
  <2>1. CASE n = 3
    <3>1. Len(p) = 1 /\ 1 + 2 = n
      BY <1>8, <2>1
    <3>2. d = Until(p, 1)
      BY <3>1
    <3> HIDE DEF d, p
    <3>3. 1 \in Nat /\ 1 >= 1 /\ 1 <= n - 2 /\ 1 + 2 = Len(b)
      BY <1>4, <2>1
    <3> QED BY <3>2, <3>3
  <2>2. CASE n # 3 /\ FromRoot(h)
    <3>1. Len(b) = 3
      BY <1>2, <2>2 DEF Plain, AtHost
    <3>2. d = Until(p, 1)
      BY <2>2
    <3> HIDE DEF d, p
    <3>3. 1 \in Nat /\ 1 >= 1 /\ 1 <= n - 2 /\ 1 + 2 = Len(b)
      BY <1>1, <3>1
    <3> QED BY <3>2, <3>3
  <2>3. CASE n # 3 /\ ~FromRoot(h)
    <3>1. Len(p) # 1 /\ Len(p) - 1 = n - 3
      <4> HIDE DEF p
      <4> QED BY <1>1, <1>8, <2>3
    <3>2. d = Until(p, n - 3)
      BY <2>3, <3>1
    <3> HIDE DEF d, p
    <3>3. n - 3 \in Nat /\ n - 3 >= 1 /\ n - 3 <= n - 2 /\ n - 3 + 2 = Len(b)
      BY <1>1, <1>4, <2>3
    <3> QED BY <3>2, <3>3
  <2> QED BY <2>1, <2>2, <2>3
<1> HIDE DEF d, p
<1>11. d \in Seq(Text) /\ Len(d) = k /\ \A i \in 1..k : d[i] = u[i + 2]
  <2>1. d \in Seq(Text) /\ Len(d) = k /\ \A i \in 1..k : d[i] = p[i]
    BY <1>8, <1>10, UntilIs
  <2>2. \A i \in 1..k : i \in 1..(n - 2)
    BY <1>10
  <2> QED BY <1>8, <2>1, <2>2
<1>12. PICK a : a = Until(u, 2)
  OBVIOUS
<1>13. a \in Seq(Text) /\ Len(a) = 2 /\ \A i \in 1..2 : a[i] = u[i]
  <2>1. 2 \in Nat /\ 2 <= Len(u)
    BY <1>1
  <2> QED BY <1>12, <2>1, UntilIs
<1>14. PICK w : w = a \o d
  OBVIOUS
<1>15. /\ w \in Seq(Text) /\ Len(w) = 2 + k
       /\ \A i \in 1..2 : w[i] = u[i]
       /\ \A i \in 1..k : w[2 + i] = u[i + 2]
  <2>1. a \in Seq(Text) /\ d \in Seq(Text)
    BY <1>11, <1>13
  <2>2. /\ a \o d \in Seq(Text) /\ Len(a \o d) = Len(a) + Len(d)
        /\ \A i \in 1..Len(a) : (a \o d)[i] = a[i]
        /\ \A i \in 1..Len(d) : (a \o d)[Len(a) + i] = d[i]
    BY <2>1, GlueIs, Zenon
  <2> QED BY <1>11, <1>13, <1>14, <2>2
<1>16. w = b
  <2>1. Len(w) = Len(b)
    BY <1>10, <1>15
  <2>2. ASSUME NEW i \in 1..Len(w) PROVE w[i] = b[i]
    <3>1. b[i] = u[i]
      BY <1>4, <2>1
    <3>2. i \in 1..2 \/ (i - 2 \in 1..k /\ 2 + (i - 2) = i /\ (i - 2) + 2 = i)
      BY <1>10, <1>15
    <3>3. CASE i \in 1..2
      BY <1>15, <3>1, <3>3
    <3>4. CASE i - 2 \in 1..k /\ 2 + (i - 2) = i /\ (i - 2) + 2 = i
      <4>1. w[2 + (i - 2)] = u[(i - 2) + 2]
        BY <1>15, <3>4
      <4> QED BY <3>1, <3>4, <4>1
    <3> QED BY <3>2, <3>3, <3>4
  <2> QED BY <1>3, <1>15, <2>1, <2>2, SeqEqual
<1> QED BY <1>2, <1>7, <1>9, <1>12, <1>14, <1>16

(* A step follows a reference of a page to another page.                   *)
LEMMA FollowIs ==
  ASSUME url \in Url, Follow
  PROVE  /\ HasScheme(url) /\ href' \in Url /\ href' # <<Empty>> /\ href' \in Hrefs
         /\ url' = complete_url(href', get_base_path(url)) /\ url' # url
         /\ get_base_path(url) \in Seq(Text)
<1>1. PICK h \in Hrefs : url' \in get_all_links({h}, url) /\ href' = h
  BY DEF Follow
<1>2. url' = complete_url(h, get_base_path(url)) /\ url' # url
  BY <1>1 DEF get_all_links
<1>3. h \in Url /\ h # <<Empty>>
  BY ParserAssumption
<1>4. HasScheme(url) /\ url \in Seq(Text)
  BY DEF Follow, Url
<1>5. get_base_path(url) \in Seq(Text)
  <2>1. PICK b : b = get_base_path(url)
    OBVIOUS
  <2> QED BY <1>4, <2>1, BaseIs
<1> QED BY <1>1, <1>2, <1>3, <1>4, <1>5

(* Every page the spider follows is a url, not deeper than search_depth.   *)
THEOREM UrlsStayUrls == Spec => []TypeOK
<1>1. Init => TypeOK
  BY ParserAssumption DEF Init, TypeOK
<1>2. TypeOK /\ [Next]_vars => TypeOK'
  <2> SUFFICES ASSUME TypeOK, [Next]_vars PROVE TypeOK'
    OBVIOUS
  <2>1. CASE Follow
    <3>1. url' \in Url /\ href' \in Hrefs
      <4>1. url \in Url
        BY DEF TypeOK
      <4> QED BY <2>1, <4>1, FollowIs, CompleteType
    <3>2. depth \in Nat /\ depth >= 1 /\ depth < search_depth /\ depth' = depth + 1
      BY <2>1, ParserAssumption DEF Follow, TypeOK
    <3>3. depth' \in 2..search_depth
      BY <3>2, ParserAssumption
    <3> QED BY <3>1, <3>3 DEF TypeOK
  <2>2. CASE UNCHANGED vars
    BY <2>2 DEF TypeOK, vars
  <2> QED BY <2>1, <2>2 DEF Next
<1> QED BY <1>1, <1>2, PTL DEF Spec

(* A link leads where the reference leads, whatever path led to the page.  *)
THEOREM LinksAreResolved == Spec => []LinksResolve
<1>1. TypeOK => LinksResolve
  <2> SUFFICES ASSUME TypeOK, HasScheme(url), Regular(url), url[3] # Empty,
                      \A i \in 4..(Len(url) - 1) : url[i] # Empty,
                      NEW h \in Hrefs, Plain(h, url)
               PROVE  complete_url(h, get_base_path(url)) = Resolve(h, url)
    BY DEF LinksResolve
  <2>1. url \in Seq(Text) /\ h \in Url /\ h # <<Empty>>
    BY ParserAssumption DEF TypeOK, Url
  <2> QED BY <2>1, ResolveIs
<1> QED BY <1>1, UrlsStayUrls, PTL

(* No reference that is not complete leaves the host or the protocol.      *)
THEOREM LinksStayOnHost == Spec => StaysOnHost
<1> DEFINE Stays == ~Complete(href') /\ url # <<url[1], Empty, Empty>> =>
                      /\ HasScheme(url')
                      /\ url'[1] = url[1]
                      /\ Request(url').at.host = Request(url).at.host
<1>1. TypeOK /\ [Next]_vars => [Stays]_vars
  <2> SUFFICES ASSUME TypeOK, Follow, ~Complete(href'), url # <<url[1], Empty, Empty>>
               PROVE  /\ HasScheme(url')
                      /\ url'[1] = url[1]
                      /\ Request(url').at.host = Request(url).at.host
    BY DEF Next
  <2>1. /\ HasScheme(url) /\ href' \in Url /\ href' # <<Empty>>
        /\ url' = complete_url(href', get_base_path(url)) /\ get_base_path(url) \in Seq(Text)
    BY FollowIs DEF TypeOK
  <2>2. PICK u, v, h, b : u = url /\ v = url' /\ h = href' /\ b = get_base_path(url)
    OBVIOUS
  <2>3. Len(b) >= 3 /\ b[1] = u[1] /\ b[2] = Empty /\ b[3] = u[3] /\ u \in Seq(Text) /\ b \in Seq(Text)
    <3>1. u \in Seq(Text) /\ HasScheme(u) /\ u # <<u[1], Empty, Empty>>
      BY <2>1, <2>2 DEF TypeOK, Url
    <3> QED BY <2>1, <2>2, <3>1, BaseIs
  <2>4. HasScheme(b) /\ u[1] \in {Http, Https}
    BY <2>1, <2>2, <2>3 DEF HasScheme
  <2>5. v \in Seq(Text) /\ Len(v) >= 4 /\ v[1] = b[1] /\ v[2] = Empty /\ v[3] = b[3]
    <3>1. h \in Url /\ h # <<Empty>> /\ ~Complete(h) /\ v = complete_url(h, b)
      BY <2>1, <2>2
    <3> QED BY <2>3, <2>4, <3>1, CompleteIs
  <2>6. HasScheme(v)
    BY <2>3, <2>4, <2>5 DEF HasScheme
  <2>7. get_host_target(v).host = HostOf[v[3]] /\ get_host_target(u).host = HostOf[u[3]]
    BY <2>1, <2>2, <2>3, <2>5, <2>6, RequestIs
  <2>8. Request(v).at.host = Request(u).at.host
    BY <2>3, <2>5, <2>7 DEF Request
  <2>9. HasScheme(v) /\ v[1] = u[1]
    BY <2>3, <2>5, <2>6
  <2> QED BY <2>2, <2>8, <2>9
<1> QED BY <1>1, UrlsStayUrls, PTL DEF Spec, StaysOnHost

(* Two urls of one request are one url, the slash of a host aside.          *)
LEMMA LongSeparates ==
  ASSUME NEW u \in Seq(Text), HasScheme(u), Len(u) >= 4,
         NEW v \in Seq(Text), HasScheme(v), Len(v) >= 4,
         u[1] = v[1], u[3] = v[3], get_host_target(u).target = get_host_target(v).target
  PROVE  u = v
<1>1. PICK p, q : p = From(u, 3) /\ q = From(v, 3)
  OBVIOUS
<1>2. /\ p \in Seq(Text) /\ Len(p) = Len(u) - 2 /\ \A i \in 1..(Len(u) - 2) : p[i] = u[i + 2]
      /\ get_host_target(u).target = [p EXCEPT ![1] = Empty]
  BY <1>1, RequestIs
<1>3. /\ q \in Seq(Text) /\ Len(q) = Len(v) - 2 /\ \A i \in 1..(Len(v) - 2) : q[i] = v[i + 2]
      /\ get_host_target(v).target = [q EXCEPT ![1] = Empty]
  BY <1>1, RequestIs
<1>4. [p EXCEPT ![1] = Empty] = [q EXCEPT ![1] = Empty]
  BY <1>2, <1>3
<1>5. DOMAIN p = DOMAIN q /\ \A i \in DOMAIN p : i # 1 => p[i] = q[i]
  BY <1>4
<1>6. PICK n \in Nat, m \in Nat : n = Len(u) /\ m = Len(v) /\ n >= 4 /\ m >= 4
  OBVIOUS
<1>7. n = m
  <2>1. Len(p) = Len(q)
    BY <1>2, <1>3, <1>5
  <2>2. n - 2 = m - 2
    BY <1>2, <1>3, <1>6, <2>1
  <2> QED BY <1>6, <2>2
<1>8. ASSUME NEW i \in 1..n PROVE u[i] = v[i]
  <2>1. i = 1 \/ i = 2 \/ i = 3 \/ (i - 2 \in 1..(n - 2) /\ i - 2 # 1 /\ (i - 2) + 2 = i)
    BY <1>6
  <2>2. CASE i = 1 \/ i = 2 \/ i = 3
    BY <2>2 DEF HasScheme
  <2>3. CASE i - 2 \in 1..(n - 2) /\ i - 2 # 1 /\ (i - 2) + 2 = i
    <3>1. i - 2 \in DOMAIN p
      BY <1>2, <1>6, <2>3
    <3>2. p[i - 2] = q[i - 2]
      BY <1>5, <2>3, <3>1
    <3>3. p[i - 2] = u[(i - 2) + 2] /\ q[i - 2] = v[(i - 2) + 2]
      <4>1. i - 2 \in 1..(Len(u) - 2) /\ i - 2 \in 1..(Len(v) - 2)
        BY <1>6, <1>7, <2>3
      <4>2. \A k \in 1..(Len(u) - 2) : p[k] = u[k + 2]
        BY <1>2, Zenon
      <4>3. \A k \in 1..(Len(v) - 2) : q[k] = v[k + 2]
        BY <1>3, Zenon
      <4> QED BY <4>1, <4>2, <4>3
    <3> QED BY <2>3, <3>2, <3>3
  <2> QED BY <2>1, <2>2, <2>3
<1> QED BY <1>6, <1>7, <1>8, SeqEqual

LEMMA BareSeparates ==
  ASSUME NEW u \in Seq(Text), HasScheme(u), Len(u) = 3,
         NEW v \in Seq(Text), HasScheme(v),
         u[1] = v[1], u[3] = v[3], get_host_target(u).target = get_host_target(v).target
  PROVE  u = v \/ v = Append(u, Empty)
<1>1. get_host_target(u).target = <<Empty, Empty>>
  BY RequestIs
<1>2. PICK n \in Nat : n = Len(v) /\ n >= 3
  BY DEF HasScheme
<1>3. u[2] = Empty /\ v[2] = Empty
  BY DEF HasScheme
<1>4. CASE n = 3
  <2>1. \A i \in 1..Len(u) : u[i] = v[i]
    BY <1>3
  <2> QED BY <1>2, <1>4, <2>1, SeqEqual
<1>5. CASE n >= 4
  <2>1. PICK q : q = From(v, 3)
    OBVIOUS
  <2>2. /\ q \in Seq(Text) /\ Len(q) = n - 2 /\ \A i \in 1..(n - 2) : q[i] = v[i + 2]
        /\ get_host_target(v).target = [q EXCEPT ![1] = Empty]
    BY <1>2, <1>5, <2>1, RequestIs
  <2>3. [q EXCEPT ![1] = Empty] = <<Empty, Empty>>
    BY <1>1, <2>2
  <2>4. PICK r : r = [q EXCEPT ![1] = Empty]
    OBVIOUS
  <2>5. n = 4 /\ q[2] = Empty
    <3>1. r = <<Empty, Empty>> /\ DOMAIN r = 1..2 /\ r[2] = Empty
      <4>1. r = <<Empty, Empty>>
        BY <2>3, <2>4
      <4> QED BY <4>1
    <3>2. DOMAIN r = 1..(n - 2) /\ \A i \in 2..(n - 2) : r[i] = q[i]
      BY <2>2, <2>4
    <3>3. 2 \in 1..(n - 2) /\ (n - 2 >= 3 => 3 \in 1..(n - 2)) /\ 3 \notin 1..2
      BY <1>5
    <3>4. n - 2 = 2
      <4>1. 1..2 = 1..(n - 2)
        BY <3>1, <3>2
      <4>2. 3 \notin 1..(n - 2)
        BY <3>3, <4>1
      <4> QED BY <1>5, <3>3, <4>2
    <3>5. q[2] = r[2]
      BY <3>2, <3>4
    <3> QED BY <3>1, <3>4, <3>5
  <2>6. v[4] = Empty
    <3>1. 2 \in 1..(n - 2) /\ 2 + 2 = 4
      BY <2>5
    <3> QED BY <2>2, <2>5, <3>1
  <2>7. PICK w : w = Append(u, Empty)
    OBVIOUS
  <2>8. /\ w \in Seq(Text) /\ Len(w) = 4 /\ w[4] = Empty
        /\ w[1] = u[1] /\ w[2] = u[2] /\ w[3] = u[3]
    <3>1. Empty \in Text
      BY DEF Text
    <3>2. /\ w \in Seq(Text) /\ Len(w) = Len(u) + 1 /\ w[Len(u) + 1] = Empty
          /\ \A i \in 1..Len(u) : w[i] = u[i]
      <4>1. u \in Seq(Text)
        OBVIOUS
      <4>2. /\ Append(u, Empty) \in Seq(Text) /\ Len(Append(u, Empty)) = Len(u) + 1
            /\ Append(u, Empty)[Len(u) + 1] = Empty
            /\ \A i \in 1..Len(u) : Append(u, Empty)[i] = u[i]
        BY ONLY <3>1, <4>1, AppendProperties
      <4> QED BY <2>7, <4>2, Zenon
    <3>3. 1 \in 1..Len(u) /\ 2 \in 1..Len(u) /\ 3 \in 1..Len(u) /\ Len(u) + 1 = 4
      OBVIOUS
    <3>4. Len(w) = 4 /\ w[4] = Empty
      BY <3>2, <3>3
    <3>5. w[1] = u[1] /\ w[2] = u[2] /\ w[3] = u[3]
      BY <3>2, <3>3, Zenon
    <3> QED BY <3>2, <3>4, <3>5
  <2>9. \A i \in 1..Len(v) : v[i] = w[i]
    BY <1>2, <1>3, <2>5, <2>6, <2>8
  <2> QED BY <1>2, <2>5, <2>7, <2>8, <2>9, SeqEqual
<1> QED BY <1>2, <1>4, <1>5

LEMMA RequestSeparates ==
  ASSUME NEW u \in Seq(Text), HasScheme(u), NEW v \in Seq(Text), HasScheme(v), u # v,
         u[1] = v[1], u[3] = v[3], get_host_target(u).target = get_host_target(v).target
  PROVE  \/ Len(u) = 3 /\ v = Append(u, Empty)
         \/ Len(v) = 3 /\ u = Append(v, Empty)
<1>1. \A l \in Nat : l > 2 /\ l # 3 => l >= 4
  OBVIOUS
<1>2. (Len(u) = 3 \/ Len(u) >= 4) /\ (Len(v) = 3 \/ Len(v) >= 4)
  <2>1. Len(u) \in Nat /\ Len(v) \in Nat /\ Len(u) > 2 /\ Len(v) > 2
    BY DEF HasScheme
  <2> QED BY <1>1, <2>1
<1> QED BY <1>2, LongSeparates, BareSeparates

(* A page that has a host does not link to itself under another spelling of *)
(* its url, but for the slash of a bare host and, in a complete reference,  *)
(* the port.                                                               *)
THEOREM NoPageLinksItself == Spec => NoSelfLink
<1> DEFINE Alone ==
             HasScheme(url') /\ url[3] # Empty /\ Request(url') = Request(url) =>
               \/ Len(url) = 3 /\ url' = Append(url, Empty)
               \/ /\ Complete(href')
                  /\ \/ url'[3] # url[3]
                     \/ Len(url') = 3 /\ url = Append(url', Empty)
<1>1. TypeOK /\ [Next]_vars => [Alone]_vars
  <2> SUFFICES ASSUME TypeOK, Follow, HasScheme(url'), url[3] # Empty, Request(url') = Request(url)
               PROVE  Alone
    BY DEF Next
  <2>1. /\ HasScheme(url) /\ href' \in Url /\ href' # <<Empty>> /\ url' # url
        /\ url' = complete_url(href', get_base_path(url)) /\ get_base_path(url) \in Seq(Text)
    BY FollowIs DEF TypeOK
  <2>2. PICK u, v, h, b : u = url /\ v = url' /\ h = href' /\ b = get_base_path(url)
    OBVIOUS
  <2>3. /\ u \in Seq(Text) /\ HasScheme(u) /\ u[3] # Empty
        /\ v \in Seq(Text) /\ HasScheme(v) /\ u # v
        /\ h \in Url /\ h # <<Empty>> /\ v = complete_url(h, b)
    <3>1. u \in Url
      BY <2>2 DEF TypeOK
    <3>2. v \in Url
      BY <2>1, <2>2, CompleteType
    <3> QED BY <2>1, <2>2, <3>1, <3>2 DEF Url
  <2>4. u[1] = v[1] /\ get_host_target(u).target = get_host_target(v).target
    <3>1. Request(v) = Request(u)
      BY <2>2
    <3>2. (v[1] = Https) <=> (u[1] = Https)
      BY <3>1 DEF Request
    <3>3. u[1] \in {Http, Https} /\ v[1] \in {Http, Https}
      BY <2>3 DEF HasScheme
    <3> QED BY <3>1, <3>2, <3>3 DEF Request
  <2>5. u[3] = v[3] => \/ Len(u) = 3 /\ v = Append(u, Empty)
                       \/ Len(v) = 3 /\ u = Append(v, Empty)
    BY <2>3, <2>4, RequestSeparates
  <2>6. ~Complete(h) => u[3] = v[3] /\ Len(v) # 3
    <3> SUFFICES ASSUME ~Complete(h) PROVE u[3] = v[3] /\ Len(v) # 3
      OBVIOUS
    <3>1. u # <<u[1], Empty, Empty>>
      BY <2>3
    <3>2. Len(b) >= 3 /\ b[1] = u[1] /\ b[2] = Empty /\ b[3] = u[3] /\ b \in Seq(Text)
      BY <2>2, <2>3, <3>1, BaseIs
    <3>3. HasScheme(b)
      BY <2>3, <3>2 DEF HasScheme
    <3>4. v[3] = b[3] /\ Len(v) >= 4
      BY <2>3, <3>2, <3>3, CompleteIs
    <3>5. Len(v) \in Nat /\ \A l \in Nat : l >= 4 => l # 3
      BY <2>3
    <3>6. Len(v) # 3
      BY <3>4, <3>5
    <3> QED BY <3>2, <3>4, <3>6
  <2> QED BY <2>2, <2>5, <2>6
<1>2. Spec => [][Alone]_vars
  BY <1>1, UrlsStayUrls, PTL DEF Spec
<1> QED BY <1>2 DEF NoSelfLink

-----------------------------------------------------------------------------
(* IniFile: the configuration.                                             *)
LEMMA FindIs ==
  ASSUME NEW s \in Seq(STRING), NEW c
  PROVE  /\ (\A i \in 1..Len(s) : s[i] # c) => find(s, c) = npos
         /\ \A i \in 1..Len(s) : s[i] = c /\ (\A j \in 1..(i - 1) : s[j] # c) => find(s, c) = i - 1
<1> DEFINE spot == {i \in DOMAIN s : s[i] = c}
<1>0. DOMAIN s = 1..Len(s) /\ Len(s) \in Nat
  OBVIOUS
<1>1. find(s, c) = IF spot = {} THEN npos ELSE Min(spot) - 1
  BY DEF find
<1>2. ASSUME NEW i \in 1..Len(s), s[i] = c, \A j \in 1..(i - 1) : s[j] # c PROVE find(s, c) = i - 1
  <2>1. spot \in SUBSET Nat /\ i \in spot
    BY <1>0, <1>2
  <2>2. Min(spot) \in spot /\ Min(spot) <= i
    BY <2>1, MinIs
  <2>3. Min(spot) \in 1..Len(s) /\ s[Min(spot)] = c
    BY <1>0, <2>2
  <2>4. Min(spot) = i
    BY <1>2, <2>2, <2>3
  <2> QED BY <1>1, <2>1, <2>4
<1> QED BY <1>0, <1>1, <1>2

LEMMA SubstrIs ==
  ASSUME NEW s \in Seq(STRING), NEW from \in Nat, NEW size \in Nat
  PROVE  substr(s, from, size) = SubSeq(s, from + 1, IF from + size <= Len(s) THEN from + size ELSE Len(s))
<1> DEFINE T == {Len(s), from + size}
<1>1. T \in SUBSET Nat /\ T # {}
  OBVIOUS
<1>2. Min(T) \in T /\ \A m \in T : Min(T) <= m
  <2> HIDE DEF T
  <2> QED BY <1>1, MinIs
<1>3. Min(T) = IF from + size <= Len(s) THEN from + size ELSE Len(s)
  BY <1>2
<1> QED BY <1>3 DEF substr

(* What erase_ispace keeps of a text whose first and last characters that   *)
(* are no spaces are at lo and hi.                                         *)
LEMMA EraseIs ==
  ASSUME NEW s \in Seq(STRING), Len(s) < npos, NEW lo \in 1..Len(s), NEW hi \in 1..Len(s),
         s[lo] # Space, \A i \in 1..(lo - 1) : s[i] = Space,
         s[hi] # Space, \A i \in (hi + 1)..Len(s) : s[i] = Space
  PROVE  /\ Trimmable(s)
         /\ erase_ispace(s) = SubSeq(s, lo, IF lo + hi - 1 <= Len(s) THEN lo + hi - 1 ELSE Len(s))
<1> DEFINE kept == {i \in DOMAIN s : s[i] # Space}
<1>0. DOMAIN s = 1..Len(s) /\ Len(s) \in Nat /\ npos \in Nat
  BY IniAssumption
<1>1. kept \in SUBSET Nat /\ lo \in kept /\ hi \in kept /\ \A n \in kept : n <= Len(s)
  BY <1>0
<1>2. Min(kept) = lo
  <2>1. Min(kept) \in kept /\ Min(kept) <= lo
    BY <1>1, MinIs
  <2>2. Min(kept) \in 1..Len(s) /\ s[Min(kept)] # Space
    BY <1>0, <2>1
  <2> QED BY <2>1, <2>2
<1>3. Max(kept) = hi
  <2>1. Max(kept) \in kept /\ hi <= Max(kept)
    BY <1>0, <1>1, MaxIs
  <2>2. Max(kept) \in 1..Len(s) /\ s[Max(kept)] # Space
    BY <1>0, <2>1
  <2> QED BY <2>1, <2>2
<1> DEFINE t == SubSeq(s, lo, Len(s))
           m == IF lo + hi - 1 <= Len(s) THEN lo + hi - 1 ELSE Len(s)
<1>4. erase_ispace(s) = substr(substr(s, lo - 1, npos), 0, (hi - 1) + 1)
  BY <1>2, <1>3 DEF erase_ispace
<1>5. substr(s, lo - 1, npos) = t
  <2>1. lo - 1 \in Nat /\ lo - 1 + 1 = lo /\ (lo - 1 + npos <= Len(s) => lo - 1 + npos = Len(s))
    BY <1>0
  <2> QED BY <1>0, <2>1, SubstrIs
<1>6. t \in Seq(STRING) /\ Len(t) = Len(s) - lo + 1
  BY <1>0, Cut
<1>7. substr(t, 0, hi) = SubSeq(t, 1, IF hi <= Len(t) THEN hi ELSE Len(t))
  <2> HIDE DEF t
  <2>1. hi \in Nat /\ 0 + 1 = 1 /\ 0 + hi = hi
    OBVIOUS
  <2> QED BY <1>6, <2>1, SubstrIs
<1>8. SubSeq(t, 1, IF hi <= Len(t) THEN hi ELSE Len(t)) = SubSeq(s, lo, m)
  <2> DEFINE d == IF hi <= Len(t) THEN hi ELSE Len(t)
  <2>1. d \in Int /\ 1 <= d + 1 /\ d <= Len(s) - lo + 1 /\ lo + 1 - 1 = lo /\ lo + d - 1 = m
    BY <1>0, <1>6
  <2> HIDE DEF d, m
  <2>2. SubSeq(t, 1, d) = SubSeq(s, lo + 1 - 1, lo + d - 1)
    BY <1>0, <2>1, CutCut
  <2> QED BY <2>1, <2>2 DEF d
<1>9. Trimmable(s) /\ (hi - 1) + 1 = hi
  BY <1>0 DEF Trimmable
<1> QED BY <1>4, <1>5, <1>7, <1>8, <1>9

(* >> takes the characters up to the first white space.                    *)
LEMMA FirstWordIs ==
  ASSUME NEW s \in Seq(STRING), NEW m \in 1..Len(s), \A i \in 1..m : s[i] \notin White,
         m < Len(s) => s[m + 1] \in White
  PROVE  FirstWord(s) = SubSeq(s, 1, m)
<1> DEFINE words == {r \in (DOMAIN s) \X (DOMAIN s) :
                  /\ \A i \in DOMAIN s : i < r[1] => s[i] \in White
                  /\ r[1] <= r[2] /\ \A i \in r[1]..r[2] : s[i] \notin White
                  /\ r[2] < Len(s) => s[r[2] + 1] \in White}
<1>0. DOMAIN s = 1..Len(s) /\ Len(s) \in Nat
  OBVIOUS
<1>1. <<1, m>> \in words
  BY <1>0
<1>2. ASSUME NEW r \in words PROVE r = <<1, m>>
  <2>1. /\ r[1] \in 1..Len(s) /\ r[2] \in 1..Len(s) /\ r = <<r[1], r[2]>>
        /\ \A i \in 1..Len(s) : i < r[1] => s[i] \in White
        /\ r[1] <= r[2] /\ \A i \in r[1]..r[2] : s[i] \notin White
        /\ r[2] < Len(s) => s[r[2] + 1] \in White
    BY <1>0
  <2>2. r[1] = 1
    BY <2>1
  <2>3. r[2] = m
    BY <2>1, <2>2
  <2> QED BY <2>1, <2>2, <2>3
<1> DEFINE w == CHOOSE r \in words : TRUE
<1>3. words # {} /\ w = <<1, m>>
  BY <1>1, <1>2
<1>4. FirstWord(s) = IF words = {} THEN << >> ELSE SubSeq(s, w[1], w[2])
  BY DEF FirstWord
<1>5. w[1] = 1 /\ w[2] = m
  BY <1>3
<1> HIDE DEF words, w
<1> QED BY <1>3, <1>4, <1>5

(* The characters of a line that assigns: the key ends at a, the sign is   *)
(* at e, the value at i..j, and a comment, if there is one, starts at n+1. *)
Shape(s, k, v, e, n, a, i, j) ==
  /\ 1 <= a /\ a < e /\ e < i /\ i <= j /\ j <= n /\ n <= Len(s)
  /\ \A c \in 1..a : s[c] \notin Special
  /\ \A c \in (a + 1)..(e - 1) : s[c] = Space
  /\ s[e] = Equals
  /\ \A c \in (e + 1)..(i - 1) : s[c] = Space
  /\ \A c \in i..j : s[c] \notin Special
  /\ \A c \in (j + 1)..n : s[c] = Space
  /\ n < Len(s) => s[n] = Space /\ s[n + 1] = Semicolon
  /\ k = SubSeq(s, 1, a) /\ v = SubSeq(s, i, j)

LEMMA WordPart ==
  ASSUME NEW s \in Seq(STRING), NEW i \in Int, NEW j \in Int, 1 <= i, j <= Len(s), Word(SubSeq(s, i, j))
  PROVE  i <= j /\ \A c \in i..j : s[c] \notin Special
<1>1. i <= j
  <2> SUFFICES ASSUME j < i PROVE FALSE
    OBVIOUS
  <2>1. SubSeq(s, i, j) = << >>
    BY SubSeqEmpty
  <2> QED BY <2>1 DEF Word
<1>2. /\ SubSeq(s, i, j) \in Seq(STRING) /\ Len(SubSeq(s, i, j)) = j - i + 1
      /\ \A c \in 1..(j - i + 1) : SubSeq(s, i, j)[c] = s[i + c - 1]
  BY <1>1, Cut
<1>3. ASSUME NEW c \in i..j PROVE s[c] \notin Special
  <2>1. c - i + 1 \in 1..(j - i + 1) /\ i + (c - i + 1) - 1 = c
    OBVIOUS
  <2>2. c - i + 1 \in DOMAIN SubSeq(s, i, j)
    BY <1>2, <2>1
  <2>3. SubSeq(s, i, j)[c - i + 1] \notin Special
    BY <2>2 DEF Word
  <2> QED BY <1>2, <2>1, <2>3
<1> QED BY <1>1, <1>3

LEMMA BlankPart ==
  ASSUME NEW s \in Seq(STRING), NEW i \in Int, NEW j \in Int, 1 <= i, j <= Len(s), Blank(SubSeq(s, i, j))
  PROVE  \A c \in i..j : s[c] = Space
<1> SUFFICES ASSUME NEW c \in i..j PROVE s[c] = Space
  OBVIOUS
<1>1. i <= j + 1 /\ c - i + 1 \in 1..(j - i + 1) /\ i + (c - i + 1) - 1 = c
  OBVIOUS
<1>2. /\ SubSeq(s, i, j) \in Seq(STRING) /\ Len(SubSeq(s, i, j)) = j - i + 1
      /\ \A d \in 1..(j - i + 1) : SubSeq(s, i, j)[d] = s[i + d - 1]
  BY <1>1, Cut
<1>3. c - i + 1 \in DOMAIN SubSeq(s, i, j)
  BY <1>1, <1>2
<1>4. SubSeq(s, i, j)[c - i + 1] = Space
  BY <1>3 DEF Blank
<1> QED BY <1>1, <1>2, <1>4

LEMMA AssignShape ==
  ASSUME NEW s \in Seq(STRING), NEW k, NEW v, AssignForm(s, k, v)
  PROVE  \E e, n, a, i, j \in 1..Len(s) : Shape(s, k, v, e, n, a, i, j)
<1>0. DOMAIN s = 1..Len(s) /\ Len(s) \in Nat
  OBVIOUS
<1>1. PICK e, n \in 1..Len(s) :
        /\ s[e] = Equals /\ e <= n
        /\ \E i \in 1..(e - 1) : SubSeq(s, 1, i) = k /\ Blank(SubSeq(s, i + 1, e - 1))
        /\ \E i, j \in (e + 1)..n : /\ SubSeq(s, i, j) = v
                                    /\ Blank(SubSeq(s, e + 1, i - 1)) /\ Blank(SubSeq(s, j + 1, n))
        /\ n < Len(s) => s[n] = Space /\ s[n + 1] = Semicolon
        /\ Word(k) /\ Word(v)
  BY <1>0 DEF AssignForm
<1>2. PICK a \in 1..(e - 1) : SubSeq(s, 1, a) = k /\ Blank(SubSeq(s, a + 1, e - 1))
  BY <1>1
<1>3. PICK i, j \in (e + 1)..n : /\ SubSeq(s, i, j) = v
                                 /\ Blank(SubSeq(s, e + 1, i - 1)) /\ Blank(SubSeq(s, j + 1, n))
  BY <1>1
<1>4. \A c \in 1..a : s[c] \notin Special
  <2>1. a \in Int /\ 1 <= 1 /\ a <= Len(s)
    BY <1>0
  <2>2. Word(SubSeq(s, 1, a))
    BY <1>1, <1>2
  <2> QED BY <2>1, <2>2, WordPart
<1>5. i <= j /\ \A c \in i..j : s[c] \notin Special
  <2>1. i \in Int /\ j \in Int /\ 1 <= i /\ j <= Len(s)
    BY <1>0
  <2>2. Word(SubSeq(s, i, j))
    BY <1>1, <1>3
  <2> QED BY <2>1, <2>2, WordPart
<1>6. \A c \in (a + 1)..(e - 1) : s[c] = Space
  <2>1. a + 1 \in Int /\ e - 1 \in Int /\ 1 <= a + 1 /\ e - 1 <= Len(s)
    BY <1>0
  <2> QED BY <2>1, <1>2, BlankPart
<1>7. \A c \in (e + 1)..(i - 1) : s[c] = Space
  <2>1. e + 1 \in Int /\ i - 1 \in Int /\ 1 <= e + 1 /\ i - 1 <= Len(s)
    BY <1>0
  <2> QED BY <2>1, <1>3, BlankPart
<1>8. \A c \in (j + 1)..n : s[c] = Space
  <2>1. j + 1 \in Int /\ n \in Int /\ 1 <= j + 1 /\ n <= Len(s)
    BY <1>0
  <2> QED BY <2>1, <1>3, BlankPart
<1>9. a \in 1..Len(s) /\ i \in 1..Len(s) /\ j \in 1..Len(s)
  BY <1>0
<1>10. 1 <= a /\ a < e /\ e < i /\ i <= j /\ j <= n /\ n <= Len(s)
  BY <1>5
<1>11. Shape(s, k, v, e, n, a, i, j)
  BY <1>1, <1>2, <1>3, <1>4, <1>5, <1>6, <1>7, <1>8, <1>10 DEF Shape
<1> QED BY <1>9, <1>11

LEMMA SpecialIs ==
  /\ Space \in Special /\ Equals \in Special /\ Semicolon \in Special
  /\ Opening \in Special /\ Closing \in Special
  /\ White \subseteq Special /\ Space \in White
  /\ Space # Equals /\ Space # Semicolon /\ Equals # Semicolon
<1>1. Space # Equals /\ Space # Semicolon /\ Equals # Semicolon
  BY Zenon DEF Space, Equals, Semicolon
<1>2. Space \in White
  BY DEF White
<1> QED BY <1>1, <1>2 DEF Special

LEMMA AssignLine ==
  ASSUME NEW s \in Seq(STRING), Len(s) < npos, NEW k, NEW v, AssignForm(s, k, v)
  PROVE  /\ ~Skipped(s) /\ ~IsSection(s)
         /\ Trimmable(KeyOf(erase_ispace(s))) /\ Trimmable(ValueOf(erase_ispace(s)))
         /\ Assigned(erase_ispace(s)).key = k
         /\ FirstWord(Assigned(erase_ispace(s)).value) = v
         /\ FirstWord(v) = v /\ v # << >>
<1>0. PICK L \in Nat : L = Len(s) /\ L < npos /\ npos \in Nat /\ DOMAIN s = 1..L
  <2>1. npos \in Nat
    BY IniAssumption
  <2>2. Len(s) \in Nat /\ DOMAIN s = 1..Len(s)
    OBVIOUS
  <2> QED BY <2>1, <2>2
<1>1. PICK e, n, a, i, j \in 1..L : Shape(s, k, v, e, n, a, i, j)
  BY <1>0, AssignShape
<1>2. /\ 1 <= a /\ a < e /\ e < i /\ i <= j /\ j <= n /\ n <= L
      /\ \A c \in 1..a : s[c] \notin Special
      /\ \A c \in (a + 1)..(e - 1) : s[c] = Space
      /\ s[e] = Equals
      /\ \A c \in (e + 1)..(i - 1) : s[c] = Space
      /\ \A c \in i..j : s[c] \notin Special
      /\ \A c \in (j + 1)..n : s[c] = Space
      /\ n < L => s[n] = Space /\ s[n + 1] = Semicolon
  BY <1>0, <1>1 DEF Shape
<1>3. k = SubSeq(s, 1, a) /\ v = SubSeq(s, i, j)
  BY <1>1 DEF Shape
<1>4. ~Skipped(s) /\ ~IsSection(s)
  <2>1. 1 \in DOMAIN s /\ s[1] \notin Special
    BY <1>0, <1>2
  <2> QED BY <2>1, SpecialIs DEF Skipped, IsSection, str_is_whitespace
<1>5. PICK hi \in 1..L : s[hi] # Space /\ \A c \in (hi + 1)..L : s[c] = Space
  <2> DEFINE T == {c \in 1..L : s[c] # Space}
  <2>1. T \in SUBSET Nat /\ j \in T /\ \A c \in T : c <= L
    BY <1>0, <1>2, SpecialIs
  <2>2. Max(T) \in T /\ \A c \in T : c <= Max(T)
    <3> HIDE DEF T
    <3> QED BY <1>0, <2>1, MaxIs
  <2>3. \A c \in (Max(T) + 1)..L : s[c] = Space
    BY <1>0, <2>2
  <2> QED BY <2>2, <2>3
<1>6. j <= hi /\ (n < L => n + 1 <= hi) /\ (n = L => hi = j)
  <2>1. s[j] # Space
    BY <1>2, SpecialIs
  <2>2. n < L => s[n + 1] # Space
    BY <1>2, SpecialIs
  <2>3. j <= hi
    BY <1>0, <1>5, <2>1
  <2>4. n < L => n + 1 <= hi
    BY <1>0, <1>5, <2>2
  <2>5. n = L => ~(j < hi)
    <3>1. n = L /\ j < hi => hi \in (j + 1)..n
      BY <1>0
    <3> QED BY <1>2, <1>5, <3>1
  <2> QED BY <1>0, <2>3, <2>4, <2>5
<1>order. /\ 1 <= a /\ a < e /\ e < i /\ i <= j /\ j <= n /\ n <= L /\ j <= hi /\ hi <= L
       /\ L = Len(s) /\ L < npos /\ npos \in Int /\ L \in Int /\ (n < L => n + 1 <= hi) /\ (n = L => hi = j)
       /\ a \in Int /\ e \in Int /\ i \in Int /\ j \in Int /\ n \in Int /\ hi \in Int
  <2>1. 1 <= a /\ a < e /\ e < i /\ i <= j /\ j <= n /\ n <= L
    BY <1>2
  <2> QED BY <1>0, <1>6, <2>1
<1> DEFINE t == erase_ispace(s)
           p == SubSeq(s, 1, e - 1)
           q == SubSeq(s, e + 1, hi)
           w == SubSeq(s, i, hi)
<1>7. t = SubSeq(s, 1, hi)
  <2>1. s[1] # Space /\ 1 \in 1..L /\ 1 + hi - 1 = hi /\ hi <= L
    BY <1>0, <1>2, <1>5, SpecialIs
  <2>2. erase_ispace(s) = SubSeq(s, 1, IF 1 + hi - 1 <= L THEN 1 + hi - 1 ELSE L)
    <3>1. \A c \in 1..(1 - 1) : s[c] = Space
      OBVIOUS
    <3> QED BY <1>0, <1>5, <2>1, <3>1, EraseIs
  <2> QED BY <2>1, <2>2
<1>8. t \in Seq(STRING) /\ Len(t) = hi /\ \A c \in 1..hi : t[c] = s[c]
  <2>1. SubSeq(s, 1, hi) \in Seq(STRING) /\ Len(SubSeq(s, 1, hi)) = hi - 1 + 1
        /\ \A c \in 1..(hi - 1 + 1) : SubSeq(s, 1, hi)[c] = s[1 + c - 1]
    <3>1. 1 \in Int /\ 1 <= 1 /\ 1 <= hi + 1 /\ hi <= Len(s)
      BY <1>order
    <3> QED BY <1>order, <3>1, Cut
  <2>2. hi - 1 + 1 = hi /\ \A c \in 1..hi : 1 + c - 1 = c
    OBVIOUS
  <2> QED BY <1>7, <2>1, <2>2
<1> HIDE DEF t
<1>9. find(t, Equals) = e - 1
  <2>1. e \in 1..Len(t) /\ t[e] = Equals
    BY <1>0, <1>2, <1>6, <1>8
  <2>2. \A c \in 1..(e - 1) : t[c] # Equals
    BY <1>0, <1>2, <1>6, <1>8, SpecialIs
  <2> QED BY <1>8, <2>1, <2>2, FindIs
<1>10. e - 1 # npos /\ e - 1 \in Nat /\ hi < npos
  BY <1>0, <1>2
<1>11. KeyOf(t) = p
  <2>1. substr(t, 0, e - 1) = SubSeq(t, 0 + 1, IF 0 + (e - 1) <= Len(t) THEN 0 + (e - 1) ELSE Len(t))
    BY <1>8, <1>10, SubstrIs
  <2>2. 0 + 1 = 1 /\ 0 + (e - 1) = e - 1 /\ e - 1 <= Len(t)
    BY <1>2, <1>6, <1>8
  <2>3. SubSeq(t, 1, e - 1) = SubSeq(s, 1 + 1 - 1, 1 + (e - 1) - 1)
    BY <1>order, <1>7, CutCut
  <2> QED BY <1>9, <2>1, <2>2, <2>3 DEF KeyOf
<1>12. ValueOf(t) = q
  <2>1. substr(t, e, npos) = SubSeq(t, e + 1, IF e + npos <= Len(t) THEN e + npos ELSE Len(t))
    <3>1. e \in Nat /\ npos \in Nat
      BY <1>0, <1>order
    <3>2. \A from \in Nat, size \in Nat : substr(t, from, size) =
            SubSeq(t, from + 1, IF from + size <= Len(t) THEN from + size ELSE Len(t))
      BY <1>8, SubstrIs
    <3> QED BY <3>1, <3>2
  <2>2. ~(e + npos <= Len(t)) /\ (e - 1) + 1 = e
    BY <1>0, <1>8, <1>10
  <2>3. SubSeq(t, e + 1, hi) = SubSeq(s, 1 + (e + 1) - 1, 1 + hi - 1)
    BY <1>order, <1>7, CutCut
  <2>4. 1 + (e + 1) - 1 = e + 1 /\ 1 + hi - 1 = hi
    OBVIOUS
  <2>5. ValueOf(t) = substr(t, e, npos)
    BY <1>9, <1>10, <2>2 DEF ValueOf
  <2> QED BY <1>8, <2>1, <2>2, <2>3, <2>4, <2>5
<1>13. p \in Seq(STRING) /\ Len(p) = e - 1 /\ \A c \in 1..(e - 1) : p[c] = s[c]
  <2>1. p \in Seq(STRING) /\ Len(p) = (e - 1) - 1 + 1
        /\ \A c \in 1..((e - 1) - 1 + 1) : p[c] = s[1 + c - 1]
    BY <1>order, Cut
  <2>2. (e - 1) - 1 + 1 = e - 1 /\ \A c \in 1..(e - 1) : 1 + c - 1 = c
    OBVIOUS
  <2> HIDE DEF p
  <2> QED BY <2>1, <2>2
<1>14. q \in Seq(STRING) /\ Len(q) = hi - e /\ \A c \in 1..(hi - e) : q[c] = s[e + c]
  <2>1. q \in Seq(STRING) /\ Len(q) = hi - (e + 1) + 1
        /\ \A c \in 1..(hi - (e + 1) + 1) : q[c] = s[(e + 1) + c - 1]
    BY <1>order, Cut
  <2>2. hi - (e + 1) + 1 = hi - e /\ \A c \in 1..(hi - e) : (e + 1) + c - 1 = e + c
    OBVIOUS
  <2> HIDE DEF q
  <2> QED BY <2>1, <2>2
<1>15. Trimmable(p) /\ erase_ispace(p) = SubSeq(p, 1, a)
  <2>1. Len(p) < npos /\ 1 \in 1..Len(p) /\ a \in 1..Len(p)
    BY <1>order, <1>13
  <2>2. p[1] # Space /\ p[a] # Space /\ \A c \in (a + 1)..Len(p) : p[c] = Space
    BY <1>2, <1>13, SpecialIs
  <2>3. \A c \in 1..(1 - 1) : p[c] = Space
    OBVIOUS
  <2>4. 1 + a - 1 = a /\ a <= Len(p)
    BY <2>1
  <2> HIDE DEF p
  <2>5. Trimmable(p) /\ erase_ispace(p) = SubSeq(p, 1, IF 1 + a - 1 <= Len(p) THEN 1 + a - 1 ELSE Len(p))
    BY <1>13, <2>1, <2>2, <2>3, EraseIs
  <2> QED BY <2>4, <2>5
<1>16. SubSeq(p, 1, a) = k
  <2>1. SubSeq(p, 1, a) = SubSeq(s, 1 + 1 - 1, 1 + a - 1)
    BY <1>0, <1>2, CutCut
  <2>2. 1 + 1 - 1 = 1 /\ 1 + a - 1 = a
    OBVIOUS
  <2> QED BY <1>3, <2>1, <2>2
<1>17. Trimmable(q) /\ erase_ispace(q) = w
  <2>1. Len(q) < npos /\ i - e \in 1..Len(q) /\ hi - e \in 1..Len(q)
    BY <1>order, <1>14
  <2>2. e + (i - e) = i /\ e + (hi - e) = hi /\ i \in i..j
    BY <1>2
  <2>3. q[i - e] # Space /\ q[hi - e] # Space
    BY <1>2, <1>5, <1>14, <2>1, <2>2, SpecialIs
  <2>4. \A c \in (hi - e + 1)..Len(q) : q[c] = Space
    BY <1>14
  <2>5. \A c \in 1..(i - e - 1) : q[c] = Space
    <3> TAKE c \in 1..(i - e - 1)
    <3>1. e + c \in (e + 1)..(i - 1) /\ c \in 1..(hi - e)
      BY <1>2, <1>6
    <3> QED BY <1>2, <1>14, <3>1
  <2>6. ~((i - e) + (hi - e) - 1 <= Len(q)) \/ (i - e) + (hi - e) - 1 = Len(q)
    BY <1>2, <1>14
  <2> HIDE DEF q
  <2>7. Trimmable(q) /\ erase_ispace(q) =
          SubSeq(q, i - e, IF (i - e) + (hi - e) - 1 <= Len(q) THEN (i - e) + (hi - e) - 1 ELSE Len(q))
    BY <1>14, <2>1, <2>3, <2>4, <2>5, EraseIs
  <2>8. erase_ispace(q) = SubSeq(q, i - e, hi - e)
    BY <1>14, <2>6, <2>7
  <2>9. SubSeq(q, i - e, hi - e) = SubSeq(s, (e + 1) + (i - e) - 1, (e + 1) + (hi - e) - 1)
    <3>1. /\ e + 1 \in Int /\ 1 <= e + 1 /\ hi <= Len(s) /\ 1 <= i - e /\ i - e <= (hi - e) + 1
          /\ hi - e <= hi - (e + 1) + 1
      BY <1>order
    <3> QED BY <1>order, <3>1, CutCut DEF q
  <2>10. (e + 1) + (i - e) - 1 = i /\ (e + 1) + (hi - e) - 1 = hi
    OBVIOUS
  <2> QED BY <2>7, <2>8, <2>9, <2>10
<1>18. w \in Seq(STRING) /\ Len(w) = hi - i + 1
  BY <1>order, Cut
<1>19. find(t, Semicolon) = IF n < L THEN n ELSE npos
  <2>1. \A c \in 1..n : s[c] # Semicolon
    <3> TAKE c \in 1..n
    <3>1. c \in 1..a \/ c \in (a + 1)..(e - 1) \/ c = e \/ c \in (e + 1)..(i - 1) \/ c \in i..j \/ c \in (j + 1)..n
      BY <1>2
    <3> QED BY <1>2, <3>1, SpecialIs
  <2>2. CASE n < L
    <3>1. n + 1 \in 1..Len(t) /\ t[n + 1] = Semicolon
      BY <1>2, <1>6, <1>8, <2>2
    <3>2. \A c \in 1..((n + 1) - 1) : t[c] # Semicolon
      BY <1>6, <1>8, <2>1, <2>2
    <3>3. (n + 1) - 1 = n
      OBVIOUS
    <3>4. find(t, Semicolon) = (n + 1) - 1
      BY <1>8, <3>1, <3>2, FindIs
    <3> QED BY <2>2, <3>3, <3>4
  <2>3. CASE n = L
    <3>1. \A c \in 1..Len(t) : t[c] # Semicolon
      BY <1>0, <1>5, <1>6, <1>8, <2>1, <2>3
    <3> QED BY <1>0, <1>8, <2>3, <3>1, FindIs
  <2> QED BY <1>0, <1>2, <2>2, <2>3
<1> DEFINE size == IF n < L THEN n ELSE npos
           b == IF i + size - 1 <= hi THEN i + size - 1 ELSE hi
<1>20. j <= b /\ b <= hi /\ b \in Int /\ (j < b => s[j + 1] = Space)
  <2>1. j <= b /\ b <= hi /\ b \in Int /\ (n = L => b = j) /\ (n < L => j < n)
    <3>1. n < L => j < n
      BY <1>2, <1>order, SpecialIs
    <3> QED BY <1>order, <3>1
  <2>2. n < L => j + 1 \in (j + 1)..n
    BY <1>order, <2>1
  <2> QED BY <1>2, <1>order, <2>1, <2>2
<1>21. substr(w, 0, size) = SubSeq(s, i, b)
  <2>1. size \in Nat
    BY <1>0
  <2> DEFINE d == IF size <= Len(w) THEN size ELSE Len(w)
  <2>2. d \in Int /\ i + d - 1 = b /\ 1 <= d + 1 /\ d <= hi - i + 1
    BY <1>order, <1>18, <2>1
  <2>3. substr(w, 0, size) = SubSeq(w, 0 + 1, IF 0 + size <= Len(w) THEN 0 + size ELSE Len(w))
    <3> HIDE DEF w, size
    <3> QED BY <1>18, <2>1, SubstrIs
  <2>4. 0 + 1 = 1 /\ 0 + size = size
    BY <2>1
  <2>5. substr(w, 0, size) = SubSeq(w, 1, d)
    BY <2>3, <2>4
  <2> HIDE DEF d, size, b
  <2>6. SubSeq(w, 1, d) = SubSeq(s, i + 1 - 1, i + d - 1)
    <3>1. 1 <= i /\ hi <= Len(s)
      BY <1>0, <1>2, <1>5
    <3> QED BY <2>2, <3>1, CutCut
  <2>7. i + 1 - 1 = i
    OBVIOUS
  <2> QED BY <2>2, <2>5, <2>6, <2>7
<1> DEFINE x == SubSeq(s, i, b)
<1>22. Assigned(t).key = k /\ Assigned(t).value = x
  BY <1>11, <1>12, <1>15, <1>16, <1>17, <1>19, <1>21 DEF Assigned
<1> HIDE DEF size, b
<1>23. x \in Seq(STRING) /\ Len(x) = b - i + 1 /\ \A c \in 1..(b - i + 1) : x[c] = s[i + c - 1]
  <2>1. 1 <= i /\ i <= b + 1 /\ b <= Len(s)
    BY <1>0, <1>2, <1>5, <1>20
  <2> QED BY <1>20, <2>1, Cut
<1>24. FirstWord(x) = v
  <2> DEFINE m == j - i + 1
  <2> HIDE DEF x
  <2>1. m \in 1..Len(x)
    <3>1. j \in Int /\ i \in Int /\ i <= j
      BY <1>2
    <3>2. b \in Int /\ j <= b
      BY <1>20
    <3> QED BY <1>23, <3>1, <3>2
  <2>2. \A c \in 1..m : x[c] \notin White
    <3> TAKE c \in 1..m
    <3>1. i + c - 1 \in i..j /\ c \in 1..(b - i + 1)
      BY <1>2, <1>20
    <3> QED BY <1>2, <1>23, <3>1, SpecialIs
  <2>3. m < Len(x) => x[m + 1] \in White
    <3> SUFFICES ASSUME m < Len(x) PROVE x[m + 1] \in White
      OBVIOUS
    <3>1. j < b /\ m + 1 \in 1..(b - i + 1) /\ i + (m + 1) - 1 = j + 1
      BY <1>order, <1>20, <1>23
    <3> QED BY <1>20, <1>23, <3>1, SpecialIs
  <2>4. FirstWord(x) = SubSeq(x, 1, m)
    <3> HIDE DEF m
    <3> QED BY <1>23, <2>1, <2>2, <2>3, FirstWordIs
  <2>5. SubSeq(x, 1, m) = SubSeq(s, i + 1 - 1, i + m - 1)
    <3>1. 1 <= i /\ b <= Len(s) /\ m \in Int /\ 1 <= m + 1 /\ m <= b - i + 1
      BY <1>0, <1>2, <1>5, <1>20
    <3> QED BY <1>20, <3>1, CutCut DEF x
  <2>6. i + 1 - 1 = i /\ i + m - 1 = j
    OBVIOUS
  <2> QED BY <1>3, <2>4, <2>5, <2>6
<1>25. v \in Seq(STRING) /\ Len(v) = j - i + 1 /\ \A c \in 1..(j - i + 1) : v[c] = s[i + c - 1]
  BY <1>order, <1>3, Cut
<1>26. FirstWord(v) = v /\ v # << >>
  <2>1. Len(v) \in 1..Len(v) /\ Len(v) # 0
    BY <1>2, <1>25
  <2>2. \A c \in 1..Len(v) : v[c] \notin White
    <3> TAKE c \in 1..Len(v)
    <3>1. i + c - 1 \in i..j /\ c \in 1..(j - i + 1)
      BY <1>25
    <3> QED BY <1>2, <1>25, <3>1, SpecialIs
  <2>3. FirstWord(v) = SubSeq(v, 1, Len(v))
    <3>1. ~(Len(v) < Len(v))
      BY <2>1
    <3> QED BY <1>25, <2>1, <2>2, <3>1, FirstWordIs
  <2> QED BY <1>25, <2>1, <2>3, SubSeqFull
<1> HIDE DEF x, p, q
<1> QED BY <1>4, <1>11, <1>12, <1>15, <1>17, <1>22, <1>24, <1>26 DEF t

LEMMA HeadLine ==
  ASSUME NEW s \in Seq(STRING), Len(s) < npos, NEW name \in Seq(STRING), SectionForm(s, name)
  PROVE  /\ ~Skipped(s) /\ IsSection(s)
         /\ substr(s, 1, Len(s) - 2) = name
<1>0. PICK m \in Nat : m = Len(name) /\ npos \in Nat /\ m # 0
  BY IniAssumption DEF SectionForm, Word
<1>1. s = (<<Opening>> \o name) \o <<Closing>> /\ Word(name)
  BY DEF SectionForm
<1>2. Len(s) = m + 2
  BY <1>0, <1>1
<1>3. s[1] = Opening /\ s[m + 2] = Closing /\ \A c \in 1..m : s[c + 1] = name[c]
  BY <1>0, <1>1
<1>4. ~Skipped(s) /\ IsSection(s)
  <2>1. Opening # Semicolon /\ Opening # Space /\ Opening \notin White
    BY Zenon DEF Opening, Semicolon, Space, White
  <2>2. 1 \in DOMAIN s
    BY <1>0, <1>2
  <2> QED BY <1>0, <1>2, <1>3, <2>1, <2>2 DEF Skipped, IsSection, str_is_whitespace, Back
<1> DEFINE x == SubSeq(s, 2, m + 1)
<1>5. substr(s, 1, Len(s) - 2) = x
  <2>1. 1 + 1 = 2 /\ 1 + (Len(s) - 2) = m + 1 /\ m + 1 <= Len(s) /\ 1 \in Nat /\ Len(s) - 2 \in Nat
    BY <1>0, <1>2
  <2>2. substr(s, 1, Len(s) - 2) =
          SubSeq(s, 1 + 1, IF 1 + (Len(s) - 2) <= Len(s) THEN 1 + (Len(s) - 2) ELSE Len(s))
    BY <2>1, SubstrIs
  <2> QED BY <2>1, <2>2
<1>6. x \in Seq(STRING) /\ Len(x) = (m + 1) - 2 + 1 /\ \A c \in 1..((m + 1) - 2 + 1) : x[c] = s[2 + c - 1]
  <2>1. 1 <= 2 /\ 2 <= (m + 1) + 1 /\ m + 1 <= Len(s)
    BY <1>0, <1>2
  <2> QED BY <2>1, Cut
<1> HIDE DEF x
<1>7. Len(x) = m /\ \A c \in 1..m : x[c] = s[c + 1]
  <2>1. (m + 1) - 2 + 1 = m /\ \A c \in 1..m : 2 + c - 1 = c + 1
    OBVIOUS
  <2> QED BY <1>6, <2>1
<1>8. x = name
  BY <1>0, <1>3, <1>6, <1>7, SeqEqual
<1> QED BY <1>4, <1>5, <1>8

LEMMA QuietLine ==
  ASSUME NEW s \in Seq(STRING), SaysNothing(s)
  PROVE  Skipped(s)
<1>1. CASE Blank(s)
  BY <1>1 DEF Blank, Skipped, str_is_whitespace, White
<1>2. CASE ~Blank(s) /\ s[1] = Semicolon
  <2>1. s # << >>
    BY <1>2 DEF Blank
  <2> QED BY <1>2, <2>1 DEF Skipped
<1> QED BY <1>1, <1>2 DEF SaysNothing

LEMMA ValuesOfIs ==
  ASSUME NEW n \in DOMAIN Settings
  PROVE  /\ DOMAIN ValuesOf[n] = {l \in Good : \E v \in Parts(l) : AssignForm(l, Settings[n].key, v)}
         /\ \A l \in DOMAIN ValuesOf[n] : AssignForm(l, Settings[n].key, ValuesOf[n][l])
<1> DEFINE D == {l \in Good : \E v \in Parts(l) : AssignForm(l, Settings[n].key, v)}
<1>1. ValuesOf[n] = [l \in D |-> CHOOSE v \in Parts(l) : AssignForm(l, Settings[n].key, v)]
  BY DEF ValuesOf
<1>2. ASSUME NEW l \in D PROVE AssignForm(l, Settings[n].key, ValuesOf[n][l])
  <2>1. \E v \in Parts(l) : AssignForm(l, Settings[n].key, v)
    OBVIOUS
  <2>2. ValuesOf[n][l] = CHOOSE v \in Parts(l) : AssignForm(l, Settings[n].key, v)
    <3> HIDE DEF D
    <3> QED BY <1>1
  <2> QED BY <2>1, <2>2
<1>3. DOMAIN ValuesOf[n] = D
  <2> HIDE DEF D
  <2> QED BY <1>1
<1> HIDE DEF D
<1>4. \A l \in DOMAIN ValuesOf[n] : AssignForm(l, Settings[n].key, ValuesOf[n][l])
  BY <1>2, <1>3
<1> QED BY <1>3, <1>4 DEF D

(* What a line of the file is to the parser and to those who read it.      *)
KeyIn(line) == Assigned(erase_ispace(line)).key
ValueIn(line) == Assigned(erase_ispace(line)).value

IsQuiet(line) ==
  /\ Skipped(line) /\ line \notin Heads
  /\ \A n \in DOMAIN Settings : line \notin HeadsOf[n] /\ line \notin DOMAIN ValuesOf[n]

IsHead(line) ==
  /\ ~Skipped(line) /\ IsSection(line) /\ line \in Heads
  /\ \A n \in DOMAIN Settings :
       /\ line \notin DOMAIN ValuesOf[n]
       /\ line \in HeadsOf[n] <=> substr(line, 1, Len(line) - 2) = Settings[n].section

IsAssignment(line) ==
  /\ ~Skipped(line) /\ ~IsSection(line) /\ line \notin Heads
  /\ Trimmable(KeyOf(erase_ispace(line))) /\ Trimmable(ValueOf(erase_ispace(line)))
  /\ \A n \in DOMAIN Settings :
       /\ line \notin HeadsOf[n]
       /\ line \in DOMAIN ValuesOf[n] <=> KeyIn(line) = Settings[n].key
       /\ line \in DOMAIN ValuesOf[n] =>
            /\ ValuesOf[n][line] = FirstWord(ValueIn(line))
            /\ FirstWord(ValuesOf[n][line]) = ValuesOf[n][line] /\ ValuesOf[n][line] # << >>

LEMMA LineKinds ==
  ASSUME NEW line \in Good
  PROVE  IsQuiet(line) \/ IsHead(line) \/ IsAssignment(line)
<1>0. line \in Seq(STRING) /\ Len(line) < npos /\ WellFormed(line)
  BY IniAssumption DEF Good
<1>1. \A n \in DOMAIN Settings : Settings[n].section \in Seq(STRING) /\ Settings[n].key \in Seq(STRING)
  BY IniAssumption
<1>2. ASSUME NEW x \in Parts(line), SectionForm(line, x) PROVE x \in Seq(STRING)
  <2>1. PICK i, j \in DOMAIN line : x = SubSeq(line, i, j)
    BY DEF Parts
  <2>2. i <= j
    <3> SUFFICES ASSUME j < i PROVE FALSE
      BY <1>0
    <3>1. x = << >>
      BY <1>0, <2>1, SubSeqEmpty
    <3> QED BY <1>2, <3>1 DEF SectionForm, Word
  <2> QED BY <1>0, <2>1, <2>2, Cut
<1>3. ASSUME NEW n \in DOMAIN Settings PROVE HeadsOf[n] = {l \in Heads : SectionForm(l, Settings[n].section)}
  BY DEF HeadsOf
<1>4. line \in Heads => ~Skipped(line) /\ IsSection(line)
  BY <1>0, <1>2, HeadLine DEF Heads
<1>5. ASSUME NEW n \in DOMAIN Settings, line \in DOMAIN ValuesOf[n]
      PROVE  /\ ~Skipped(line) /\ ~IsSection(line) /\ KeyIn(line) = Settings[n].key
             /\ ValuesOf[n][line] = FirstWord(ValueIn(line))
             /\ FirstWord(ValuesOf[n][line]) = ValuesOf[n][line] /\ ValuesOf[n][line] # << >>
  <2>1. AssignForm(line, Settings[n].key, ValuesOf[n][line])
    BY <1>5, ValuesOfIs
  <2> QED BY <1>0, <2>1, AssignLine DEF KeyIn, ValueIn
<1>6. CASE SaysNothing(line)
  <2>1. Skipped(line)
    BY <1>0, <1>6, QuietLine
  <2> QED BY <1>3, <1>4, <1>5, <2>1 DEF IsQuiet
<1>7. ASSUME NEW name \in Parts(line), SectionForm(line, name) PROVE IsHead(line)
  <2>1. name \in Seq(STRING)
    BY <1>2, <1>7
  <2>2. ~Skipped(line) /\ IsSection(line) /\ substr(line, 1, Len(line) - 2) = name
    BY <1>0, <1>7, <2>1, HeadLine
  <2>3. line \in Heads
    BY <1>7 DEF Heads
  <2>4. ASSUME NEW n \in DOMAIN Settings
        PROVE  line \in HeadsOf[n] <=> substr(line, 1, Len(line) - 2) = Settings[n].section
    <3>1. SectionForm(line, Settings[n].section) => substr(line, 1, Len(line) - 2) = Settings[n].section
      BY <1>0, <1>1, HeadLine
    <3> QED BY <1>3, <1>7, <2>2, <2>3, <3>1
  <2> QED BY <1>5, <2>2, <2>3, <2>4 DEF IsHead
<1>8. ASSUME NEW k \in Parts(line), NEW v \in Parts(line), AssignForm(line, k, v) PROVE IsAssignment(line)
  <2>1. /\ ~Skipped(line) /\ ~IsSection(line) /\ KeyIn(line) = k
        /\ Trimmable(KeyOf(erase_ispace(line))) /\ Trimmable(ValueOf(erase_ispace(line)))
    BY <1>0, <1>8, AssignLine DEF KeyIn
  <2>2. ASSUME NEW n \in DOMAIN Settings, KeyIn(line) = Settings[n].key PROVE line \in DOMAIN ValuesOf[n]
    BY <1>8, <2>1, <2>2, ValuesOfIs
  <2>3. \A n \in DOMAIN Settings : line \notin HeadsOf[n]
    BY <1>3, <1>4, <2>1
  <2> QED BY <1>4, <1>5, <2>1, <2>2, <2>3 DEF IsAssignment
<1> QED BY <1>0, <1>6, <1>7, <1>8 DEF WellFormed

LEMMA SubstrType ==
  ASSUME NEW s \in Seq(STRING), NEW from \in Nat, NEW size \in Nat
  PROVE  substr(s, from, size) \in Seq(STRING)
<1> DEFINE b == IF from + size <= Len(s) THEN from + size ELSE Len(s)
<1>1. b \in Int /\ b <= Len(s) /\ from + 1 \in Int /\ Len(s) \in Nat
  OBVIOUS
<1>2. \A i \in (from + 1)..b : s[i] \in STRING
  BY <1>1
<1>3. substr(s, from, size) = SubSeq(s, from + 1, b)
  BY SubstrIs
<1> HIDE DEF b
<1> QED BY <1>1, <1>2, <1>3, SubSeqProperties

LEMMA FindType ==
  ASSUME NEW s \in Seq(STRING), NEW c
  PROVE  find(s, c) \in Nat
<1> DEFINE spot == {i \in DOMAIN s : s[i] = c}
<1>1. spot \in SUBSET Nat /\ \A i \in spot : i >= 1
  OBVIOUS
<1>2. spot # {} => Min(spot) \in spot
  <2> HIDE DEF spot
  <2> QED BY <1>1, MinIs
<1>3. find(s, c) = IF spot = {} THEN npos ELSE Min(spot) - 1
  BY DEF find
<1> HIDE DEF spot
<1>4. spot # {} => Min(spot) \in Nat /\ Min(spot) >= 1
  BY <1>1, <1>2
<1> QED BY <1>3, <1>4, IniAssumption

LEMMA EraseType ==
  ASSUME NEW s \in Seq(STRING), Trimmable(s)
  PROVE  erase_ispace(s) \in Seq(STRING)
<1> DEFINE kept == {i \in DOMAIN s : s[i] # Space}
<1>1. kept \in SUBSET Nat /\ kept # {} /\ Len(s) \in Nat /\ \A n \in kept : n <= Len(s) /\ n >= 1
  BY DEF Trimmable
<1>2. Min(kept) \in kept /\ Max(kept) \in kept
  <2> HIDE DEF kept
  <2> QED BY <1>1, MinIs, MaxIs
<1>3. erase_ispace(s) = substr(substr(s, Min(kept) - 1, npos), 0, Max(kept) - 1 + 1)
  BY DEF erase_ispace
<1> HIDE DEF kept
<1>4. Min(kept) - 1 \in Nat /\ Max(kept) - 1 + 1 \in Nat /\ npos \in Nat
  <2>1. Min(kept) \in Nat /\ Min(kept) >= 1 /\ Max(kept) \in Nat
    BY <1>1, <1>2
  <2>2. \A n \in Nat : (n >= 1 => n - 1 \in Nat) /\ n - 1 + 1 \in Nat
    OBVIOUS
  <2> QED BY <2>1, <2>2, IniAssumption
<1>5. substr(s, Min(kept) - 1, npos) \in Seq(STRING)
  BY <1>4, SubstrType
<1> QED BY <1>3, <1>4, <1>5, SubstrType

LEMMA FirstWordType ==
  ASSUME NEW s \in Seq(STRING)
  PROVE  FirstWord(s) \in Seq(STRING)
<1> DEFINE words == {r \in (DOMAIN s) \X (DOMAIN s) :
                  /\ \A i \in DOMAIN s : i < r[1] => s[i] \in White
                  /\ r[1] <= r[2] /\ \A i \in r[1]..r[2] : s[i] \notin White
                  /\ r[2] < Len(s) => s[r[2] + 1] \in White}
           w == CHOOSE r \in words : TRUE
<1>1. FirstWord(s) = IF words = {} THEN << >> ELSE SubSeq(s, w[1], w[2])
  BY DEF FirstWord
<1>2. CASE words # {}
  <2>1. w \in words
    BY <1>2
  <2>2. w[1] \in 1..Len(s) /\ w[2] \in 1..Len(s)
    BY <2>1
  <2> HIDE DEF w, words
  <2>3. w[1] \in Int /\ w[2] \in Int /\ \A i \in w[1]..w[2] : s[i] \in STRING
    BY <2>2
  <2>4. \A a \in Int, b \in Int :
          (\A i \in a..b : s[i] \in STRING) => SubSeq(s, a, b) \in Seq(STRING)
    BY SubSeqProperties
  <2> QED BY <1>1, <1>2, <2>3, <2>4
<1>3. CASE words = {}
  <2> HIDE DEF words
  <2> QED BY <1>1, <1>3
<1> QED BY <1>2, <1>3

LEMMA ValueType ==
  ASSUME NEW line \in Seq(STRING), ~Skipped(line),
         Trimmable(KeyOf(erase_ispace(line))), Trimmable(ValueOf(erase_ispace(line)))
  PROVE  ValueIn(line) \in Seq(STRING)
<1> DEFINE t == erase_ispace(line)
<1>1. Trimmable(line)
  BY DEF Skipped, str_is_whitespace, Trimmable, White
<1>2. t \in Seq(STRING)
  BY <1>1, EraseType
<1> HIDE DEF t
<1>3. /\ find(t, Semicolon) \in Nat /\ npos \in Nat
      /\ (IF find(t, Equals) = npos THEN 0 ELSE find(t, Equals) + 1) \in Nat
  <2>1. find(t, Semicolon) \in Nat /\ find(t, Equals) \in Nat
    BY <1>2, FindType
  <2> QED BY <2>1, IniAssumption
<1>4. ValueOf(t) \in Seq(STRING)
  BY <1>2, <1>3, SubstrType DEF ValueOf
<1>5. erase_ispace(ValueOf(t)) \in Seq(STRING)
  BY <1>4, EraseType DEF t
<1>6. substr(erase_ispace(ValueOf(t)), 0, find(t, Semicolon)) \in Seq(STRING)
  BY <1>3, <1>5, SubstrType
<1> QED BY <1>6 DEF ValueIn, Assigned, t
-----------------------------------------------------------------------------
IniTypeOK ==
  /\ name_file \in Seq(Lines) /\ phase \in {"read", "ask", "started", "failed"}
  /\ \A x \in DOMAIN config : config[x] \in Seq(STRING)
  /\ ini_data \in Seq(IntRange \cup Seq(STRING)) /\ Len(ini_data) <= Len(Settings)
  /\ phase = "read" => ini_data = << >>
  /\ \A n \in DOMAIN ini_data : Settings[n].type = "int" => ini_data[n] \in IntRange
  /\ phase = "started" =>
       /\ Len(ini_data) = Len(Settings)
       /\ \E numTread \in Hardware :
            max_threads = IF SizeT(ini_data[Threads]) > numTread THEN numTread ELSE ini_data[Threads]

LEMMA IniStepType == IniTypeOK /\ [IniNext]_ini_vars => IniTypeOK'
<1> SUFFICES ASSUME IniTypeOK, [IniNext]_ini_vars PROVE IniTypeOK'
  OBVIOUS
<1> USE DEF IniTypeOK, ini_vars
<1>1. CASE UNCHANGED ini_vars
  BY <1>1
<1>2. ASSUME NEW line \in Lines, ReadLine(line) PROVE IniTypeOK'
  <2>1. name_file' \in Seq(Lines) /\ UNCHANGED <<ini_data, max_threads>> /\ phase = "read"
    BY <1>2 DEF ReadLine
  <2>2. phase' \in {"read", "failed"}
    BY <1>2 DEF ReadLine
  <2>3. ASSUME NEW x \in DOMAIN config' PROVE config'[x] \in Seq(STRING)
    <3>1. CASE config' = config
      BY <2>3, <3>1
    <3>2. CASE /\ ~Skipped(line) /\ Trimmable(KeyOf(erase_ispace(line)))
               /\ Trimmable(ValueOf(erase_ispace(line)))
               /\ config' = Set(config, <<current_section, KeyIn(line)>>, ValueIn(line))
      <4>1. ValueIn(line) \in Seq(STRING)
        BY <3>2, ValueType, IniAssumption
      <4> QED BY <2>3, <3>2, <4>1 DEF Set
    <3> QED BY <1>2, <3>1, <3>2 DEF ReadLine, KeyIn, ValueIn
  <2> QED BY <2>1, <2>2, <2>3
<1>3. CASE EndOfFile
  BY <1>3 DEF EndOfFile
<1>4. CASE get_value
  <2> DEFINE n == Len(ini_data) + 1
             want == Settings[n]
             spot == <<want.section, want.key>>
             x == Converted(config[spot], want.type)
  <2>1. UNCHANGED <<name_file, config, max_threads>> /\ phase = "ask" /\ Len(ini_data) < Len(Settings)
    BY <1>4 DEF get_value
  <2>2. CASE phase' = "failed" /\ ini_data' = ini_data
    BY <2>1, <2>2
  <2>3. CASE spot \in DOMAIN config /\ Converts(config[spot], want.type) /\ phase' = phase
             /\ ini_data' = Append(ini_data, x)
    <3>1. n \in DOMAIN Settings /\ n \in Nat /\ want.type \in Types /\ (want.type = "int" => x \in IntRange)
          /\ (want.type # "int" => x \in Seq(STRING))
      <4>1. n \in DOMAIN Settings /\ n \in Nat
        BY <2>1, IniAssumption
      <4>2. want.type \in Types
        BY <4>1, IniAssumption
      <4>3. want.type = "int" => x \in IntRange
        BY <2>3 DEF Converts, Converted, IsInt
      <4>4. want.type # "int" => x \in Seq(STRING)
        BY <2>3, FirstWordType DEF Converted
      <4> HIDE DEF x, want
      <4> QED BY <4>1, <4>2, <4>3, <4>4
    <3> HIDE DEF x
    <3>2. x \in IntRange \cup Seq(STRING)
      BY <3>1
    <3>3. /\ ini_data' \in Seq(IntRange \cup Seq(STRING)) /\ Len(ini_data') = n
          /\ \A m \in 1..Len(ini_data) : ini_data'[m] = ini_data[m]
          /\ ini_data'[n] = x
      BY <2>3, <3>2, AppendProperties
    <3>4. ASSUME NEW m \in DOMAIN ini_data', Settings[m].type = "int" PROVE ini_data'[m] \in IntRange
      <4>1. m \in 1..Len(ini_data) \/ m = n
        BY <3>3
      <4> QED BY <3>1, <3>3, <3>4, <4>1
    <3>5. n <= Len(Settings)
      BY <2>1, IniAssumption
    <3> QED BY <2>1, <2>3, <3>3, <3>4, <3>5
  <2> QED BY <1>4, <2>2, <2>3 DEF get_value
<1>5. CASE Start
  BY <1>5 DEF Start
<1> QED BY <1>1, <1>2, <1>3, <1>4, <1>5 DEF IniNext

LEMMA Remainder ==
  ASSUME NEW n \in Int, NEW w \in Nat \ {0}
  PROVE  /\ 0 <= n /\ n < w => n % w = n
         /\ n < 0 /\ 0 <= n + w => n % w = n + w
OBVIOUS

(* The spider is started with no more threads than the machine has and     *)
(* than it was told, and a negative max_threads gives it all of them.      *)
THEOREM ThreadsAreInRange == IniSpec => []ThreadsInRange
<1>1. IniInit => IniTypeOK
  BY IniAssumption DEF IniInit, IniTypeOK
<1>2. ASSUME IniTypeOK PROVE ThreadsInRange
  <2> SUFFICES ASSUME phase = "started" PROVE ThreadsInRange
    BY DEF ThreadsInRange
  <2> DEFINE v == ini_data[Threads]
  <2>1. PICK numTread \in Hardware : max_threads = IF SizeT(v) > numTread THEN numTread ELSE v
    BY <1>2 DEF IniTypeOK
  <2>2. v \in IntRange
    BY <1>2, IniAssumption DEF IniTypeOK
  <2>3. /\ numTread \in Nat /\ MaxInt \in Nat /\ Wrap \in Nat \ {0} /\ numTread <= Wrap - MaxInt - 2
        /\ v \in Int /\ v <= MaxInt /\ v >= -MaxInt - 1
    BY <2>2, IniAssumption DEF IntRange
  <2>4. numTread <= Max(Hardware) /\ Max(Hardware) \in Nat
    <3>1. Hardware \in SUBSET Nat /\ \A h \in Hardware : h <= Wrap
      BY IniAssumption
    <3>2. \A h \in Hardware : h <= Max(Hardware)
      BY <2>3, <3>1, MaxIs
    <3>3. Max(Hardware) \in Hardware
      BY <2>3, <3>1, MaxIs
    <3> QED BY <3>1, <3>2, <3>3
  <2>5. SizeT(v) = IF v >= 0 THEN v ELSE v + Wrap
    <3> HIDE DEF v
    <3>1. v >= 0 => 0 <= v /\ v < Wrap
      BY <2>3
    <3>2. ~(v >= 0) => v < 0 /\ 0 <= v + Wrap
      BY <2>3
    <3> QED BY <2>3, <3>1, <3>2, Remainder DEF SizeT
  <2>6. numTread = 0 => 0 \in Hardware
    OBVIOUS
  <2> HIDE DEF v
  <2>7. IF v >= 0 THEN max_threads <= v /\ max_threads <= numTread /\ (max_threads = v \/ max_threads = numTread)
        ELSE max_threads = numTread
    BY <2>1, <2>3, <2>5
  <2>8. max_threads <= Max(Hardware) /\ (v > 0 => max_threads <= v) 
        /\ (v # 0 /\ numTread # 0 => max_threads > 0)
    BY <2>3, <2>4, <2>7
  <2> QED BY <2>6, <2>8 DEF ThreadsInRange, v
<1> QED BY <1>1, <1>2, IniStepType, PTL DEF IniSpec

(* The definitions of what a file says, with the file as an argument.      *)
Under(f, n, k) == \E h \in 1..k : f[h] \in HeadsOf[n] /\ \A g \in (h + 1)..k : f[g] \notin Heads
SetIn(f, n) == {i \in DOMAIN f : f[i] \in DOMAIN ValuesOf[n] /\ Under(f, n, i - 1)}
SaidIn(f, n) == ValuesOf[n][f[Max(SetIn(f, n))]]
AllGood(f) == \A i \in DOMAIN f : f[i] \in Good

LEMMA SaidIs ==
  ASSUME NEW f \in Seq(Lines), NEW n \in DOMAIN Settings, SetIn(f, n) # {}
  PROVE  /\ Max(SetIn(f, n)) \in SetIn(f, n) /\ \A i \in SetIn(f, n) : i <= Max(SetIn(f, n))
         /\ FirstWord(SaidIn(f, n)) = SaidIn(f, n) /\ SaidIn(f, n) # << >>
<1> DEFINE T == SetIn(f, n)
<1>1. T \in SUBSET Nat /\ \A i \in T : i <= Len(f) /\ i \in 1..Len(f) /\ f[i] \in DOMAIN ValuesOf[n]
  BY DEF SetIn
<1>2. Len(f) \in Nat
  OBVIOUS
<1> HIDE DEF T
<1>3. T # {}
  BY DEF T
<1>4. Max(T) \in T /\ \A i \in T : i <= Max(T)
  BY <1>1, <1>2, <1>3, MaxIs
<1>5. f[Max(T)] \in DOMAIN ValuesOf[n] /\ f[Max(T)] \in Lines
  <2>1. Max(T) \in 1..Len(f) /\ f[Max(T)] \in DOMAIN ValuesOf[n]
    BY <1>1, <1>4
  <2>2. \A i \in 1..Len(f) : f[i] \in Lines
    OBVIOUS
  <2> QED BY <2>1, <2>2
<1>6. AssignForm(f[Max(T)], Settings[n].key, ValuesOf[n][f[Max(T)]])
  BY <1>5, ValuesOfIs
<1>7. f[Max(T)] \in Seq(STRING) /\ Len(f[Max(T)]) < npos
  BY <1>5, IniAssumption
<1> QED BY <1>4, <1>6, <1>7, AssignLine DEF SaidIn, T

(* What a line more at the end changes.                                    *)
More(f, g, line, n, L) ==
  /\ Under(g, n, L + 1) <=> line \in HeadsOf[n] \/ (line \notin Heads /\ Under(f, n, L))
  /\ SetIn(g, n) = SetIn(f, n) \cup
       (IF line \in DOMAIN ValuesOf[n] /\ Under(f, n, L) THEN {L + 1} ELSE {})
  /\ SetIn(f, n) \subseteq 1..L
  /\ AllGood(g) <=> AllGood(f) /\ line \in Good
  /\ \A i \in 1..L : g[i] = f[i]
  /\ g[L + 1] = line

LEMMA LineMore ==
  ASSUME NEW f \in Seq(Lines), NEW line \in Lines, NEW n \in DOMAIN Settings, NEW L \in Nat, L = Len(f),
         NEW g, g = Append(f, line)
  PROVE  More(f, g, line, n, L)
<1>1. /\ DOMAIN g = 1..(L + 1) /\ DOMAIN f = 1..L
      /\ \A i \in 1..L : g[i] = f[i]
      /\ g[L + 1] = line
  BY AppendProperties
<1>2. ASSUME NEW k \in 0..L PROVE Under(g, n, k) <=> Under(f, n, k)
  <2>1. \A i \in 1..k : g[i] = f[i]
    BY <1>1
  <2>2. \A h \in 1..k : \A i \in (h + 1)..k : i \in 1..k
    OBVIOUS
  <2> QED BY <2>1, <2>2 DEF Under
<1>3. HeadsOf[n] \subseteq Heads
  BY DEF HeadsOf
<1>4. Under(g, n, L + 1) <=> line \in HeadsOf[n] \/ (line \notin Heads /\ Under(f, n, L))
  <2>1. ASSUME Under(g, n, L + 1), line \notin HeadsOf[n] PROVE line \notin Heads /\ Under(g, n, L)
    <3>1. PICK h \in 1..(L + 1) : g[h] \in HeadsOf[n] /\ \A i \in (h + 1)..(L + 1) : g[i] \notin Heads
      BY <2>1 DEF Under
    <3>2. h \in 1..L /\ L + 1 \in (h + 1)..(L + 1) /\ \A i \in (h + 1)..L : i \in (h + 1)..(L + 1)
      BY <1>1, <2>1, <3>1
    <3> QED BY <1>1, <3>1, <3>2 DEF Under
  <2>2. ASSUME line \in HeadsOf[n] PROVE Under(g, n, L + 1)
    <3>1. L + 1 \in 1..(L + 1) /\ \A i \in ((L + 1) + 1)..(L + 1) : FALSE
      OBVIOUS
    <3> QED BY <1>1, <2>2, <3>1 DEF Under
  <2>3. ASSUME line \notin Heads, Under(g, n, L) PROVE Under(g, n, L + 1)
    <3>1. PICK h \in 1..L : g[h] \in HeadsOf[n] /\ \A i \in (h + 1)..L : g[i] \notin Heads
      BY <2>3 DEF Under
    <3>2. h \in 1..(L + 1) /\ \A i \in (h + 1)..(L + 1) : i \in (h + 1)..L \/ i = L + 1
      OBVIOUS
    <3> QED BY <1>1, <2>3, <3>1, <3>2 DEF Under
  <2>4. Under(g, n, L) <=> Under(f, n, L)
    BY <1>2
  <2> QED BY <2>1, <2>2, <2>3, <2>4
<1>5. ASSUME NEW i PROVE i \in SetIn(g, n) <=>
        i \in SetIn(f, n) \/ (i = L + 1 /\ line \in DOMAIN ValuesOf[n] /\ Under(f, n, L))
  <2>1. CASE i \in 1..L
    <3>1. i - 1 \in 0..L /\ i # L + 1
      BY <2>1
    <3> QED BY <1>1, <1>2, <2>1, <3>1 DEF SetIn
  <2>2. CASE i = L + 1
    <3>1. i - 1 = L /\ i \notin 1..L
      BY <2>2
    <3>2. Under(g, n, i - 1) <=> Under(f, n, L)
      BY <1>2, <3>1
    <3> QED BY <1>1, <2>2, <3>1, <3>2 DEF SetIn
  <2>3. i \in 1..(L + 1) <=> i \in 1..L \/ i = L + 1
    OBVIOUS
  <2>4. CASE i \notin 1..(L + 1)
    BY <1>1, <2>3, <2>4 DEF SetIn
  <2> QED BY <2>1, <2>2, <2>3, <2>4
<1>6. SetIn(f, n) \subseteq 1..L
  BY <1>1 DEF SetIn
<1>7. AllGood(g) <=> AllGood(f) /\ line \in Good
  <2>1. \A i : i \in 1..(L + 1) <=> i \in 1..L \/ i = L + 1
    OBVIOUS
  <2> QED BY <1>1, <2>1 DEF AllGood
<1> QED BY <1>1, <1>4, <1>5, <1>6, <1>7 DEF More

LineInv ==
  AllGood(name_file) =>
    \A n \in DOMAIN Settings :
      LET spot == <<Settings[n].section, Settings[n].key>>
      IN /\ Under(name_file, n, Len(name_file)) <=> current_section = Settings[n].section
         /\ spot \in DOMAIN config <=> SetIn(name_file, n) # {}
         /\ spot \in DOMAIN config => FirstWord(config[spot]) = SaidIn(name_file, n)

ReadInv ==
  AllGood(name_file) =>
    /\ \A n \in DOMAIN ini_data :
         /\ SetIn(name_file, n) # {}
         /\ ini_data[n] = Converted(SaidIn(name_file, n), Settings[n].type)
    /\ phase = "failed" =>
         \E n \in DOMAIN Settings :
           \/ SetIn(name_file, n) = {}
           \/ Settings[n].type = "int" /\ ~IsInt(SaidIn(name_file, n))

LEMMA ReadLineInv ==
  ASSUME IniTypeOK, LineInv, ReadInv, NEW line \in Lines, ReadLine(line)
  PROVE  LineInv' /\ ReadInv'
<1> DEFINE f == name_file
           L == Len(name_file)
           fp == name_file'
<1>1. /\ f \in Seq(Lines) /\ L \in Nat /\ fp = Append(f, line) /\ Len(fp) = L + 1
      /\ phase = "read" /\ ini_data' = << >>
  BY DEF IniTypeOK, ReadLine
<1> SUFFICES ASSUME AllGood(fp)
             PROVE  /\ phase' # "failed"
                    /\ \A n \in DOMAIN Settings :
                         LET spot == <<Settings[n].section, Settings[n].key>>
                         IN /\ Under(fp, n, L + 1) <=> current_section' = Settings[n].section
                            /\ spot \in DOMAIN config' <=> SetIn(fp, n) # {}
                            /\ spot \in DOMAIN config' => FirstWord(config'[spot]) = SaidIn(fp, n)
  BY <1>1 DEF LineInv, ReadInv
<1>0. L = Len(f)
  OBVIOUS
<1> HIDE DEF f, fp, L
<1>more. \A n \in DOMAIN Settings : More(f, fp, line, n, L)
  BY <1>0, <1>1, LineMore
<1>2. AllGood(f) /\ line \in Good
  <2>1. Threads \in DOMAIN Settings
    BY IniAssumption
  <2> QED BY <1>more, <2>1 DEF More
<1>3. ASSUME NEW n \in DOMAIN Settings
      PROVE  LET spot == <<Settings[n].section, Settings[n].key>>
             IN /\ Under(f, n, L) <=> current_section = Settings[n].section
                /\ spot \in DOMAIN config <=> SetIn(f, n) # {}
                /\ spot \in DOMAIN config => FirstWord(config[spot]) = SaidIn(f, n)
  BY <1>2 DEF LineInv, f, L
<1>4. ASSUME NEW n \in DOMAIN Settings
      PROVE  /\ Under(fp, n, L + 1) <=> line \in HeadsOf[n] \/ (line \notin Heads /\ Under(f, n, L))
             /\ SetIn(fp, n) = SetIn(f, n) \cup
                  (IF line \in DOMAIN ValuesOf[n] /\ Under(f, n, L) THEN {L + 1} ELSE {})
             /\ SetIn(f, n) \subseteq 1..L
             /\ \A i \in 1..L : fp[i] = f[i]
             /\ fp[L + 1] = line
  BY <1>more DEF More
<1>5. ASSUME NEW n \in DOMAIN Settings, SetIn(fp, n) = SetIn(f, n), SetIn(f, n) # {}
      PROVE  SaidIn(fp, n) = SaidIn(f, n)
  <2>1. Max(SetIn(f, n)) \in 1..L
    BY <1>1, <1>4, <1>5, SaidIs
  <2> QED BY <1>4, <1>5, <2>1 DEF SaidIn
<1>6. CASE IsQuiet(line)
  <2>1. UNCHANGED <<current_section, config, phase>>
    BY <1>6 DEF IsQuiet, ReadLine
  <2>2. \A n \in DOMAIN Settings : line \notin HeadsOf[n] /\ line \notin DOMAIN ValuesOf[n] /\ line \notin Heads
    BY <1>6 DEF IsQuiet
  <2> QED BY <1>1, <1>3, <1>4, <1>5, <2>1, <2>2
<1>7. CASE IsHead(line)
  <2>1. UNCHANGED <<config, phase>> /\ current_section' = substr(line, 1, Len(line) - 2)
    BY <1>7 DEF IsHead, ReadLine
  <2>2. /\ line \in Heads
        /\ \A n \in DOMAIN Settings :
             /\ line \notin DOMAIN ValuesOf[n]
             /\ line \in HeadsOf[n] <=> substr(line, 1, Len(line) - 2) = Settings[n].section
    BY <1>7 DEF IsHead
  <2> QED BY <1>1, <1>3, <1>4, <1>5, <2>1, <2>2, ZenonT(60)
<1>8. CASE IsAssignment(line)
  <2> DEFINE to == <<current_section, KeyIn(line)>>
  <2>1. /\ UNCHANGED <<current_section, phase>>
        /\ config' = [x \in DOMAIN config \cup {to} |-> IF x = to THEN ValueIn(line) ELSE config[x]]
    BY <1>8 DEF IsAssignment, ReadLine, Set, KeyIn, ValueIn
  <2>2. /\ line \notin Heads
        /\ \A n \in DOMAIN Settings :
             /\ line \notin HeadsOf[n]
             /\ line \in DOMAIN ValuesOf[n] <=> KeyIn(line) = Settings[n].key
             /\ line \in DOMAIN ValuesOf[n] => ValuesOf[n][line] = FirstWord(ValueIn(line))
    BY <1>8 DEF IsAssignment
  <2> SUFFICES ASSUME NEW n \in DOMAIN Settings
               PROVE  LET spot == <<Settings[n].section, Settings[n].key>>
                      IN /\ Under(fp, n, L + 1) <=> current_section' = Settings[n].section
                         /\ spot \in DOMAIN config' <=> SetIn(fp, n) # {}
                         /\ spot \in DOMAIN config' => FirstWord(config'[spot]) = SaidIn(fp, n)
    BY <1>1, <2>1
  <2> DEFINE spot == <<Settings[n].section, Settings[n].key>>
  <2>3. Under(fp, n, L + 1) <=> current_section' = Settings[n].section
    BY <1>3, <1>4, <2>1, <2>2
  <2>4. line \in DOMAIN ValuesOf[n] /\ Under(f, n, L) <=> spot = to
    BY <1>3, <2>2
  <2>5. CASE spot = to
    <3>1. SetIn(fp, n) = SetIn(f, n) \cup {L + 1}
      BY <1>4, <2>4, <2>5
    <3>2. Max(SetIn(fp, n)) = L + 1
      <4>1. fp \in Seq(Lines) /\ SetIn(fp, n) # {}
        BY <1>1, <3>1
      <4>2. Max(SetIn(fp, n)) \in SetIn(fp, n) /\ L + 1 <= Max(SetIn(fp, n))
        BY <3>1, <4>1, SaidIs
      <4>3. Max(SetIn(fp, n)) \in 1..L \/ Max(SetIn(fp, n)) = L + 1
        BY <1>4, <3>1, <4>2
      <4> QED BY <1>1, <4>2, <4>3
    <3>3. SaidIn(fp, n) = FirstWord(ValueIn(line))
      BY <1>4, <2>2, <2>4, <2>5, <3>2 DEF SaidIn
    <3>4. spot \in DOMAIN config' /\ config'[spot] = ValueIn(line)
      BY <2>1, <2>5
    <3> QED BY <2>3, <3>1, <3>3, <3>4
  <2>6. CASE spot # to
    <3>1. SetIn(fp, n) = SetIn(f, n)
      BY <1>4, <2>4, <2>6
    <3>2. (spot \in DOMAIN config' <=> spot \in DOMAIN config) /\ (spot \in DOMAIN config => config'[spot] = config[spot])
      BY <2>1, <2>6
    <3> QED BY <1>3, <1>5, <2>3, <3>1, <3>2
  <2> QED BY <2>5, <2>6
<1> QED BY <1>2, <1>6, <1>7, <1>8, LineKinds

LEMMA ReadStep ==
  ASSUME IniTypeOK, LineInv, ReadInv, [IniNext]_ini_vars
  PROVE  LineInv' /\ ReadInv'
<1>1. ASSUME UNCHANGED <<name_file, current_section, config>> PROVE LineInv'
  BY <1>1 DEF LineInv, AllGood, Under, SetIn, SaidIn
<1>2. ASSUME UNCHANGED <<name_file, ini_data>>, phase' # "failed" \/ phase' = phase PROVE ReadInv'
  BY <1>2 DEF ReadInv, AllGood, Under, SetIn, SaidIn
<1>3. CASE get_value
  <2> DEFINE n == Len(ini_data) + 1
             want == Settings[n]
             spot == <<want.section, want.key>>
             x == Converted(config[spot], want.type)
  <2>1. UNCHANGED <<name_file, current_section, config>> /\ phase = "ask" /\ Len(ini_data) < Len(Settings)
    BY <1>3 DEF get_value
  <2>2. n \in DOMAIN Settings /\ want.type \in Types
    <3>1. n \in DOMAIN Settings
      BY <2>1, IniAssumption DEF IniTypeOK
    <3> QED BY <3>1, IniAssumption
  <2> SUFFICES ASSUME AllGood(name_file)
               PROVE  /\ \A m \in DOMAIN ini_data' :
                           /\ SetIn(name_file, m) # {}
                           /\ ini_data'[m] = Converted(SaidIn(name_file, m), Settings[m].type)
                      /\ phase' = "failed" =>
                           \E m \in DOMAIN Settings :
                             \/ SetIn(name_file, m) = {}
                             \/ Settings[m].type = "int" /\ ~IsInt(SaidIn(name_file, m))
    BY <1>1, <2>1 DEF ReadInv
  <2>3. \A m \in DOMAIN ini_data :
          /\ SetIn(name_file, m) # {}
          /\ ini_data[m] = Converted(SaidIn(name_file, m), Settings[m].type)
    BY DEF ReadInv
  <2>4. /\ spot \in DOMAIN config <=> SetIn(name_file, n) # {}
        /\ spot \in DOMAIN config => FirstWord(config[spot]) = SaidIn(name_file, n)
    BY <2>2 DEF LineInv
  <2>5. SetIn(name_file, n) # {} =>
          FirstWord(SaidIn(name_file, n)) = SaidIn(name_file, n) /\ SaidIn(name_file, n) # << >>
    BY <2>2, SaidIs DEF IniTypeOK
  <2>6. CASE spot \in DOMAIN config /\ Converts(config[spot], want.type) /\ phase' = phase
             /\ ini_data' = Append(ini_data, x)
    <3>1. x = Converted(SaidIn(name_file, n), want.type)
      BY <2>4, <2>5, <2>6 DEF Converted
    <3> HIDE DEF x
    <3>2. PICK S : ini_data \in Seq(S) /\ x \in S
      <4>1. ini_data \in Seq(IntRange \cup Seq(STRING))
        BY DEF IniTypeOK
      <4>2. x \in IntRange \cup Seq(STRING)
        <5>1. want.type = "int" => x \in IntRange
          BY <2>6 DEF Converts, Converted, IsInt, x
        <5>2. want.type # "int" => x \in Seq(STRING)
          BY <2>6, FirstWordType DEF Converted, x, IniTypeOK
        <5> QED BY <5>1, <5>2
      <4> QED BY <4>1, <4>2
    <3>3. /\ DOMAIN ini_data' = 1..n /\ DOMAIN ini_data = 1..Len(ini_data)
          /\ \A m \in 1..Len(ini_data) : ini_data'[m] = ini_data[m]
          /\ ini_data'[n] = x
      BY <2>6, <3>2, AppendProperties
    <3>4. ASSUME NEW m \in DOMAIN ini_data'
          PROVE  /\ SetIn(name_file, m) # {}
                 /\ ini_data'[m] = Converted(SaidIn(name_file, m), Settings[m].type)
      <4>1. m \in 1..Len(ini_data) \/ m = n
        BY <3>3
      <4> QED BY <2>3, <2>4, <2>6, <3>1, <3>3, <4>1
    <3> QED BY <2>1, <2>6, <3>4
  <2>7. CASE ~(spot \in DOMAIN config /\ Converts(config[spot], want.type)) /\ ini_data' = ini_data
    <3>1. SetIn(name_file, n) = {} \/ (want.type = "int" /\ ~IsInt(SaidIn(name_file, n)))
      BY <2>4, <2>5, <2>7 DEF Converts
    <3> QED BY <2>2, <2>3, <2>7, <3>1
  <2> QED BY <1>3, <2>6, <2>7 DEF get_value
<1>4. ASSUME NEW line \in Lines, ReadLine(line) PROVE LineInv' /\ ReadInv'
  BY <1>4, ReadLineInv
<1>5. CASE UNCHANGED ini_vars
  BY <1>1, <1>2, <1>5 DEF ini_vars
<1>6. CASE EndOfFile
  BY <1>1, <1>2, <1>6 DEF EndOfFile
<1>7. CASE Start
  BY <1>1, <1>2, <1>7 DEF Start
<1>8. CASE get_value
  BY <1>1, <1>3, <1>8 DEF get_value
<1> QED BY <1>4, <1>5, <1>6, <1>7, <1>8 DEF IniNext

(* From a well-formed file of any length, whatever words main asks for, a  *)
(* program that starts has every setting from the last line that sets it,  *)
(* and one that does not lacks one or has one that is no int.              *)
THEOREM SettingsAreAsSaid == IniSpec => []SettingsAreRead
<1>1. IniInit => IniTypeOK /\ LineInv /\ ReadInv
  <2> SUFFICES ASSUME IniInit PROVE IniTypeOK /\ LineInv /\ ReadInv
    OBVIOUS
  <2>1. IniTypeOK /\ ReadInv
    BY IniAssumption DEF IniInit, IniTypeOK, ReadInv
  <2>2. name_file = << >> /\ current_section = << >> /\ DOMAIN config = {} /\ Len(name_file) = 0
    BY DEF IniInit
  <2>3. ASSUME NEW n \in DOMAIN Settings
        PROVE  SetIn(name_file, n) = {} /\ ~Under(name_file, n, 0) /\ Settings[n].section # << >>
    <3>1. SetIn(name_file, n) = {}
      BY <2>2 DEF SetIn
    <3>2. ~Under(name_file, n, 0)
      BY DEF Under
    <3>3. Settings[n].section # << >>
      BY IniAssumption DEF Word
    <3> QED BY <3>1, <3>2, <3>3
  <2> QED BY <2>1, <2>2, <2>3 DEF LineInv
<1>2. IniTypeOK /\ ReadInv => SettingsAreRead
  <2>1. \A n : SetBy(n) = SetIn(name_file, n) /\ Said(n) = SaidIn(name_file, n)
    BY DEF SetBy, SetIn, Under, Said, SaidIn
  <2> QED BY <2>1 DEF SettingsAreRead, ReadInv, AllGood
<1>3. IniTypeOK /\ LineInv /\ ReadInv /\ [IniNext]_ini_vars => IniTypeOK' /\ LineInv' /\ ReadInv'
  BY IniStepType, ReadStep
<1> QED BY <1>1, <1>2, <1>3, PTL DEF IniSpec

-----------------------------------------------------------------------------
(* SqlQueryBuilder: the queries.                                           *)
BuilderCalls == {"AddColumn", "AddColumns", "AddFrom", "AddWhere", "AddWhereMap", "BuildQuery"}
Given == Columns \cup Pairs \cup {t[1] : t \in Tables \ {<< >>}}
BuilderCall == [fn : BuilderCalls, arg : Seq(Given)]
BuilderWord == {p[1] : p \in Pairs} \cup {p[2] : p \in Pairs} \cup {"=", "AND"}

(* Args and TableAsked of any sequence of calls.                           *)
ArgOf(call, fns) == IF call.fn \in fns THEN call.arg ELSE << >>
ArgsOf(cs, fns) == FlattenSeq([i \in DOMAIN cs |-> ArgOf(cs[i], fns)])
Froms(cs) == {i \in DOMAIN cs : cs[i].fn = "AddFrom"}
LastTable(cs) == IF Froms(cs) = {} THEN << >> ELSE cs[Max(Froms(cs))].arg

ArgIn(fns) == [call \in BuilderCall |-> ArgOf(call, fns)]

LEMMA ArgInType ==
  ASSUME NEW fns
  PROVE  ArgIn(fns) \in [BuilderCall -> Seq(Given)]
<1>1. \A call \in BuilderCall : ArgOf(call, fns) \in Seq(Given)
  BY DEF ArgOf, BuilderCall
<1> QED BY <1>1 DEF ArgIn

LEMMA ArgsAre ==
  ASSUME NEW cs \in Seq(BuilderCall), NEW fns
  PROVE  ArgsOf(cs, fns) = Flat(ArgIn(fns), cs)
<1>1. \A i \in DOMAIN cs : cs[i] \in BuilderCall
  OBVIOUS
<1>2. \A i \in DOMAIN cs : ArgIn(fns)[cs[i]] = ArgOf(cs[i], fns)
  BY <1>1 DEF ArgIn
<1>3. [i \in DOMAIN cs |-> ArgIn(fns)[cs[i]]] = [i \in DOMAIN cs |-> ArgOf(cs[i], fns)]
  BY <1>2
<1> QED BY <1>3 DEF ArgsOf, Flat

LEMMA ArgsMore ==
  ASSUME NEW cs \in Seq(BuilderCall), NEW c \in BuilderCall, NEW fns
  PROVE  ArgsOf(Append(cs, c), fns) = ArgsOf(cs, fns) \o ArgOf(c, fns)
<1>1. PICK F : F = ArgIn(fns)
  OBVIOUS
<1>2. F \in [BuilderCall -> Seq(Given)]
  BY <1>1, ArgInType
<1>3. PICK d : d = Append(cs, c)
  OBVIOUS
<1>4. d \in Seq(BuilderCall)
  <2>1. Append(cs, c) \in Seq(BuilderCall)
    OBVIOUS
  <2> QED BY <1>3, <2>1
<1>5. Flat(F, Append(cs, c)) = Flat(F, cs) \o F[c]
  BY <1>2, FlatMore
<1>6. ArgsOf(d, fns) = Flat(F, d) /\ ArgsOf(cs, fns) = Flat(F, cs)
  BY <1>1, <1>4, ArgsAre
<1>7. F[c] = ArgOf(c, fns)
  BY <1>1 DEF ArgIn
<1> QED BY <1>3, <1>5, <1>6, <1>7

LEMMA ArgsType ==
  ASSUME NEW cs \in Seq(BuilderCall), NEW fns
  PROVE  ArgsOf(cs, fns) \in Seq(Given)
<1>1. PICK F : F = ArgIn(fns)
  OBVIOUS
<1>2. F \in [BuilderCall -> Seq(Given)]
  BY <1>1, ArgInType
<1>3. Flat(F, cs) \in Seq(Given)
  BY <1>2, FlatIs
<1> QED BY <1>1, <1>3, ArgsAre

LEMMA TableMore ==
  ASSUME NEW cs \in Seq(BuilderCall), NEW c \in BuilderCall
  PROVE  LastTable(Append(cs, c)) = IF c.fn = "AddFrom" THEN c.arg ELSE LastTable(cs)
<1>1. PICK n \in Nat : n = Len(cs)
  OBVIOUS
<1>2. PICK d : d = Append(cs, c)
  OBVIOUS
<1>3. /\ DOMAIN d = 1..(n + 1) /\ DOMAIN cs = 1..n /\ d[n + 1] = c
      /\ \A i \in 1..n : d[i] = cs[i]
  BY <1>1, <1>2
<1>4. CASE c.fn = "AddFrom"
  <2>1. n + 1 \in Froms(d) /\ Froms(d) \in SUBSET Nat /\ \A m \in Froms(d) : n + 1 >= m
    BY <1>3, <1>4 DEF Froms
  <2>2. Max(Froms(d)) = n + 1
    <3>1. Froms(d) # {} /\ \A m \in Froms(d) : m <= n + 1
      BY <2>1
    <3>2. Max(Froms(d)) \in Froms(d) /\ \A m \in Froms(d) : m <= Max(Froms(d))
      BY <2>1, <3>1, MaxIs
    <3>3. Max(Froms(d)) \in Nat /\ n + 1 >= Max(Froms(d)) /\ n + 1 <= Max(Froms(d))
      BY <2>1, <3>2
    <3> QED BY <3>3
  <2> QED BY <1>2, <1>3, <1>4, <2>1, <2>2 DEF LastTable
<1>5. CASE c.fn # "AddFrom"
  <2>1. Froms(d) = Froms(cs)
    BY <1>3, <1>5 DEF Froms
  <2>2. Froms(cs) # {} => Max(Froms(cs)) \in Froms(cs)
    <3> SUFFICES ASSUME Froms(cs) # {} PROVE Max(Froms(cs)) \in Froms(cs)
      OBVIOUS
    <3>1. Froms(cs) \subseteq 1..n
      BY <1>3 DEF Froms
    <3>2. Froms(cs) \in SUBSET Nat /\ \A i \in Froms(cs) : i <= n
      BY <3>1
    <3> QED BY <3>2, MaxIs
  <2>3. \A i \in Froms(cs) : d[i] = cs[i]
    BY <1>3 DEF Froms
  <2> QED BY <1>2, <1>5, <2>1, <2>2, <2>3 DEF LastTable
<1> QED BY <1>4, <1>5

-----------------------------------------------------------------------------
(* The conditions, four words each with the AND before the next.           *)
Holds(text, k, p) == text[k + 1] = p[1] /\ text[k + 2] = "=" /\ text[k + 3] = p[2]

IsConditions(text, items) ==
  IF Len(items) = 0 THEN text = << >>
  ELSE /\ Len(text) = 4 * Len(items) - 1
       /\ \A i \in 1..Len(items) :
            /\ Holds(text, 4 * (i - 1), items[i])
            /\ i > 1 => text[4 * (i - 1)] = "AND"

LEMMA JoinedIs ==
  ASSUME NEW text \in Seq(BuilderWord), NEW items \in Seq(Pairs), IsConditions(text, items), NEW p \in Pairs
  PROVE  /\ Joined(text, Condition(p)) \in Seq(BuilderWord)
         /\ IsConditions(Joined(text, Condition(p)), Append(items, p))
<1>1. PICK n \in Nat : n = Len(items)
  OBVIOUS
<1>2. PICK c : c = Condition(p)
  OBVIOUS
<1>3. c \in Seq(BuilderWord) /\ Len(c) = 3 /\ Holds(c, 0, p)
  BY <1>2 DEF Condition, BuilderWord, Holds
<1>4. PICK more : more = Append(items, p)
  OBVIOUS
<1>5. more \in Seq(Pairs) /\ Len(more) = n + 1 /\ more[n + 1] = p /\ \A i \in 1..n : more[i] = items[i]
  BY <1>1, <1>4
<1>6. CASE n = 0
  <2>1. text = << >> /\ Joined(text, c) = c
    BY <1>1, <1>6 DEF IsConditions, Joined
  <2>2. Len(more) = 1 /\ more[1] = p
    BY <1>5, <1>6
  <2>3. IsConditions(c, more)
    BY <1>3, <2>2 DEF IsConditions
  <2> QED BY <1>2, <1>3, <1>4, <2>1, <2>3
<1>7. CASE n # 0
  <2>1. /\ Len(text) = 4 * n - 1
        /\ \A i \in 1..n : Holds(text, 4 * (i - 1), items[i]) /\ (i > 1 => text[4 * (i - 1)] = "AND")
    BY <1>1, <1>7 DEF IsConditions
  <2>2. text # << >>
    BY <1>7, <2>1
  <2>3. PICK t : t = text \o <<"AND">> \o c
    OBVIOUS
  <2>4. Joined(text, c) = t
    BY <2>2, <2>3 DEF Joined
  <2>5. t \in Seq(BuilderWord)
    <3>1. <<"AND">> \in Seq(BuilderWord)
      BY DEF BuilderWord
    <3> QED BY <1>3, <2>3, <3>1
  <2>6. PICK m \in Nat : m = 4 * n - 1
    BY <1>7
  <2>7. /\ Len(t) = m + 4
        /\ \A k \in 1..m : t[k] = text[k]
        /\ t[m + 1] = "AND" /\ t[m + 2] = c[1] /\ t[m + 3] = c[2] /\ t[m + 4] = c[3]
    <3>1. PICK h : h = text \o <<"AND">>
      OBVIOUS
    <3>2. h \in Seq(BuilderWord) /\ Len(h) = m + 1 /\ (\A k \in 1..m : h[k] = text[k]) /\ h[m + 1] = "AND"
      BY <2>1, <2>6, <3>1 DEF BuilderWord
    <3>3. t = h \o c
      BY <2>3, <3>1
    <3>4. Len(t) = m + 4 /\ \A k \in 1..(m + 4) : t[k] = IF k <= m + 1 THEN h[k] ELSE c[k - (m + 1)]
      <4>1. Len(t) = (m + 1) + 3 /\ \A k \in 1..((m + 1) + 3) : t[k] = IF k <= m + 1 THEN h[k] ELSE c[k - (m + 1)]
        <5>0. h \in Seq(BuilderWord) /\ c \in Seq(BuilderWord)
          BY <1>3, <3>2
        <5>1. Len(h \o c) = Len(h) + Len(c) /\ \A k \in 1..(Len(h) + Len(c)) : (h \o c)[k] = IF k <= Len(h) THEN h[k] ELSE c[k - Len(h)]
          BY <5>0
        <5> QED BY <1>3, <3>2, <3>3, <5>1
      <4>2. (m + 1) + 3 = m + 4
        OBVIOUS
      <4> QED BY <4>1, <4>2
    <3>5. /\ m + 1 \in 1..(m + 4) /\ m + 2 \in 1..(m + 4) /\ m + 3 \in 1..(m + 4) /\ m + 4 \in 1..(m + 4)
          /\ (m + 2) - (m + 1) = 1 /\ (m + 3) - (m + 1) = 2 /\ (m + 4) - (m + 1) = 3
          /\ m + 1 <= m + 1 /\ ~(m + 2 <= m + 1) /\ ~(m + 3 <= m + 1) /\ ~(m + 4 <= m + 1)
      OBVIOUS
    <3>6. \A k \in 1..m : k \in 1..(m + 4) /\ k <= m + 1
      OBVIOUS
    <3> QED BY <3>2, <3>4, <3>5, <3>6
  <2>8. ASSUME NEW i \in 1..(n + 1)
        PROVE  Holds(t, 4 * (i - 1), more[i]) /\ (i > 1 => t[4 * (i - 1)] = "AND")
    <3>1. CASE i <= n
      <4>1. PICK k \in Nat : k = 4 * (i - 1)
        OBVIOUS
      <4>2. k + 1 \in 1..m /\ k + 2 \in 1..m /\ k + 3 \in 1..m /\ (i > 1 => k \in 1..m) /\ i \in 1..n
        BY <2>6, <3>1, <4>1
      <4>3. Holds(text, k, items[i]) /\ (i > 1 => text[k] = "AND")
        BY <2>1, <4>1, <4>2
      <4> QED BY <1>5, <2>7, <4>1, <4>2, <4>3 DEF Holds
    <3>2. CASE i = n + 1
      <4>1. 4 * (i - 1) = m + 1
        BY <2>6, <3>2
      <4>2. c[1] = p[1] /\ c[2] = "=" /\ c[3] = p[2]
        BY <1>3 DEF Holds
      <4>3. (m + 1) + 1 = m + 2 /\ (m + 1) + 2 = m + 3 /\ (m + 1) + 3 = m + 4
        OBVIOUS
      <4> QED BY <1>5, <2>7, <3>2, <4>1, <4>2, <4>3 DEF Holds
    <3> QED BY <3>1, <3>2
  <2>9. Len(more) # 0 /\ Len(t) = 4 * Len(more) - 1
    BY <1>5, <2>6, <2>7
  <2>10. IsConditions(t, more)
    BY <1>5, <2>8, <2>9 DEF IsConditions
  <2> QED BY <1>2, <1>4, <2>4, <2>5, <2>10
<1> QED BY <1>6, <1>7

(* The loop over a map joins one condition after the other.                *)
Joining(added, text, kv) ==
  added = [i \in 0..Len(kv) |-> IF i = 0 THEN text ELSE Joined(added[i - 1], Condition(kv[i]))]

LEMMA JoinedAll ==
  ASSUME NEW text \in Seq(BuilderWord), NEW items \in Seq(Pairs), IsConditions(text, items),
         NEW kv \in Seq(Pairs)
  PROVE  LET added == CHOOSE added : Joining(added, text, kv)
         IN /\ added[Len(kv)] \in Seq(BuilderWord)
            /\ IsConditions(added[Len(kv)], items \o kv)
<1> DEFINE F == [d \in 0..Len(kv) |-> [x \in Seq(BuilderWord) |-> IF d = 0 THEN text ELSE Joined(x, Condition(kv[d]))]]
<1>1. ASSUME NEW x \in Seq(BuilderWord), NEW p \in Pairs PROVE Joined(x, Condition(p)) \in Seq(BuilderWord)
  <2>1. p[1] \in BuilderWord /\ p[2] \in BuilderWord /\ "=" \in BuilderWord /\ "AND" \in BuilderWord
    BY DEF BuilderWord
  <2>2. Condition(p) \in Seq(BuilderWord) /\ <<"AND">> \in Seq(BuilderWord)
    BY <2>1 DEF Condition
  <2> QED BY <2>2 DEF Joined
<1>2. CanIterate(Seq(BuilderWord), text, 0, Len(kv), F)
  <2>1. \A d \in 0..Len(kv) : \A x \in Seq(BuilderWord) : F[d][x] \in Seq(BuilderWord)
    <3> SUFFICES ASSUME NEW d \in 0..Len(kv), NEW x \in Seq(BuilderWord) PROVE F[d][x] \in Seq(BuilderWord)
      OBVIOUS
    <3>1. d # 0 => kv[d] \in Pairs
      OBVIOUS
    <3> QED BY <1>1, <3>1
  <2>2. Len(kv) \in Int
    OBVIOUS
  <2> HIDE DEF F
  <2> QED BY <2>1, <2>2 DEF CanIterate
<1>3. PICK g : IsIteration(g, Seq(BuilderWord), text, 0, Len(kv), F)
  <2> HIDE DEF F
  <2> QED BY <1>2, Iteration
<1>4. /\ g \in [0..Len(kv) -> Seq(BuilderWord)]
      /\ \A d \in 0..Len(kv) : g[d] = IF d = 0 THEN text ELSE F[d][g[d-1]]
  <2> HIDE DEF F
  <2> QED BY <1>3 DEF IsIteration
<1>5. ASSUME NEW d \in 0..Len(kv) PROVE g[d] = IF d = 0 THEN text ELSE Joined(g[d-1], Condition(kv[d]))
  <2>1. d # 0 => d - 1 \in 0..Len(kv)
    OBVIOUS
  <2>2. d # 0 => g[d-1] \in Seq(BuilderWord)
    BY <1>4, <2>1
  <2> QED BY <1>4, <2>2
<1>6. Joining(g, text, kv)
  BY <1>4, <1>5 DEF Joining
<1> DEFINE added == CHOOSE added : Joining(added, text, kv)
<1>7. Joining(added, text, kv)
  BY <1>6
<1> HIDE DEF added, F
<1>8. /\ added[0] = text
      /\ \A i \in 1..Len(kv) : added[i] = Joined(added[i - 1], Condition(kv[i]))
  BY <1>7 DEF Joining
<1> DEFINE JoinedTo(n) == added[n] \in Seq(BuilderWord) /\ IsConditions(added[n], items \o SubSeq(kv, 1, n))
           N == {n \in Nat : n <= Len(kv) => JoinedTo(n)}
<1>9. 0 \in N
  <2>1. SubSeq(kv, 1, 0) = << >> /\ items \o << >> = items
    OBVIOUS
  <2> QED BY <1>8, <2>1
<1>10. ASSUME NEW n \in Nat, n \in N PROVE n + 1 \in N
  <2> SUFFICES ASSUME n + 1 <= Len(kv) PROVE JoinedTo(n + 1)
    OBVIOUS
  <2>1. n + 1 \in 1..Len(kv) /\ (n + 1) - 1 = n /\ n <= Len(kv)
    OBVIOUS
  <2>2. JoinedTo(n)
    BY <1>10, <2>1
  <2>3. PICK p : p = kv[n + 1]
    OBVIOUS
  <2>4. p \in Pairs
    BY <2>1, <2>3
  <2>5. PICK more : more = items \o SubSeq(kv, 1, n)
    OBVIOUS
  <2>6. SubSeq(kv, 1, n) \in Seq(Pairs)
    BY <2>1
  <2>7. more \in Seq(Pairs)
    BY <2>5, <2>6
  <2>8. items \o SubSeq(kv, 1, n + 1) = Append(more, p)
    <3>1. SubSeq(kv, 1, n + 1) = Append(SubSeq(kv, 1, n), p)
      BY <2>1, <2>3
    <3>2. items \o Append(SubSeq(kv, 1, n), p) = Append(items \o SubSeq(kv, 1, n), p)
      BY <2>4, <2>6
    <3> QED BY <2>5, <3>1, <3>2
  <2>9. added[n + 1] = Joined(added[n], Condition(p))
    BY <1>8, <2>1, <2>3
  <2> HIDE DEF N
  <2>10. Joined(added[n], Condition(p)) \in Seq(BuilderWord) /\ IsConditions(Joined(added[n], Condition(p)), Append(more, p))
    BY <2>2, <2>4, <2>5, <2>7, JoinedIs
  <2> QED BY <2>8, <2>9, <2>10
<1>11. Nat \subseteq N
  <2> HIDE DEF N
  <2> QED BY <1>9, <1>10, Induction
<1>12. JoinedTo(Len(kv))
  <2>1. Len(kv) \in Nat /\ Len(kv) <= Len(kv)
    OBVIOUS
  <2> HIDE DEF JoinedTo
  <2> QED BY <1>11, <2>1
<1>13. SubSeq(kv, 1, Len(kv)) = kv
  OBVIOUS
<1>14. added[Len(kv)] \in Seq(BuilderWord) /\ IsConditions(added[Len(kv)], items \o kv)
  BY <1>12, <1>13
<1> QED BY <1>14 DEF added

-----------------------------------------------------------------------------
(* The columns, a comma before each but the first.                         *)
IsColumns(text, items) ==
  /\ Len(text) = 2 * Len(items) - 1
  /\ \A i \in 1..Len(items) :
       text[2 * (i - 1) + 1] = items[i] /\ (i > 1 => text[2 * (i - 1)] = Comma)

LEMMA ColumnListIs ==
  ASSUME column \in Seq(Columns), column # << >>
  PROVE  ColumnList \in Seq(Columns \cup {Comma, Star}) /\ IsColumns(ColumnList, column)
<1> DEFINE S == Columns \cup {Comma, Star}
           part(i) == IF i = Len(column) THEN <<column[i]>> ELSE <<column[i], Comma>>
           s == [i \in DOMAIN column |-> part(i)]
<1>1. PICK n \in Nat : n = Len(column)
  OBVIOUS
<1>2. n # 0 /\ DOMAIN column = 1..n
  BY <1>1
<1>3. ASSUME NEW i \in 1..n
      PROVE  /\ part(i) \in Seq(S) /\ part(i)[1] = column[i]
             /\ i = n => Len(part(i)) = 1
             /\ i # n => Len(part(i)) = 2 /\ part(i)[2] = Comma
  <2>1. column[i] \in Columns
    BY <1>1, <1>2
  <2>2. Comma \in S /\ column[i] \in S
    BY <2>1
  <2> HIDE DEF S
  <2>3. PICK c : c = column[i]
    OBVIOUS
  <2>4. <<c>> \in Seq(S) /\ <<c, Comma>> \in Seq(S)
    BY <2>2, <2>3
  <2>5. i = n => part(i) = <<c>>
    BY <1>1, <2>3
  <2>6. i # n => part(i) = <<c, Comma>>
    BY <1>1, <2>3
  <2>7. Len(<<c>>) = 1 /\ <<c>>[1] = c /\ Len(<<c, Comma>>) = 2 /\ <<c, Comma>>[1] = c /\ <<c, Comma>>[2] = Comma
    OBVIOUS
  <2> HIDE DEF part
  <2> QED BY <2>3, <2>4, <2>5, <2>6, <2>7
<1> HIDE DEF part, S
<1>4. s \in Seq(Seq(S)) /\ Len(s) = n
  <2>1. \A i \in 1..n : part(i) \in Seq(S)
    BY <1>3
  <2>2. s = [i \in 1..n |-> part(i)]
    BY <1>2
  <2> HIDE DEF s
  <2>3. s \in [1..n -> Seq(S)]
    BY <2>1, <2>2
  <2> QED BY <2>3
<1>5. \A i \in 1..n : s[i] = part(i)
  BY <1>2
<1>6. ColumnList = FlattenSeq(s)
  BY <1>2 DEF ColumnList, part
<1> HIDE DEF s
<1>7. PICK st : Stages(st, s, S)
  BY <1>4, StagesExist
<1>8. FlattenSeq(s) = st[n] /\ FlattenSeq(s) \in Seq(S)
  BY <1>4, <1>7, FlattenIs
<1>9. /\ st \in [0..n -> Seq(S)] /\ st[0] = << >>
      /\ \A i \in 1..n : st[i] = st[i-1] \o part(i)
  BY <1>4, <1>5, <1>7 DEF Stages
<1> DEFINE JoinedTo(j) == /\ Len(st[j]) = 2 * j
                      /\ \A i \in 1..j : st[j][2 * (i - 1) + 1] = column[i] /\ st[j][2 * i] = Comma
           N == {j \in Nat : j < n => JoinedTo(j)}
<1>10. ASSUME NEW j \in Nat, j < n, JoinedTo(j), NEW x \in Seq(S), x = st[j] \o part(j + 1)
       PROVE  /\ Len(x) = 2 * j + Len(part(j + 1))
              /\ \A i \in 1..j : x[2 * (i - 1) + 1] = column[i] /\ x[2 * i] = Comma
              /\ x[2 * j + 1] = column[j + 1]
              /\ j + 1 # n => x[2 * j + 2] = Comma
  <2>1. j + 1 \in 1..n /\ j \in 0..n
    <3>1. j < n
      BY <1>10
    <3> QED BY <3>1
  <2>2. PICK y : y = st[j]
    OBVIOUS
  <2>3. PICK z : z = part(j + 1)
    OBVIOUS
  <2>4. PICK l \in Nat : l = 2 * j
    OBVIOUS
  <2>5. y \in Seq(S) /\ z \in Seq(S) /\ Len(y) = l /\ z[1] = column[j + 1] /\ Len(z) >= 1
    <3>1. y \in Seq(S) /\ Len(y) = l
      BY <1>9, <1>10, <2>1, <2>2, <2>4
    <3>2. z \in Seq(S) /\ z[1] = column[j + 1] /\ (Len(z) = 1 \/ Len(z) = 2)
      BY <1>3, <2>1, <2>3
    <3> QED BY <3>1, <3>2
  <2>6. x = y \o z
    BY <1>10, <2>2, <2>3
  <2>7. Len(x) = l + Len(z) /\ \A k \in 1..(l + Len(z)) : x[k] = IF k <= l THEN y[k] ELSE z[k - l]
    <3>1. Len(y \o z) = Len(y) + Len(z) /\ \A k \in 1..(Len(y) + Len(z)) : (y \o z)[k] = IF k <= Len(y) THEN y[k] ELSE z[k - Len(y)]
      <4>1. y \in Seq(S) /\ z \in Seq(S)
        BY <2>5
      <4> QED BY <4>1
    <3> QED BY <2>5, <2>6, <3>1
  <2>8. x[l + 1] = z[1]
    <3>1. Len(z) \in Nat
      BY <2>5
    <3>2. l + 1 \in 1..(l + Len(z)) /\ ~(l + 1 <= l) /\ (l + 1) - l = 1
      BY <2>5, <3>1
    <3> QED BY <2>7, <3>2
  <2>9. j + 1 # n => x[l + 2] = Comma
    <3>1. j + 1 # n => Len(z) = 2 /\ z[2] = Comma
      BY <1>3, <2>1, <2>3
    <3>2. l + 2 \in 1..(l + 2) /\ ~(l + 2 <= l) /\ (l + 2) - l = 2
      OBVIOUS
    <3> QED BY <2>7, <3>1, <3>2
  <2>10. ASSUME NEW i \in 1..j PROVE x[2 * (i - 1) + 1] = column[i] /\ x[2 * i] = Comma
    <3>1. PICK a \in Nat, b \in Nat : a = 2 * (i - 1) + 1 /\ b = 2 * i
      OBVIOUS
    <3>2. a <= l /\ b <= l /\ a >= 1 /\ b >= 1
      BY <2>4, <3>1
    <3>3. y[a] = column[i] /\ y[b] = Comma
      BY <1>10, <2>2, <3>1
    <3>4. Len(z) \in Nat
      BY <2>5
    <3>5. a \in 1..(l + Len(z)) /\ b \in 1..(l + Len(z))
      BY <3>2, <3>4
    <3> QED BY <2>7, <3>1, <3>2, <3>3, <3>5
  <2> QED BY <2>3, <2>4, <2>5, <2>7, <2>8, <2>9, <2>10
<1>11. 0 \in N
  <2>1. Len(st[0]) = 2 * 0
    BY <1>9
  <2> QED BY <2>1
<1>12. ASSUME NEW j \in Nat, j \in N PROVE j + 1 \in N
  <2> SUFFICES ASSUME j + 1 < n PROVE JoinedTo(j + 1)
    <3>1. j + 1 \in Nat
      OBVIOUS
    <3> HIDE DEF JoinedTo
    <3> QED BY <3>1
  <2>1. j < n /\ j + 1 # n /\ j + 1 \in 1..n /\ (j + 1) - 1 = j /\ j + 1 \in 0..n
    BY <1>2
  <2>2. JoinedTo(j)
    BY <1>12, <2>1
  <2>3. PICK x : x = st[j + 1]
    OBVIOUS
  <2>4. x \in Seq(S) /\ x = st[j] \o part(j + 1)
    BY <1>9, <2>1, <2>3
  <2>5. Len(part(j + 1)) = 2
    BY <1>3, <2>1
  <2> HIDE DEF JoinedTo
  <2>6. /\ Len(x) = 2 * j + Len(part(j + 1))
        /\ \A i \in 1..j : x[2 * (i - 1) + 1] = column[i] /\ x[2 * i] = Comma
        /\ x[2 * j + 1] = column[j + 1]
        /\ j + 1 # n => x[2 * j + 2] = Comma
    BY <1>10, <2>1, <2>2, <2>4
  <2>7. /\ 2 * j + 2 = 2 * (j + 1) /\ 2 * ((j + 1) - 1) + 1 = 2 * j + 1
        /\ \A i \in 1..(j + 1) : i \in 1..j \/ i = j + 1
    OBVIOUS
  <2> USE DEF JoinedTo
  <2> QED BY <2>1, <2>3, <2>5, <2>6, <2>7
<1>13. Nat \subseteq N
  <2> HIDE DEF N
  <2> QED BY <1>11, <1>12, Induction
<1>14. PICK j \in Nat : j + 1 = n
  <2>1. n - 1 \in Nat /\ (n - 1) + 1 = n
    BY <1>2
  <2> QED BY <2>1
<1>15. j < n /\ n \in 1..n /\ n - 1 = j /\ n \in 0..n
  BY <1>14
<1>16. JoinedTo(j)
  BY <1>13, <1>15
<1>17. PICK x : x = st[n]
  OBVIOUS
<1>18. x \in Seq(S) /\ x = st[j] \o part(j + 1) /\ Len(part(j + 1)) = 1
  BY <1>3, <1>9, <1>14, <1>15, <1>17
<1>19. /\ Len(x) = 2 * j + Len(part(j + 1))
       /\ \A i \in 1..j : x[2 * (i - 1) + 1] = column[i] /\ x[2 * i] = Comma
       /\ x[2 * j + 1] = column[j + 1]
  <2> HIDE DEF JoinedTo
  <2> QED BY <1>10, <1>15, <1>16, <1>18
<1>20. ASSUME NEW i \in 1..n
       PROVE  x[2 * (i - 1) + 1] = column[i] /\ (i > 1 => x[2 * (i - 1)] = Comma)
  <2>1. i \in 1..j \/ i = j + 1
    BY <1>14
  <2>2. x[2 * (i - 1) + 1] = column[i]
    <3>1. 2 * ((j + 1) - 1) + 1 = 2 * j + 1
      OBVIOUS
    <3> QED BY <1>19, <2>1, <3>1
  <2>3. i > 1 => i - 1 \in 1..j
    BY <1>14
  <2> QED BY <1>19, <2>2, <2>3
<1>21. Len(x) = 2 * n - 1
  <2>1. Len(x) = 2 * j + 1
    BY <1>18, <1>19
  <2>2. 2 * j + 1 = 2 * n - 1
    BY <1>14
  <2> QED BY <2>1, <2>2
<1> QED BY <1>1, <1>6, <1>8, <1>17, <1>20, <1>21 DEF IsColumns, S

-----------------------------------------------------------------------------
(* What has been asked for so far is in the members, and the last query    *)
(* says the members.                                                       *)
ColumnCalls == {"AddColumn", "AddColumns"}
WhereCalls == {"AddWhere", "AddWhereMap"}
Asked(cs) == cs # << >> /\ cs[Len(cs)].fn = "BuildQuery"

Query ==
  IF table_name = << >> THEN Thrown
  ELSE <<"SELECT">> \o ColumnList \o <<"FROM">> \o table_name
       \o (IF where_condition = << >> THEN << >> ELSE <<"WHERE">> \o where_condition)
       \o <<Terminator>>

BuilderInv ==
  /\ calls \in Seq(BuilderCall)
  /\ column \in Seq(Columns) /\ column = ArgsOf(calls, ColumnCalls)
  /\ table_name \in Tables /\ table_name = LastTable(calls)
  /\ where_condition \in Seq(BuilderWord) /\ ArgsOf(calls, WhereCalls) \in Seq(Pairs)
  /\ IsConditions(where_condition, ArgsOf(calls, WhereCalls))
  /\ Asked(calls) => built = Query

LEMMA CalledIs ==
  ASSUME calls \in Seq(BuilderCall), NEW fn \in BuilderCalls, NEW arg \in Seq(Given), Called(fn, arg)
  PROVE  /\ calls' \in Seq(BuilderCall) /\ (Asked(calls') <=> fn = "BuildQuery")
         /\ \A fns : ArgsOf(calls', fns) = ArgsOf(calls, fns) \o (IF fn \in fns THEN arg ELSE << >>)
         /\ LastTable(calls') = IF fn = "AddFrom" THEN arg ELSE LastTable(calls)
<1>1. PICK c : c = [fn |-> fn, arg |-> arg]
  OBVIOUS
<1>2. c \in BuilderCall /\ c.fn = fn /\ c.arg = arg
  BY <1>1 DEF BuilderCall
<1>3. calls' = Append(calls, c)
  BY <1>1 DEF Called
<1>4. PICK cs \in Seq(BuilderCall) : cs = calls
  OBVIOUS
<1>5. PICK d : d = Append(cs, c)
  OBVIOUS
<1>6. d \in Seq(BuilderCall) /\ Len(d) = Len(cs) + 1 /\ d[Len(cs) + 1] = c /\ d # << >>
  <2>1. d \in Seq(BuilderCall) /\ Len(d) = Len(cs) + 1
    BY <1>2, <1>5
  <2>2. d[Len(cs) + 1] = c
    BY <1>2, <1>5
  <2>3. d # << >>
    BY <2>1
  <2> QED BY <2>1, <2>2, <2>3
<1>7. Asked(d) <=> fn = "BuildQuery"
  BY <1>2, <1>6 DEF Asked
<1>8. ASSUME NEW fns PROVE ArgsOf(d, fns) = ArgsOf(cs, fns) \o (IF fn \in fns THEN arg ELSE << >>)
  <2>1. ArgsOf(d, fns) = ArgsOf(cs, fns) \o ArgOf(c, fns)
    BY <1>2, <1>5, ArgsMore
  <2>2. ArgOf(c, fns) = IF fn \in fns THEN arg ELSE << >>
    BY <1>2 DEF ArgOf
  <2> QED BY <2>1, <2>2
<1>9. LastTable(d) = IF fn = "AddFrom" THEN arg ELSE LastTable(cs)
  BY <1>2, <1>5, TableMore
<1> QED BY <1>3, <1>4, <1>5, <1>6, <1>7, <1>8, <1>9

LEMMA BuilderStart == BuilderInit => BuilderInv
<1> SUFFICES ASSUME BuilderInit PROVE BuilderInv
  OBVIOUS
<1>1. calls = << >> /\ column = << >> /\ where_condition = << >> /\ table_name = << >>
  BY DEF BuilderInit
<1>2. \A fns : ArgsOf(<< >>, fns) = << >>
  <2> SUFFICES ASSUME NEW fns PROVE ArgsOf(<< >>, fns) = << >>
    OBVIOUS
  <2>1. [i \in DOMAIN << >> |-> ArgOf(<< >>[i], fns)] = << >>
    OBVIOUS
  <2> QED BY <2>1, FlattenNone DEF ArgsOf
<1>3. LastTable(<< >>) = << >>
  BY DEF LastTable, Froms
<1>4. IsConditions(<< >>, << >>)
  BY DEF IsConditions
<1>5. << >> \in Tables
  BY BuilderAssumption
<1>6. calls \in Seq(BuilderCall) /\ column \in Seq(Columns) /\ where_condition \in Seq(BuilderWord)
  BY <1>1
<1>7. ArgsOf(calls, ColumnCalls) = << >> /\ ArgsOf(calls, WhereCalls) = << >> /\ LastTable(calls) = << >> /\ ~Asked(calls)
  BY <1>1, <1>2, <1>3 DEF Asked
<1>8. << >> \in Seq(Pairs)
  OBVIOUS
<1>9. IsConditions(where_condition, ArgsOf(calls, WhereCalls)) /\ table_name \in Tables
  BY <1>1, <1>4, <1>5, <1>7
<1> QED BY <1>1, <1>6, <1>7, <1>8, <1>9 DEF BuilderInv

(* What a call that adds no query has to show.                             *)
LEMMA NoQuery ==
  ASSUME BuilderInv, NEW fn \in BuilderCalls \ {"BuildQuery"}, NEW arg \in Seq(Given), Called(fn, arg),
         column' \in Seq(Columns), column' = column \o (IF fn \in ColumnCalls THEN arg ELSE << >>),
         table_name' \in Tables, table_name' = IF fn = "AddFrom" THEN arg ELSE table_name,
         where_condition' \in Seq(BuilderWord), fn \in WhereCalls => arg \in Seq(Pairs),
         IsConditions(where_condition',
                      ArgsOf(calls, WhereCalls) \o (IF fn \in WhereCalls THEN arg ELSE << >>))
  PROVE  BuilderInv'
<1>1. calls \in Seq(BuilderCall) /\ ArgsOf(calls, WhereCalls) \in Seq(Pairs)
  BY DEF BuilderInv
<1>2. /\ calls' \in Seq(BuilderCall) /\ (Asked(calls') <=> fn = "BuildQuery")
      /\ \A fns : ArgsOf(calls', fns) = ArgsOf(calls, fns) \o (IF fn \in fns THEN arg ELSE << >>)
      /\ LastTable(calls') = IF fn = "AddFrom" THEN arg ELSE LastTable(calls)
  BY <1>1, CalledIs
<1>3. ~Asked(calls')
  BY <1>2
<1>4. ArgsOf(calls', WhereCalls) \in Seq(Pairs)
  <2>1. PICK x \in Seq(Pairs) : x = IF fn \in WhereCalls THEN arg ELSE << >>
    <3>1. CASE fn \in WhereCalls
      BY <3>1
    <3>2. CASE fn \notin WhereCalls
      <4>1. << >> \in Seq(Pairs)
        OBVIOUS
      <4> QED BY <3>2, <4>1
    <3> QED BY <3>1, <3>2
  <2>2. ArgsOf(calls', WhereCalls) = ArgsOf(calls, WhereCalls) \o x
    BY <1>2, <2>1
  <2>3. PICK a \in Seq(Pairs) : a = ArgsOf(calls, WhereCalls)
    BY <1>1
  <2>4. a \o x \in Seq(Pairs)
    OBVIOUS
  <2> QED BY <2>2, <2>3, <2>4
<1>5. column' = ArgsOf(calls', ColumnCalls) /\ table_name' = LastTable(calls')
  BY <1>2 DEF BuilderInv
<1>6. IsConditions(where_condition', ArgsOf(calls', WhereCalls))
  BY <1>2
<1> QED BY <1>2, <1>3, <1>4, <1>5, <1>6 DEF BuilderInv

LEMMA BuilderStep == BuilderInv /\ [BuilderNext]_builder_vars => BuilderInv'
<1> SUFFICES ASSUME BuilderInv, [BuilderNext]_builder_vars PROVE BuilderInv'
  OBVIOUS
<1>0. /\ column \in Seq(Columns) /\ table_name \in Tables /\ where_condition \in Seq(BuilderWord)
      /\ ArgsOf(calls, WhereCalls) \in Seq(Pairs) /\ calls \in Seq(BuilderCall)
      /\ IsConditions(where_condition, ArgsOf(calls, WhereCalls))
      /\ column \o << >> = column /\ ArgsOf(calls, WhereCalls) \o << >> = ArgsOf(calls, WhereCalls)
  <2>1. /\ column \in Seq(Columns) /\ table_name \in Tables /\ where_condition \in Seq(BuilderWord)
        /\ ArgsOf(calls, WhereCalls) \in Seq(Pairs) /\ calls \in Seq(BuilderCall)
        /\ IsConditions(where_condition, ArgsOf(calls, WhereCalls))
    BY DEF BuilderInv
  <2> QED BY <2>1
<1>1. ASSUME NEW c \in Columns, AddColumn(c) PROVE BuilderInv'
  <2>1. <<c>> \in Seq(Given) /\ <<c>> \in Seq(Columns)
    BY DEF Given
  <2>2. column' = column \o <<c>> /\ column' \in Seq(Columns)
    BY <1>0, <1>1 DEF AddColumn
  <2>3. Called("AddColumn", <<c>>) /\ UNCHANGED <<table_name, where_condition>>
    BY <1>1 DEF AddColumn
  <2>4. "AddColumn" \in BuilderCalls \ {"BuildQuery"} /\ "AddColumn" \in ColumnCalls /\ "AddColumn" \notin WhereCalls
    BY DEF BuilderCalls, ColumnCalls, WhereCalls
  <2> QED BY <1>0, <2>1, <2>2, <2>3, <2>4, NoQuery
<1>2. ASSUME NEW cs \in ColumnLists, AddColumns(cs) PROVE BuilderInv'
  <2>1. cs \in Seq(Columns)
    BY BuilderAssumption
  <2>2. cs \in Seq(Given)
    BY <2>1 DEF Given
  <2>3. column' = column \o cs /\ column' \in Seq(Columns)
    BY <1>0, <1>2, <2>1 DEF AddColumns
  <2>4. Called("AddColumns", cs) /\ UNCHANGED <<table_name, where_condition>>
    BY <1>2 DEF AddColumns
  <2>5. "AddColumns" \in BuilderCalls \ {"BuildQuery"} /\ "AddColumns" \in ColumnCalls /\ "AddColumns" \notin WhereCalls
    BY DEF BuilderCalls, ColumnCalls, WhereCalls
  <2> QED BY <1>0, <2>2, <2>3, <2>4, <2>5, NoQuery
<1>3. ASSUME NEW t \in Tables, AddFrom(t) PROVE BuilderInv'
  <2>1. t \in Seq(Given)
    <3>1. CASE t = << >>
      BY <3>1
    <3>2. CASE t # << >>
      <4>1. t = <<t[1]>>
        BY <3>2, BuilderAssumption
      <4>2. t[1] \in Given
        BY <3>2 DEF Given
      <4>3. PICK e \in Given : e = t[1]
        BY <4>2
      <4>4. <<e>> \in Seq(Given)
        OBVIOUS
      <4> QED BY <4>1, <4>3, <4>4
    <3> QED BY <3>1, <3>2
  <2>2. Called("AddFrom", t) /\ UNCHANGED <<column, where_condition>> /\ table_name' = t
    BY <1>3 DEF AddFrom
  <2>3. "AddFrom" \in BuilderCalls \ {"BuildQuery"} /\ "AddFrom" \notin ColumnCalls /\ "AddFrom" \notin WhereCalls
    BY DEF BuilderCalls, ColumnCalls, WhereCalls
  <2> QED BY <1>0, <2>1, <2>2, <2>3, NoQuery
<1>4. ASSUME NEW p \in Pairs, AddWhere(p) PROVE BuilderInv'
  <2>1. <<p>> \in Seq(Given) /\ <<p>> \in Seq(Pairs)
    BY DEF Given
  <2>2. Called("AddWhere", <<p>>) /\ UNCHANGED <<column, table_name>>
    BY <1>4 DEF AddWhere
  <2>3. where_condition' = Joined(where_condition, Condition(p))
    BY <1>4 DEF AddWhere
  <2>4. PICK text \in Seq(BuilderWord), items \in Seq(Pairs) : text = where_condition /\ items = ArgsOf(calls, WhereCalls)
    BY <1>0
  <2>5. Joined(text, Condition(p)) \in Seq(BuilderWord) /\ IsConditions(Joined(text, Condition(p)), Append(items, p))
    BY <1>0, <2>4, JoinedIs
  <2>6. Append(items, p) = items \o <<p>>
    OBVIOUS
  <2>7. where_condition' \in Seq(BuilderWord) /\ IsConditions(where_condition', ArgsOf(calls, WhereCalls) \o <<p>>)
    BY <2>3, <2>4, <2>5, <2>6
  <2>8. "AddWhere" \in BuilderCalls \ {"BuildQuery"} /\ "AddWhere" \notin ColumnCalls /\ "AddWhere" \in WhereCalls
    BY DEF BuilderCalls, ColumnCalls, WhereCalls
  <2> QED BY <1>0, <2>1, <2>2, <2>7, <2>8, NoQuery
<1>5. ASSUME NEW kv \in Maps, AddWhereMap(kv) PROVE BuilderInv'
  <2>1. kv \in Seq(Pairs)
    BY DEF Maps, SeqOf
  <2>2. kv \in Seq(Given)
    BY <2>1 DEF Given
  <2>3. Called("AddWhereMap", kv) /\ UNCHANGED <<column, table_name>>
    BY <1>5 DEF AddWhereMap
  <2>4. PICK text \in Seq(BuilderWord), items \in Seq(Pairs) : text = where_condition /\ items = ArgsOf(calls, WhereCalls)
    BY <1>0
  <2> DEFINE added == CHOOSE added : Joining(added, text, kv)
  <2>5. where_condition' = added[Len(kv)]
    BY <1>5, <2>4 DEF AddWhereMap, Joining
  <2>6. added[Len(kv)] \in Seq(BuilderWord) /\ IsConditions(added[Len(kv)], items \o kv)
    BY <1>0, <2>1, <2>4, JoinedAll
  <2> HIDE DEF added
  <2>7. where_condition' \in Seq(BuilderWord) /\ IsConditions(where_condition', ArgsOf(calls, WhereCalls) \o kv)
    BY <2>4, <2>5, <2>6
  <2>8. "AddWhereMap" \in BuilderCalls \ {"BuildQuery"} /\ "AddWhereMap" \notin ColumnCalls /\ "AddWhereMap" \in WhereCalls
    BY DEF BuilderCalls, ColumnCalls, WhereCalls
  <2> QED BY <1>0, <2>1, <2>2, <2>3, <2>7, <2>8, NoQuery
<1>6. CASE BuildQuery
  <2>1. Called("BuildQuery", << >>) /\ UNCHANGED <<table_name, column, where_condition>> /\ built' = Query
    BY <1>6 DEF BuildQuery, Query
  <2>2. "BuildQuery" \in BuilderCalls /\ "BuildQuery" \notin ColumnCalls /\ "BuildQuery" \notin WhereCalls
    BY DEF BuilderCalls, ColumnCalls, WhereCalls
  <2>3. /\ calls' \in Seq(BuilderCall)
        /\ \A fns : ArgsOf(calls', fns) = ArgsOf(calls, fns) \o (IF "BuildQuery" \in fns THEN << >> ELSE << >>)
        /\ LastTable(calls') = LastTable(calls)
    <3>1. << >> \in Seq(Given)
      OBVIOUS
    <3> QED BY <1>0, <2>1, <2>2, <3>1, CalledIs
  <2>4. ArgsOf(calls', ColumnCalls) = column /\ ArgsOf(calls', WhereCalls) = ArgsOf(calls, WhereCalls)
    <3>1. column = ArgsOf(calls, ColumnCalls)
      BY DEF BuilderInv
    <3> QED BY <1>0, <2>3, <3>1
  <2>5. Query' = Query
    BY <2>1 DEF Query, ColumnList
  <2>6. table_name = LastTable(calls)
    BY DEF BuilderInv
  <2> QED BY <1>0, <2>1, <2>3, <2>4, <2>5, <2>6 DEF BuilderInv
<1>7. CASE UNCHANGED builder_vars
  <2>1. UNCHANGED <<table_name, column, where_condition, built, calls>>
    BY <1>7 DEF builder_vars
  <2>2. Query' = Query
    BY <2>1 DEF Query, ColumnList
  <2> QED BY <2>1, <2>2 DEF BuilderInv
<1> QED BY <1>1, <1>2, <1>3, <1>4, <1>5, <1>6, <1>7 DEF BuilderNext

-----------------------------------------------------------------------------
(* A list in the form of IsList.                                           *)
LEMMA ColumnsListed ==
  ASSUME NEW text, NEW items \in Seq(Columns), items # << >>, IsColumns(text, items)
  PROVE  LET Single(x) == <<x>> IN IsList(text, items, Single, Comma)
<1> DEFINE Single(x) == <<x>>
<1>1. Len(items) \in Nat /\ Len(items) > 0 /\ DOMAIN items = 1..Len(items)
  OBVIOUS
<1>2. Len(Single(items[1])) = 1
  OBVIOUS
<1>3. Len(text) = Len(items) * (1 + 1) - 1
  <2>1. \A l \in Nat : 2 * l - 1 = l * (1 + 1) - 1
    OBVIOUS
  <2> QED BY <1>1, <2>1 DEF IsColumns
<1>4. ASSUME NEW i \in 1..Len(items)
      PROVE  /\ \A k \in 1..1 : text[(i - 1) * (1 + 1) + k] = Single(items[i])[k]
             /\ i > 1 => text[(i - 1) * (1 + 1)] = Comma
  <2>1. text[2 * (i - 1) + 1] = items[i] /\ (i > 1 => text[2 * (i - 1)] = Comma)
    BY DEF IsColumns
  <2>2. (i - 1) * (1 + 1) = 2 * (i - 1) /\ \A k \in 1..1 : k = 1
    OBVIOUS
  <2>3. Single(items[i])[1] = items[i]
    OBVIOUS
  <2> HIDE DEF Single
  <2> QED BY <2>1, <2>2, <2>3
<1> HIDE DEF Single
<1>5. IsList(text, items, Single, Comma)
  BY <1>1, <1>2, <1>3, <1>4 DEF IsList
<1> QED BY <1>5 DEF Single

LEMMA ConditionsListed ==
  ASSUME NEW text, NEW items \in Seq(Pairs), items # << >>, IsConditions(text, items)
  PROVE  IsList(text, items, Condition, "AND")
<1>1. Len(items) \in Nat /\ Len(items) > 0 /\ DOMAIN items = 1..Len(items)
  OBVIOUS
<1>2. /\ Len(text) = 4 * Len(items) - 1
      /\ \A i \in 1..Len(items) : Holds(text, 4 * (i - 1), items[i]) /\ (i > 1 => text[4 * (i - 1)] = "AND")
  BY <1>1 DEF IsConditions
<1>3. \A p : /\ Len(Condition(p)) = 3 /\ Condition(p)[1] = p[1]
             /\ Condition(p)[2] = "=" /\ Condition(p)[3] = p[2]
  BY DEF Condition
<1> DEFINE width == Len(Condition(items[1]))
<1>4. Len(text) = Len(items) * (width + 1) - 1
  <2>1. \A l \in Nat : 4 * l - 1 = l * (3 + 1) - 1
    OBVIOUS
  <2> QED BY <1>1, <1>2, <1>3, <2>1
<1>5. ASSUME NEW i \in 1..Len(items)
      PROVE  /\ \A k \in 1..width : text[(i - 1) * (width + 1) + k] = Condition(items[i])[k]
             /\ i > 1 => text[(i - 1) * (width + 1)] = "AND"
  <2>1. Holds(text, 4 * (i - 1), items[i]) /\ (i > 1 => text[4 * (i - 1)] = "AND")
    BY <1>2
  <2>2. (i - 1) * (3 + 1) = 4 * (i - 1) /\ \A k \in 1..3 : k = 1 \/ k = 2 \/ k = 3
    OBVIOUS
  <2>3. /\ \A k \in 1..3 : text[(i - 1) * (3 + 1) + k] = Condition(items[i])[k]
        /\ i > 1 => text[(i - 1) * (3 + 1)] = "AND"
    BY <1>3, <2>1, <2>2 DEF Holds
  <2>4. width = 3
    BY <1>3
  <2> HIDE DEF width
  <2> QED BY <2>3, <2>4
<1> QED BY <1>1, <1>4, <1>5 DEF IsList

(* Where the parts of a query begin.                                       *)
LEMMA PlacesOf ==
  ASSUME NEW m \in Nat, NEW n \in Nat, NEW a, NEW b, NEW v, NEW t, NEW u, NEW h, NEW g, NEW e, NEW q,
         IsCat(h, v, a, 1, m), IsCat(g, h, t, 1 + m, 2), IsCat(e, g, b, m + 3, n),
         IsCat(q, e, u, m + n + 3, 1)
  PROVE  /\ q[1] = v[1] /\ q[m + 2] = t[1] /\ q[m + 3] = t[2] /\ q[m + n + 4] = u[1]
         /\ \A k \in 1..m : q[k + 1] = a[k]
         /\ \A k \in 1..n : q[m + 3 + k] = b[k]
<1>1. \A k \in 1..(m + n + 3) : q[k] = e[k]
  BY DEF IsCat
<1>2. \A k \in 1..(m + 3) : k \in 1..(m + n + 3) /\ e[k] = g[k]
  BY DEF IsCat
<1>3. \A k \in 1..(1 + m) : k \in 1..(m + 3) /\ g[k] = h[k]
  BY DEF IsCat
<1>4. h[1] = v[1] /\ \A k \in 1..m : 1 + k \in 1..(1 + m) /\ h[1 + k] = a[k]
  <2>1. 1 \in 1..1
    OBVIOUS
  <2> QED BY <2>1 DEF IsCat
<1>5. g[(1 + m) + 1] = t[1] /\ g[(1 + m) + 2] = t[2]
  <2>1. 1 \in 1..2 /\ 2 \in 1..2
    OBVIOUS
  <2> QED BY <2>1 DEF IsCat
<1>6. q[(m + n + 3) + 1] = u[1]
  <2>1. 1 \in 1..1
    OBVIOUS
  <2> QED BY <2>1 DEF IsCat
<1>7. \A k \in 1..n : m + 3 + k \in 1..(m + n + 3) /\ e[m + 3 + k] = b[k]
  BY DEF IsCat
<1>8. /\ (1 + m) + 1 = m + 2 /\ (1 + m) + 2 = m + 3 /\ (m + n + 3) + 1 = m + n + 4
      /\ m + 2 \in 1..(m + 3) /\ m + 3 \in 1..(m + 3) /\ 1 \in 1..(1 + m)
      /\ \A k \in 1..m : 1 + k = k + 1
  OBVIOUS
<1>9. q[1] = v[1] /\ q[m + 2] = t[1] /\ q[m + 3] = t[2]
  BY <1>1, <1>2, <1>3, <1>4, <1>5, <1>8
<1>10. \A k \in 1..m : q[k + 1] = a[k]
  BY <1>1, <1>2, <1>3, <1>4, <1>8
<1> QED BY <1>1, <1>6, <1>7, <1>8, <1>9, <1>10

(* A query of one table has its parts where QueryIsOfAllCalls reads them.  *)
HasParts(q, f, w, a, x, y, b, z) ==
  /\ f \in DOMAIN q /\ q[1] = w /\ q[f] = x /\ q[f + 1] = y /\ Last(q) = z
  /\ SubSeq(q, 2, f - 1) = a
  /\ Len(q) = f + 2 + Len(b)
  /\ SubSeq(q, f + 2, Len(q) - 1) = b

LEMMA PartsOf ==
  ASSUME NEW S, NEW a \in Seq(S), NEW b \in Seq(S), NEW w \in S, NEW x \in S, NEW y \in S,
         NEW z \in S
  PROVE  HasParts(<<w>> \o a \o <<x>> \o <<y>> \o b \o <<z>>, Len(a) + 2, w, a, x, y, b, z)
<1>1. PICK m \in Nat, n \in Nat : m = Len(a) /\ n = Len(b)
  OBVIOUS
<1> DEFINE v == <<w>>
           h == v \o a
           t == <<x, y>>
           g == h \o t
           e == g \o b
           u == <<z>>
           q == e \o u
<1>2. /\ v \in Seq(S) /\ Len(v) = 1 /\ v[1] = w
      /\ t \in Seq(S) /\ Len(t) = 2 /\ t[1] = x /\ t[2] = y
      /\ u \in Seq(S) /\ Len(u) = 1 /\ u[1] = z
  OBVIOUS
<1>3. <<w>> \o a \o <<x>> \o <<y>> \o b \o <<z>> = q
  <2>1. <<x>> \in Seq(S) /\ <<y>> \in Seq(S) /\ <<x>> \o <<y>> = t /\ h \in Seq(S)
    <3>1. <<x>> \in Seq(S) /\ <<y>> \in Seq(S) /\ <<x>> \o <<y>> = t
      BY Two
    <3>2. v \in Seq(S)
      OBVIOUS
    <3> HIDE DEF v
    <3>3. h \in Seq(S)
      BY <3>2
    <3> QED BY <3>1, <3>3
  <2> HIDE DEF h, t
  <2>2. (h \o <<x>>) \o <<y>> = h \o (<<x>> \o <<y>>)
    BY <2>1
  <2> QED BY <2>1, <2>2 DEF h
<1> HIDE DEF v, t, u
<1>4. h \in Seq(S) /\ IsCat(h, v, a, 1, m)
  BY <1>1, <1>2, Cat
<1>5. Len(h) = 1 + m
  BY <1>4 DEF IsCat
<1> HIDE DEF h
<1>6. g \in Seq(S) /\ IsCat(g, h, t, 1 + m, 2)
  BY <1>2, <1>4, <1>5, Cat
<1>7. Len(g) = m + 3
  BY <1>6 DEF IsCat
<1> HIDE DEF g
<1>8. e \in Seq(S) /\ IsCat(e, g, b, m + 3, n)
  BY <1>1, <1>6, <1>7, Cat
<1>9. Len(e) = m + n + 3
  BY <1>8 DEF IsCat
<1> HIDE DEF e
<1>10. q \in Seq(S) /\ IsCat(q, e, u, m + n + 3, 1)
  BY <1>2, <1>8, <1>9, Cat
<1>11. Len(q) = m + n + 4
  BY <1>10 DEF IsCat
<1> HIDE DEF q
<1>12. /\ q[1] = v[1] /\ q[m + 2] = t[1] /\ q[m + 3] = t[2] /\ q[m + n + 4] = u[1]
       /\ \A k \in 1..m : q[k + 1] = a[k]
       /\ \A k \in 1..n : q[m + 3 + k] = b[k]
  BY <1>4, <1>6, <1>8, <1>10, PlacesOf, SMTT(30)
<1>13. SubSeq(q, 2, m + 1) = a
  <2>1. /\ 1 + m <= m + n + 4 /\ 1 \in Nat /\ 1 + 1 = 2 /\ 1 + m = m + 1
        /\ \A k \in 1..m : 1 + k = k + 1
    OBVIOUS
  <2>2. \A k \in 1..Len(a) : q[1 + k] = a[k]
    BY <1>1, <1>12, <2>1
  <2>3. 1 + Len(a) <= Len(q)
    BY <1>1, <1>11, <2>1
  <2>4. SubSeq(q, 1 + 1, 1 + Len(a)) = a
    BY <1>10, <2>1, <2>2, <2>3, PartIs
  <2> QED BY <1>1, <2>1, <2>4
<1>14. SubSeq(q, m + 4, m + n + 3) = b
  <2>1. /\ (m + 3) + n <= m + n + 4 /\ m + 3 \in Nat /\ (m + 3) + 1 = m + 4 /\ (m + 3) + n = m + n + 3
    OBVIOUS
  <2>2. \A k \in 1..Len(b) : q[(m + 3) + k] = b[k]
    BY <1>1, <1>12
  <2>3. (m + 3) + Len(b) <= Len(q)
    BY <1>1, <1>11, <2>1
  <2>4. SubSeq(q, (m + 3) + 1, (m + 3) + Len(b)) = b
    BY <1>10, <2>1, <2>2, <2>3, PartIs
  <2> QED BY <1>1, <2>1, <2>4
<1>15. DOMAIN q = 1..(m + n + 4)
  BY <1>10, <1>11
<1>16. /\ m + 2 \in 1..(m + n + 4) /\ (m + 2) + 1 = m + 3
       /\ (m + 2) - 1 = m + 1 /\ m + n + 4 = (m + 2) + 2 + n /\ (m + 2) + 2 = m + 4
       /\ (m + n + 4) - 1 = m + n + 3
  OBVIOUS
<1>17. Last(q) = z
  BY <1>2, <1>11, <1>12 DEF Last
<1>18. /\ m + 2 \in DOMAIN q /\ q[1] = w /\ q[m + 2] = x /\ q[(m + 2) + 1] = y /\ Last(q) = z
       /\ SubSeq(q, 2, (m + 2) - 1) = a
       /\ Len(q) = (m + 2) + 2 + n
       /\ SubSeq(q, (m + 2) + 2, Len(q) - 1) = b
  BY <1>2, <1>11, <1>12, <1>13, <1>14, <1>15, <1>16, <1>17
<1> QED BY <1>1, <1>3, <1>18 DEF HasParts

(* A query names the columns of all calls so far in their order, or *, the *)
(* table of the last call, and the conditions of all calls, for any calls  *)
(* in any order and however often a query has been built between them      *)
(* (AddColumn, AddFrom, AddWhere, BuildQuery of sql_query_builder.h).      *)
THEOREM QueriesAreOfAllCalls == BuilderSpec => []QueryIsOfAllCalls
<1>1. BuilderInv => QueryIsOfAllCalls
  <2> SUFFICES ASSUME BuilderInv, calls # << >>, Last(calls).fn = "BuildQuery", TableAsked # << >>
               PROVE  LET columns == Args({"AddColumn", "AddColumns"})
                          wheres  == Args({"AddWhere", "AddWhereMap"})
                          Single(x) == <<x>>
                      IN \E f \in DOMAIN built :
                           /\ built[1] = "SELECT" /\ built[f] = "FROM" /\ Last(built) = Terminator
                           /\ \/ columns = << >> /\ SubSeq(built, 2, f - 1) = <<Star>>
                              \/ IsList(SubSeq(built, 2, f - 1), columns, Single, Comma)
                           /\ built[f + 1] = TableAsked[1]
                           /\ \/ wheres = << >> /\ Len(built) = f + 2
                              \/ /\ built[f + 2] = "WHERE"
                                 /\ IsList(SubSeq(built, f + 3, Len(built) - 1), wheres, Condition, "AND")
    <3>1. ASSUME BuilderInv, calls # << >>, Last(calls).fn = "BuildQuery", TableAsked = << >> PROVE built = Thrown
      <4>1. Asked(calls) /\ table_name = << >>
        BY <3>1 DEF Asked, Last, BuilderInv, LastTable, Froms, TableAsked
      <4> QED BY <3>1, <4>1 DEF BuilderInv, Query
    <3> QED BY <3>1 DEF QueryIsOfAllCalls
  <2> DEFINE columns == Args({"AddColumn", "AddColumns"})
             wheres == Args({"AddWhere", "AddWhereMap"})
             Single(x) == <<x>>
  <2>1. columns = column /\ wheres = ArgsOf(calls, WhereCalls) /\ TableAsked = table_name
    BY DEF BuilderInv, Args, ArgsOf, ArgOf, ColumnCalls, WhereCalls, TableAsked, LastTable, Froms
  <2>2. built = Query /\ table_name # << >>
    BY <2>1 DEF BuilderInv, Asked, Last
  <2>3. table_name = <<table_name[1]>>
    BY <2>2, BuilderAssumption DEF BuilderInv
  <2> DEFINE S == Columns \cup {Comma, Star} \cup BuilderWord \cup {"SELECT", "FROM", "WHERE", table_name[1], Terminator}
  <2>4. ColumnList \in Seq(S)
    <3>1. CASE column = << >>
      BY <3>1 DEF ColumnList
    <3>2. CASE column # << >>
      <4>1. ColumnList \in Seq(Columns \cup {Comma, Star})
        BY <3>2, ColumnListIs DEF BuilderInv
      <4> QED BY <4>1
    <3> QED BY <3>1, <3>2
  <2> DEFINE rest == IF where_condition = << >> THEN << >> ELSE <<"WHERE">> \o where_condition
  <2>5. rest \in Seq(S)
    <3>1. where_condition \in Seq(BuilderWord) /\ <<"WHERE">> \in Seq(S)
      BY DEF BuilderInv
    <3>2. where_condition \in Seq(S)
      BY <3>1
    <3> HIDE DEF S
    <3>3. << >> \in Seq(S) /\ <<"WHERE">> \o where_condition \in Seq(S)
      BY <3>1, <3>2
    <3> QED BY <3>3
  <2>6. "SELECT" \in S /\ "FROM" \in S /\ table_name[1] \in S /\ Terminator \in S
    OBVIOUS
  <2>7. built = <<"SELECT">> \o ColumnList \o <<"FROM">> \o <<table_name[1]>> \o rest \o <<Terminator>>
    BY <2>2, <2>3 DEF Query
  <2> HIDE DEF S, rest
  <2> DEFINE f == Len(ColumnList) + 2
  <2>8. /\ f \in DOMAIN built /\ built[1] = "SELECT" /\ built[f] = "FROM" /\ built[f + 1] = table_name[1]
        /\ Last(built) = Terminator
        /\ SubSeq(built, 2, f - 1) = ColumnList
        /\ Len(built) = f + 2 + Len(rest)
        /\ SubSeq(built, f + 2, Len(built) - 1) = rest
    <3>1. HasParts(built, f, "SELECT", ColumnList, "FROM", table_name[1], rest, Terminator)
      BY <2>4, <2>5, <2>6, <2>7, PartsOf
    <3> QED BY <3>1 DEF HasParts
  <2>9. \/ columns = << >> /\ SubSeq(built, 2, f - 1) = <<Star>>
        \/ IsList(SubSeq(built, 2, f - 1), columns, Single, Comma)
    <3>1. CASE column = << >>
      BY <2>1, <2>8, <3>1 DEF ColumnList
    <3>2. CASE column # << >>
      <4>1. column \in Seq(Columns) /\ IsColumns(ColumnList, column)
        BY <3>2, ColumnListIs DEF BuilderInv
      <4>2. IsList(ColumnList, column, Single, Comma)
        BY <3>2, <4>1, ColumnsListed
      <4> QED BY <2>1, <2>8, <4>2
    <3> QED BY <3>1, <3>2
  <2>10. PICK items \in Seq(Pairs) : items = ArgsOf(calls, WhereCalls)
    BY DEF BuilderInv
  <2>11. IsConditions(where_condition, items) /\ where_condition \in Seq(BuilderWord)
    BY <2>10 DEF BuilderInv
  <2>12. f \in Nat
    BY <2>4
  <2> HIDE DEF f
  <2>13. \/ wheres = << >> /\ Len(built) = f + 2
         \/ /\ built[f + 2] = "WHERE"
            /\ IsList(SubSeq(built, f + 3, Len(built) - 1), wheres, Condition, "AND")
    <3>1. CASE items = << >>
      <4>1. where_condition = << >>
        BY <2>11, <3>1 DEF IsConditions
      <4>2. Len(rest) = 0
        BY <4>1 DEF rest
      <4>3. Len(built) = f + 2
        BY <2>8, <2>12, <4>2
      <4> QED BY <2>1, <2>10, <3>1, <4>3
    <3>2. CASE items # << >>
      <4>1. PICK l \in Nat : l = Len(items)
        OBVIOUS
      <4>2. l # 0 /\ Len(where_condition) = 4 * l - 1
        BY <2>11, <3>2, <4>1 DEF IsConditions
      <4>3. where_condition # << >>
        BY <4>2
      <4>4. rest = <<"WHERE">> \o where_condition
        BY <4>3 DEF rest
      <4>5. PICK m \in Nat : m = Len(where_condition)
        BY <2>11
      <4>6. Len(rest) = m + 1 /\ rest[1] = "WHERE" /\ \A k \in 1..m : rest[1 + k] = where_condition[k]
        <5> DEFINE W == BuilderWord \cup {"WHERE"}
                   v == <<"WHERE">>
        <5>1. where_condition \in Seq(W) /\ v \in Seq(W) /\ Len(v) = 1 /\ v[1] = "WHERE"
          BY <2>11
        <5> HIDE DEF W
        <5>2. rest = v \o where_condition
          BY <4>4
        <5> HIDE DEF v
        <5>3. IsCat(rest, v, where_condition, 1, m)
          BY <4>5, <5>1, <5>2, Cat
        <5>4. 1 \in 1..1 /\ 1 + m = m + 1
          OBVIOUS
        <5> QED BY <5>1, <5>3, <5>4 DEF IsCat
      <4>7. PICK q : q = built
        OBVIOUS
      <4>8. /\ q \in Seq(S) /\ Len(q) = f + 3 + m
            /\ SubSeq(q, f + 2, f + 2 + m) = rest
        <5>1. q \in Seq(S)
          <6>1. /\ <<"SELECT">> \in Seq(S) /\ <<"FROM">> \in Seq(S) /\ <<table_name[1]>> \in Seq(S)
                /\ <<Terminator>> \in Seq(S)
            BY <2>6
          <6> QED BY <2>4, <2>5, <2>7, <4>7, <6>1
        <5>2. Len(q) = f + 2 + (m + 1)
          BY <2>8, <4>6, <4>7
        <5>3. f + 2 + (m + 1) = f + 3 + m /\ (f + 3 + m) - 1 = f + 2 + m
          BY <2>12
        <5> QED BY <2>8, <4>7, <5>1, <5>2, <5>3
      <4>9. \A k \in 1..(m + 1) : q[f + 1 + k] = rest[k]
        <5>1. /\ f + 2 \in Int /\ f + 2 + m \in Int /\ 1 <= f + 2 /\ f + 2 <= (f + 2 + m) + 1
              /\ f + 2 + m <= f + 3 + m /\ (f + 2 + m) - (f + 2) + 1 = m + 1
              /\ \A k \in 1..(m + 1) : (f + 2) + k - 1 = f + 1 + k
          BY <2>12
        <5>2. f + 2 + m <= Len(q)
          BY <4>8, <5>1
        <5>3. \A k \in 1..((f + 2 + m) - (f + 2) + 1) : SubSeq(q, f + 2, f + 2 + m)[k] = q[(f + 2) + k - 1]
          BY <4>8, <5>1, <5>2, Cut, SMTT(30)
        <5> QED BY <4>8, <5>1, <5>3
      <4>10. q[f + 2] = "WHERE"
        <5>1. 1 \in 1..(m + 1) /\ f + 1 + 1 = f + 2
          BY <2>12
        <5> QED BY <4>6, <4>9, <5>1
      <4>11. SubSeq(q, f + 3, Len(q) - 1) = where_condition
        <5>1. /\ f + 2 \in Nat /\ (f + 2) + m <= f + 3 + m /\ (f + 2) + 1 = f + 3
              /\ (f + 2) + m = (f + 3 + m) - 1
              /\ \A k \in 1..m : 1 + k \in 1..(m + 1) /\ f + 1 + (1 + k) = (f + 2) + k
          BY <2>12
        <5>2. \A k \in 1..m : q[(f + 2) + k] = where_condition[k]
          BY <4>6, <4>9, <5>1
        <5>3. where_condition \in Seq(S)
          BY <2>11 DEF S
        <5>4. (f + 2) + Len(where_condition) <= Len(q) /\ \A k \in 1..Len(where_condition) : q[(f + 2) + k] = where_condition[k]
          BY <4>5, <4>8, <5>1, <5>2
        <5>5. SubSeq(q, (f + 2) + 1, (f + 2) + Len(where_condition)) = where_condition
          BY <4>8, <5>1, <5>3, <5>4, PartIs
        <5> QED BY <4>5, <4>8, <5>1, <5>5
      <4>12. IsList(where_condition, items, Condition, "AND")
        BY <2>11, <3>2, ConditionsListed
      <4>13. IsList(SubSeq(q, f + 3, Len(q) - 1), items, Condition, "AND")
        BY <4>11, <4>12
      <4> QED BY <2>1, <2>10, <4>7, <4>10, <4>13
    <3> QED BY <3>1, <3>2
  <2> QED BY <2>1, <2>8, <2>9, <2>13
<1>2. BuilderSpec => []BuilderInv
  BY BuilderStart, BuilderStep, PTL DEF BuilderSpec
<1> QED BY <1>1, <1>2, PTL

-----------------------------------------------------------------------------
(* LogObservers: the calls of the observers.                               *)
(* LogObservers: the registered observers.                                 *)
Occ(s, x) == Cardinality({i \in DOMAIN s : s[i] = x})

LEMMA OccIs ==
  ASSUME NEW S, NEW s \in Seq(S), NEW x
  PROVE  Occ(s, x) \in Nat /\ (Occ(s, x) > 0 <=> \E i \in DOMAIN s : s[i] = x)
<1> DEFINE P == {i \in DOMAIN s : s[i] = x}
<1>1. P \subseteq 1..Len(s) /\ Len(s) \in Nat
  OBVIOUS
<1>2. IsFiniteSet(P)
  BY <1>1, FS_Interval, FS_Subset
<1> HIDE DEF P
<1>3. Cardinality(P) \in Nat /\ (Cardinality(P) = 0 <=> P = {})
  BY <1>2, FS_CardinalityType, FS_EmptySet
<1>4. P # {} <=> \E i \in DOMAIN s : s[i] = x
  BY DEF P
<1>5. Occ(s, x) = Cardinality(P)
  BY DEF Occ, P
<1> QED BY <1>3, <1>4, <1>5

LEMMA OccNone == ASSUME NEW x PROVE Occ(<< >>, x) = 0
<1>1. {i \in DOMAIN << >> : << >>[i] = x} = {}
  OBVIOUS
<1> QED BY <1>1, FS_EmptySet DEF Occ

LEMMA OccAppend ==
  ASSUME NEW S, NEW s \in Seq(S), NEW y \in S, NEW x
  PROVE  Occ(Append(s, y), x) = Occ(s, x) + (IF y = x THEN 1 ELSE 0)
<1>1. PICK n \in Nat : n = Len(s)
  OBVIOUS
<1>2. PICK t : t = Append(s, y)
  OBVIOUS
<1>3. DOMAIN t = 1..(n + 1) /\ DOMAIN s = 1..n /\ t[n + 1] = y /\ \A i \in 1..n : t[i] = s[i]
  BY <1>1, <1>2
<1> DEFINE P == {i \in 1..n : s[i] = x}
           Q == {i \in 1..(n + 1) : t[i] = x}
<1>4. P \subseteq 1..n /\ n + 1 \notin P
  OBVIOUS
<1>5. IsFiniteSet(P)
  <2>1. IsFiniteSet(1..n)
    BY FS_Interval
  <2> HIDE DEF P
  <2> QED BY <1>4, <2>1, FS_Subset
<1>6. Q = IF y = x THEN P \cup {n + 1} ELSE P
  <2>1. \A i \in 1..(n + 1) : i \in 1..n \/ i = n + 1
    OBVIOUS
  <2>2. \A i \in 1..n : i \in 1..(n + 1)
    OBVIOUS
  <2>3. n + 1 \in 1..(n + 1)
    OBVIOUS
  <2> QED BY <1>3, <2>1, <2>2, <2>3
<1>7. Occ(s, x) = Cardinality(P) /\ Occ(t, x) = Cardinality(Q)
  BY <1>3 DEF Occ
<1> HIDE DEF P, Q
<1>8. Cardinality(P \cup {n + 1}) = Cardinality(P) + 1
  BY <1>4, <1>5, FS_AddElement
<1>9. Cardinality(P) \in Nat
  BY <1>5, FS_CardinalityType
<1> QED BY <1>2, <1>6, <1>7, <1>8, <1>9

-----------------------------------------------------------------------------
(* What std::remove keeps: everything but o.                               *)
KeptOf(o) == [x \in Observer |-> IF x = o THEN << >> ELSE <<x>>]

LEMMA KeptIs ==
  ASSUME NEW s \in Seq(Observer), NEW o \in Observer
  PROVE  /\ Flat(KeptOf(o), s) \in Seq(Observer)
         /\ \A x \in Observer : Occ(Flat(KeptOf(o), s), x) = IF x = o THEN 0 ELSE Occ(s, x)
<1> DEFINE K(r) == Flat(KeptOf(o), r)
           G == {r \in Seq(Observer) : \A x \in Observer : Occ(K(r), x) = IF x = o THEN 0 ELSE Occ(r, x)}
<1>1. KeptOf(o) \in [Observer -> Seq(Observer)] /\ \A x \in Observer : KeptOf(o)[x] = IF x = o THEN << >> ELSE <<x>>
  BY DEF KeptOf
<1>2. \A r \in Seq(Observer) : K(r) \in Seq(Observer) /\ K(<< >>) = << >>
  BY <1>1, FlatIs
<1>3. \A r \in Seq(Observer) : \A y \in Observer : K(Append(r, y)) = K(r) \o KeptOf(o)[y]
  BY <1>1, FlatMore
<1> HIDE DEF K
<1>4. << >> \in G
  <2>1. << >> \in Seq(Observer) /\ K(<< >>) = << >>
    BY <1>2
  <2>2. \A x : Occ(<< >>, x) = 0
    BY OccNone
  <2> QED BY <2>1, <2>2
<1>5. ASSUME NEW r \in Seq(Observer), NEW y \in Observer, r \in G PROVE Append(r, y) \in G
  <2>1. Append(r, y) \in Seq(Observer)
    OBVIOUS
  <2>2. ASSUME NEW x \in Observer
        PROVE  Occ(K(Append(r, y)), x) = IF x = o THEN 0 ELSE Occ(Append(r, y), x)
    <3>1. Occ(K(r), x) = IF x = o THEN 0 ELSE Occ(r, x)
      BY <1>5
    <3>2. Occ(Append(r, y), x) = Occ(r, x) + (IF y = x THEN 1 ELSE 0) /\ Occ(r, x) \in Nat
      BY OccAppend, OccIs
    <3>3. CASE y = o
      <4>1. K(Append(r, y)) = K(r)
        <5>1. K(Append(r, y)) = K(r) \o << >>
          BY <1>1, <1>3, <3>3
        <5>2. K(r) \o << >> = K(r)
          BY <1>2
        <5> QED BY <5>1, <5>2
      <4>2. x # o => Occ(Append(r, y), x) = Occ(r, x)
        BY <3>2, <3>3
      <4> QED BY <3>1, <4>1, <4>2
    <3>4. CASE y # o
      <4>1. K(Append(r, y)) = Append(K(r), y)
        <5>1. K(Append(r, y)) = K(r) \o <<y>>
          BY <1>1, <1>3, <3>4
        <5>2. K(r) \o <<y>> = Append(K(r), y)
          BY <1>2
        <5> QED BY <5>1, <5>2
      <4>2. Occ(Append(K(r), y), x) = Occ(K(r), x) + (IF y = x THEN 1 ELSE 0)
        BY <1>2, OccAppend
      <4> QED BY <3>1, <3>2, <3>4, <4>1, <4>2
    <3> QED BY <3>3, <3>4
  <2> QED BY <2>1, <2>2
<1>6. s \in G
  <2> HIDE DEF G
  <2> QED BY <1>4, <1>5, SeqInduction
<1> QED BY <1>2, <1>6 DEF K

LEMMA RemoveIs ==
  ASSUME NEW s \in Seq(Observer), NEW o \in Observer
  PROVE  SubSeq(remove(s, o).list, 1, remove(s, o).it) = Flat(KeptOf(o), s)
<1> DEFINE k == Flat(KeptOf(o), s)
<1>1. \A i \in DOMAIN s : KeptOf(o)[s[i]] = IF s[i] = o THEN << >> ELSE <<s[i]>>
  BY DEF KeptOf
<1>2. k = FlattenSeq([i \in DOMAIN s |-> IF s[i] = o THEN << >> ELSE <<s[i]>>])
  <2>1. [i \in DOMAIN s |-> KeptOf(o)[s[i]]] = [i \in DOMAIN s |-> IF s[i] = o THEN << >> ELSE <<s[i]>>]
    BY <1>1
  <2> QED BY <2>1 DEF Flat
<1>3. k \in Seq(Observer)
  BY KeptIs
<1>4. remove(s, o).list = k \o SubSeq(s, Len(k) + 1, Len(s)) /\ remove(s, o).it = Len(k)
  BY <1>2 DEF remove
<1> HIDE DEF k
<1>5. SubSeq(s, Len(k) + 1, Len(s)) \in Seq(Observer)
  <2>1. \A i \in (Len(k) + 1)..Len(s) : s[i] \in Observer
    BY <1>3
  <2> QED BY <1>3, <2>1, SubSeqProperties
<1>6. PICK r \in Seq(Observer) : r = SubSeq(s, Len(k) + 1, Len(s))
  BY <1>5
<1>7. PICK m \in Nat, n \in Nat : m = Len(k) /\ n = Len(r)
  BY <1>3
<1>8. PICK l : l = k \o r
  OBVIOUS
<1>9. l \in Seq(Observer) /\ IsCat(l, k, r, m, n)
  BY <1>3, <1>7, <1>8, Cat
<1>10. /\ 0 + Len(k) <= Len(l) /\ \A i \in 1..Len(k) : l[0 + i] = k[i]
       /\ 0 + 1 = 1 /\ 0 + Len(k) = Len(k)
  <2>1. Len(l) = m + n /\ \A i \in 1..m : l[i] = k[i]
    BY <1>9 DEF IsCat
  <2> QED BY <1>7, <2>1
<1>11. SubSeq(l, 0 + 1, 0 + Len(k)) = k
  BY <1>3, <1>9, <1>10, PartIs
<1>12. SubSeq(l, 1, Len(k)) = k
  BY <1>10, <1>11
<1> QED BY <1>4, <1>6, <1>8, <1>12 DEF k

-----------------------------------------------------------------------------
(* The lines on the console.                                               *)
LogLine == Message \cup {Refused}
LogLines(call, sent) == [x \in Observer |-> LinesOf(x, call, sent)]
Interested(call) == {o \in Observer : Handled[ClassOf[o]] = call}
Times(s) == [o \in Observer |-> Occ(s, o)]

LEMMA LinesAre ==
  ASSUME NEW call \in Calls \ {"error"}, NEW sent \in Message, NEW x \in Observer
  PROVE  /\ LinesOf(x, call, sent) \in Seq(LogLine)
         /\ x \notin Interested(call) => LinesOf(x, call, sent) = << >>
         /\ x \in Interested(call) => \/ LinesOf(x, call, sent) = <<sent>>
                                      \/ LinesOf(x, call, sent) = <<Refused>> \o <<sent>>
<1>1. << >> \in Seq(LogLine) /\ <<sent>> \in Seq(LogLine) /\ <<Refused>> \in Seq(LogLine)
  BY DEF LogLine
<1>2. <<Refused>> \o <<sent>> \in Seq(LogLine) /\ << >> \o <<sent>> = <<sent>>
  BY <1>1
<1>3. CASE x \in Interested(call)
  <2>1. LinesOf(x, call, sent) =
          (IF call # "warning" /\ ~Opened(PathOf[x]) THEN <<Refused>> ELSE << >>) \o <<sent>>
    BY <1>3 DEF LinesOf, Interested
  <2>2. CASE call # "warning" /\ ~Opened(PathOf[x])
    BY <1>2, <1>3, <2>1, <2>2
  <2>3. CASE ~(call # "warning" /\ ~Opened(PathOf[x]))
    <3>1. LinesOf(x, call, sent) = << >> \o <<sent>>
      BY <2>1, <2>3
    <3> QED BY <1>1, <1>2, <1>3, <3>1
  <2> QED BY <2>2, <2>3
<1>4. CASE x \notin Interested(call)
  <2>1. LinesOf(x, call, sent) = << >>
    BY <1>4 DEF LinesOf, Interested
  <2> QED BY <1>1, <1>4, <2>1
<1> QED BY <1>3, <1>4

LEMMA ConsoleIs ==
  ASSUME NEW call \in Calls \ {"error"}, NEW sent \in Message, NEW s \in Seq(Observer)
  PROVE  Occ(Flat(LogLines(call, sent), s), sent) = SumFunctionOnSet(Times(s), Interested(call))
<1> DEFINE L(r) == Flat(LogLines(call, sent), r)
           W == Interested(call)
           Sum(r) == SumFunctionOnSet(Times(r), W)
           G == {r \in Seq(Observer) : Occ(L(r), sent) = Sum(r)}
<1>1. /\ LogLines(call, sent) \in [Observer -> Seq(LogLine)]
      /\ \A x \in Observer : LogLines(call, sent)[x] = LinesOf(x, call, sent)
  BY LinesAre DEF LogLines
<1>2. \A r \in Seq(Observer) : L(r) \in Seq(LogLine) /\ L(<< >>) = << >>
  BY <1>1, FlatIs
<1>3. \A r \in Seq(Observer) : \A y \in Observer : L(Append(r, y)) = L(r) \o LinesOf(y, call, sent)
  <2>1. \A r \in Seq(Observer) : \A y \in Observer : L(Append(r, y)) = L(r) \o LogLines(call, sent)[y]
    <3>1. PICK F : F = LogLines(call, sent) /\ F \in [Observer -> Seq(LogLine)]
      BY <1>1
    <3>2. ASSUME NEW r \in Seq(Observer), NEW y \in Observer
          PROVE  Flat(F, Append(r, y)) = Flat(F, r) \o F[y]
      <4>1. F \in [Observer -> Seq(LogLine)]
        BY <3>1
      <4> HIDE DEF G, Sum, L, W
      <4> QED BY <4>1, FlatMore
    <3> QED BY <3>1, <3>2
  <2> QED BY <1>1, <2>1
<1>4. W \subseteq Observer /\ IsFiniteSet(W)
  BY ObserverAssumption, FS_Subset DEF Interested
<1>5. \A r \in Seq(Observer) : \A x \in Observer : Times(r)[x] = Occ(r, x) /\ Occ(r, x) \in Nat
  BY OccIs DEF Times
<1> HIDE DEF L, W
<1>6. << >> \in G
  <2>1. << >> \in Seq(Observer) /\ L(<< >>) = << >>
    BY <1>2
  <2>2. \A x : Occ(<< >>, x) = 0
    BY OccNone
  <2>3. \A x \in W : Times(<< >>)[x] = 0
    BY <1>4, <1>5, <2>1, <2>2
  <2>4. Sum(<< >>) = 0
    BY <1>4, <2>3, SumZero
  <2> QED BY <2>1, <2>2, <2>4
<1>7. ASSUME NEW r \in Seq(Observer), NEW y \in Observer, r \in G PROVE Append(r, y) \in G
  <2>1. PICK t \in Seq(Observer) : t = Append(r, y)
    <3>1. r \in Seq(Observer) /\ y \in Observer => Append(r, y) \in Seq(Observer)
      OBVIOUS
    <3> HIDE DEF G
    <3> QED BY <3>1
  <2>2. \A x \in Observer : Occ(t, x) = Occ(r, x) + (IF y = x THEN 1 ELSE 0)
    BY <2>1, OccAppend
  <2>3. Occ(L(r), sent) = Sum(r)
    BY <1>7
  <2>4. \A x \in W : Times(r)[x] \in Nat /\ Times(r)[x] = Occ(r, x) /\ Times(t)[x] = Occ(t, x)
    BY <1>4, <1>5
  <2>5. L(r) \in Seq(LogLine) /\ L(t) = L(r) \o LinesOf(y, call, sent)
    BY <1>2, <1>3, <2>1
  <2>6. CASE y \notin W
    <3>1. LinesOf(y, call, sent) = << >>
      BY <2>6, LinesAre DEF W
    <3>2. L(t) = L(r)
      BY <2>5, <3>1
    <3>3. \A x \in W : Times(r)[x] = Times(t)[x] /\ Times(r)[x] \in Nat
      <4> SUFFICES ASSUME NEW x \in W PROVE Times(r)[x] = Times(t)[x] /\ Times(r)[x] \in Nat
        OBVIOUS
      <4>1. x # y /\ x \in Observer
        BY <1>4, <2>6
      <4>2. Occ(t, x) = Occ(r, x)
        BY <1>5, <2>2, <4>1
      <4> QED BY <2>4, <4>2
    <3>4. Sum(r) = Sum(t)
      BY <1>4, <3>3, SumEqual
    <3> QED BY <2>1, <2>3, <3>2, <3>4
  <2>7. CASE y \in W
    <3>1. Times(t)[y] = Times(r)[y] + 1
      BY <2>2, <2>4, <2>7
    <3>2. \A x \in W \ {y} : Times(t)[x] = Times(r)[x]
      <4> SUFFICES ASSUME NEW x \in W \ {y} PROVE Times(t)[x] = Times(r)[x]
        OBVIOUS
      <4>1. x \in Observer /\ x \in W
        BY <1>4
      <4>2. Occ(t, x) = Occ(r, x)
        BY <1>5, <2>2, <4>1
      <4> QED BY <2>4, <4>1, <4>2
    <3>3. Sum(t) = Sum(r) + 1
      <4>1. 1 \in Nat /\ \A x \in W : Times(r)[x] \in Nat
        BY <2>4
      <4> QED BY <1>4, <2>7, <3>1, <3>2, <4>1, SumMore
    <3>4. PICK a \in Seq(LogLine) : a = L(r)
      BY <2>5
    <3>5. sent \in LogLine /\ Refused \in LogLine /\ Refused # sent
      BY ObserverAssumption DEF LogLine
    <3>6. Occ(Append(a, sent), sent) = Occ(a, sent) + 1
      BY <3>5, OccAppend
    <3>7. CASE LinesOf(y, call, sent) = <<sent>>
      <4>1. L(t) = Append(a, sent)
        <5>1. a \o <<sent>> = Append(a, sent)
          BY <3>5
        <5> QED BY <2>5, <3>4, <3>7, <5>1
      <4> QED BY <2>1, <2>3, <3>3, <3>4, <3>6, <4>1
    <3>8. CASE LinesOf(y, call, sent) = <<Refused>> \o <<sent>>
      <4>1. PICK b : b = Append(a, Refused)
        OBVIOUS
      <4>2. b \in Seq(LogLine)
        BY <3>5, <4>1
      <4>3. L(t) = Append(b, sent)
        <5>1. <<Refused>> \in Seq(LogLine) /\ <<sent>> \in Seq(LogLine)
          BY <3>5
        <5>2. a \o (<<Refused>> \o <<sent>>) = (a \o <<Refused>>) \o <<sent>>
          BY <5>1
        <5>3. a \o <<Refused>> = b
          BY <3>5, <4>1
        <5>4. b \o <<sent>> = Append(b, sent)
          BY <3>5, <4>2
        <5> QED BY <2>5, <3>4, <3>8, <5>2, <5>3, <5>4
      <4>4. Occ(b, sent) = Occ(a, sent)
        <5>1. Occ(b, sent) = Occ(a, sent) + 0
          BY <3>5, <4>1, OccAppend
        <5>2. Occ(a, sent) \in Nat
          BY OccIs
        <5> QED BY <5>1, <5>2
      <4>5. Occ(Append(b, sent), sent) = Occ(b, sent) + 1
        BY <3>5, <4>2, OccAppend
      <4> QED BY <2>1, <2>3, <3>3, <3>4, <4>3, <4>4, <4>5
    <3> QED BY <2>7, <3>7, <3>8, LinesAre DEF W
  <2> QED BY <2>6, <2>7
<1>8. s \in G
  <2> HIDE DEF G
  <2> QED BY <1>6, <1>7, SeqInduction
<1> QED BY <1>8 DEF L, W

-----------------------------------------------------------------------------
(* The files.                                                              *)
Writing(files, first, s, call, sent) ==
  files = [i \in 0..Len(s) |-> IF i = 0 THEN first ELSE Written(files[i - 1], s[i], call, sent)]

Left(first, s, call, sent) == (CHOOSE files : Writing(files, first, s, call, sent))[Len(s)]

Reached(s, call) == {PathOf[s[i]] : i \in {j \in DOMAIN s : s[j] \in Interested(call)}} \ Locked

LEMMA FilesAre ==
  ASSUME NEW first, DOMAIN first = Path, first = [p \in Path |-> first[p]],
         NEW s \in Seq(Observer), NEW call \in Calls \ {"warning"}, NEW sent \in Message
  PROVE  Left(first, s, call, sent)
           = [p \in Path |-> IF p \in Reached(s, call) THEN <<sent>> ELSE first[p]]
<1> DEFINE Texts == [Path -> {first[p] : p \in Path} \cup {<<sent>>}]
           F == [d \in 0..Len(s) |-> [x \in Texts |-> IF d = 0 THEN first ELSE Written(x, s[d], call, sent)]]
<1>1. \A i \in 1..Len(s) : s[i] \in Observer /\ PathOf[s[i]] \in Path
  BY ObserverAssumption
<1>2. ASSUME NEW x \in Texts, NEW i \in 1..Len(s)
      PROVE  /\ Written(x, s[i], call, sent) \in Texts
             /\ Written(x, s[i], call, sent) =
                  IF s[i] \in Interested(call) /\ PathOf[s[i]] \notin Locked
                  THEN [x EXCEPT ![PathOf[s[i]]] = <<sent>>] ELSE x
  <2>1. Written(x, s[i], call, sent) =
          IF s[i] \in Interested(call) /\ PathOf[s[i]] \notin Locked
          THEN [x EXCEPT ![PathOf[s[i]]] = <<sent>>] ELSE x
    BY <1>1 DEF Written, Saved, Opened, Interested
  <2>2. [x EXCEPT ![PathOf[s[i]]] = <<sent>>] \in Texts
    BY <1>1
  <2> QED BY <2>1, <2>2
<1>3. first \in Texts
  OBVIOUS
<1>4. CanIterate(Texts, first, 0, Len(s), F)
  <2>1. \A d \in 0..Len(s) : \A x \in Texts : F[d][x] \in Texts
    <3> SUFFICES ASSUME NEW d \in 0..Len(s), NEW x \in Texts PROVE F[d][x] \in Texts
      OBVIOUS
    <3>1. F[d][x] = IF d = 0 THEN first ELSE Written(x, s[d], call, sent)
      OBVIOUS
    <3>2. d # 0 => d \in 1..Len(s)
      OBVIOUS
    <3> HIDE DEF F, Texts
    <3> QED BY <1>2, <1>3, <3>1, <3>2
  <2>2. Len(s) \in Int
    OBVIOUS
  <2> HIDE DEF F, Texts
  <2> QED BY <1>3, <2>1, <2>2 DEF CanIterate
<1>5. PICK g : IsIteration(g, Texts, first, 0, Len(s), F)
  <2> HIDE DEF F, Texts
  <2> QED BY <1>4, Iteration
<1>6. \A d \in 0..Len(s) : \A x \in Texts : F[d][x] = IF d = 0 THEN first ELSE Written(x, s[d], call, sent)
  <2> HIDE DEF Texts
  <2> QED OBVIOUS
<1>7. /\ g \in [0..Len(s) -> Texts]
      /\ \A d \in 0..Len(s) : g[d] = IF d = 0 THEN first ELSE F[d][g[d-1]]
  <2> HIDE DEF F, Texts
  <2> QED BY <1>5 DEF IsIteration
<1> HIDE DEF F, Texts
<1>8. ASSUME NEW d \in 0..Len(s) PROVE g[d] = IF d = 0 THEN first ELSE Written(g[d-1], s[d], call, sent)
  <2>1. d # 0 => d - 1 \in 0..Len(s)
    OBVIOUS
  <2>2. d # 0 => g[d-1] \in Texts
    BY <1>7, <2>1
  <2> QED BY <1>6, <1>7, <2>2
<1>9. Writing(g, first, s, call, sent)
  BY <1>7, <1>8 DEF Writing
<1> DEFINE h == CHOOSE files : Writing(files, first, s, call, sent)
<1>10. Writing(h, first, s, call, sent)
  BY <1>9
<1> HIDE DEF h
<1>11. /\ h[0] = first
       /\ \A i \in 1..Len(s) : h[i] = Written(h[i-1], s[i], call, sent)
  BY <1>10 DEF Writing
<1> DEFINE Upto(n) == {PathOf[s[i]] : i \in {j \in 1..n : s[j] \in Interested(call)}} \ Locked
           After(n) == [p \in Path |-> IF p \in Upto(n) THEN <<sent>> ELSE first[p]]
           N == {n \in Nat : n <= Len(s) => h[n] = After(n)}
<1>12. \A n \in Nat : After(n) \in Texts
  BY DEF Texts
<1>13. 0 \in N
  <2>1. Upto(0) = {}
    OBVIOUS
  <2>2. After(0) = first
    BY <2>1
  <2> QED BY <1>11, <2>2
<1>14. ASSUME NEW n \in Nat, n \in N PROVE n + 1 \in N
  <2> SUFFICES ASSUME n + 1 <= Len(s) PROVE h[n + 1] = After(n + 1)
    <3> HIDE DEF After
    <3> QED OBVIOUS
  <2>1. n + 1 \in 1..Len(s) /\ (n + 1) - 1 = n /\ n <= Len(s)
    OBVIOUS
  <2>2. h[n] = After(n)
    BY <1>14, <2>1
  <2>3. PICK o \in Observer, q \in Path : o = s[n + 1] /\ q = PathOf[o]
    BY <1>1, <2>1
  <2>4. h[n + 1] = Written(After(n), s[n + 1], call, sent)
    BY <1>11, <2>1, <2>2
  <2>5. Written(After(n), s[n + 1], call, sent) =
          IF o \in Interested(call) /\ q \notin Locked THEN [After(n) EXCEPT ![q] = <<sent>>] ELSE After(n)
    <3> HIDE DEF After
    <3> QED BY <1>2, <1>12, <2>1, <2>3
  <2>6. Upto(n + 1) = IF o \in Interested(call) /\ q \notin Locked THEN Upto(n) \cup {q} ELSE Upto(n)
    <3>1. \A i : i \in 1..(n + 1) <=> i \in 1..n \/ i = n + 1
      OBVIOUS
    <3> QED BY <2>3, <3>1
  <2> HIDE DEF Upto
  <2>7. CASE o \in Interested(call) /\ q \notin Locked
    <3>1. [After(n) EXCEPT ![q] = <<sent>>] = [p \in Path |-> IF p \in Upto(n) \cup {q} THEN <<sent>> ELSE first[p]]
      OBVIOUS
    <3> QED BY <2>4, <2>5, <2>6, <2>7, <3>1
  <2>8. CASE ~(o \in Interested(call) /\ q \notin Locked)
    BY <2>4, <2>5, <2>6, <2>8
  <2> QED BY <2>7, <2>8
<1>15. Nat \subseteq N
  <2> HIDE DEF N
  <2> QED BY <1>13, <1>14, Induction
<1>16. h[Len(s)] = After(Len(s))
  <2>1. Len(s) \in Nat /\ Len(s) <= Len(s)
    OBVIOUS
  <2> HIDE DEF After
  <2> QED BY <1>15, <2>1
<1>17. Upto(Len(s)) = Reached(s, call)
  BY DEF Reached
<1> HIDE DEF Upto
<1> QED BY <1>16, <1>17 DEF h, Left

-----------------------------------------------------------------------------
LogInv ==
  /\ observers \in Seq(Observer)
  /\ registered = [o \in Observer |-> Occ(observers, o)]
  /\ DOMAIN file = Path /\ file = [p \in Path |-> file[p]]

(* A warning goes to the console alone.                                    *)
LEMMA WarningWrites ==
  ASSUME NEW s \in Seq(Observer), s = observers, NEW call, call = "warning", NEW sent,
         Notify(call, sent)
  PROVE  file' = file
<1>1. \A f, o : Written(f, o, call, sent) = f
  BY DEF Written
<1> DEFINE h == CHOOSE f : Writing(f, file, s, call, sent)
<1>2. file' = h[Len(s)]
  BY DEF Notify, Writing
<1>3. Writing([i \in 0..Len(s) |-> file], file, s, call, sent)
  <2>1. \A i \in 0..Len(s) : i # 0 => i - 1 \in 0..Len(s)
    OBVIOUS
  <2>2. \A i \in 0..Len(s) : i # 0 => Written([k \in 0..Len(s) |-> file][i - 1], s[i], call, sent) = file
    BY <1>1, <2>1
  <2> QED BY <2>2 DEF Writing
<1>4. Writing(h, file, s, call, sent)
  BY <1>3
<1> HIDE DEF h
<1>5. h[0] = file /\ \A i \in 1..Len(s) : h[i] = h[i - 1]
  BY <1>1, <1>4 DEF Writing
<1> DEFINE N == {n \in Nat : n <= Len(s) => h[n] = file}
<1>6. 0 \in N
  BY <1>5
<1>7. ASSUME NEW n \in Nat, n \in N PROVE n + 1 \in N
  <2>1. n + 1 <= Len(s) => n + 1 \in 1..Len(s) /\ (n + 1) - 1 = n /\ n <= Len(s)
    OBVIOUS
  <2> QED BY <1>5, <1>7, <2>1
<1>8. Nat \subseteq N
  <2> HIDE DEF N
  <2> QED BY <1>6, <1>7, Induction
<1>9. Len(s) \in Nat /\ Len(s) <= Len(s)
  OBVIOUS
<1>10. h[Len(s)] = file
  BY <1>8, <1>9
<1> QED BY <1>2, <1>10

LEMMA LogStart == LogInit => LogInv
<1> SUFFICES ASSUME LogInit PROVE LogInv
  OBVIOUS
<1>1. observers = << >> /\ << >> \in Seq(Observer) /\ \A o \in Observer : Occ(<< >>, o) = 0
  BY OccNone DEF LogInit
<1>2. registered = [o \in Observer |-> 0] /\ file = [p \in Path |-> << >>]
  BY DEF LogInit
<1> QED BY <1>1, <1>2 DEF LogInv

LEMMA LogStep == LogInv /\ [LogNext]_log_vars => LogInv'
<1> SUFFICES ASSUME LogInv, [LogNext]_log_vars PROVE LogInv'
  OBVIOUS
<1>0. PICK s \in Seq(Observer) : s = observers
  BY DEF LogInv
<1>1. ASSUME NEW o \in Observer, add_observer(o) PROVE LogInv'
  <2>1. observers' = Append(s, o) /\ Append(s, o) \in Seq(Observer)
    BY <1>0, <1>1 DEF add_observer
  <2>2. registered' = [registered EXCEPT ![o] = @ + 1] /\ file' = file
    BY <1>1 DEF add_observer
  <2>3. PICK t : t = Append(s, o)
    OBVIOUS
  <2>4. \A x \in Observer : Occ(t, x) = Occ(s, x) + (IF o = x THEN 1 ELSE 0) /\ Occ(s, x) \in Nat
    BY <2>3, OccAppend, OccIs
  <2>5. registered = [x \in Observer |-> Occ(s, x)]
    BY <1>0 DEF LogInv
  <2>6. \A x \in Observer : Occ(t, x) = IF x = o THEN Occ(s, x) + 1 ELSE Occ(s, x)
    BY <2>4
  <2>7. registered' = [x \in Observer |-> Occ(t, x)]
    BY <2>2, <2>5, <2>6
  <2> QED BY <2>1, <2>2, <2>3, <2>7 DEF LogInv
<1>2. ASSUME NEW o \in Observer, remove_observer(o) PROVE LogInv'
  <2>1. PICK t : t = Flat(KeptOf(o), s)
    OBVIOUS
  <2>2. t \in Seq(Observer) /\ \A x \in Observer : Occ(t, x) = IF x = o THEN 0 ELSE Occ(s, x)
    BY <2>1, KeptIs
  <2>3. observers' = SubSeq(remove(s, o).list, 1, remove(s, o).it)
    BY <1>0, <1>2 DEF remove_observer
  <2>4. observers' = t
    BY <2>1, <2>3, RemoveIs
  <2>5. registered' = [registered EXCEPT ![o] = 0] /\ file' = file
    BY <1>2 DEF remove_observer
  <2>6. registered = [x \in Observer |-> Occ(s, x)]
    BY <1>0 DEF LogInv
  <2>7. registered' = [x \in Observer |-> Occ(t, x)]
    BY <2>2, <2>5, <2>6
  <2> QED BY <2>2, <2>4, <2>5, <2>7 DEF LogInv
<1>3. ASSUME NEW call \in Calls, NEW sent \in Message, Notify(call, sent) PROVE LogInv'
  <2>1. UNCHANGED <<observers, registered>>
    BY <1>3 DEF Notify
  <2>2. DOMAIN file' = Path /\ file' = [p \in Path |-> file'[p]]
    <3>1. CASE call = "warning"
      <4>1. file' = file
        BY <1>0, <1>3, <3>1, WarningWrites DEF LogInv
      <4> QED BY <4>1 DEF LogInv
    <3>2. CASE call # "warning"
      <4>1. DOMAIN file = Path /\ file = [p \in Path |-> file[p]]
        BY DEF LogInv
      <4>2. file' = Left(file, s, call, sent)
        BY <1>0, <1>3 DEF Notify, Writing, Left
      <4>a. PICK first : first = file
        OBVIOUS
      <4>c. DOMAIN first = Path /\ first = [p \in Path |-> first[p]]
        BY <4>1, <4>a
      <4>d. Left(first, s, call, sent)
              = [p \in Path |-> IF p \in Reached(s, call) THEN <<sent>> ELSE first[p]]
        BY <3>2, <4>c, FilesAre
      <4>3. file' = [p \in Path |-> IF p \in Reached(s, call) THEN <<sent>> ELSE file[p]]
        BY <4>2, <4>a, <4>d
      <4>4. PICK f : f = [p \in Path |-> IF p \in Reached(s, call) THEN <<sent>> ELSE file[p]]
        OBVIOUS
      <4>5. DOMAIN f = Path /\ f = [p \in Path |-> f[p]]
        BY <4>4
      <4> QED BY <4>3, <4>4, <4>5
    <3> QED BY <3>1, <3>2
  <2> QED BY <2>1, <2>2 DEF LogInv
<1>4. ASSUME NEW sent \in Message, LogConsoleCommand(sent) PROVE LogInv'
  BY <1>4 DEF LogConsoleCommand, LogInv
<1>5. ASSUME NEW sent \in Message, NEW p \in Path, LogFileCommand(p, sent) PROVE LogInv'
  <2>1. UNCHANGED <<observers, registered>> /\ file' = IF p \notin Locked THEN [file EXCEPT ![p] = <<sent>>] ELSE file
    BY <1>5 DEF LogFileCommand, Saved, Opened
  <2>2. DOMAIN file = Path /\ file = [x \in Path |-> file[x]]
    BY DEF LogInv
  <2>3. DOMAIN file' = Path /\ file' = [x \in Path |-> file'[x]]
    BY <2>1, <2>2
  <2> QED BY <2>1, <2>3 DEF LogInv
<1>6. CASE UNCHANGED log_vars
  BY <1>6 DEF log_vars, LogInv
<1> QED BY <1>1, <1>2, <1>3, <1>4, <1>5, <1>6 DEF LogNext

(* A call reaches each observer as often as it has been added since it was *)
(* last removed, and no other, for any observers, any paths they share and *)
(* any calls before (__observers and the three calls of LogObserver in     *)
(* task_83-2.cpp, the commands of task_83-1.cpp).                          *)
THEOREM ObserversAreCalled == LogSpec => CallsReachObservers
<1>1. ASSUME LogInv, NEW call \in Calls, NEW m \in Message, Notify(call, m)
      PROVE  LET those == {o \in Observer : Handled[ClassOf[o]] = call}
                 paths == {PathOf[o] : o \in {x \in those : registered[x] > 0}} \ Locked
             IN /\ call # "error" =>
                     Cardinality({i \in DOMAIN console' : console'[i] = m})
                       = SumFunctionOnSet(registered, those)
                /\ call = "warning" => file' = file
                /\ call # "warning" =>
                     file' = [p \in Path |-> IF p \in paths THEN <<m>> ELSE file[p]]
  <2> DEFINE those == {o \in Observer : Handled[ClassOf[o]] = call}
             paths == {PathOf[o] : o \in {x \in those : registered[x] > 0}} \ Locked
  <2>0. PICK s \in Seq(Observer) : s = observers
    BY <1>1 DEF LogInv
  <2>1. registered = Times(s) /\ those = Interested(call)
    BY <1>1, <2>0 DEF LogInv, Times, Interested
  <2>2. ASSUME call # "error"
        PROVE  Cardinality({i \in DOMAIN console' : console'[i] = m}) = SumFunctionOnSet(registered, those)
    <3>1. console' = Flat(LogLines(call, m), s)
      <4>1. \A i \in DOMAIN s : s[i] \in Observer
        OBVIOUS
      <4>2. \A i \in DOMAIN s : LogLines(call, m)[s[i]] = LinesOf(s[i], call, m)
        BY <4>1 DEF LogLines
      <4>3. [i \in DOMAIN s |-> LogLines(call, m)[s[i]]] = [i \in DOMAIN s |-> LinesOf(s[i], call, m)]
        BY <4>2
      <4> QED BY <1>1, <2>0, <4>3 DEF Notify, Flat
    <3>2. Occ(Flat(LogLines(call, m), s), m) = SumFunctionOnSet(Times(s), Interested(call))
      BY <2>2, ConsoleIs
    <3>3. Occ(console', m) = SumFunctionOnSet(registered, those)
      BY <2>1, <3>1, <3>2
    <3> QED BY <3>3 DEF Occ
  <2>3. call = "warning" => file' = file
    BY <1>1, <2>0, WarningWrites DEF LogInv
  <2>4. ASSUME call # "warning"
        PROVE  file' = [p \in Path |-> IF p \in paths THEN <<m>> ELSE file[p]]
    <3>1. DOMAIN file = Path /\ file = [p \in Path |-> file[p]]
      BY <1>1 DEF LogInv
    <3>2. file' = Left(file, s, call, m)
      BY <1>1, <2>0 DEF Notify, Writing, Left
    <3>a. PICK first : first = file
      OBVIOUS
    <3>c. DOMAIN first = Path /\ first = [p \in Path |-> first[p]]
      BY <3>1, <3>a
    <3>d. Left(first, s, call, m)
            = [p \in Path |-> IF p \in Reached(s, call) THEN <<m>> ELSE first[p]]
      BY <2>4, <3>c, FilesAre
    <3>3. file' = [p \in Path |-> IF p \in Reached(s, call) THEN <<m>> ELSE file[p]]
      BY <3>2, <3>a, <3>d
    <3>4. Reached(s, call) = paths
      <4>1. \A o \in Observer : registered[o] > 0 <=> \E i \in DOMAIN s : s[i] = o
        BY <2>1, OccIs DEF Times
      <4>2. \A i \in DOMAIN s : s[i] \in Observer
        OBVIOUS
      <4>3. {PathOf[s[i]] : i \in {j \in DOMAIN s : s[j] \in Interested(call)}}
              = {PathOf[o] : o \in {x \in Interested(call) : registered[x] > 0}}
        <5>1. Interested(call) \subseteq Observer
          BY DEF Interested
        <5>2. \A o : o \in {x \in Interested(call) : registered[x] > 0} <=> \E i \in DOMAIN s : s[i] = o /\ s[i] \in Interested(call)
          BY <4>1, <5>1
        <5> QED BY <5>2
      <4> QED BY <2>1, <4>3 DEF Reached
    <3> QED BY <3>3, <3>4
  <2> QED BY <2>2, <2>3, <2>4
<1>2. LogSpec => []LogInv
  BY LogStart, LogStep, PTL DEF LogSpec
<1>3. LogInv => CallReaches
  BY <1>1 DEF CallReaches
<1> QED BY <1>2, <1>3, PTL DEF CallsReachObservers

-----------------------------------------------------------------------------
(* Decorators: the texts.                                                  *)
Piece == StringValue \cup {Sign(Tag[d]) : d \in Decorator}
Printing == [StringValue -> Seq(Piece)]
TagIn == [d \in Decorator |-> IF d = "Reversed" THEN << >> ELSE <<d>>]
Turned(x, flip) == [name |-> x.name, backwards |-> IF flip THEN ~x.backwards ELSE x.backwards]

(* Says for a text that may already be turned.                             *)
Shows(output, around, x) ==
  LET tags == Flat(TagIn, around)
      n == Len(tags)
  IN /\ Len(output) = 2 * n + 1
     /\ \A i \in 1..n : output[n + 1 - i] = Sign(Tag[tags[i]]) /\ output[n + 1 + i] = Sign(Tag[tags[i]])
     /\ output[n + 1] = Turned(x, (Len(around) - n) % 2 = 1)

LEMMA TagsType ==
  /\ TagIn \in [Decorator -> Seq(Decorator)]
  /\ Flat(TagIn, << >>) = << >>
  /\ \A a \in Seq(Decorator) : Flat(TagIn, a) \in Seq(Decorator)
<1>1. TagIn \in [Decorator -> Seq(Decorator)]
  <2>1. \A d \in Decorator : (IF d = "Reversed" THEN << >> ELSE <<d>>) \in Seq(Decorator)
    OBVIOUS
  <2> QED BY <2>1 DEF TagIn
<1>2. << >> \in Seq(Decorator)
  OBVIOUS
<1> QED BY <1>1, <1>2, FlatIs

LEMMA TagsMore ==
  ASSUME NEW a \in Seq(Decorator), NEW d \in Decorator
  PROVE  Flat(TagIn, Append(a, d)) = IF d = "Reversed" THEN Flat(TagIn, a) ELSE Append(Flat(TagIn, a), d)
<1>1. Flat(TagIn, Append(a, d)) = Flat(TagIn, a) \o TagIn[d]
  <2>1. TagIn \in [Decorator -> Seq(Decorator)]
    BY TagsType
  <2> QED BY <2>1, FlatMore
<1>2. PICK t \in Seq(Decorator) : t = Flat(TagIn, a)
  BY TagsType
<1>3. TagIn[d] = IF d = "Reversed" THEN << >> ELSE <<d>>
  BY DEF TagIn
<1>4. t \o << >> = t /\ t \o <<d>> = Append(t, d)
  OBVIOUS
<1> QED BY <1>1, <1>2, <1>3, <1>4

LEMMA TagsAre ==
  ASSUME NEW a \in Seq(Decorator)
  PROVE  Flat(TagIn, a) = FlattenSeq([i \in DOMAIN a |-> IF a[i] = "Reversed" THEN << >> ELSE <<a[i]>>])
<1>1. \A i \in DOMAIN a : a[i] \in Decorator
  OBVIOUS
<1>2. \A i \in DOMAIN a : TagIn[a[i]] = IF a[i] = "Reversed" THEN << >> ELSE <<a[i]>>
  BY <1>1 DEF TagIn
<1>3. [i \in DOMAIN a |-> TagIn[a[i]]] = [i \in DOMAIN a |-> IF a[i] = "Reversed" THEN << >> ELSE <<a[i]>>]
  BY <1>2
<1> QED BY <1>3 DEF Flat

(* A text alone, by a SimpleText or a Link.                                *)
LEMMA ShowsAlone ==
  ASSUME NEW x \in StringValue
  PROVE  Shows(<<x>>, << >>, x)
<1>1. PICK none : none = Flat(TagIn, << >>) /\ none = << >>
  BY TagsType
<1>2. Len(<< >>) = 0 /\ 2 * 0 + 1 = 1 /\ 0 + 1 = 1 /\ (Len(<< >>) - 0) % 2 = 0 /\ 1..0 = {}
  OBVIOUS
<1>3. Turned(x, FALSE) = x
  BY DEF Turned, StringValue
<1>4. Len(<<x>>) = 1 /\ <<x>>[1] = x
  OBVIOUS
<1>5. Turned(x, (Len(<< >>) - 0) % 2 = 1) = Turned(x, FALSE)
  <2>1. ~((Len(<< >>) - 0) % 2 = 1)
    BY <1>2
  <2> QED BY <2>1 DEF Turned
<1>6. Len(none) = 0
  BY <1>1
<1> QED BY <1>1, <1>2, <1>3, <1>4, <1>5, <1>6 DEF Shows

LEMMA ShowsTurned ==
  ASSUME NEW y, NEW a \in Seq(Decorator), NEW x \in StringValue, Shows(y, a, Backwards(x))
  PROVE  Shows(y, Append(a, "Reversed"), x)
<1>1. PICK t \in Seq(Decorator), n \in Nat, m \in Nat : t = Flat(TagIn, a) /\ n = Len(t) /\ m = Len(a)
  <2>1. Flat(TagIn, a) \in Seq(Decorator)
    BY TagsType
  <2> QED BY <2>1
<1>2. Flat(TagIn, Append(a, "Reversed")) = t
  <2>1. "Reversed" \in Decorator
    BY DEF Decorator
  <2> QED BY <1>1, <2>1, TagsMore
<1>3. Len(Append(a, "Reversed")) = m + 1
  BY <1>1
<1>4. ((m + 1) - n) % 2 = 1 <=> (m - n) % 2 # 1
  BY <1>1
<1>5. Turned(Backwards(x), FALSE) = Turned(x, TRUE) /\ Turned(Backwards(x), TRUE) = Turned(x, FALSE)
  <2>1. Backwards(x).name = x.name /\ Backwards(x).backwards = ~x.backwards /\ x.backwards \in BOOLEAN
    BY DEF Backwards, StringValue
  <2> QED BY <2>1 DEF Turned
<1>6. Turned(Backwards(x), (m - n) % 2 = 1) = Turned(x, ((m + 1) - n) % 2 = 1)
  <2>1. CASE (m - n) % 2 = 1
    <3>1. Turned(Backwards(x), (m - n) % 2 = 1) = Turned(Backwards(x), TRUE)
      BY <2>1 DEF Turned
    <3>2. Turned(x, ((m + 1) - n) % 2 = 1) = Turned(x, FALSE)
      BY <1>4, <2>1 DEF Turned
    <3> QED BY <1>5, <3>1, <3>2
  <2>2. CASE (m - n) % 2 # 1
    <3>1. Turned(Backwards(x), (m - n) % 2 = 1) = Turned(Backwards(x), FALSE)
      BY <2>2 DEF Turned
    <3>2. Turned(x, ((m + 1) - n) % 2 = 1) = Turned(x, TRUE)
      BY <1>4, <2>2 DEF Turned
    <3> QED BY <1>5, <3>1, <3>2
  <2> QED BY <2>1, <2>2
<1>7. /\ Len(y) = 2 * n + 1
      /\ \A i \in 1..n : y[n + 1 - i] = Sign(Tag[t[i]]) /\ y[n + 1 + i] = Sign(Tag[t[i]])
      /\ y[n + 1] = Turned(Backwards(x), (m - n) % 2 = 1)
  BY <1>1 DEF Shows
<1>8. y[n + 1] = Turned(x, ((m + 1) - n) % 2 = 1)
  BY <1>6, <1>7
<1> QED BY <1>1, <1>2, <1>3, <1>7, <1>8 DEF Shows

LEMMA ShowsTagged ==
  ASSUME NEW y \in Seq(Piece), NEW a \in Seq(Decorator), NEW x \in StringValue, Shows(y, a, x),
         NEW d \in Decorator, d # "Reversed"
  PROVE  Shows(<<Sign(Tag[d])>> \o y \o <<Sign(Tag[d])>>, Append(a, d), x)
<1>1. PICK t \in Seq(Decorator), n \in Nat, m \in Nat : t = Flat(TagIn, a) /\ n = Len(t) /\ m = Len(a)
  <2>1. Flat(TagIn, a) \in Seq(Decorator)
    BY TagsType
  <2> QED BY <2>1
<1>2. PICK g \in Piece : g = Sign(Tag[d])
  BY DEF Piece
<1>3. PICK u : u = Flat(TagIn, Append(a, d))
  OBVIOUS
<1>4. u = Append(t, d) /\ Len(u) = n + 1 /\ u[n + 1] = d /\ \A i \in 1..n : u[i] = t[i]
  <2>1. u = Append(t, d)
    BY <1>1, <1>3, TagsMore
  <2> QED BY <1>1, <2>1
<1>5. Len(Append(a, d)) = m + 1 /\ (m + 1) - (n + 1) = m - n
  BY <1>1
<1>6. /\ Len(y) = 2 * n + 1
      /\ \A i \in 1..n : y[n + 1 - i] = Sign(Tag[t[i]]) /\ y[n + 1 + i] = Sign(Tag[t[i]])
      /\ y[n + 1] = Turned(x, (m - n) % 2 = 1)
  BY <1>1 DEF Shows
<1>7. PICK v, w : v = <<g>> \o y /\ w = v \o <<g>>
  OBVIOUS
<1>8. /\ v \in Seq(Piece) /\ Len(v) = 2 * n + 2 /\ v[1] = g
      /\ \A k \in 1..(2 * n + 1) : v[1 + k] = y[k]
  <2>1. <<g>> \in Seq(Piece) /\ Len(<<g>>) = 1 /\ <<g>>[1] = g
    BY <1>2
  <2>2. v \in Seq(Piece) /\ IsCat(v, <<g>>, y, 1, 2 * n + 1)
    BY <1>6, <1>7, <2>1, Cat
  <2>3. 1 + (2 * n + 1) = 2 * n + 2 /\ 1 \in 1..1
    OBVIOUS
  <2> QED BY <2>1, <2>2, <2>3 DEF IsCat
<1>9. /\ w \in Seq(Piece) /\ Len(w) = 2 * n + 3 /\ w[2 * n + 3] = g
      /\ \A k \in 1..(2 * n + 2) : w[k] = v[k]
  <2>1. <<g>> \in Seq(Piece) /\ Len(<<g>>) = 1 /\ <<g>>[1] = g
    BY <1>2
  <2>2. w \in Seq(Piece) /\ IsCat(w, v, <<g>>, 2 * n + 2, 1)
    BY <1>7, <1>8, <2>1, Cat
  <2>3. (2 * n + 2) + 1 = 2 * n + 3 /\ 1 \in 1..1
    OBVIOUS
  <2> QED BY <2>1, <2>2, <2>3 DEF IsCat
<1>10. w[1] = g /\ w[2 * n + 3] = g /\ \A k \in 1..(2 * n + 1) : w[1 + k] = y[k]
  <2>1. 1 \in 1..(2 * n + 2) /\ \A k \in 1..(2 * n + 1) : 1 + k \in 1..(2 * n + 2)
    OBVIOUS
  <2> QED BY <1>8, <1>9, <2>1
<1>11. w[n + 2] = Turned(x, (m - n) % 2 = 1)
  <2>1. n + 1 \in 1..(2 * n + 1) /\ 1 + (n + 1) = n + 2
    OBVIOUS
  <2> QED BY <1>6, <1>10, <2>1
<1>12. ASSUME NEW i \in 1..(n + 1)
       PROVE  w[n + 2 - i] = Sign(Tag[u[i]]) /\ w[n + 2 + i] = Sign(Tag[u[i]])
  <2>1. CASE i = n + 1
    <3>1. n + 2 - (n + 1) = 1 /\ n + 2 + (n + 1) = 2 * n + 3
      OBVIOUS
    <3> QED BY <1>2, <1>4, <1>10, <2>1, <3>1
  <2>2. CASE i # n + 1
    <3>1. /\ i \in 1..n /\ n + 1 - i \in 1..(2 * n + 1) /\ n + 1 + i \in 1..(2 * n + 1)
          /\ 1 + (n + 1 - i) = n + 2 - i /\ 1 + (n + 1 + i) = n + 2 + i
      BY <2>2
    <3>2. w[n + 2 - i] = y[n + 1 - i] /\ w[n + 2 + i] = y[n + 1 + i]
      BY <1>10, <3>1
    <3> QED BY <1>4, <1>6, <3>1, <3>2
  <2> QED BY <2>1, <2>2
<1>13. Len(w) = 2 * (n + 1) + 1 /\ (n + 1) + 1 = n + 2
  BY <1>9
<1>14. Shows(w, Append(a, d), x)
  BY <1>1, <1>3, <1>4, <1>5, <1>11, <1>12, <1>13 DEF Shows
<1> QED BY <1>2, <1>7, <1>14

-----------------------------------------------------------------------------
Links(o) == {i \in DOMAIN o : o[i] = "Link"}
Top(o) == IF Links(o) = {} THEN 0 ELSE Max(Links(o))

LEMMA TopIs ==
  ASSUME NEW o \in Seq(Decorator)
  PROVE  /\ Top(o) \in 0..Len(o) /\ Around(o) = SubSeq(o, 1 + Top(o), Len(o))
         /\ Around(o) \in Seq(Decorator) /\ Len(Around(o)) = Len(o) - Top(o)
         /\ \A k \in 1..(Len(o) - Top(o)) : Around(o)[k] = o[Top(o) + k]
<1>1. PICK n \in Nat : n = Len(o) /\ DOMAIN o = 1..n
  OBVIOUS
<1>2. Top(o) \in 0..n
  <2>1. CASE Links(o) = {}
    BY <2>1 DEF Top
  <2>2. CASE Links(o) # {}
    <3>1. Links(o) \in SUBSET Nat /\ \A i \in Links(o) : i \in 0..n /\ i <= n
      BY <1>1 DEF Links
    <3>2. Max(Links(o)) \in Links(o)
      BY <1>1, <2>2, <3>1, MaxIs
    <3> QED BY <2>2, <3>1, <3>2 DEF Top
  <2> QED BY <2>1, <2>2
<1>3. Around(o) = SubSeq(o, 1 + Top(o), Len(o))
  BY DEF Around, Top, Links
<1>4. PICK m \in Nat : m = Top(o) /\ m <= n
  BY <1>2
<1>5. PICK s : s = SubSeq(o, 1 + m, n)
  OBVIOUS
<1>6. 1 + m \in Int /\ n \in Int /\ 1 <= 1 + m /\ 1 + m <= n + 1 /\ n <= Len(o) /\ n - (1 + m) + 1 = n - m
  BY <1>1, <1>4
<1>7. /\ s \in Seq(Decorator) /\ Len(s) = n - m
      /\ \A k \in 1..(n - m) : s[k] = o[(1 + m) + k - 1]
  BY <1>5, <1>6, Cut
<1>8. \A k \in 1..(n - m) : (1 + m) + k - 1 = m + k
  BY <1>4
<1> QED BY <1>1, <1>2, <1>3, <1>4, <1>5, <1>7, <1>8

LEMMA AroundMore ==
  ASSUME NEW o \in Seq(Decorator), NEW d \in Decorator
  PROVE  Around(Append(o, d)) = IF d = "Link" THEN << >> ELSE Append(Around(o), d)
<1>1. PICK n \in Nat : n = Len(o) /\ DOMAIN o = 1..n
  OBVIOUS
<1>2. PICK p \in Seq(Decorator) : p = Append(o, d)
  <2>1. Append(o, d) \in Seq(Decorator)
    OBVIOUS
  <2> QED BY <2>1
<1>3. Len(p) = n + 1 /\ DOMAIN p = 1..(n + 1) /\ p[n + 1] = d /\ \A i \in 1..n : p[i] = o[i]
  BY <1>1, <1>2
<1>4. PICK m \in Nat : m = Top(o) /\ m <= n
  BY <1>1, TopIs
<1>5. PICK a : a = Around(o)
  OBVIOUS
<1>6. a \in Seq(Decorator) /\ Len(a) = n - m /\ \A k \in 1..(n - m) : a[k] = o[m + k]
  BY <1>1, <1>4, <1>5, TopIs
<1>7. PICK b : b = Around(p)
  OBVIOUS
<1>8. PICK l \in Nat : l = Top(p) /\ l <= n + 1
  BY <1>3, TopIs
<1>9. b \in Seq(Decorator) /\ Len(b) = (n + 1) - l /\ \A k \in 1..((n + 1) - l) : b[k] = p[l + k]
  BY <1>3, <1>7, <1>8, TopIs
<1>10. \A i : i \in 1..(n + 1) <=> i \in 1..n \/ i = n + 1
  BY <1>1
<1>11. Links(p) = IF d = "Link" THEN Links(o) \cup {n + 1} ELSE Links(o)
  BY <1>1, <1>3, <1>10 DEF Links
<1>12. CASE d = "Link"
  <2>1. Links(p) \in SUBSET Nat /\ n + 1 \in Links(p) /\ \A i \in Links(p) : i <= n + 1
    BY <1>3, <1>11, <1>12 DEF Links
  <2>2. Max(Links(p)) \in Nat /\ Max(Links(p)) <= n + 1 /\ n + 1 <= Max(Links(p))
    <3>1. n + 1 \in Nat /\ Links(p) # {}
      BY <2>1
    <3>2. Max(Links(p)) \in Links(p) /\ \A i \in Links(p) : i <= Max(Links(p))
      BY <2>1, <3>1, MaxIs
    <3> QED BY <2>1, <3>2
  <2>3. l = n + 1
    BY <1>8, <2>1, <2>2 DEF Top
  <2>4. Len(b) = 0
    BY <1>9, <2>3
  <2>5. b = << >>
    BY <1>9, <2>4
  <2> QED BY <1>2, <1>7, <1>12, <2>5
<1>13. CASE d # "Link"
  <2>1. l = m
    BY <1>4, <1>8, <1>11, <1>13 DEF Top
  <2>2. PICK c \in Seq(Decorator) : c = Append(a, d)
    <3>1. Append(a, d) \in Seq(Decorator)
      BY <1>6
    <3> QED BY <3>1
  <2>3. Len(c) = (n - m) + 1 /\ c[(n - m) + 1] = d /\ \A k \in 1..(n - m) : c[k] = a[k]
    BY <1>6, <2>2
  <2>4. Len(b) = Len(c)
    BY <1>4, <1>9, <2>1, <2>3
  <2>5. ASSUME NEW k \in 1..Len(b) PROVE b[k] = c[k]
    <3>1. k \in 1..((n + 1) - m) /\ b[k] = p[m + k]
      BY <1>9, <2>1
    <3>2. CASE k = (n - m) + 1
      <4>1. m + ((n - m) + 1) = n + 1
        OBVIOUS
      <4>2. m + k = n + 1
        BY <3>2, <4>1
      <4>3. b[k] = d
        BY <1>3, <3>1, <4>2
      <4>4. c[k] = d
        BY <2>3, <3>2
      <4> QED BY <4>3, <4>4
    <3>3. CASE k # (n - m) + 1
      <4>a. \A j \in 1..((n + 1) - m) : j # (n - m) + 1 => j \in 1..(n - m) /\ m + j \in 1..n
        BY <1>4, SMTT(30)
      <4>1. k \in 1..(n - m) /\ m + k \in 1..n
        BY <3>1, <3>3, <4>a
      <4> QED BY <1>3, <1>6, <2>3, <3>1, <4>1
    <3> QED BY <3>2, <3>3
  <2>6. b = c
    BY <1>9, <2>4, <2>5, SameSeq
  <2> QED BY <1>2, <1>5, <1>7, <1>13, <2>2, <2>6
<1> QED BY <1>12, <1>13

LEMMA AroundNone == Around(<< >>) = << >>
<1>1. << >> \in Seq(Decorator) /\ Len(<< >>) = 0
  OBVIOUS
<1>2. PICK a : a = Around(<< >>)
  OBVIOUS
<1>3. a \in Seq(Decorator) /\ Len(a) = 0
  <2>1. Top(<< >>) \in 0..0 /\ a \in Seq(Decorator) /\ Len(a) = 0 - Top(<< >>)
    BY <1>1, <1>2, TopIs
  <2> QED BY <2>1
<1> QED BY <1>2, <1>3

-----------------------------------------------------------------------------
(* What each decorator prints.                                             *)
LEMMA StartIs ==
  /\ [x \in StringValue |-> <<x>>] \in Printing
  /\ \A x \in StringValue : Shows([y \in StringValue |-> <<y>>][x], << >>, x)
<1>1. \A x \in StringValue : <<x>> \in Seq(Piece)
  BY DEF Piece
<1>2. \A x \in StringValue : Shows(<<x>>, << >>, x)
  BY ShowsAlone
<1> QED BY <1>1, <1>2 DEF Printing

LEMMA DecoratedType ==
  ASSUME NEW below \in Printing, NEW d \in Decorator
  PROVE  Decorated(below, d) \in Printing
<1>1. ASSUME NEW x \in StringValue
      PROVE  /\ <<x>> \in Seq(Piece)
             /\ below[Backwards(x)] \in Seq(Piece)
             /\ <<Sign(Tag[d])>> \o below[x] \o <<Sign(Tag[d])>> \in Seq(Piece)
  <2>1. Backwards(x) \in StringValue
    BY DEF Backwards, StringValue
  <2>2. x \in Piece /\ Sign(Tag[d]) \in Piece /\ below[x] \in Seq(Piece) /\ below[Backwards(x)] \in Seq(Piece)
    BY <2>1 DEF Piece, Printing
  <2>3. PICK g \in Piece, y \in Seq(Piece) : g = Sign(Tag[d]) /\ y = below[x]
    BY <2>2
  <2>4. <<g>> \o y \o <<g>> \in Seq(Piece) /\ <<x>> \in Seq(Piece)
    BY <2>2
  <2> QED BY <2>2, <2>3, <2>4
<1> QED BY <1>1 DEF Decorated, Printing

LEMMA DecoratedSaid ==
  ASSUME NEW below \in Printing, NEW o \in Seq(Decorator), NEW d \in Decorator,
         \A x \in StringValue : Shows(below[x], Around(o), x),
         NEW x \in StringValue
  PROVE  Shows(Decorated(below, d)[x], Around(Append(o, d)), x)
<1>1. PICK a \in Seq(Decorator) : a = Around(o)
  BY TopIs
<1>2. CASE d = "Link"
  <2>1. Decorated(below, d)[x] = <<x>>
    BY <1>2 DEF Decorated
  <2>2. Around(Append(o, d)) = << >>
    BY <1>2, AroundMore
  <2> QED BY <2>1, <2>2, ShowsAlone
<1>3. CASE d = "Reversed"
  <2>1. Decorated(below, d)[x] = below[Backwards(x)]
    BY <1>3 DEF Decorated
  <2>2. Backwards(x) \in StringValue
    BY DEF Backwards, StringValue
  <2>3. Shows(below[Backwards(x)], a, Backwards(x))
    BY <1>1, <2>2
  <2>4. Around(Append(o, d)) = Append(a, "Reversed")
    BY <1>1, <1>3, AroundMore
  <2> QED BY <2>1, <2>3, <2>4, ShowsTurned
<1>4. CASE d # "Link" /\ d # "Reversed"
  <2>1. Decorated(below, d)[x] = <<Sign(Tag[d])>> \o below[x] \o <<Sign(Tag[d])>>
    BY <1>4 DEF Decorated
  <2>2. PICK y \in Seq(Piece) : y = below[x]
    BY DEF Printing
  <2>3. Shows(y, a, x)
    BY <1>1, <2>2
  <2>4. Around(Append(o, d)) = Append(a, d)
    BY <1>1, <1>4, AroundMore
  <2>5. Shows(<<Sign(Tag[d])>> \o y \o <<Sign(Tag[d])>>, Append(a, d), x)
    BY <1>4, <2>3, ShowsTagged
  <2> QED BY <2>1, <2>2, <2>4, <2>5
<1> QED BY <1>2, <1>3, <1>4

LEMMA PrefixMore ==
  ASSUME NEW S, NEW s \in Seq(S), NEW n \in Nat, n < Len(s)
  PROVE  /\ SubSeq(s, 1, n) \in Seq(S) /\ s[n + 1] \in S
         /\ SubSeq(s, 1, n + 1) = Append(SubSeq(s, 1, n), s[n + 1])
<1>1. PICK m \in Nat : m = Len(s) /\ n < m /\ n + 1 \in 1..m
  OBVIOUS
<1>2. s[n + 1] \in S
  BY <1>1
<1>3. PICK a, b : a = SubSeq(s, 1, n) /\ b = SubSeq(s, 1, n + 1)
  OBVIOUS
<1>4. a \in Seq(S) /\ Len(a) = n /\ \A i \in 1..n : a[i] = s[i]
  <2>1. 1 \in Int /\ n \in Int /\ 1 <= 1 /\ 1 <= n + 1 /\ n <= Len(s) /\ n - 1 + 1 = n /\ \A i \in 1..n : 1 + i - 1 = i
    BY <1>1
  <2> QED BY <1>3, <2>1, Cut
<1>5. b \in Seq(S) /\ Len(b) = n + 1 /\ \A i \in 1..(n + 1) : b[i] = s[i]
  <2>1. /\ 1 \in Int /\ n + 1 \in Int /\ 1 <= 1 /\ 1 <= (n + 1) + 1 /\ n + 1 <= Len(s) /\ (n + 1) - 1 + 1 = n + 1
        /\ \A i \in 1..(n + 1) : 1 + i - 1 = i
    BY <1>1
  <2> QED BY <1>3, <2>1, Cut
<1>6. PICK c : c = Append(a, s[n + 1])
  OBVIOUS
<1>7. c \in Seq(S) /\ Len(c) = n + 1 /\ c[n + 1] = s[n + 1] /\ \A i \in 1..n : c[i] = a[i]
  BY <1>2, <1>4, <1>6
<1>8. \A i \in 1..(n + 1) : i \in 1..n \/ i = n + 1
  OBVIOUS
<1>9. \A i \in 1..(n + 1) : b[i] = c[i]
  BY <1>4, <1>5, <1>7, <1>8
<1>10. b = c
  BY <1>5, <1>7, <1>9, SameSeq
<1> QED BY <1>2, <1>3, <1>4, <1>6, <1>10

Rendering(r, obj) ==
  r = [i \in 0..Len(obj) |->
         IF i = 0 THEN [text \in StringValue |-> <<text>>] ELSE Decorated(r[i - 1], obj[i])]

(* What is printed at every height of an object.                           *)
LEMMA RenderIs ==
  ASSUME NEW o \in Seq(Decorator), NEW k \in 0..Len(o), NEW x \in StringValue
  PROVE  /\ render(o)[k][x] \in Seq(Piece)
         /\ Shows(render(o)[k][x], Around(SubSeq(o, 1, k)), x)
<1> DEFINE first == [y \in StringValue |-> <<y>>]
           F == [d \in 0..Len(o) |-> [below \in Printing |-> IF d = 0 THEN first ELSE Decorated(below, o[d])]]
<1>1. \A i \in 1..Len(o) : o[i] \in Decorator
  OBVIOUS
<1>2. first \in Printing
  BY StartIs
<1> HIDE DEF first
<1>3. \A d \in 0..Len(o) : \A b \in Printing : F[d][b] = IF d = 0 THEN first ELSE Decorated(b, o[d])
  OBVIOUS
<1> HIDE DEF F
<1>4. CanIterate(Printing, first, 0, Len(o), F)
  <2>1. ASSUME NEW d \in 0..Len(o), NEW b \in Printing PROVE F[d][b] \in Printing
    <3>1. d # 0 => d \in 1..Len(o)
      OBVIOUS
    <3>2. d # 0 => Decorated(b, o[d]) \in Printing
      BY <1>1, <3>1, DecoratedType
    <3> QED BY <1>2, <1>3, <3>2
  <2>2. Len(o) \in Int /\ 0 \in Int
    OBVIOUS
  <2> QED BY <1>2, <2>1, <2>2 DEF CanIterate
<1>5. PICK g : IsIteration(g, Printing, first, 0, Len(o), F)
  BY <1>4, Iteration
<1>6. /\ g \in [0..Len(o) -> Printing]
      /\ \A d \in 0..Len(o) : g[d] = IF d = 0 THEN first ELSE F[d][g[d-1]]
  BY <1>5 DEF IsIteration
<1>7. ASSUME NEW d \in 0..Len(o) PROVE g[d] = IF d = 0 THEN first ELSE Decorated(g[d-1], o[d])
  <2>1. d # 0 => d - 1 \in 0..Len(o)
    OBVIOUS
  <2>2. d # 0 => g[d-1] \in Printing
    BY <1>6, <2>1
  <2> QED BY <1>3, <1>6, <2>2
<1>8. Rendering(g, o)
  BY <1>6, <1>7 DEF Rendering, first
<1> DEFINE h == render(o)
<1>9. Rendering(h, o)
  BY <1>8 DEF render, Rendering
<1> HIDE DEF h
<1>10. h[0] = first /\ \A i \in 1..Len(o) : h[i] = Decorated(h[i-1], o[i])
  <2>1. h = [i \in 0..Len(o) |-> IF i = 0 THEN first ELSE Decorated(h[i-1], o[i])]
    BY <1>9 DEF Rendering, first
  <2>2. 0 \in 0..Len(o) /\ \A i \in 1..Len(o) : i \in 0..Len(o) /\ i # 0
    OBVIOUS
  <2> QED BY <2>1, <2>2
<1> DEFINE Right(n) == h[n] \in Printing /\ \A y \in StringValue : Shows(h[n][y], Around(SubSeq(o, 1, n)), y)
           N == {n \in Nat : n <= Len(o) => Right(n)}
<1>11. 0 \in N
  <2>1. SubSeq(o, 1, 0) = << >>
    OBVIOUS
  <2>2. \A y \in StringValue : Shows(first[y], << >>, y)
    BY StartIs DEF first
  <2>3. Right(0)
    BY <1>2, <1>10, <2>1, <2>2, AroundNone
  <2> HIDE DEF Right
  <2> QED BY <2>3
<1>12. ASSUME NEW n \in Nat, n \in N PROVE n + 1 \in N
  <2> SUFFICES ASSUME n + 1 <= Len(o) PROVE Right(n + 1)
    <3> HIDE DEF Right
    <3> QED OBVIOUS
  <2>1. n + 1 \in 1..Len(o) /\ (n + 1) - 1 = n /\ n <= Len(o) /\ n < Len(o)
    OBVIOUS
  <2>2. Right(n)
    <3> HIDE DEF Right
    <3> QED BY <1>12, <2>1
  <2>3. PICK p \in Seq(Decorator), d \in Decorator : p = SubSeq(o, 1, n) /\ d = o[n + 1] /\ SubSeq(o, 1, n + 1) = Append(p, d)
    <3>1. /\ SubSeq(o, 1, n) \in Seq(Decorator) /\ o[n + 1] \in Decorator
          /\ SubSeq(o, 1, n + 1) = Append(SubSeq(o, 1, n), o[n + 1])
      BY <2>1, PrefixMore
    <3> QED BY <3>1
  <2>4. h[n + 1] = Decorated(h[n], d)
    BY <1>10, <2>1, <2>3
  <2>5. h[n] \in Printing /\ \A y \in StringValue : Shows(h[n][y], Around(p), y)
    BY <2>2, <2>3
  <2>6. Decorated(h[n], d) \in Printing
    BY <2>5, DecoratedType
  <2>7. \A y \in StringValue : Shows(Decorated(h[n], d)[y], Around(Append(p, d)), y)
    BY <2>5, DecoratedSaid
  <2> QED BY <2>3, <2>4, <2>6, <2>7
<1>13. Nat \subseteq N
  <2> HIDE DEF N
  <2> QED BY <1>11, <1>12, Induction
<1>14. Right(k)
  <2>1. k \in Nat /\ k <= Len(o)
    OBVIOUS
  <2> HIDE DEF Right
  <2> QED BY <1>13, <2>1
<1>15. h[k][x] \in Seq(Piece)
  BY <1>14 DEF Printing
<1> QED BY <1>14, <1>15 DEF h

(* From Shows to what the property says of an output.                       *)
LEMMA SaysIs ==
  ASSUME NEW y, NEW o \in Seq(Decorator), NEW s, Shows(y, Around(o), Sign(s))
  PROVE  Says(y, o, s)
<1>1. PICK a \in Seq(Decorator) : a = Around(o)
  BY TopIs
<1>2. PICK t : t = Flat(TagIn, a)
  OBVIOUS
<1>3. t = FlattenSeq([i \in DOMAIN a |-> IF a[i] = "Reversed" THEN << >> ELSE <<a[i]>>])
  BY <1>2, TagsAre
<1>4. Turned(Sign(s), (Len(a) - Len(t)) % 2 = 1) = [name |-> s, backwards |-> (Len(a) - Len(t)) % 2 = 1]
  <2>1. Turned(Sign(s), TRUE) = [name |-> s, backwards |-> TRUE] /\ Turned(Sign(s), FALSE) = [name |-> s, backwards |-> FALSE]
    BY DEF Turned, Sign
  <2> QED BY <2>1
<1>5. /\ Len(y) = 2 * Len(t) + 1
      /\ \A i \in 1..Len(t) : y[Len(t) + 1 - i] = Sign(Tag[t[i]]) /\ y[Len(t) + 1 + i] = Sign(Tag[t[i]])
      /\ y[Len(t) + 1] = Turned(Sign(s), (Len(a) - Len(t)) % 2 = 1)
  BY <1>1, <1>2 DEF Shows
<1> QED BY <1>1, <1>3, <1>4, <1>5 DEF Says

-----------------------------------------------------------------------------
TextInv == object \in Seq(Decorator)

LEMMA TextKept == TextInv /\ [TextNext]_text_vars => TextInv'
<1> SUFFICES ASSUME TextInv, [TextNext]_text_vars PROVE TextInv'
  OBVIOUS
<1>1. ASSUME NEW d \in Decorator, Decorate(d) PROVE TextInv'
  BY <1>1 DEF Decorate, TextInv
<1>2. ASSUME NEW s \in Strings, Render(s) PROVE TextInv'
  BY <1>2 DEF Render, TextInv
<1>3. ASSUME NEW s \in Strings, NEW t \in Strings, RenderLink(s, t) PROVE TextInv'
  BY <1>3 DEF RenderLink, TextInv
<1>4. CASE UNCHANGED text_vars
  BY <1>4 DEF text_vars, TextInv
<1> QED BY <1>1, <1>2, <1>3, <1>4 DEF TextNext

(* Two outputs between three signs.                                        *)
AreBetween(a, b, x, y, z, q, m) ==
  /\ m \in DOMAIN q /\ q[1] = x /\ q[m] = y /\ Last(q) = z
  /\ SubSeq(q, 2, m - 1) = a /\ SubSeq(q, m + 1, Len(q) - 1) = b

LEMMA Linked ==
  ASSUME NEW S, NEW a \in Seq(S), NEW b \in Seq(S), NEW x \in S, NEW y \in S, NEW z \in S,
         NEW q, q = <<x>> \o a \o <<y>> \o b \o <<z>>,
         NEW m \in Nat, m = Len(a) + 2
  PROVE  AreBetween(a, b, x, y, z, q, m)
<1>1. PICK k \in Nat, n \in Nat : k = Len(a) /\ n = Len(b) /\ m = k + 2
  OBVIOUS
<1>2. PICK c, d, e, f, g, h : /\ c = <<x>> /\ d = <<y>> /\ e = <<z>>
                              /\ f = c \o a /\ g = f \o d /\ h = g \o b
  OBVIOUS
<1>3. /\ c \in Seq(S) /\ d \in Seq(S) /\ e \in Seq(S)
      /\ Len(c) = 1 /\ Len(d) = 1 /\ Len(e) = 1 /\ c[1] = x /\ d[1] = y /\ e[1] = z
  BY <1>2
<1>4. q = h \o e
  BY <1>2
<1>5. f \in Seq(S) /\ IsCat(f, c, a, 1, k)
  BY <1>1, <1>2, <1>3, Cat
<1>6. g \in Seq(S) /\ IsCat(g, f, d, k + 1, 1)
  <2>1. Len(f) = k + 1
    BY <1>1, <1>5 DEF IsCat
  <2> QED BY <1>2, <1>3, <1>5, <2>1, Cat
<1>7. h \in Seq(S) /\ IsCat(h, g, b, k + 2, n)
  <2>1. Len(g) = k + 2
    BY <1>1, <1>6 DEF IsCat
  <2> QED BY <1>1, <1>2, <1>6, <2>1, Cat
<1>8. q \in Seq(S) /\ IsCat(q, h, e, k + 2 + n, 1)
  <2>1. Len(h) = k + 2 + n
    BY <1>7 DEF IsCat
  <2> QED BY <1>3, <1>4, <1>7, <2>1, Cat
<1>9. Len(q) = k + n + 3
  BY <1>1, <1>8 DEF IsCat
<1>10. \A i \in 1..(k + 2) : q[i] = g[i]
  <2>1. \A i \in 1..(k + 2) : i \in 1..(k + 2 + n)
    BY <1>1
  <2> QED BY <1>7, <1>8, <2>1 DEF IsCat
<1>11. \A i \in 1..(k + 1) : q[i] = f[i]
  <2>1. \A i \in 1..(k + 1) : i \in 1..(k + 2)
    BY <1>1
  <2> QED BY <1>6, <1>10, <2>1 DEF IsCat
<1>12. q[1] = x
  <2>1. 1 \in 1..(k + 1) /\ 1 \in 1..1
    BY <1>1
  <2> QED BY <1>3, <1>5, <1>11, <2>1 DEF IsCat
<1>13. q[m] = y
  <2>1. k + 2 \in 1..(k + 2) /\ (k + 1) + 1 = k + 2 /\ 1 \in 1..1
    BY <1>1
  <2>2. g[k + 2] = y
    BY <1>3, <1>6, <2>1 DEF IsCat
  <2> QED BY <1>1, <1>10, <2>1, <2>2
<1>14. q[k + n + 3] = z
  <2>1. (k + 2 + n) + 1 = k + n + 3 /\ 1 \in 1..1
    BY <1>1
  <2> QED BY <1>3, <1>8, <2>1 DEF IsCat
<1>15. Last(q) = z /\ m \in DOMAIN q
  <2>1. DOMAIN q = 1..(k + n + 3) /\ m \in 1..(k + n + 3)
    BY <1>1, <1>8, <1>9
  <2> QED BY <1>9, <1>14, <2>1 DEF Last
<1>16. SubSeq(q, 2, m - 1) = a
  <2>1. \A i \in 1..k : q[1 + i] = a[i]
    <3>1. \A i \in 1..k : 1 + i \in 1..(k + 1)
      BY <1>1
    <3> QED BY <1>5, <1>11, <3>1 DEF IsCat
  <2>2. 1 \in Nat /\ 1 + Len(a) <= Len(q) /\ 1 + 1 = 2 /\ 1 + Len(a) = m - 1 /\ 1..Len(a) = 1..k
    BY <1>1, <1>9
  <2>3. SubSeq(q, 1 + 1, 1 + Len(a)) = a
    BY <1>8, <2>1, <2>2, PartIs
  <2> QED BY <2>2, <2>3
<1>17. SubSeq(q, m + 1, Len(q) - 1) = b
  <2>1. \A i \in 1..n : q[m + i] = b[i]
    <3>1. \A i \in 1..n : (k + 2) + i \in 1..(k + 2 + n)
      BY <1>1
    <3>2. \A i \in 1..n : h[(k + 2) + i] = b[i]
      BY <1>7 DEF IsCat
    <3>3. \A i \in 1..n : q[(k + 2) + i] = h[(k + 2) + i]
      BY <1>8, <3>1 DEF IsCat
    <3> QED BY <1>1, <3>2, <3>3
  <2>2. m \in Nat /\ m + Len(b) <= Len(q) /\ m + Len(b) = Len(q) - 1 /\ 1..Len(b) = 1..n
    BY <1>1, <1>9
  <2>3. SubSeq(q, m + 1, m + Len(b)) = b
    BY <1>8, <2>1, <2>2, PartIs
  <2> QED BY <2>2, <2>3
<1> QED BY <1>12, <1>13, <1>15, <1>16, <1>17 DEF AreBetween

(* Every call prints its text once, decorated by all that is above the     *)
(* topmost Link and turned once for every Reversed there, and a Link both  *)
(* of its texts with all that is inside it, for any stack of decorators    *)
(* (the render of each class in task-82-1.cpp).                            *)
THEOREM TextsAreDecorated == TextSpec => TextIsDecorated
<1>1. TextInv /\ [TextNext]_text_vars => [TextPrinted]_out
  <2> SUFFICES ASSUME TextInv, [TextNext]_text_vars PROVE [TextPrinted]_out
    OBVIOUS
  <2>1. PICK o \in Seq(Decorator) : o = object
    BY DEF TextInv
  <2>2. \A s \in Strings : Sign(s) \in StringValue
    BY DEF Sign, StringValue
  <2>3. SubSeq(o, 1, Len(o)) = o
    OBVIOUS
  <2>4. ASSUME NEW s \in Strings, Render(s) PROVE TextPrinted
    <3>1. out' = render(o)[Len(o)][Sign(s)]
      BY <2>1, <2>4 DEF Render
    <3>2. Len(o) \in 0..Len(o)
      OBVIOUS
    <3>3. Shows(render(o)[Len(o)][Sign(s)], Around(o), Sign(s))
      BY <2>2, <2>3, <3>2, RenderIs
    <3>4. PICK y : y = out'
      OBVIOUS
    <3>5. Says(y, o, s)
      BY <3>1, <3>3, <3>4, SaysIs
    <3> QED BY <2>1, <3>4, <3>5 DEF TextPrinted
  <2>5. ASSUME NEW s \in Strings, NEW t \in Strings, RenderLink(s, t) PROVE TextPrinted
    <3> DEFINE k == Len(o) - 1
               front == SubSeq(o, 1, k)
    <3>1. out' = render_link(o, Sign(s), Sign(t)) /\ o # << >>
      BY <2>1, <2>5 DEF RenderLink
    <3>2. k \in 0..Len(o) /\ front \in Seq(Decorator)
      BY <3>1
    <3>3. PICK a, b : a = render(o)[k][Sign(s)] /\ b = render(o)[k][Sign(t)]
      OBVIOUS
    <3>4. /\ a \in Seq(Piece) /\ Shows(a, Around(front), Sign(s))
          /\ b \in Seq(Piece) /\ Shows(b, Around(front), Sign(t))
      <4> HIDE DEF k
      <4> QED BY <2>2, <3>2, <3>3, RenderIs
    <3>5. Says(a, front, s) /\ Says(b, front, t)
      <4> HIDE DEF front
      <4> QED BY <3>2, <3>4, SaysIs
    <3>6. PICK q : q = out'
      OBVIOUS
    <3>7. q = <<Sign(LinkBegins)>> \o a \o <<Sign(LinkGoesOn)>> \o b \o <<Sign(LinkEnds)>>
      BY <3>1, <3>3, <3>6 DEF render_link
    <3> DEFINE S == Piece \cup {Sign(LinkBegins), Sign(LinkGoesOn), Sign(LinkEnds)}
    <3>8. a \in Seq(S) /\ b \in Seq(S) /\ Sign(LinkBegins) \in S /\ Sign(LinkGoesOn) \in S /\ Sign(LinkEnds) \in S
      BY <3>4
    <3>9. PICK m \in Nat : m = Len(a) + 2
      BY <3>4
    <3> HIDE DEF S, front, k
    <3>10. /\ m \in DOMAIN q /\ q[1] = Sign(LinkBegins) /\ q[m] = Sign(LinkGoesOn) /\ Last(q) = Sign(LinkEnds)
           /\ SubSeq(q, 2, m - 1) = a /\ SubSeq(q, m + 1, Len(q) - 1) = b
      <4>1. AreBetween(a, b, Sign(LinkBegins), Sign(LinkGoesOn), Sign(LinkEnds), q, m)
        BY <3>7, <3>8, <3>9, Linked
      <4> QED BY <4>1 DEF AreBetween
    <3>11. \E n \in DOMAIN q :
             /\ q[1] = Sign(LinkBegins) /\ q[n] = Sign(LinkGoesOn) /\ Last(q) = Sign(LinkEnds)
             /\ Says(SubSeq(q, 2, n - 1), front, s)
             /\ Says(SubSeq(q, n + 1, Len(q) - 1), front, t)
      BY <3>5, <3>10
    <3>12. front = SubSeq(object, 1, Len(object) - 1)
      BY <2>1 DEF front, k
    <3> QED BY <3>6, <3>11, <3>12 DEF TextPrinted
  <2>6. ASSUME NEW d \in Decorator, Decorate(d) PROVE UNCHANGED out
    BY <2>6 DEF Decorate
  <2>7. CASE UNCHANGED text_vars
    BY <2>7 DEF text_vars
  <2> QED BY <2>4, <2>5, <2>6, <2>7 DEF TextNext
<1>2. TextInit => TextInv
  <2>1. << >> \in Seq(Decorator)
    OBVIOUS
  <2> QED BY <2>1 DEF TextInit, TextInv
<1> QED BY <1>1, <1>2, TextKept, PTL DEF TextSpec, TextIsDecorated
=============================================================================
