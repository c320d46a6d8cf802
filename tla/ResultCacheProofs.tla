------------------------- MODULE ResultCacheProofs --------------------------
(***************************************************************************)
(* Proofs about the result cache for every set of callers, requests and    *)
(* sizes, every limit and every number of generations: CacheInv is         *)
(* inductive, the cache implements FreshReads, its counter is the sum of   *)
(* what it holds, and it keeps its limits.                                 *)
(***************************************************************************)
EXTENDS ResultCache, SequenceTheorems, WellFoundedInduction, TLAPS

(* Removing one element keeps a sequence of entries one, and invents none. *)
LEMMA WithoutKeeps ==
  ASSUME NEW s \in Seq(Entry), NEW i \in DOMAIN s
  PROVE  /\ Without(s, i) \in Seq(Entry)
         /\ \A j \in DOMAIN Without(s, i) : \E m \in DOMAIN s : Without(s, i)[j] = s[m]
<1> DEFINE a == SubSeq(s, 1, i - 1)
           b == SubSeq(s, i + 1, Len(s))
<1>1. a \in Seq(Entry) /\ Len(a) = i - 1 /\ \A j \in 1 .. i - 1 : a[j] = s[j]
  OBVIOUS
<1>2. b \in Seq(Entry) /\ Len(b) = Len(s) - i /\ \A j \in 1 .. Len(s) - i : b[j] = s[i + j]
  OBVIOUS
<1>3. Without(s, i) = a \o b
  BY DEF Without
<1> HIDE DEF a, b
<1>4. /\ Without(s, i) \in Seq(Entry)
      /\ Len(Without(s, i)) = Len(s) - 1
      /\ \A j \in 1 .. Len(s) - 1 :
            Without(s, i)[j] = IF j <= i - 1 THEN a[j] ELSE b[j - (i - 1)]
  BY <1>1, <1>2, <1>3, ConcatProperties, SMTT(60)
<1>5. ASSUME NEW j \in DOMAIN Without(s, i)
      PROVE  \E m \in DOMAIN s : Without(s, i)[j] = s[m]
  <2>0. j \in 1 .. Len(s) - 1 /\ i \in 1 .. Len(s) /\ DOMAIN s = 1 .. Len(s)
    BY <1>4
  <2>1. CASE j <= i - 1
    <3>1. Without(s, i)[j] = s[j] /\ j \in DOMAIN s
      BY <2>0, <1>1, <1>4, <2>1
    <3>q. QED
      BY <3>1
  <2>2. CASE j > i - 1
    <3>1. j - (i - 1) \in 1 .. Len(s) - i /\ j + 1 \in DOMAIN s
      BY <2>0, <2>2
    <3>2. Without(s, i)[j] = b[j - (i - 1)]
      BY <2>0, <1>4, <2>2
    <3>3. b[j - (i - 1)] = s[i + (j - (i - 1))]
      BY <3>1, <1>2
    <3>4. i + (j - (i - 1)) = j + 1
      BY <2>0
    <3>q. QED
      BY <3>1, <3>2, <3>3, <3>4
  <2>q. QED
    BY <2>0, <2>1, <2>2
<1>q. QED
  BY <1>4, <1>5

(* getLocked keeps the store a sequence of entries and invents none.       *)
LEMMA TouchKeeps ==
  ASSUME TypeOK, NEW k \in Keys, Touch(k)
  PROVE  /\ lru' \in Seq(Entry)
         /\ \A j \in DOMAIN lru' : \E m \in DOMAIN lru : lru'[j] = lru[m]
<1>1. CASE \E i \in Live(k) : lru' = <<lru[i]>> \o Without(lru, i)
  <2>1. PICK i \in Live(k) : lru' = <<lru[i]>> \o Without(lru, i)
    BY <1>1
  <2>2. i \in DOMAIN lru /\ lru \in Seq(Entry) /\ lru[i] \in Entry
    BY DEF TypeOK, Live, Holds
  <2>3. /\ Without(lru, i) \in Seq(Entry)
        /\ \A j \in DOMAIN Without(lru, i) : \E m \in DOMAIN lru : Without(lru, i)[j] = lru[m]
    BY <2>2, WithoutKeeps
  <2>4. lru' \in Seq(Entry)
    BY <2>1, <2>2, <2>3
  <2>5. ASSUME NEW j \in DOMAIN lru' PROVE \E m \in DOMAIN lru : lru'[j] = lru[m]
    <3>1. CASE j = 1
      BY <3>1, <2>1, <2>2, <2>3
    <3>2. CASE j # 1
      <4>1. j - 1 \in DOMAIN Without(lru, i) /\ lru'[j] = Without(lru, i)[j - 1]
        BY <3>2, <2>1, <2>2, <2>3
      <4>q. QED
        BY <4>1, <2>3
    <3>q. QED
      BY <3>1, <3>2
  <2>q. QED
    BY <2>4, <2>5
<1>2. CASE \E i \in Holds(k) \ Live(k) : lru' = Without(lru, i)
  BY <1>2, WithoutKeeps DEF TypeOK, Holds
<1>3. CASE lru' = lru
  BY <1>3 DEF TypeOK
<1>q. QED
  BY <1>1, <1>2, <1>3 DEF Touch

(* Put stores the new entry and, besides it, only entries there before.    *)
LEMMA StoreKeeps ==
  ASSUME TypeOK, NEW k \in Keys, NEW r \in Result, r.gen \in Gens, Store(k, r)
  PROVE  /\ lru' \in Seq(Entry)
         /\ \A j \in DOMAIN lru' :
               \/ lru'[j].key = k /\ lru'[j].gen = r.gen
               \/ \E m \in DOMAIN lru : lru'[j] = lru[m]
<1> DEFINE new == [key |-> k, gen |-> r.gen, size |-> r.size, expired |-> FALSE]
           old == Holds(k)
           at == CHOOSE i \in old : TRUE
           rest == IF old = {} THEN lru ELSE Without(lru, at)
           all == <<new>> \o rest
<1>1. new \in Entry /\ lru \in Seq(Entry)
  BY DEF Entry, Result, TypeOK
<1>2. /\ rest \in Seq(Entry)
      /\ \A j \in DOMAIN rest : \E m \in DOMAIN lru : rest[j] = lru[m]
  <2>1. CASE old = {}
    BY <2>1, <1>1
  <2>2. CASE old # {}
    <3>1. at \in DOMAIN lru
      BY <2>2 DEF Holds
    <3>q. QED
      BY <3>1, <2>2, <1>1, WithoutKeeps
  <2>q. QED
    BY <2>1, <2>2
<1>3. PICK kept \in 0 .. Len(all) : lru' = SubSeq(all, 1, kept)
  BY DEF Store
<1> HIDE DEF new, rest
<1>4. all \in Seq(Entry) /\ Len(all) = Len(rest) + 1
  BY <1>1, <1>2
<1>5. lru' \in Seq(Entry) /\ Len(lru') = kept
  BY <1>3, <1>4
<1>6. ASSUME NEW j \in DOMAIN lru'
      PROVE  lru'[j] = new \/ \E m \in DOMAIN lru : lru'[j] = lru[m]
  <2>1. j \in 1 .. kept /\ lru'[j] = all[j]
    BY <1>3, <1>4, <1>5
  <2>2. CASE j = 1
    BY <2>1, <2>2, <1>1, <1>2
  <2>3. CASE j # 1
    <3>1. j - 1 \in DOMAIN rest /\ all[j] = rest[j - 1]
      BY <2>1, <2>3, <1>1, <1>2, <1>3, <1>4
    <3>q. QED
      BY <3>1, <2>1, <1>2
  <2>q. QED
    BY <2>2, <2>3
<1>q. QED
  BY <1>5, <1>6 DEF new

(* A hit answers with a result of the generation the caller observed.      *)
LEMMA HitGives ==
  ASSUME TypeOK, StoredUnderItsGeneration, NEW c \in Callers, Hit(c)
  PROVE  /\ \E r \in Result : /\ r.gen = seen[c]
                              /\ result' = [result EXCEPT ![c] = r]
         /\ pc' = [pc EXCEPT ![c] = "answered"]
<1> DEFINE at == CHOOSE i \in Live(KeyOf(c)) : TRUE
           r == [gen |-> lru[at].gen, size |-> lru[at].size, cacheable |-> TRUE]
<1>1. at \in DOMAIN lru /\ lru[at].key = KeyOf(c)
  BY DEF Hit, Live, Holds
<1>2. lru[at] \in Entry
  BY <1>1 DEF TypeOK
<1>3. lru[at].gen = seen[c]
  BY <1>1 DEF StoredUnderItsGeneration, KeyOf
<1>4. result' = [result EXCEPT ![c] = r] /\ pc' = [pc EXCEPT ![c] = "answered"]
  BY DEF Hit
<1>5. r \in Result /\ r.gen = seen[c]
  BY <1>2, <1>3 DEF Result, Entry, Gens
<1>q. QED
  BY <1>4, <1>5

(* A physical read fails or answers with the current generation.           *)
LEMMA ReadsAreResults ==
  ASSUME TypeOK, NEW r \in Reads
  PROVE  r \in Result /\ (r.gen = 0 \/ r.gen = gen)
<1>1. CASE r = Failed
  BY <1>1, BoundAssumption DEF Failed, Result
<1>2. CASE \E n \in Sizes, b \in BOOLEAN : r = [gen |-> gen, size |-> n, cacheable |-> b]
  BY <1>2, BoundAssumption DEF Result, TypeOK, Gens
<1>q. QED
  BY <1>1, <1>2 DEF Reads

(* An entry keeps its key, generation and type when its TTL passes.        *)
LEMMA ExpireKeeps ==
  ASSUME TypeOK, NEW i \in DOMAIN lru, lru' = [lru EXCEPT ![i].expired = TRUE]
  PROVE  /\ lru' \in Seq(Entry)
         /\ DOMAIN lru' = DOMAIN lru
         /\ \A j \in DOMAIN lru : lru'[j].key = lru[j].key /\ lru'[j].gen = lru[j].gen
<1>1. lru \in Seq(Entry) /\ lru[i] \in Entry
  BY DEF TypeOK
<1>2. [lru[i] EXCEPT !.expired = TRUE] \in Entry
  BY <1>1 DEF Entry
<1>3. lru' = [lru EXCEPT ![i] = [lru[i] EXCEPT !.expired = TRUE]]
  OBVIOUS
<1>4. lru' \in Seq(Entry)
  BY <1>1, <1>2, <1>3
<1>5. \A j \in DOMAIN lru : lru'[j].key = lru[j].key /\ lru'[j].gen = lru[j].gen
  BY <1>1, <1>3 DEF Entry
<1>q. QED
  BY <1>1, <1>3, <1>4, <1>5

LEMMA InitCacheInv == Init => CacheInv
  BY ConfigAssumption, BoundAssumption, NoneAssumption
  DEF Init, CacheInv, TypeOK, StoredUnderItsGeneration, OneLoadPerKey,
      NoStrandedWaiter, CarriedIsFresh, Gens, Keys, Result, Failed, Pc

LEMMA NextCacheInv == CacheInv /\ [Next]_vars => CacheInv'
<1> SUFFICES ASSUME CacheInv, [Next]_vars PROVE CacheInv'
  OBVIOUS
<1> USE ConfigAssumption, BoundAssumption, NoneAssumption
    DEF CacheInv, TypeOK, StoredUnderItsGeneration, OneLoadPerKey,
        NoStrandedWaiter, CarriedIsFresh, Gens, Keys, KeyOf, Result, Failed, Pc
<1>1. CASE Rotate
  BY <1>1 DEF Rotate
<1>2. ASSUME NEW i \in 1 .. MaxEntries, Expire(i) PROVE CacheInv'
  <2>0. /\ lru' \in Seq(Entry)
        /\ DOMAIN lru' = DOMAIN lru
        /\ \A j \in DOMAIN lru : lru'[j].key = lru[j].key /\ lru'[j].gen = lru[j].gen
    BY <1>2, ExpireKeeps DEF Expire
  <2>1. TypeOK'
    BY <1>2, <2>0 DEF Expire
  <2>2. StoredUnderItsGeneration'
    BY <1>2, <2>0 DEF Expire
  <2>3. OneLoadPerKey'
    BY <1>2 DEF Expire
  <2>4. NoStrandedWaiter'
    BY <1>2 DEF Expire
  <2>5. CarriedIsFresh'
    BY <1>2 DEF Expire
  <2>q. QED
    BY <2>1, <2>2, <2>3, <2>4, <2>5
<1>3. ASSUME NEW c \in Callers, NEW r \in Requests, Observe(c, r) PROVE CacheInv'
  BY <1>3 DEF Observe
<1>4. ASSUME NEW c \in Callers, RunDirect(c) PROVE CacheInv'
  <2>0. PICK r \in Reads : result' = [result EXCEPT ![c] = r]
    BY <1>4 DEF RunDirect
  <2>r. r \in Result /\ (r.gen = 0 \/ r.gen = gen)
    BY ReadsAreResults
  <2>1. TypeOK'
    BY <1>4, <2>0, <2>r DEF RunDirect
  <2>2. StoredUnderItsGeneration'
    BY <1>4, <2>0, <2>r DEF RunDirect
  <2>3. OneLoadPerKey'
    BY <1>4, <2>0, <2>r DEF RunDirect
  <2>4. NoStrandedWaiter'
    BY <1>4, <2>0, <2>r, SMTT(60) DEF RunDirect
  <2>5. CarriedIsFresh'
    BY <1>4, <2>0, <2>r DEF RunDirect
  <2>q. QED
    BY <2>1, <2>2, <2>3, <2>4, <2>5
<1>5. ASSUME NEW c \in Callers, Get(c) PROVE CacheInv'
  <2>k. KeyOf(c) \in Keys
    BY <1>5 DEF Get
  <2>0. /\ lru' \in Seq(Entry)
        /\ \A j \in DOMAIN lru' : lru'[j].gen = lru'[j].key[2]
    BY <1>5, <2>k, TouchKeeps, SMTT(60) DEF Get
  <2>a. CASE Hit(c)
    <3>0. PICK r \in Result : /\ r.gen = seen[c]
                              /\ result' = [result EXCEPT ![c] = r]
      BY <2>a, HitGives
    <3>p. pc' = [pc EXCEPT ![c] = "answered"]
      BY <2>a, HitGives
    <3>1. TypeOK'
      BY <1>5, <2>0, <2>a, <3>0, <3>p DEF Get
    <3>2. StoredUnderItsGeneration'
      BY <1>5, <2>0, <2>a, <3>0, <3>p DEF Get
    <3>3. OneLoadPerKey'
      BY <1>5, <2>0, <2>a, <3>0, <3>p DEF Get
    <3>4. NoStrandedWaiter'
      BY <1>5, <2>0, <2>a, <3>0, <3>p DEF Get
    <3>5. CarriedIsFresh'
      BY <1>5, <2>0, <2>a, <3>0, <3>p DEF Get
    <3>q. QED
      BY <3>1, <3>2, <3>3, <3>4, <3>5
  <2>b. CASE Live(KeyOf(c)) = {} /\ pc' = [pc EXCEPT ![c] = "missed"] /\ result' = result
    <3>1. TypeOK'
      BY <1>5, <2>0, <2>b DEF Get
    <3>2. StoredUnderItsGeneration'
      BY <1>5, <2>0, <2>b DEF Get
    <3>3. OneLoadPerKey'
      BY <1>5, <2>0, <2>b DEF Get
    <3>4. NoStrandedWaiter'
      BY <1>5, <2>0, <2>b DEF Get
    <3>5. CarriedIsFresh'
      BY <1>5, <2>0, <2>b DEF Get
    <3>q. QED
      BY <3>1, <3>2, <3>3, <3>4, <3>5
  <2>q. QED
    BY <1>5, <2>a, <2>b DEF Get
<1>6. ASSUME NEW c \in Callers, Admit(c) PROVE CacheInv'
  <2>k. KeyOf(c) \in Keys
    BY <1>6 DEF Admit
  <2>0. /\ lru' \in Seq(Entry)
        /\ \A j \in DOMAIN lru' : lru'[j].gen = lru'[j].key[2]
    BY <1>6, <2>k, TouchKeeps, SMTT(60) DEF Admit
  <2>a. CASE Hit(c) /\ UNCHANGED <<flights, joined>>
    <3>0. PICK r \in Result : /\ r.gen = seen[c]
                              /\ result' = [result EXCEPT ![c] = r]
      BY <2>a, HitGives
    <3>p. pc' = [pc EXCEPT ![c] = "answered"]
      BY <2>a, HitGives
    <3>1. TypeOK'
      BY <1>6, <2>0, <2>a, <3>0, <3>p DEF Admit
    <3>2. StoredUnderItsGeneration'
      BY <1>6, <2>0, <2>a, <3>0, <3>p DEF Admit
    <3>3. OneLoadPerKey'
      BY <1>6, <2>0, <2>a, <3>0, <3>p, SMTT(60) DEF Admit
    <3>4. NoStrandedWaiter'
      BY <1>6, <2>0, <2>a, <3>0, <3>p DEF Admit
    <3>5. CarriedIsFresh'
      BY <1>6, <2>0, <2>a, <3>0, <3>p DEF Admit
    <3>q. QED
      BY <3>1, <3>2, <3>3, <3>4, <3>5
  <2>b. CASE Join(c)
    <3>1. TypeOK'
      BY <1>6, <2>0, <2>b DEF Admit, Join
    <3>2. StoredUnderItsGeneration'
      BY <1>6, <2>0, <2>b DEF Admit, Join
    <3>3. OneLoadPerKey'
      BY <1>6, <2>0, <2>b DEF Admit, Join
    <3>4. NoStrandedWaiter'
      BY <1>6, <2>0, <2>b, SMTT(60) DEF Admit, Join
    <3>5. CarriedIsFresh'
      BY <1>6, <2>0, <2>b, SMTT(60) DEF Admit, Join
    <3>q. QED
      BY <3>1, <3>2, <3>3, <3>4, <3>5
  <2>d. CASE Lead(c)
    <3>1. TypeOK'
      BY <1>6, <2>0, <2>d DEF Admit, Lead
    <3>2. StoredUnderItsGeneration'
      BY <1>6, <2>0, <2>d DEF Admit, Lead
    <3>3. OneLoadPerKey'
      BY <1>6, <2>0, <2>d DEF Admit, Lead
    <3>4. NoStrandedWaiter'
      BY <1>6, <2>0, <2>d, SMTT(60) DEF Admit, Lead
    <3>5. CarriedIsFresh'
      BY <1>6, <2>0, <2>d DEF Admit, Lead
    <3>q. QED
      BY <3>1, <3>2, <3>3, <3>4, <3>5
  <2>q. QED
    BY <1>6, <2>a, <2>b, <2>d DEF Admit
<1>7. ASSUME NEW c \in Callers, Load(c) PROVE CacheInv'
  <2>0. PICK r \in Reads :
            /\ result' = [result EXCEPT ![c] = r]
            /\ pc' = [pc EXCEPT ![c] =
                         IF Publishable(c, r) THEN "putting" ELSE "closing"]
    BY <1>7 DEF Load
  <2>r. r \in Result /\ (r.gen = 0 \/ r.gen = gen)
    BY ReadsAreResults
  <2>1. TypeOK'
    BY <1>7, <2>0, <2>r DEF Load, Publishable
  <2>2. StoredUnderItsGeneration'
    BY <1>7, <2>0, <2>r DEF Load, Publishable
  <2>3. OneLoadPerKey'
    BY <1>7, <2>0, <2>r DEF Load, Publishable
  <2>4. NoStrandedWaiter'
    BY <1>7, <2>0, <2>r, SMTT(60) DEF Load, Publishable
  <2>5. CarriedIsFresh'
    BY <1>7, <2>0, <2>r DEF Load, Publishable
  <2>q. QED
    BY <2>1, <2>2, <2>3, <2>4, <2>5
<1>8. ASSUME NEW c \in Callers, Put(c) PROVE CacheInv'
  <2>k. KeyOf(c) \in Keys /\ result[c] \in Result /\ result[c].gen \in Gens
    BY <1>8 DEF Put
  <2>g. result[c].gen = KeyOf(c)[2]
    BY <1>8 DEF Put
  <2>0. /\ lru' \in Seq(Entry)
        /\ \A j \in DOMAIN lru' : lru'[j].gen = lru'[j].key[2]
    <3>t. TypeOK /\ StoredUnderItsGeneration
      OBVIOUS
    <3>1. CASE Store(KeyOf(c), result[c])
      <4> HIDE DEF CacheInv, TypeOK, StoredUnderItsGeneration, KeyOf, Keys, Result, Gens
      <4>1. /\ lru' \in Seq(Entry)
            /\ \A j \in DOMAIN lru' :
                 \/ lru'[j].key = KeyOf(c) /\ lru'[j].gen = result[c].gen
                 \/ \E m \in DOMAIN lru : lru'[j] = lru[m]
        BY <3>1, <3>t, <2>k, StoreKeeps
      <4>q. QED
        BY <4>1, <3>t, <2>g DEF StoredUnderItsGeneration
    <3>2. CASE lru' = lru
      BY <3>2
    <3>q. QED
      BY <3>1, <3>2, <1>8 DEF Put
  <2>1. TypeOK'
    BY <1>8, <2>0 DEF Put
  <2>2. StoredUnderItsGeneration'
    BY <1>8, <2>0 DEF Put
  <2>3. OneLoadPerKey'
    BY <1>8, <2>0 DEF Put
  <2>4. NoStrandedWaiter'
    BY <1>8, <2>0 DEF Put
  <2>5. CarriedIsFresh'
    BY <1>8, <2>0 DEF Put
  <2>q. QED
    BY <2>1, <2>2, <2>3, <2>4, <2>5
<1>9. ASSUME NEW c \in Callers, CloseFlight(c) PROVE CacheInv'
  <2>1. TypeOK'
    BY <1>9 DEF CloseFlight, WaitersOn
  <2>2. StoredUnderItsGeneration'
    BY <1>9 DEF CloseFlight, WaitersOn
  <2>3. OneLoadPerKey'
    BY <1>9 DEF CloseFlight, WaitersOn
  <2>4. NoStrandedWaiter'
    BY <1>9, SMTT(60) DEF CloseFlight, WaitersOn
  <2>0. \A d \in WaitersOn(c) : seen[d] = seen[c]
    <3> SUFFICES ASSUME NEW d \in Callers, pc[d] = "waiting", joined[d] = c
                 PROVE  seen[d] = seen[c]
      BY DEF WaitersOn
    <3>1. flights[KeyOf(d)] = c /\ KeyOf(d) \in Keys
      OBVIOUS
    <3>2. c \in {e \in Callers : pc[e] \in {"loading", "putting", "closing"} /\ KeyOf(e) = KeyOf(d)}
      BY <3>1
    <3>q. QED
      BY <3>2
  <2>5. CarriedIsFresh'
    BY <1>9, <2>0, ZenonT(60) DEF CloseFlight, WaitersOn
  <2>q. QED
    BY <2>1, <2>2, <2>3, <2>4, <2>5
<1>10. ASSUME NEW c \in Callers, WaiterTakes(c) PROVE CacheInv'
  BY <1>10 DEF WaiterTakes
<1>11. ASSUME NEW c \in Callers, WaiterCanceled(c) PROVE CacheInv'
  BY <1>11, SMTT(60) DEF WaiterCanceled
<1>12. ASSUME NEW c \in Callers, Return(c) PROVE CacheInv'
  BY <1>12, SMTT(60) DEF Return
<1>13. CASE UNCHANGED vars
  BY <1>13 DEF vars
<1>q. QED
  BY <1>1, <1>2, <1>3, <1>4, <1>5, <1>6, <1>7, <1>8, <1>9, <1>10, <1>11, <1>12, <1>13
  DEF Next, CallStep


(* Type correctness and the inductive invariant of the cache.              *)
THEOREM CacheInvariant == Spec => []CacheInv
<1>1. Init => CacheInv
  BY InitCacheInv
<1>2. CacheInv /\ [Next]_vars => CacheInv'
  BY NextCacheInv
<1>q. QED
  BY <1>1, <1>2, PTL DEF Spec

(* cachedRunner never publishes an answer under another generation's key.  *)
THEOREM StoredUnderItsGenerationHolds == Spec => []StoredUnderItsGeneration
<1>1. CacheInv => StoredUnderItsGeneration
  BY DEF CacheInv
<1>q. QED
  BY <1>1, CacheInvariant, PTL

(* DoIfState coalesces: one load per key, whatever the interleaving.       *)
THEOREM OneLoadPerKeyHolds == Spec => []OneLoadPerKey
<1>1. CacheInv => OneLoadPerKey
  BY DEF CacheInv
<1>q. QED
  BY <1>1, CacheInvariant, PTL

(* The cache starts as FreshReads does.                                    *)
LEMMA InitRefines == Init => Fresh!Init
  BY DEF Init, Fresh!Init, phaseBar, ansBar

(* A step in which one caller goes from asking to answered, and the others *)
(* stay as they are or are woken, is an Answer of FreshReads.              *)
LEMMA AnsweringRefines ==
  ASSUME CacheInv, CacheInv', NEW c \in Callers,
         pc[c] # "idle", pc[c] # "answered", pc'[c] = "answered",
         gen' = gen, seen' = seen,
         \A d \in Callers \ {c} :
            \/ pc'[d] = pc[d] /\ result'[d] = result[d]
            \/ pc[d] = "waiting" /\ pc'[d] = "woken"
  PROVE  Fresh!Answer(c)
<1>1. phaseBar[c] = "asking"
  BY DEF phaseBar
<1>2. phaseBar' = [phaseBar EXCEPT ![c] = "done"]
  BY DEF phaseBar
<1>3. ansBar' = [ansBar EXCEPT ![c] = result'[c].gen]
  BY DEF ansBar
<1>4. result'[c].gen \in {0} \cup (seen[c] .. gen)
  <2>1. result'[c].gen \in Nat /\ seen[c] \in Nat /\ gen \in Nat
    BY BoundAssumption DEF CacheInv, TypeOK, Result, Gens
  <2>2. result'[c].gen <= gen /\ (result'[c].gen = 0 \/ result'[c].gen >= seen[c])
    BY DEF CacheInv, CarriedIsFresh
  <2>q. QED
    BY <2>1, <2>2
<1>q. QED
  BY <1>1, <1>2, <1>3, <1>4 DEF Fresh!Answer

(* Every step of the cache is a step of FreshReads or leaves it alone.     *)
LEMMA StepRefines == CacheInv /\ CacheInv' /\ [Next]_vars => [Fresh!Next]_(Fresh!vars)
<1> SUFFICES ASSUME CacheInv, CacheInv', [Next]_vars
             PROVE  Fresh!Next \/ UNCHANGED <<gen, phaseBar, seen, ansBar>>
  BY DEF Fresh!vars
<1> USE BoundAssumption, NoneAssumption
    DEF CacheInv, TypeOK, CarriedIsFresh, Gens, Result, Failed, Pc, phaseBar, ansBar
<1>1. CASE Rotate
  BY <1>1 DEF Rotate, Fresh!Next, Fresh!Rotate
<1>2. ASSUME NEW i \in 1 .. MaxEntries, Expire(i)
      PROVE  UNCHANGED <<gen, phaseBar, seen, ansBar>>
  BY <1>2 DEF Expire
<1>3. ASSUME NEW c \in Callers, NEW r \in Requests, Observe(c, r) PROVE Fresh!Ask(c)
  <2>0. PICK p \in {"keyed", "direct"} : pc' = [pc EXCEPT ![c] = p]
    BY <1>3 DEF Observe
  <2>1. phaseBar[c] = "idle" /\ phaseBar' = [phaseBar EXCEPT ![c] = "asking"]
    BY <1>3, <2>0, ZenonT(60) DEF Observe
  <2>2. ansBar' = ansBar
    BY <1>3 DEF Observe
  <2>q. QED
    BY <1>3, <2>1, <2>2 DEF Observe, Fresh!Ask
<1>4. ASSUME NEW c \in Callers, RunDirect(c) PROVE Fresh!Answer(c)
  BY <1>4, AnsweringRefines DEF RunDirect
<1>5. ASSUME NEW c \in Callers, Get(c)
      PROVE  Fresh!Answer(c) \/ UNCHANGED <<gen, phaseBar, seen, ansBar>>
  <2>1. CASE Hit(c)
    BY <1>5, <2>1, AnsweringRefines, ZenonT(60) DEF Get, Hit
  <2>2. CASE ~Hit(c)
    BY <1>5, <2>2 DEF Get
  <2>q. QED
    BY <2>1, <2>2
<1>6. ASSUME NEW c \in Callers, Admit(c)
      PROVE  Fresh!Answer(c) \/ UNCHANGED <<gen, phaseBar, seen, ansBar>>
  <2>1. CASE Hit(c)
    BY <1>6, <2>1, AnsweringRefines, ZenonT(60) DEF Admit, Hit
  <2>2. CASE Join(c)
    BY <1>6, <2>2, SMTT(60) DEF Admit, Join
  <2>3. CASE Lead(c)
    BY <1>6, <2>3 DEF Admit, Lead
  <2>q. QED
    BY <1>6, <2>1, <2>2, <2>3 DEF Admit
<1>7. ASSUME NEW c \in Callers, Load(c) PROVE UNCHANGED <<gen, phaseBar, seen, ansBar>>
  BY <1>7 DEF Load
<1>8. ASSUME NEW c \in Callers, Put(c) PROVE UNCHANGED <<gen, phaseBar, seen, ansBar>>
  BY <1>8 DEF Put
<1>9. ASSUME NEW c \in Callers, CloseFlight(c) PROVE Fresh!Answer(c)
  BY <1>9, AnsweringRefines DEF CloseFlight, WaitersOn
<1>10. ASSUME NEW c \in Callers, WaiterTakes(c) PROVE Fresh!Answer(c)
  BY <1>10, AnsweringRefines DEF WaiterTakes
<1>11. ASSUME NEW c \in Callers, WaiterCanceled(c) PROVE Fresh!Answer(c)
  BY <1>11, AnsweringRefines DEF WaiterCanceled
<1>12. ASSUME NEW c \in Callers, Return(c) PROVE Fresh!Return(c)
  BY <1>12 DEF Return, Fresh!Return
<1>13. CASE UNCHANGED vars
  BY <1>13 DEF vars
<1>q. QED
  BY <1>1, <1>2, <1>3, <1>4, <1>5, <1>6, <1>7, <1>8, <1>9, <1>10, <1>11, <1>12, <1>13
  DEF Next, CallStep, Fresh!Next

(* The cache with its coalescing and its eviction implements reads that    *)
(* are never older than what the caller observed when it asked.            *)
THEOREM Refinement == Spec => ImplementsFreshReads
<1>1. Init => Fresh!Init
  BY InitRefines
<1>2. CacheInv /\ CacheInv' /\ [Next]_vars => [Fresh!Next]_(Fresh!vars)
  BY StepRefines
<1>q. QED
  BY <1>1, <1>2, CacheInvariant, PTL DEF Spec, ImplementsFreshReads, Fresh!Spec

-----------------------------------------------------------------------------
(* The store's counter is the sum of what it holds.                        *)

(* A bad number would have a least one.                                    *)
LEMMA FirstNumber ==
  ASSUME NEW N \in SUBSET Nat, N # {}
  PROVE  \E x \in N : \A y \in N : x <= y
<1>1. \A x, y \in Nat : <<x, y>> \in OpToRel(<, Nat) <=> x < y
  BY Zenon DEF OpToRel
<1>2. \E x \in N : \A y \in N : ~(<<y, x>> \in OpToRel(<, Nat))
  BY NatLessThanWellFounded, WFMin
<1>3. \E x \in N : \A y \in N : ~(y < x)
  BY <1>1, <1>2, Zenon
<1> QED BY <1>3

LEMMA EntryAt ==
  ASSUME NEW s \in Seq(Entry), NEW i \in 1 .. Len(s)
  PROVE  s[i] \in Entry /\ s[i].size \in Nat
<1>1. s[i] \in Entry
  OBVIOUS
<1> QED BY <1>1 DEF Entry

(* What is behind the first n entries: nothing, or one and what is behind. *)
BehindOf(s, g, n) == IF n = Len(s) THEN 0 ELSE s[n + 1].size + g[n + 1]

LEMMA BehindExists ==
  ASSUME NEW s \in Seq(Entry)
  PROVE  \E g \in [0 .. Len(s) -> Nat] : \A n \in 0 .. Len(s) : g[n] = BehindOf(s, g, n)
<1> DEFINE Upto(m, g) == g \in [0 .. Len(s) -> Nat] /\ \A n \in 0 .. Len(s) : Len(s) - n <= m => g[n] = BehindOf(s, g, n)
           Bad == {m \in Nat : ~\E g : Upto(m, g)}
<1>0. Len(s) \in Nat /\ \A n \in 0 .. Len(s) : n # Len(s) => n + 1 \in 0 .. Len(s) /\ s[n + 1].size \in Nat
  <2>1. \A i \in 1 .. Len(s) : s[i].size \in Nat
    BY EntryAt
  <2> QED BY <2>1
<1>1. ASSUME Bad # {} PROVE FALSE
  <2>1. PICK m \in Bad : \A n \in Bad : m <= n
    BY <1>1, FirstNumber
  <2>2. CASE m = 0
    <3>1. PICK g : g = [n \in 0 .. Len(s) |-> 0]
      OBVIOUS
    <3>2. \A n \in 0 .. Len(s) : Len(s) - n <= 0 => n = Len(s)
      BY <1>0
    <3> QED BY <2>1, <2>2, <3>1, <3>2 DEF BehindOf
  <2>3. CASE m # 0
    <3>1. m - 1 \in Nat /\ ~(m <= m - 1)
      BY <2>1, <2>3
    <3>2. PICK g : Upto(m - 1, g)
      BY <2>1, <3>1
    <3>3. PICK h : h = [n \in 0 .. Len(s) |-> BehindOf(s, g, n)]
      OBVIOUS
    <3>4. h \in [0 .. Len(s) -> Nat]
      <4>1. ASSUME NEW n \in 0 .. Len(s) PROVE BehindOf(s, g, n) \in Nat
        <5>1. g \in [0 .. Len(s) -> Nat]
          BY <3>2
        <5>2. n # Len(s) => g[n + 1] \in Nat /\ s[n + 1].size \in Nat
          BY <1>0, <5>1
        <5> QED BY <5>2 DEF BehindOf
      <4> QED BY <3>3, <4>1
    <3>5. ASSUME NEW n \in 0 .. Len(s), Len(s) - n <= m PROVE h[n] = BehindOf(s, h, n)
      <4>1. CASE n = Len(s)
        BY <3>3, <4>1 DEF BehindOf
      <4>2. CASE n # Len(s)
        <5>1. n + 1 \in 0 .. Len(s) /\ Len(s) - (n + 1) <= m - 1
          BY <1>0, <2>1, <3>5, <4>2
        <5>2. h[n + 1] = g[n + 1]
          BY <3>2, <3>3, <5>1
        <5> QED BY <3>3, <4>2, <5>2 DEF BehindOf
      <4> QED BY <4>1, <4>2
    <3> QED BY <2>1, <3>4, <3>5
  <2> QED BY <2>2, <2>3
<1>2. PICK g : Upto(Len(s), g)
  BY <1>0, <1>1
<1> QED BY <1>0, <1>2

(* The bytes behind n entries are those behind n + 1 and of the one        *)
(* between.                                                                *)
LEMMA BytesBehind ==
  ASSUME NEW s \in Seq(Entry), NEW n \in 0 .. Len(s)
  PROVE  /\ BytesAfter(s, n) \in Nat
         /\ n = Len(s) => BytesAfter(s, n) = 0
         /\ n # Len(s) => BytesAfter(s, n) = s[n + 1].size + BytesAfter(s, n + 1)
<1> DEFINE It(g) == [i \in 0 .. Len(s) |-> IF i = Len(s) THEN 0 ELSE s[i + 1].size + g[i + 1]]
<1>0. Len(s) \in Nat
  OBVIOUS
<1>1. \A k : BytesAfter(s, k) = (CHOOSE g : g = It(g))[k]
  BY DEF BytesAfter
<1>2. PICK k \in [0 .. Len(s) -> Nat] : \A i \in 0 .. Len(s) : k[i] = BehindOf(s, k, i)
  BY BehindExists
<1>3. k = It(k)
  BY <1>2 DEF BehindOf
<1>4. PICK g : g = CHOOSE q : q = It(q)
  OBVIOUS
<1>5. g = It(g)
  <2> HIDE DEF It
  <2> QED BY <1>3, <1>4
<1>6. \A i \in 0 .. Len(s) : g[i] = BehindOf(s, g, i)
  BY <1>5 DEF BehindOf
<1>7. \A i \in 0 .. Len(s) : g[i] = k[i]
  <2> DEFINE Bad == {m \in Nat : m <= Len(s) /\ g[Len(s) - m] # k[Len(s) - m]}
  <2>1. ASSUME Bad # {} PROVE FALSE
    <3>1. PICK m \in Bad : \A j \in Bad : m <= j
      BY <2>1, FirstNumber
    <3>2. CASE m = 0
      BY <1>0, <1>2, <1>6, <3>1, <3>2 DEF BehindOf
    <3>3. CASE m # 0
      <4>1. m - 1 \in Nat /\ m - 1 <= Len(s) /\ ~(m <= m - 1) /\ Len(s) - m \in 0 .. Len(s) /\ Len(s) - m # Len(s)
            /\ Len(s) - (m - 1) = (Len(s) - m) + 1
        BY <1>0, <3>1, <3>3
      <4>2. g[(Len(s) - m) + 1] = k[(Len(s) - m) + 1]
        BY <3>1, <4>1
      <4> QED BY <1>2, <1>6, <3>1, <4>1, <4>2 DEF BehindOf
    <3> QED BY <3>2, <3>3
  <2>2. ASSUME NEW i \in 0 .. Len(s) PROVE g[i] = k[i]
    <3>1. Len(s) - i \in Nat /\ Len(s) - i <= Len(s) /\ Len(s) - (Len(s) - i) = i
      BY <1>0
    <3> QED BY <2>1, <3>1
  <2> QED BY <2>2
<1>8. BytesAfter(s, n) = g[n] /\ BytesAfter(s, n + 1) = g[n + 1]
  <2> HIDE DEF It
  <2> QED BY <1>1, <1>4
<1>9. g[n] = k[n] /\ k[n] \in Nat /\ g[n] = BehindOf(s, g, n)
  BY <1>2, <1>6, <1>7
<1> QED BY <1>8, <1>9 DEF BehindOf

(* Entries of the same sizes are as many bytes.                            *)
LEMMA SameBytes ==
  ASSUME NEW t \in Seq(Entry), NEW u \in Seq(Entry), NEW a \in 0 .. Len(t), NEW b \in 0 .. Len(u),
         Len(t) - a = Len(u) - b, \A i \in 1 .. Len(t) - a : t[a + i].size = u[b + i].size
  PROVE  BytesAfter(t, a) = BytesAfter(u, b)
<1>0. PICK n \in Nat : n = Len(t) - a /\ n = Len(u) - b /\ a = Len(t) - n /\ b = Len(u) - n /\ Len(t) \in Nat /\ Len(u) \in Nat
                       /\ a \in Nat /\ b \in Nat
  OBVIOUS
<1> DEFINE Bad == {k \in Nat : k <= n /\ BytesAfter(t, Len(t) - k) # BytesAfter(u, Len(u) - k)}
<1>1. ASSUME Bad # {} PROVE FALSE
  <2>1. PICK k \in Bad : \A j \in Bad : k <= j
    BY <1>1, FirstNumber
  <2>2. Len(t) - k \in 0 .. Len(t) /\ Len(u) - k \in 0 .. Len(u)
    BY <1>0, <2>1
  <2>3. CASE k = 0
    BY <1>0, <2>1, <2>2, <2>3, BytesBehind
  <2>4. CASE k # 0
    <3>1. /\ k - 1 \in Nat /\ k - 1 <= n /\ ~(k <= k - 1) /\ Len(t) - k # Len(t) /\ Len(u) - k # Len(u)
          /\ Len(t) - (k - 1) = (Len(t) - k) + 1 /\ Len(u) - (k - 1) = (Len(u) - k) + 1
      <4>1. k \in Nat /\ k <= n /\ k # 0
        BY <2>1, <2>4
      <4>2. \A p \in Nat : p - k # p /\ p - (k - 1) = (p - k) + 1
        BY <4>1
      <4>3. k - 1 \in Nat /\ k - 1 <= n /\ ~(k <= k - 1)
        BY <4>1
      <4> HIDE DEF Bad
      <4> QED BY <1>0, <4>2, <4>3
    <3>2. BytesAfter(t, (Len(t) - k) + 1) = BytesAfter(u, (Len(u) - k) + 1)
      BY <2>1, <3>1
    <3>3. t[(Len(t) - k) + 1].size = u[(Len(u) - k) + 1].size
      <4>1. n - k + 1 \in 1 .. Len(t) - a /\ a + (n - k + 1) = (Len(t) - k) + 1 /\ b + (n - k + 1) = (Len(u) - k) + 1
        <5>1. k \in Nat /\ k <= n /\ k # 0
          BY <2>1, <2>4
        <5> HIDE DEF Bad
        <5> QED BY <1>0, <5>1
      <4> QED BY <4>1
    <3> QED BY <2>1, <2>2, <3>1, <3>2, <3>3, BytesBehind
  <2> QED BY <2>3, <2>4
<1>2. Bad = {}
  BY <1>1
<1>3. ~(BytesAfter(t, Len(t) - n) # BytesAfter(u, Len(u) - n))
  <2>1. n <= n
    OBVIOUS
  <2> QED BY <1>2, <2>1
<1> QED BY <1>0, <1>3

(* The first k entries and what is behind them.                            *)
LEMMA BytesCutOff ==
  ASSUME NEW s \in Seq(Entry), NEW k \in 0 .. Len(s)
  PROVE  BytesAfter(SubSeq(s, 1, k), 0) + BytesAfter(s, k) = BytesAfter(s, 0)
<1>0. PICK c : c = SubSeq(s, 1, k)
  OBVIOUS
<1>1. k \in Nat /\ Len(s) \in Nat /\ k <= Len(s)
  OBVIOUS
<1>2. c \in Seq(Entry) /\ Len(c) = k /\ \A i \in 1 .. k : c[i] = s[i]
  BY <1>0, <1>1
<1> DEFINE Bad == {j \in Nat : j <= k /\ BytesAfter(c, k - j) + BytesAfter(s, k) # BytesAfter(s, k - j)}
<1>3. ASSUME Bad # {} PROVE FALSE
  <2>1. PICK j \in Bad : \A i \in Bad : j <= i
    BY <1>3, FirstNumber
  <2>2. k - j \in 0 .. Len(c) /\ k - j \in 0 .. Len(s) /\ k \in 0 .. Len(s) /\ Len(s) \in Nat /\ k \in Nat
    BY <1>1, <1>2, <2>1
  <2>3. CASE j = 0
    <3>1. k - j = k /\ k \in 0 .. Len(c) /\ k = Len(c)
      BY <1>1, <1>2, <2>3
    <3>2. BytesAfter(c, k) = 0 /\ BytesAfter(s, k) \in Nat
      BY <1>2, <2>2, <3>1, BytesBehind
    <3> QED BY <2>1, <3>1, <3>2
  <2>4. CASE j # 0
    <3>1. /\ j - 1 \in Nat /\ j - 1 <= k /\ ~(j <= j - 1) /\ k - j # Len(c) /\ k - j # Len(s) /\ k - (j - 1) = (k - j) + 1
          /\ (k - j) + 1 \in 1 .. k /\ (k - j) + 1 \in 0 .. Len(c) /\ (k - j) + 1 \in 0 .. Len(s)
      BY <1>1, <1>2, <2>1, <2>2, <2>4
    <3>2. BytesAfter(c, (k - j) + 1) + BytesAfter(s, k) = BytesAfter(s, (k - j) + 1)
      BY <2>1, <3>1
    <3>3. c[(k - j) + 1].size = s[(k - j) + 1].size /\ c[(k - j) + 1].size \in Nat
      BY <1>1, <1>2, <3>1, EntryAt
    <3>4. BytesAfter(c, (k - j) + 1) \in Nat /\ BytesAfter(s, k) \in Nat
      BY <1>2, <2>2, <3>1, BytesBehind
    <3>5. BytesAfter(c, k - j) = c[(k - j) + 1].size + BytesAfter(c, (k - j) + 1)
      BY <1>2, <2>2, <3>1, BytesBehind
    <3>6. BytesAfter(s, k - j) = s[(k - j) + 1].size + BytesAfter(s, (k - j) + 1)
      BY <1>2, <2>2, <3>1, BytesBehind
    <3> QED BY <2>1, <3>2, <3>3, <3>4, <3>5, <3>6
  <2> QED BY <2>3, <2>4
<1>4. Bad = {}
  BY <1>3
<1>5. BytesAfter(c, k - k) + BytesAfter(s, k) = BytesAfter(s, k - k)
  <2>1. k \in Nat /\ k <= k
    OBVIOUS
  <2> QED BY <1>4, <2>1
<1>6. k - k = 0
  OBVIOUS
<1> QED BY <1>0, <1>5, <1>6

(* One entry less, or one in front.                                        *)
LEMMA WithoutIs ==
  ASSUME NEW s \in Seq(Entry), NEW i \in DOMAIN s
  PROVE  /\ Without(s, i) \in Seq(Entry) /\ Len(Without(s, i)) = Len(s) - 1
         /\ \A j \in 1 .. Len(s) - 1 : Without(s, i)[j] = s[IF j < i THEN j ELSE j + 1]
<1> DEFINE a == SubSeq(s, 1, i - 1)
           b == SubSeq(s, i + 1, Len(s))
<1>0. i \in 1 .. Len(s) /\ Len(s) \in Nat
  OBVIOUS
<1>1. a \in Seq(Entry) /\ Len(a) = i - 1 /\ \A j \in 1 .. i - 1 : a[j] = s[j]
  OBVIOUS
<1>2. b \in Seq(Entry) /\ Len(b) = Len(s) - i /\ \A j \in 1 .. Len(s) - i : b[j] = s[i + j]
  OBVIOUS
<1>3. Without(s, i) = a \o b
  BY DEF Without
<1> HIDE DEF a, b
<1>4. /\ Without(s, i) \in Seq(Entry)
      /\ Len(Without(s, i)) = Len(s) - 1
      /\ \A j \in 1 .. Len(s) - 1 :
            Without(s, i)[j] = IF j <= i - 1 THEN a[j] ELSE b[j - (i - 1)]
  BY <1>1, <1>2, <1>3, ConcatProperties, SMTT(60)
<1>5. ASSUME NEW j \in 1 .. Len(s) - 1 PROVE Without(s, i)[j] = s[IF j < i THEN j ELSE j + 1]
  <2>1. CASE j < i
    <3>1. j \in 1 .. i - 1 /\ j <= i - 1
      BY <1>0, <2>1
    <3> QED BY <1>1, <1>4, <2>1, <3>1
  <2>2. CASE ~(j < i)
    <3>1. j - (i - 1) \in 1 .. Len(s) - i /\ ~(j <= i - 1) /\ i + (j - (i - 1)) = j + 1
      BY <1>0, <2>2
    <3>2. b[j - (i - 1)] = s[j + 1]
      BY <1>2, <3>1
    <3> QED BY <1>4, <2>2, <3>1, <3>2
  <2> QED BY <2>1, <2>2
<1> QED BY <1>4, <1>5

LEMMA BytesWithout ==
  ASSUME NEW s \in Seq(Entry), NEW i \in DOMAIN s
  PROVE  BytesAfter(Without(s, i), 0) + s[i].size = BytesAfter(s, 0)
<1>0. PICK w \in Seq(Entry) : w = Without(s, i) /\ Len(w) = Len(s) - 1 /\ \A j \in 1 .. Len(s) - 1 : w[j] = s[IF j < i THEN j ELSE j + 1]
  BY WithoutIs
<1>1. i \in 1 .. Len(s) /\ Len(s) \in Nat /\ i \in Nat /\ s[i].size \in Nat
  BY EntryAt
<1> DEFINE k == i - 1
<1>2. k \in 0 .. Len(w) /\ i \in 0 .. Len(s) /\ k \in 0 .. Len(s) /\ k # Len(s) /\ k + 1 = i
  BY <1>0, <1>1
<1>3. BytesAfter(w, k) = BytesAfter(s, i)
  <2>1. Len(w) - k = Len(s) - i
    BY <1>0, <1>1
  <2>2. ASSUME NEW j \in 1 .. Len(w) - k PROVE w[k + j].size = s[i + j].size
    <3>1. k + j \in 1 .. Len(s) - 1 /\ ~(k + j < i) /\ k + j + 1 = i + j
      BY <1>0, <1>1
    <3> QED BY <1>0, <3>1
  <2> HIDE DEF k
  <2> QED BY <1>2, <2>1, <2>2, SameBytes
<1>4. BytesAfter(w, k) + s[i].size = BytesAfter(s, k)
  <2>1. BytesAfter(s, k) = s[i].size + BytesAfter(s, i)
    BY <1>2, BytesBehind
  <2>2. BytesAfter(s, i) \in Nat
    BY <1>2, BytesBehind
  <2> QED BY <1>1, <1>3, <2>1, <2>2
<1> DEFINE Bad == {j \in Nat : j <= k /\ BytesAfter(w, k - j) + s[i].size # BytesAfter(s, k - j)}
<1>5. ASSUME Bad # {} PROVE FALSE
  <2>1. PICK j \in Bad : \A n \in Bad : j <= n
    BY <1>5, FirstNumber
  <2>2. k - j \in 0 .. Len(w) /\ k - j \in 0 .. Len(s)
    BY <1>0, <1>1, <2>1
  <2>3. j # 0
    <3>1. j = 0 => k - j = k
      BY <1>1
    <3> QED BY <1>4, <2>1, <3>1
  <2>4. /\ j - 1 \in Nat /\ j - 1 <= k /\ ~(j <= j - 1) /\ k - j # Len(w) /\ k - j # Len(s) /\ k - (j - 1) = (k - j) + 1
        /\ (k - j) + 1 \in 1 .. Len(s) - 1 /\ (k - j) + 1 < i /\ (k - j) + 1 \in 0 .. Len(w) /\ (k - j) + 1 \in 0 .. Len(s)
        /\ (k - j) + 1 \in 1 .. Len(s)
    BY <1>0, <1>1, <2>1, <2>3
  <2>5. BytesAfter(w, (k - j) + 1) + s[i].size = BytesAfter(s, (k - j) + 1)
    BY <2>1, <2>4
  <2>6. w[(k - j) + 1].size = s[(k - j) + 1].size /\ s[(k - j) + 1].size \in Nat
    BY <1>0, <2>4, EntryAt
  <2>7. BytesAfter(w, (k - j) + 1) \in Nat
    BY <2>4, BytesBehind
  <2>8. BytesAfter(w, k - j) = w[(k - j) + 1].size + BytesAfter(w, (k - j) + 1)
    BY <2>2, <2>4, BytesBehind
  <2>9. BytesAfter(s, k - j) = s[(k - j) + 1].size + BytesAfter(s, (k - j) + 1)
    BY <2>2, <2>4, BytesBehind
  <2> QED BY <1>1, <2>1, <2>5, <2>6, <2>7, <2>8, <2>9
<1>6. k \in Nat /\ k <= k /\ k \notin Bad /\ k - k = 0
  BY <1>1, <1>5
<1> QED BY <1>0, <1>6

LEMMA BytesInFront ==
  ASSUME NEW s \in Seq(Entry), NEW e \in Entry
  PROVE  BytesAfter(<<e>> \o s, 0) = e.size + BytesAfter(s, 0)
<1>0. PICK t : t = <<e>> \o s
  OBVIOUS
<1>1. t \in Seq(Entry) /\ Len(t) = Len(s) + 1 /\ t[1] = e /\ \A i \in 1 .. Len(s) : t[1 + i] = s[i]
  BY <1>0
<1>2. Len(s) \in Nat /\ Len(t) \in Nat /\ 1 \in 0 .. Len(t) /\ 0 \in 0 .. Len(t) /\ 0 \in 0 .. Len(s) /\ 0 # Len(t)
      /\ Len(t) - 1 = Len(s) - 0 /\ 0 + 1 = 1
  BY <1>1
<1>3. BytesAfter(t, 1) = BytesAfter(s, 0)
  <2>1. \A i \in 1 .. Len(t) - 1 : t[1 + i].size = s[0 + i].size
    BY <1>1, <1>2
  <2> QED BY <1>1, <1>2, <2>1, SameBytes
<1>4. BytesAfter(t, 0) = t[1].size + BytesAfter(t, 1)
  BY <1>1, <1>2, BytesBehind
<1> QED BY <1>0, <1>1, <1>3, <1>4
-----------------------------------------------------------------------------
(* The limits, whatever is put, replaced, expired and evicted.             *)

Distinct(s) == \A i, j \in DOMAIN s : s[i].key = s[j].key => i = j
Bounded(s, b) ==
  s \in Seq(Entry) /\ Len(s) <= MaxEntries /\ b \in Nat /\ b <= MaxBytes /\ b = BytesAfter(s, 0) /\ Distinct(s)

LEMMA BoundedIs == TypeOK => (StoreBounded <=> Bounded(lru, bytes))
<1> SUFFICES ASSUME TypeOK PROVE StoreBounded <=> Bounded(lru, bytes)
  OBVIOUS
<1>1. lru \in Seq(Entry) /\ 0 \in 0 .. Len(lru)
  BY DEF TypeOK
<1>2. BytesAfter(lru, 0) \in Nat
  BY <1>1, BytesBehind
<1> QED BY <1>1, <1>2 DEF StoreBounded, Bounded, Distinct

LEMMA DistinctWithout ==
  ASSUME NEW s \in Seq(Entry), NEW i \in DOMAIN s, Distinct(s)
  PROVE  /\ Distinct(Without(s, i))
         /\ \A j \in DOMAIN Without(s, i) : Without(s, i)[j].key # s[i].key
<1>0. PICK w \in Seq(Entry) : w = Without(s, i) /\ Len(w) = Len(s) - 1 /\ \A j \in 1 .. Len(s) - 1 : w[j] = s[IF j < i THEN j ELSE j + 1]
  BY WithoutIs
<1>1. i \in 1 .. Len(s) /\ Len(s) \in Nat /\ DOMAIN s = 1 .. Len(s) /\ DOMAIN w = 1 .. Len(s) - 1
  BY <1>0
<1> DEFINE at(j) == IF j < i THEN j ELSE j + 1
<1>2. ASSUME NEW j \in DOMAIN w PROVE at(j) \in DOMAIN s /\ at(j) # i /\ w[j] = s[at(j)]
  BY <1>0, <1>1
<1>3. ASSUME NEW j \in DOMAIN w, NEW k \in DOMAIN w, at(j) = at(k) PROVE j = k
  BY <1>1, <1>3
<1> HIDE DEF at
<1>4. Distinct(w)
  BY <1>2, <1>3 DEF Distinct
<1>5. \A j \in DOMAIN w : w[j].key # s[i].key
  BY <1>2 DEF Distinct
<1> QED BY <1>0, <1>4, <1>5

(* An entry in front of others with other keys.                            *)
LEMMA DistinctInFront ==
  ASSUME NEW s \in Seq(Entry), NEW e \in Entry, Distinct(s), \A j \in DOMAIN s : s[j].key # e.key
  PROVE  Distinct(<<e>> \o s) /\ <<e>> \o s \in Seq(Entry) /\ Len(<<e>> \o s) = Len(s) + 1
<1>0. PICK t : t = <<e>> \o s
  OBVIOUS
<1>1. t \in Seq(Entry) /\ Len(t) = Len(s) + 1 /\ t[1] = e /\ \A i \in 1 .. Len(s) : t[1 + i] = s[i]
  BY <1>0
<1>2. Len(s) \in Nat /\ DOMAIN s = 1 .. Len(s) /\ DOMAIN t = 1 .. Len(s) + 1
  BY <1>1
<1>3. ASSUME NEW j \in DOMAIN t, j # 1 PROVE j - 1 \in DOMAIN s /\ t[j] = s[j - 1]
  <2>1. j - 1 \in 1 .. Len(s) /\ 1 + (j - 1) = j
    BY <1>2, <1>3
  <2> QED BY <1>1, <1>2, <2>1
<1>4. ASSUME NEW i \in DOMAIN t, NEW j \in DOMAIN t, t[i].key = t[j].key PROVE i = j
  <2>1. CASE i = 1 /\ j # 1
    BY <1>1, <1>3, <1>4, <2>1
  <2>2. CASE i # 1 /\ j = 1
    BY <1>1, <1>3, <1>4, <2>2
  <2>3. CASE i # 1 /\ j # 1
    <3>1. i - 1 = j - 1
      BY <1>3, <1>4, <2>3 DEF Distinct
    <3> QED BY <1>2, <3>1
  <2> QED BY <2>1, <2>2, <2>3
<1> QED BY <1>0, <1>1, <1>4 DEF Distinct

(* Without an entry, and its bytes.                                        *)
LEMMA BoundedWithout ==
  ASSUME NEW s, NEW b, Bounded(s, b), NEW i \in DOMAIN s
  PROVE  /\ Bounded(Without(s, i), b - s[i].size) /\ s[i] \in Entry /\ s[i].size \in Nat
         /\ Len(Without(s, i)) = Len(s) - 1 /\ \A j \in DOMAIN Without(s, i) : Without(s, i)[j].key # s[i].key
<1>1. s \in Seq(Entry) /\ i \in 1 .. Len(s) /\ Len(s) \in Nat
  BY DEF Bounded
<1>2. s[i] \in Entry /\ s[i].size \in Nat
  BY <1>1, EntryAt
<1>3. PICK w \in Seq(Entry) : w = Without(s, i) /\ Len(w) = Len(s) - 1
  BY <1>1, WithoutIs
<1>4. Distinct(w) /\ \A j \in DOMAIN w : w[j].key # s[i].key
  BY <1>1, <1>3, DistinctWithout DEF Bounded
<1>5. BytesAfter(w, 0) + s[i].size = b /\ BytesAfter(w, 0) \in Nat
  <2>1. BytesAfter(w, 0) + s[i].size = BytesAfter(s, 0)
    BY <1>1, <1>3, BytesWithout
  <2>2. 0 \in 0 .. Len(w)
    BY <1>1, <1>3
  <2> QED BY <2>1, <2>2, BytesBehind DEF Bounded
<1> QED BY <1>1, <1>2, <1>3, <1>4, <1>5, ConfigAssumption DEF Bounded

LEMMA TouchBounded ==
  ASSUME Bounded(lru, bytes), NEW k, Touch(k)
  PROVE  Bounded(lru', bytes')
<1>1. ASSUME NEW i \in Live(k), lru' = <<lru[i]>> \o Without(lru, i), bytes' = bytes PROVE Bounded(lru', bytes')
  <2>1. i \in DOMAIN lru /\ lru \in Seq(Entry) /\ Len(lru) \in Nat
    BY DEF Live, Holds, Bounded
  <2>2. PICK w : w = Without(lru, i)
    OBVIOUS
  <2>3. /\ Bounded(w, bytes - lru[i].size) /\ lru[i] \in Entry /\ lru[i].size \in Nat
        /\ Len(w) = Len(lru) - 1 /\ \A j \in DOMAIN w : w[j].key # lru[i].key
    BY <2>1, <2>2, BoundedWithout
  <2>4. Distinct(lru') /\ lru' \in Seq(Entry) /\ Len(lru') = Len(lru)
    BY <1>1, <2>1, <2>2, <2>3, DistinctInFront DEF Bounded
  <2>5. BytesAfter(lru', 0) = lru[i].size + BytesAfter(w, 0)
    BY <1>1, <2>2, <2>3, BytesInFront DEF Bounded
  <2> QED BY <1>1, <2>3, <2>4, <2>5 DEF Bounded
<1>2. ASSUME NEW i \in Holds(k) \ Live(k), lru' = Without(lru, i), bytes' = bytes - lru[i].size PROVE Bounded(lru', bytes')
  BY <1>2, BoundedWithout DEF Holds
<1>3. CASE UNCHANGED <<lru, bytes>>
  BY <1>3
<1> QED BY <1>1, <1>2, <1>3 DEF Touch

LEMMA StoreIsBounded ==
  ASSUME Bounded(lru, bytes), NEW k \in Keys, NEW r \in Result, r.gen \in Gens, Store(k, r)
  PROVE  Bounded(lru', bytes')
<1> DEFINE old == Holds(k)
           at == CHOOSE i \in old : TRUE
<1>1. PICK new : new = [key |-> k, gen |-> r.gen, size |-> r.size, expired |-> FALSE]
  OBVIOUS
<1>2. new \in Entry /\ new.key = k /\ new.size = r.size /\ r.size \in Nat
  BY <1>1 DEF Entry, Result
<1>3. PICK rest : rest = IF old = {} THEN lru ELSE Without(lru, at)
  OBVIOUS
<1>4. PICK freed : freed = IF old = {} THEN 0 ELSE lru[at].size
  OBVIOUS
<1>5. Bounded(rest, bytes - freed) /\ \A j \in DOMAIN rest : rest[j].key # k
  <2>1. CASE old = {}
    BY <1>3, <1>4, <2>1 DEF Holds, Bounded
  <2>2. CASE old # {}
    <3>1. at \in DOMAIN lru /\ lru[at].key = k
      BY <2>2 DEF Holds
    <3> HIDE DEF at
    <3>2. rest = Without(lru, at) /\ freed = lru[at].size
      BY <1>3, <1>4, <2>2
    <3> QED BY <3>1, <3>2, BoundedWithout
  <2> QED BY <2>1, <2>2
<1>6. PICK all : all = <<new>> \o rest
  OBVIOUS
<1>7. PICK total : total = bytes - freed + r.size
  OBVIOUS
<1>8. /\ all \in Seq(Entry) /\ Distinct(all) /\ Len(all) \in Nat
      /\ BytesAfter(all, 0) = total /\ total \in Nat
  <2>1. rest \in Seq(Entry) /\ Distinct(rest) /\ bytes - freed = BytesAfter(rest, 0) /\ bytes - freed \in Nat
    BY <1>5 DEF Bounded
  <2>2. all \in Seq(Entry) /\ Distinct(all)
    BY <1>2, <1>5, <1>6, <2>1, DistinctInFront
  <2>3. BytesAfter(all, 0) = r.size + BytesAfter(rest, 0)
    BY <1>2, <1>6, <2>1, BytesInFront
  <2> QED BY <1>2, <1>7, <2>1, <2>2, <2>3
<1>9. PICK kept \in 0 .. Len(all) :
        /\ kept <= MaxEntries /\ total - BytesAfter(all, kept) <= MaxBytes
        /\ lru' = SubSeq(all, 1, kept) /\ bytes' = total - BytesAfter(all, kept)
  BY <1>1, <1>3, <1>4, <1>6, <1>7 DEF Store
<1>10. lru' \in Seq(Entry) /\ Len(lru') = kept /\ \A j \in 1 .. kept : j \in DOMAIN all /\ lru'[j] = all[j]
  <2>1. kept \in Nat /\ kept <= Len(all)
    BY <1>8, <1>9
  <2> QED BY <1>8, <1>9, <2>1
<1>11. Distinct(lru')
  BY <1>8, <1>10 DEF Distinct
<1>12. BytesAfter(lru', 0) + BytesAfter(all, kept) = total /\ BytesAfter(lru', 0) \in Nat /\ BytesAfter(all, kept) \in Nat
  <2>1. 0 \in 0 .. Len(lru') /\ kept \in 0 .. Len(all)
    BY <1>8, <1>9, <1>10
  <2>2. BytesAfter(lru', 0) + BytesAfter(all, kept) = total
    BY <1>8, <1>9, BytesCutOff
  <2> QED BY <1>8, <1>10, <2>1, <2>2, BytesBehind
<1> QED BY <1>9, <1>10, <1>11, <1>12 DEF Bounded

LEMMA BoundedStep == CacheInv /\ StoreBounded /\ [Next]_vars => StoreBounded'
<1> SUFFICES ASSUME CacheInv, StoreBounded, [Next]_vars PROVE StoreBounded'
  OBVIOUS
<1>1. TypeOK /\ TypeOK'
  BY NextCacheInv DEF CacheInv
<1>2. Bounded(lru, bytes)
  BY <1>1, BoundedIs
<1> SUFFICES Bounded(lru', bytes')
  BY DEF StoreBounded, Bounded, Distinct
<1>3. CASE UNCHANGED <<lru, bytes>>
  BY <1>2, <1>3
<1>4. ASSUME NEW i \in 1 .. MaxEntries, Expire(i) PROVE Bounded(lru', bytes')
  <2>1. i \in DOMAIN lru /\ lru \in Seq(Entry) /\ lru' = [lru EXCEPT ![i].expired = TRUE] /\ bytes' = bytes
    BY <1>1, <1>4 DEF Expire, TypeOK
  <2>2. lru' \in Seq(Entry) /\ DOMAIN lru' = DOMAIN lru
    BY <1>1, <2>1, ExpireKeeps
  <2>3. \A j \in DOMAIN lru : lru'[j].key = lru[j].key /\ lru'[j].size = lru[j].size
    <3>1. \A j \in DOMAIN lru : lru[j] \in Entry
      BY <2>1
    <3>2. lru' = [lru EXCEPT ![i] = [lru[i] EXCEPT !.expired = TRUE]]
      BY <2>1
    <3> QED BY <2>1, <3>1, <3>2 DEF Entry
  <2>4. Len(lru') = Len(lru) /\ Len(lru) \in Nat
    BY <2>1, <2>2
  <2>5. BytesAfter(lru', 0) = BytesAfter(lru, 0)
    <3>1. 0 \in 0 .. Len(lru) /\ 0 \in 0 .. Len(lru') /\ Len(lru') - 0 = Len(lru) - 0
      BY <2>4
    <3>2. \A j \in 1 .. Len(lru') - 0 : lru'[0 + j].size = lru[0 + j].size
      <4>1. \A j \in 1 .. Len(lru') - 0 : 0 + j \in DOMAIN lru
        BY <2>1, <2>4
      <4> QED BY <2>3, <4>1
    <3>3. PICK t \in Seq(Entry) : t = lru'
      BY <2>2
    <3>4. PICK u \in Seq(Entry) : u = lru
      BY <2>1
    <3>5. BytesAfter(t, 0) = BytesAfter(u, 0)
      BY <3>1, <3>2, <3>3, <3>4, SameBytes
    <3> QED BY <3>3, <3>4, <3>5
  <2> QED BY <1>2, <2>1, <2>2, <2>3, <2>4, <2>5 DEF Bounded, Distinct
<1>5. ASSUME NEW c \in Callers, Get(c) \/ Admit(c) PROVE Bounded(lru', bytes')
  BY <1>2, <1>5, TouchBounded DEF Get, Admit
<1>6. ASSUME NEW c \in Callers, Put(c) PROVE Bounded(lru', bytes')
  <2>1. CASE result[c].size > MaxBytes
    BY <1>1, <1>3, <1>6, <2>1, ConfigAssumption DEF Put, TypeOK, Result
  <2>2. CASE result[c].size <= MaxBytes
    <3>1. result[c] \in Result /\ Store(KeyOf(c), result[c])
      BY <1>1, <1>6, <2>2 DEF Put, TypeOK
    <3>2. req[c] \in Requests /\ seen[c] \in Gens /\ result[c].gen = seen[c]
      BY <1>6 DEF CacheInv, CarriedIsFresh, Put
    <3>3. KeyOf(c) \in Keys
      BY <3>2 DEF KeyOf, Keys
    <3> QED BY <1>2, <3>1, <3>2, <3>3, StoreIsBounded
  <2>3. result[c].size \in Nat /\ MaxBytes \in Nat
    BY <1>1, ConfigAssumption DEF TypeOK, Result
  <2> QED BY <2>1, <2>2, <2>3
<1> QED BY <1>3, <1>4, <1>5, <1>6 DEF Next, CallStep, vars, Rotate, RunDirect, Load, CloseFlight, WaiterTakes, Return,
     WaiterCanceled, Observe

LEMMA LoadsWhatIsMissing ==
  CacheInv /\ [Next]_vars => \A c \in Callers : pc[c] # "loading" /\ pc'[c] = "loading" => Live(KeyOf(c)) = {}
<1> SUFFICES ASSUME CacheInv, [Next]_vars, NEW c \in Callers, pc[c] # "loading", pc'[c] = "loading" PROVE Live(KeyOf(c)) = {}
  OBVIOUS
<1>1. pc \in [Callers -> Pc]
  BY DEF CacheInv, TypeOK
<1>2. PICK d \in Callers : Admit(d)
  BY <1>1 DEF Next, CallStep, vars, Rotate, Expire, RunDirect, Get, Hit, Load, Put, CloseFlight, WaiterTakes, Return,
     WaiterCanceled, Observe
<1>3. d = c
  BY <1>1, <1>2 DEF Admit, Hit, Join, Lead
<1> QED BY <1>1, <1>2, <1>3 DEF Admit, Hit, Join, Lead

(* Every step keeps the limits and the counter right, and no load begins   *)
(* while a live entry holds its answer (Put, getLocked and DoIfState): for *)
(* every number of entries and bytes, and every size of an answer.         *)
THEOREM StoreServesHolds == Spec => StoreServes
<1>1. Init => StoreBounded
  <2> SUFFICES ASSUME Init PROVE StoreBounded
    OBVIOUS
  <2>1. <<>> \in Seq(Entry) /\ Len(<<>>) = 0 /\ 0 \in 0 .. Len(<<>>)
    OBVIOUS
  <2>2. BytesAfter(<<>>, 0) = 0
    BY <2>1, BytesBehind
  <2> QED BY <2>1, <2>2, ConfigAssumption DEF Init, StoreBounded
<1>2. CacheInv /\ StoreBounded /\ [Next]_vars
        => [/\ StoreBounded'
            /\ \A c \in Callers : pc[c] # "loading" /\ pc'[c] = "loading" => Live(KeyOf(c)) = {}]_vars
  BY BoundedStep, LoadsWhatIsMissing
<1> QED BY <1>1, <1>2, BoundedStep, CacheInvariant, PTL DEF Spec, StoreServes
=============================================================================
