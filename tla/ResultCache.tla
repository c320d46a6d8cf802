---------------------------- MODULE ResultCache -----------------------------
(***************************************************************************)
(* internal/resultcache (the bounded LRU cache with coalesced loads) under *)
(* internal/core's cachedRunner, its only user.                            *)
(*                                                                         *)
(* A key is the request together with the provider generation observed     *)
(* just before the lookup; every other dimension of KeyParts is part of    *)
(* Requests.  An answer is abstracted to the generation its evidence       *)
(* carries, its size, and whether cacheableOutcome accepts it.  A step is  *)
(* one critical section of Cache.mu, or one thing a load does.             *)
(***************************************************************************)
EXTENDS Naturals, Sequences, FiniteSets

CONSTANTS
    Callers,     \* concurrent cachedRunner.Run calls
    Requests,    \* requests that differ in anything but the generation
    Sizes,       \* sizes of encoded answers
    MaxEntries,  \* Config.MaxEntries
    MaxBytes,    \* Config.MaxBytes
    MaxGen,      \* bound on the provider's generations
    NoCaller,    \* stands for no caller
    NoRequest    \* stands for no request

ASSUME ConfigAssumption ==
    MaxEntries \in Nat \ {0} /\ MaxBytes \in Nat \ {0}
ASSUME BoundAssumption == MaxGen \in Nat \ {0} /\ Sizes \subseteq Nat
ASSUME NoneAssumption == NoCaller \notin Callers /\ NoRequest \notin Requests

VARIABLES
    gen,      \* the provider's content generation (external)
    lru,      \* Cache.lru and Cache.items: the entries, most recent first
    bytes,    \* Cache.bytes
    flights,  \* Cache.flights: the caller leading each key's load
    pc,       \* where each call is
    req,      \* its request
    seen,     \* the generation its identity probe observed
    joined,   \* the leader whose flight it waits on
    result    \* what its load, its flight or the cache gave it

vars == <<gen, lru, bytes, flights, pc, req, seen, joined, result>>

Gens == 1 .. MaxGen
Keys == Requests \X Gens
Entry == [key : Keys, gen : Gens, size : Nat, expired : BOOLEAN]
Failed == [gen |-> 0, size |-> 0, cacheable |-> FALSE]
Result == [gen : 0 .. MaxGen, size : Nat, cacheable : BOOLEAN]
Pc == {"idle", "direct", "keyed", "missed", "waiting", "woken", "loading",
       "putting", "closing", "answered"}

(* The byte counter is left to StoreBounded, which says what it equals.    *)
TypeOK ==
    /\ gen \in Gens
    /\ lru \in Seq(Entry)
    /\ flights \in [Keys -> Callers \cup {NoCaller}]
    /\ pc \in [Callers -> Pc]
    /\ req \in [Callers -> Requests \cup {NoRequest}]
    /\ seen \in [Callers -> 0 .. MaxGen]
    /\ joined \in [Callers -> Callers \cup {NoCaller}]
    /\ result \in [Callers -> Result]

Init ==
    /\ gen = 1
    /\ lru = <<>>
    /\ bytes = 0
    /\ flights = [k \in Keys |-> NoCaller]
    /\ pc = [c \in Callers |-> "idle"]
    /\ req = [c \in Callers |-> NoRequest]
    /\ seen = [c \in Callers |-> 0]
    /\ joined = [c \in Callers |-> NoCaller]
    /\ result = [c \in Callers |-> Failed]

(* Mutant: the generation is left out of the key.                          *)
KeyOfAnyGeneration(c) == <<req[c], 1>>

(* CanonicalKey, over the dimensions kept.                                 *)
KeyOf(c) == <<req[c], seen[c]>>

-----------------------------------------------------------------------------
(* The store.                                                              *)

Holds(k) == {i \in DOMAIN lru : lru[i].key = k}

(* The entry a lookup may return: there, and not expired.                  *)
Live(k) == {i \in Holds(k) : ~lru[i].expired}

Without(s, i) == SubSeq(s, 1, i - 1) \o SubSeq(s, i + 1, Len(s))

(* The bytes of the entries behind the first n.                            *)
BytesAfter(s, n) ==
    LET sum[i \in 0 .. Len(s)] == IF i = Len(s) THEN 0 ELSE s[i + 1].size + sum[i + 1]
    IN  sum[n]

(* getLocked: a live entry moves to the front, an expired one is removed,  *)
(* anything else leaves the store alone.                                   *)
Touch(k) ==
    \/ /\ \E i \in Live(k) : lru' = <<lru[i]>> \o Without(lru, i)
       /\ bytes' = bytes
    \/ \E i \in Holds(k) \ Live(k) : /\ lru' = Without(lru, i)
                                     /\ bytes' = bytes - lru[i].size
    \/ Holds(k) = {} /\ UNCHANGED <<lru, bytes>>

(* Mutant: eviction counts entries and forgets bytes.                      *)
StoreUnbounded(k, r) ==
    LET all == <<[key |-> k, gen |-> r.gen, size |-> r.size, expired |-> FALSE]>>
               \o SelectSeq(lru, LAMBDA e : e.key # k)
    IN  /\ lru' = IF Len(all) > MaxEntries THEN SubSeq(all, 1, MaxEntries) ELSE all
        /\ bytes' = BytesAfter(lru', 0)

(* Put, past its size check: replace, push to the front, evict from the    *)
(* back until both limits hold.                                            *)
Store(k, r) ==
    LET old == Holds(k)
        at == CHOOSE i \in old : TRUE
        rest == IF old = {} THEN lru ELSE Without(lru, at)
        freed == IF old = {} THEN 0 ELSE lru[at].size
        all == <<[key |-> k, gen |-> r.gen, size |-> r.size, expired |-> FALSE]>> \o rest
        total == bytes - freed + r.size
        fits(n) == n <= MaxEntries /\ total - BytesAfter(all, n) <= MaxBytes
    IN  \E kept \in 0 .. Len(all) :
            /\ fits(kept)
            /\ kept < Len(all) => ~fits(kept + 1)
            /\ lru' = SubSeq(all, 1, kept)
            /\ bytes' = total - BytesAfter(all, kept)

-----------------------------------------------------------------------------
(* cachedRunner.Run.                                                       *)

(* The identity probe.  A provider that cannot attest a cacheable identity *)
(* is run directly, past the cache.                                        *)
Observe(c, r) ==
    /\ pc[c] = "idle"
    /\ req' = [req EXCEPT ![c] = r]
    /\ seen' = [seen EXCEPT ![c] = gen]
    /\ \E p \in {"keyed", "direct"} : pc' = [pc EXCEPT ![c] = p]
    /\ UNCHANGED <<gen, lru, bytes, flights, joined, result>>

(* What one physical read can give: a failure, or an answer of the         *)
(* provider's current generation that is complete or is not.               *)
Reads ==
    {Failed} \cup {[gen |-> gen, size |-> n, cacheable |-> b] :
                      n \in Sizes, b \in BOOLEAN}

RunDirect(c) ==
    /\ pc[c] = "direct"
    /\ \E r \in Reads : result' = [result EXCEPT ![c] = r]
    /\ pc' = [pc EXCEPT ![c] = "answered"]
    /\ UNCHANGED <<gen, lru, bytes, flights, req, seen, joined>>

(* A hit answers with the entry's value.                                   *)
Hit(c) ==
    /\ Live(KeyOf(c)) # {}
    /\ LET e == lru[CHOOSE i \in Live(KeyOf(c)) : TRUE]
       IN  result' = [result EXCEPT ![c] =
                        [gen |-> e.gen, size |-> e.size, cacheable |-> TRUE]]
    /\ pc' = [pc EXCEPT ![c] = "answered"]

(* DoIfState's first Get.                                                  *)
Get(c) ==
    /\ pc[c] = "keyed"
    /\ Touch(KeyOf(c))
    /\ \/ Hit(c)
       \/ /\ Live(KeyOf(c)) = {}
          /\ pc' = [pc EXCEPT ![c] = "missed"]
          /\ UNCHANGED result
    /\ UNCHANGED <<gen, flights, req, seen, joined>>

(* DoIfState's admission: look again, join the flight, or lead one.        *)
Join(c) ==
    /\ flights[KeyOf(c)] # NoCaller
    /\ joined' = [joined EXCEPT ![c] = flights[KeyOf(c)]]
    /\ pc' = [pc EXCEPT ![c] = "waiting"]
    /\ UNCHANGED <<flights, result>>

Lead(c) ==
    /\ flights[KeyOf(c)] = NoCaller
    /\ flights' = [flights EXCEPT ![KeyOf(c)] = c]
    /\ pc' = [pc EXCEPT ![c] = "loading"]
    /\ UNCHANGED <<joined, result>>

(* Mutant: the entry is not looked for again under the lock.               *)
AdmitUnchecked(c) ==
    /\ pc[c] = "missed"
    /\ Join(c) \/ Lead(c)
    /\ UNCHANGED <<gen, lru, bytes, req, seen>>

(* Mutant: a miss always leads, whatever is in flight.                     *)
AdmitUncoalesced(c) ==
    /\ pc[c] = "missed"
    /\ Live(KeyOf(c)) = {}
    /\ flights' = [flights EXCEPT ![KeyOf(c)] = c]
    /\ pc' = [pc EXCEPT ![c] = "loading"]
    /\ UNCHANGED <<gen, lru, bytes, req, seen, joined, result>>

Admit(c) ==
    /\ pc[c] = "missed"
    /\ Touch(KeyOf(c))
    /\ \/ Hit(c) /\ UNCHANGED <<flights, joined>>
       \/ Live(KeyOf(c)) = {} /\ (Join(c) \/ Lead(c))
    /\ UNCHANGED <<gen, req, seen>>

(* Mutant: a complete answer is published without asking whether the       *)
(* provider rotated under the read.                                        *)
PublishableUnmatched(c, r) == r.cacheable

(* cacheableOutcome and outcomeMatchesIdentity: the answer is complete and *)
(* its evidence carries the generation the key was made from.              *)
Publishable(c, r) == r.cacheable /\ r.gen = seen[c]

(* The leader's physical read, published only if it may be.                *)
Load(c) ==
    /\ pc[c] = "loading"
    /\ \E r \in Reads :
        /\ result' = [result EXCEPT ![c] = r]
        /\ pc' = [pc EXCEPT ![c] =
                    IF Publishable(c, r) THEN "putting" ELSE "closing"]
    /\ UNCHANGED <<gen, lru, bytes, flights, req, seen, joined>>

(* Put: an answer larger than the whole cache is not stored.               *)
Put(c) ==
    /\ pc[c] = "putting"
    /\ IF result[c].size <= MaxBytes
       THEN Store(KeyOf(c), result[c])
       ELSE UNCHANGED <<lru, bytes>>
    /\ pc' = [pc EXCEPT ![c] = "closing"]
    /\ UNCHANGED <<gen, flights, req, seen, joined, result>>

WaitersOn(c) == {d \in Callers : pc[d] = "waiting" /\ joined[d] = c}

(* Mutant: the flight is dropped without waking the callers that joined.   *)
CloseSilently(c) ==
    /\ pc[c] = "closing"
    /\ flights' = [flights EXCEPT ![KeyOf(c)] = NoCaller]
    /\ pc' = [pc EXCEPT ![c] = "answered"]
    /\ UNCHANGED <<gen, lru, bytes, req, seen, joined, result>>

(* The flight ends: its value and error become every waiter's.             *)
CloseFlight(c) ==
    /\ pc[c] = "closing"
    /\ flights' = [flights EXCEPT ![KeyOf(c)] = NoCaller]
    /\ result' = [d \in Callers |-> IF d \in WaitersOn(c) THEN result[c] ELSE result[d]]
    /\ pc' = [d \in Callers |-> IF d = c THEN "answered"
                                ELSE IF d \in WaitersOn(c) THEN "woken" ELSE pc[d]]
    /\ UNCHANGED <<gen, lru, bytes, req, seen, joined>>

WaiterTakes(c) ==
    /\ pc[c] = "woken"
    /\ pc' = [pc EXCEPT ![c] = "answered"]
    /\ UNCHANGED <<gen, lru, bytes, flights, req, seen, joined, result>>

(* A waiter's own context ends; the select may take this branch even when  *)
(* the flight is already over.                                             *)
WaiterCanceled(c) ==
    /\ pc[c] \in {"waiting", "woken"}
    /\ result' = [result EXCEPT ![c] = Failed]
    /\ pc' = [pc EXCEPT ![c] = "answered"]
    /\ UNCHANGED <<gen, lru, bytes, flights, req, seen, joined>>

Return(c) ==
    /\ pc[c] = "answered"
    /\ pc' = [pc EXCEPT ![c] = "idle"]
    /\ req' = [req EXCEPT ![c] = NoRequest]
    /\ seen' = [seen EXCEPT ![c] = 0]
    /\ joined' = [joined EXCEPT ![c] = NoCaller]
    /\ result' = [result EXCEPT ![c] = Failed]
    /\ UNCHANGED <<gen, lru, bytes, flights>>

-----------------------------------------------------------------------------
(* The provider re-indexes.                                                *)
Rotate ==
    /\ gen < MaxGen
    /\ gen' = gen + 1
    /\ UNCHANGED <<lru, bytes, flights, pc, req, seen, joined, result>>

(* TTL passes for an entry.                                                *)
Expire(i) ==
    /\ i \in DOMAIN lru
    /\ ~lru[i].expired
    /\ lru' = [lru EXCEPT ![i].expired = TRUE]
    /\ UNCHANGED <<gen, bytes, flights, pc, req, seen, joined, result>>

CallStep(c) ==
    \/ RunDirect(c) \/ Get(c) \/ Admit(c) \/ Load(c) \/ Put(c)
    \/ CloseFlight(c) \/ WaiterTakes(c) \/ Return(c)

Next ==
    \/ Rotate
    \/ \E i \in 1 .. MaxEntries : Expire(i)
    \/ \E c \in Callers : \/ CallStep(c) \/ WaiterCanceled(c)
                          \/ \E r \in Requests : Observe(c, r)

Spec == Init /\ [][Next]_vars

(* Every goroutine that can move does, and a provider's read returns (the  *)
(* runners bound it).                                                      *)
FairSpec == Spec /\ \A c \in Callers : WF_vars(CallStep(c))

-----------------------------------------------------------------------------
(* cachedRunner: "never publish it under the old key".  An entry's answer  *)
(* has the generation its key was made from, although the provider may     *)
(* rotate between the probe, the read and the publication.                 *)
StoredUnderItsGeneration == \A i \in DOMAIN lru : lru[i].gen = lru[i].key[2]

(* A key has at most one load under way, from its admission until its      *)
(* answer is both stored and handed out, and the flight names its leader.  *)
OneLoadPerKey ==
    \A k \in Keys :
        {c \in Callers : pc[c] \in {"loading", "putting", "closing"} /\ KeyOf(c) = k}
            = {flights[k]} \ {NoCaller}

(* A waiter waits on a flight that is still up: nobody is left behind on   *)
(* one that has been closed.                                               *)
NoStrandedWaiter ==
    \A c \in Callers : pc[c] = "waiting" => flights[KeyOf(c)] = joined[c] /\ joined[c] \in Callers

(* The LRU list, the byte counter and the two limits agree after any       *)
(* sequence of puts, replacements, expiries and evictions.                 *)
StoreBounded ==
    /\ Len(lru) <= MaxEntries
    /\ bytes <= MaxBytes
    /\ bytes = BytesAfter(lru, 0)
    /\ \A i, j \in DOMAIN lru : lru[i].key = lru[j].key => i = j

(* The cache costs no more than it was given and is worth that: every step *)
(* keeps the limits, and no load begins while a live entry holds its       *)
(* answer, for which DoIfState revalidates: "otherwise a completed answer  *)
(* can be executed a second time".                                         *)
StoreServes ==
    [][/\ StoreBounded'
       /\ \A c \in Callers :
            pc[c] # "loading" /\ pc'[c] = "loading" => Live(KeyOf(c)) = {}]_vars

(* A waiter is answered once its leader's read returns.                    *)
WaiterAnswered == \A c \in Callers : pc[c] = "waiting" ~> pc[c] = "answered"

(* The strengthening that makes these inductive: what a call carries from  *)
(* one critical section to the next is never older than its observation.   *)
CarriedIsFresh ==
    \A c \in Callers :
        /\ seen[c] <= gen
        /\ result[c].gen <= gen
        /\ pc[c] = "idle" => seen[c] = 0 /\ result[c] = Failed
        /\ pc[c] # "idle" => req[c] \in Requests /\ seen[c] \in Gens
        /\ pc[c] \in {"woken", "putting", "closing", "answered"} =>
              result[c].gen = 0 \/ result[c].gen >= seen[c]
        /\ pc[c] = "putting" => result[c].gen = seen[c]

CacheInv ==
    /\ TypeOK
    /\ StoredUnderItsGeneration
    /\ OneLoadPerKey
    /\ NoStrandedWaiter
    /\ CarriedIsFresh

(* The cache implements fresh reads: storing, joining and evicting never   *)
(* let a caller see an answer older than what it observed when it asked.   *)
phaseBar ==
    [c \in Callers |-> IF pc[c] = "idle" THEN "idle"
                       ELSE IF pc[c] = "answered" THEN "done" ELSE "asking"]
ansBar == [c \in Callers |-> IF pc[c] = "answered" THEN result[c].gen ELSE 0]

Fresh == INSTANCE FreshReads WITH phase <- phaseBar, ans <- ansBar

ImplementsFreshReads == Fresh!Spec
=============================================================================
