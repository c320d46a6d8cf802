---------------------------- MODULE MetricsProofs ---------------------------
(***************************************************************************)
(* What becomes of the measurements: the store that keeps them, the ladder *)
(* that ages them, and the ranking the funnel makes of them.               *)
(*                                                                         *)
(* The store (MetricsStore), for every number of callers, rows and buffer  *)
(* slots and whatever fails: what serializes its flushes and deletions,    *)
(* then, on top of it, what becomes of the rows: counted, in order, and on *)
(* disk by the time Flush says so.                                         *)
(*                                                                         *)
(* The funnel (Funnel): what the comment on dominationCounts argues, for   *)
(* every set of candidates.  Counting dominators never puts a candidate    *)
(* before one that beats it, and while quality and the break-in turn have  *)
(* no say the comparator handed to slices.SortFunc is the strict order it  *)
(* must be, so what the sort puts first nobody beats.  Selection, which    *)
(* asks it on evidence that changes, is the last section.                  *)
(*                                                                         *)
(* The ladder (MetricsLadder), for every number of Ateneas on one file:    *)
(* each statement of a compaction keeps the tables sound, so every attempt *)
(* written stays counted, and never twice.  Then the rows themselves: what *)
(* date_trunc, the merge and the promotion make of a row keeps each attempt*)
(* in its bucket and the newest instant with it.                           *)
(***************************************************************************)
EXTENDS MetricsStore, MetricsLadder, Selection,
        FiniteSetTheorems, SequenceTheorems, WellFoundedInduction, TLAPS

-----------------------------------------------------------------------------
(* The store.                                                              *)

(* The types the argument needs.                                           *)
CallTypes ==
    /\ recorded \in 0 .. MaxRows
    /\ flushMu \in Calls \cup {Nobody}
    /\ conn \in Calls \cup {Clearer, Reader, Nobody}
    /\ pc \in [Calls -> Pc]
    /\ DOMAIN batch = Calls
    /\ clearing \in [at : ClearAt, filter : Keys \cup {AllKeys}, mark : 0 .. MaxRows]

(* Clear holds the connection exactly from the gate to its return, so no   *)
(* write of a flush comes between its statements.                          *)
ClearHolds == clearing.at \in {"opening", "attempts", "rollups"} <=> conn = Clearer

SerialInv == CallTypes /\ FlushesSerialized /\ ClearHolds

LEMMA InitSerial == Init => SerialInv
  <1> SUFFICES ASSUME Init PROVE SerialInv
    OBVIOUS
  <1>1. CallTypes
    BY BoundAssumption DEF Init, CallTypes, Calls, Pc, ClearAt, NotClearing
  <1>2. FlushesSerialized /\ ClearHolds
    BY CallerAssumption DEF Init, FlushesSerialized, ClearHolds, Calls, NotClearing
  <1> QED  BY <1>1, <1>2 DEF SerialInv

LEMMA NextSerial == SerialInv /\ [Next]_vars => SerialInv'
  <1> SUFFICES ASSUME SerialInv, [Next]_vars PROVE SerialInv'
    OBVIOUS
  <1> USE CallerAssumption, BoundAssumption
      DEF SerialInv, CallTypes, FlushesSerialized, ClearHolds, Calls, Pc, ClearAt,
          callVars, clearVars, settleVars
  <1>1. ASSUME NEW k \in Keys, Record(k) PROVE SerialInv'
    BY <1>1 DEF Record
  <1>2. ASSUME NEW c \in Calls, FlushCall(c) PROVE SerialInv'
    BY <1>2 DEF FlushCall
  <1>3. ASSUME NEW c \in Calls, FlushReturns(c) PROVE SerialInv'
    BY <1>3 DEF FlushReturns
  <1>4. ASSUME NEW c \in Calls, Drain(c) PROVE SerialInv'
    <2>1. CASE ring.count = 0
      BY <1>4, <2>1 DEF Drain
    <2>2. CASE ring.count > 0
      BY <1>4, <2>2 DEF Drain
    <2> QED  BY <1>4, <2>1, <2>2 DEF Drain
  <1>5. ASSUME NEW c \in Calls, Acquire(c) \/ GiveUp(c) PROVE SerialInv'
    BY <1>5 DEF Acquire, GiveUp
  <1>6. ASSUME NEW c \in Calls, Write(c) PROVE SerialInv'
    BY <1>6 DEF Write
  <1>7. ASSUME NEW c \in Calls, FlushEnds(c) PROVE SerialInv'
    BY <1>7 DEF FlushEnds
  <1>8. ASSUME NEW filter \in Keys \cup {AllKeys}, ClearConnects(filter) PROVE SerialInv'
    BY <1>8 DEF ClearConnects
  <1>9. CASE ClearOpens \/ ClearAttempts
    BY <1>9 DEF ClearOpens, ClearAttempts
  <1>10. CASE ClearFails
    BY <1>10 DEF ClearFails, NotClearing
  <1>11. CASE ClearBuffer
    BY <1>11 DEF ClearBuffer
  <1>12. CASE SettleBegin
    BY <1>2, <1>12 DEF SettleBegin
  <1>13. CASE SettleAttempt
    <2>1. CASE FlushReturns(FlushLast)
      BY <1>3, <2>1
    <2>2. CASE /\ pc[FlushLast] = "error" /\ pc' = [pc EXCEPT ![FlushLast] = "waiting"]
               /\ UNCHANGED <<recorded, ring, sealed, written, disk, flushMu, conn,
                              batch, clearVars>>
      BY <2>2
    <2> QED  BY <1>13, <2>1, <2>2 DEF SettleAttempt
  <1>14. CASE Seal
    BY <1>14 DEF Seal
  <1>15. CASE Report
    BY <1>15 DEF Report
  <1>16. CASE UNCHANGED vars
    BY <1>16 DEF vars
  <1>17. ASSUME NEW c \in Calls, Open(c) PROVE SerialInv'
    BY <1>17 DEF Open
  <1>18. CASE ReadConnects \/ ReadEnds
    BY <1>18 DEF ReadConnects, ReadEnds
  <1> QED
    BY <1>1, <1>2, <1>3, <1>4, <1>5, <1>6, <1>7, <1>8, <1>9, <1>10, <1>11, <1>12,
       <1>13, <1>14, <1>15, <1>16, <1>17, <1>18 DEF Next, FlushStep, ClearStep, SettleStep

(* Flush and Clear: a batch exists exactly while its flush holds flushMu,  *)
(* at most one call at a time, and a write and a deletion never hold the   *)
(* connection together.                                                    *)
THEOREM FlushesSerializedHolds == Spec => [](FlushesSerialized /\ ClearHolds)
  <1>1. SerialInv => FlushesSerialized /\ ClearHolds
    BY DEF SerialInv
  <1> QED  BY <1>1, InitSerial, NextSerial, PTL DEF Spec

-----------------------------------------------------------------------------
(* The rows of the store.                                                  *)

Ascending(rows) == \A i, j \in DOMAIN rows : i < j => rows[i].n < rows[j].n
Before(rows, more) == \A i \in DOMAIN rows, j \in DOMAIN more : rows[i].n < more[j].n
Upto(rows, last) == \A i \in DOMAIN rows : rows[i].n <= last
Beyond(rows, first) == \A i \in DOMAIN rows : rows[i].n > first
EndOf(rows, all) == \E over \in Nat : \A i \in DOMAIN rows : over + i \in DOMAIN all /\ rows[i] = all[over + i]
From(rows, others) == \A i \in DOMAIN rows : \E j \in DOMAIN others : rows[i] = others[j]

(* One turn around the ring.                                               *)
LEMMA Wraps ==
    ASSUME NEW a \in Nat, NEW size \in Nat \ {0}, a < size + size
    PROVE  a % size = IF a < size THEN a ELSE a - size
  <1>1. CASE a < size
    BY <1>1
  <1>2. CASE a >= size
    BY <1>2
  <1> QED  BY <1>1, <1>2

Ring == [buf : Seq(Row), head : Nat, count : Nat, dropped : Nat]
Whole(r) ==
    /\ r \in Ring /\ r.count = Len(r.buf) /\ Len(r.buf) <= Limit
    /\ r.head # 0 => r.head < Len(r.buf) /\ Len(r.buf) = Limit

LEMMA SlotInRing ==
    ASSUME NEW r, Whole(r), NEW i \in 0 .. r.count - 1
    PROVE  /\ Slot(r, i) = (IF r.head + i < r.count THEN r.head + i ELSE r.head + i - r.count) + 1
           /\ Slot(r, i) \in 1 .. r.count
  <1>1. PICK size \in Nat : size = Len(r.buf)
    <2>1. Len(r.buf) \in Nat
      BY DEF Whole, Ring
    <2> QED  BY <2>1
  <1>2. r.head \in Nat /\ r.count = size /\ size # 0 /\ r.head < size /\ i \in Nat /\ i < size
    BY <1>1 DEF Whole, Ring
  <1>3. r.head + i \in Nat /\ r.head + i < size + size
    BY <1>2
  <1>4. (r.head + i) % size = IF r.head + i < size THEN r.head + i ELSE r.head + i - size
    BY <1>2, <1>3, Wraps
  <1> QED  BY <1>1, <1>2, <1>4, SMTT(60) DEF Slot

LEMMA LiveRows ==
    ASSUME NEW r, Whole(r)
    PROVE  /\ Live(r) \in Seq(Row) /\ Len(Live(r)) = r.count /\ DOMAIN Live(r) = 1 .. r.count
           /\ From(Live(r), r.buf)
           /\ r.head = 0 => Live(r) = r.buf
  <1>1. r.count \in Nat /\ r.buf \in Seq(Row) /\ DOMAIN r.buf = 1 .. r.count
    BY DEF Whole, Ring
  <1>2. Live(r) = [i \in 1 .. r.count |-> r.buf[Slot(r, i - 1)]]
    BY DEF Live
  <1>3. ASSUME NEW i \in 1 .. r.count PROVE Slot(r, i - 1) \in 1 .. r.count /\ (r.head = 0 => Slot(r, i - 1) = i)
    <2>1. i - 1 \in 0 .. r.count - 1
      BY <1>1, <1>3
    <2> QED  BY <1>1, <1>3, <2>1, SlotInRing
  <1>4. \A i \in 1 .. r.count : Live(r)[i] = r.buf[Slot(r, i - 1)] /\ Live(r)[i] \in Row
    BY <1>1, <1>2, <1>3
  <1>5. Live(r) \in Seq(Row) /\ Len(Live(r)) = r.count /\ DOMAIN Live(r) = 1 .. r.count
    <2>1. Live(r) \in [1 .. r.count -> Row]
      BY <1>2, <1>4
    <2> QED  BY <1>1, <2>1
  <1>6. From(Live(r), r.buf)
    BY <1>1, <1>3, <1>4, <1>5 DEF From
  <1>7. ASSUME r.head = 0 PROVE Live(r) = r.buf
    <2>1. \A i \in 1 .. r.count : Live(r)[i] = r.buf[i]
      BY <1>3, <1>4, <1>7
    <2> QED  BY <1>1, <1>5, <2>1
  <1> QED  BY <1>5, <1>6, <1>7

(* A ring with other rows in it.                                           *)
LEMMA RingKeeps ==
    ASSUME NEW P, NEW r \in [buf : P, head : Nat, count : Nat, dropped : Nat],
           NEW b \in P, NEW h \in Nat, NEW c \in Nat, NEW d \in Nat
    PROVE  /\ [r EXCEPT !.buf = b, !.head = h, !.count = c] \in [buf : P, head : Nat, count : Nat, dropped : Nat]
           /\ [r EXCEPT !.buf = b, !.head = h, !.dropped = d] \in [buf : P, head : Nat, count : Nat, dropped : Nat]
           /\ [r EXCEPT !.buf = b, !.count = c] \in [buf : P, head : Nat, count : Nat, dropped : Nat]
           /\ [r EXCEPT !.dropped = d] \in [buf : P, head : Nat, count : Nat, dropped : Nat]
           /\ [r EXCEPT !.buf = b, !.head = h, !.count = c].buf = b
           /\ [r EXCEPT !.buf = b, !.head = h, !.count = c].head = h
           /\ [r EXCEPT !.buf = b, !.head = h, !.count = c].count = c
           /\ [r EXCEPT !.buf = b, !.head = h, !.count = c].dropped = r.dropped
           /\ [r EXCEPT !.buf = b, !.head = h, !.dropped = d].buf = b
           /\ [r EXCEPT !.buf = b, !.head = h, !.dropped = d].head = h
           /\ [r EXCEPT !.buf = b, !.head = h, !.dropped = d].count = r.count
           /\ [r EXCEPT !.buf = b, !.head = h, !.dropped = d].dropped = d
           /\ [r EXCEPT !.buf = b, !.count = c].buf = b
           /\ [r EXCEPT !.buf = b, !.count = c].head = r.head
           /\ [r EXCEPT !.buf = b, !.count = c].count = c
           /\ [r EXCEPT !.buf = b, !.count = c].dropped = r.dropped
           /\ [r EXCEPT !.dropped = d].buf = r.buf
           /\ [r EXCEPT !.dropped = d].head = r.head
           /\ [r EXCEPT !.dropped = d].count = r.count
           /\ [r EXCEPT !.dropped = d].dropped = d
  OBVIOUS

LEMMA Held ==
    ASSUME NEW r \in Ring, NEW rows \in Seq(Row), Len(rows) <= Limit
    PROVE  /\ Whole(Holding(r, rows)) /\ Live(Holding(r, rows)) = rows
           /\ Holding(r, rows).buf = rows /\ Holding(r, rows).count = Len(rows)
           /\ Holding(r, rows).dropped = r.dropped /\ Holding(r, rows).head = 0
  <1>1. /\ Holding(r, rows) \in Ring /\ Holding(r, rows).buf = rows /\ Holding(r, rows).head = 0
        /\ Holding(r, rows).count = Len(rows) /\ Holding(r, rows).dropped = r.dropped
    <2>1. Len(rows) \in Nat /\ 0 \in Nat
      OBVIOUS
    <2> QED  BY <2>1, RingKeeps DEF Holding, Ring
  <1>2. Whole(Holding(r, rows))
    BY <1>1 DEF Whole
  <1> QED  BY <1>1, <1>2, LiveRows

LEMMA TurnedSlot ==
    ASSUME NEW size \in Nat, NEW h \in Nat, h < size, NEW i \in Nat, 1 <= i, i < size,
           NEW b \in Nat, b = IF h + 1 < size THEN h + 1 ELSE 0
    PROVE  /\ (IF b + (i - 1) < size THEN b + (i - 1) ELSE b + (i - 1) - size)
                = (IF h + i < size THEN h + i ELSE h + i - size)
           /\ (IF h + i < size THEN h + i ELSE h + i - size) \in 0 .. size - 1 \ {h}
  <1>1. CASE h + 1 < size
    BY <1>1
  <1>2. CASE ~(h + 1 < size)
    BY <1>2
  <1> QED  BY <1>1, <1>2

(* push: the row goes behind the live ones; at the ceiling the oldest of   *)
(* them goes, and is counted.                                              *)
LEMMA Pushed ==
    ASSUME NEW r, Whole(r), NEW m \in Row
    PROVE  LET q == Push(r, m) IN
           /\ Whole(q) /\ q.dropped + q.count = r.dropped + r.count + 1
           /\ \A i \in DOMAIN q.buf : q.buf[i] = m \/ \E j \in DOMAIN r.buf : q.buf[i] = r.buf[j]
           /\ \/ Live(q) = Append(Live(r), m)
              \/ /\ Len(Live(q)) = Len(Live(r)) /\ Live(q)[Len(Live(r))] = m
                 /\ \A i \in 1 .. Len(Live(r)) - 1 : Live(q)[i] = Live(r)[i + 1]
  <1> DEFINE q == Push(r, m)
  <1>1. PICK size \in Nat : size = Len(r.buf) /\ size <= Limit /\ r.count = size
    <2>1. Len(r.buf) \in Nat
      BY DEF Whole, Ring
    <2> QED  BY <2>1 DEF Whole
  <1>2. /\ r \in Ring /\ r.buf \in Seq(Row) /\ DOMAIN r.buf = 1 .. size /\ r.head \in Nat /\ r.dropped \in Nat
        /\ (r.head # 0 => r.head < size /\ size = Limit)
    BY <1>1 DEF Whole, Ring
  <1>3. Live(r) \in Seq(Row) /\ Len(Live(r)) = size /\ DOMAIN Live(r) = 1 .. size /\ (r.head = 0 => Live(r) = r.buf)
    BY <1>1, LiveRows
  <1>4. CASE size < Limit
    <2>1. q = [r EXCEPT !.buf = Append(r.buf, m), !.count = r.count + 1]
      BY <1>1, <1>4 DEF Push
    <2>2. r.head = 0
      BY <1>2, <1>4
    <2>3. Append(r.buf, m) \in Seq(Row) /\ Len(Append(r.buf, m)) = size + 1
          /\ \A i \in 1 .. size + 1 : Append(r.buf, m)[i] = IF i = size + 1 THEN m ELSE r.buf[i]
      BY <1>1, <1>2
    <2>4. q \in Ring /\ q.buf = Append(r.buf, m) /\ q.head = 0 /\ q.count = size + 1 /\ q.dropped = r.dropped
      <3>1. r.count + 1 \in Nat /\ r.count + 1 = size + 1 /\ 0 \in Nat
        BY <1>1
      <3> HIDE DEF q
      <3> QED  BY <1>2, <2>1, <2>2, <2>3, <3>1, RingKeeps DEF Ring
    <2>5. Whole(q)
      <3>1. size + 1 <= Limit
        BY <1>4, LimitAssumption
      <3> HIDE DEF q
      <3> QED  BY <2>3, <2>4, <3>1 DEF Whole
    <2>6. Live(q) = Append(Live(r), m)
      BY <1>3, <2>2, <2>4, <2>5, LiveRows
    <2>7. \A i \in DOMAIN q.buf : q.buf[i] = m \/ \E j \in DOMAIN r.buf : q.buf[i] = r.buf[j]
      <3>1. DOMAIN q.buf = 1 .. size + 1
        BY <2>3, <2>4
      <3> HIDE DEF q
      <3> QED  BY <1>2, <2>3, <2>4, <3>1
    <2>8. q.dropped + q.count = r.dropped + r.count + 1
      BY <1>1, <1>2, <2>4
    <2> QED  BY <2>5, <2>6, <2>7, <2>8
  <1>5. CASE size = Limit
    <2>1. size # 0 /\ r.head < size
      BY <1>2, <1>5, LimitAssumption
    <2>2. q = [r EXCEPT !.buf = [r.buf EXCEPT ![r.head + 1] = m], !.head = (r.head + 1) % Len(r.buf), !.dropped = r.dropped + 1]
      BY <1>1, <1>5 DEF Push
    <2>3. (r.head + 1) % Len(r.buf) = IF r.head + 1 < size THEN r.head + 1 ELSE 0
      <3>1. PICK a \in Nat : a = r.head + 1
        BY <1>2
      <3>2. size \in Nat \ {0} /\ a <= size /\ a < size + size
        BY <1>2, <2>1, <3>1
      <3>3. a % size = IF a < size THEN a ELSE a - size
        BY <3>2, Wraps
      <3>4. a % size = IF a < size THEN a ELSE 0
        BY <3>2, <3>3
      <3> QED  BY <1>1, <3>1, <3>4
    <2>4. PICK back \in Seq(Row) : back = [r.buf EXCEPT ![r.head + 1] = m] /\ Len(back) = size /\ DOMAIN back = 1 .. size
      <3>1. r.buf \in [1 .. size -> Row]
        BY <1>1, <1>2
      <3>2. PICK back : back = [r.buf EXCEPT ![r.head + 1] = m]
        OBVIOUS
      <3>3. back \in [1 .. size -> Row]
        BY <3>1, <3>2
      <3>4. back \in Seq(Row) /\ Len(back) = size /\ DOMAIN back = 1 .. size
        BY <3>3
      <3> QED  BY <3>2, <3>4
    <2>5. \A i \in 1 .. size : back[i] = IF i = r.head + 1 THEN m ELSE r.buf[i]
      BY <1>2, <2>4
    <2>6. /\ q \in Ring /\ q.buf = back /\ q.count = size /\ q.dropped = r.dropped + 1
          /\ q.head = IF r.head + 1 < size THEN r.head + 1 ELSE 0
      <3>1. PICK h \in Nat : h = (r.head + 1) % Len(r.buf) /\ h = (IF r.head + 1 < size THEN r.head + 1 ELSE 0)
        BY <1>2, <2>1, <2>3
      <3>2. q = [r EXCEPT !.buf = back, !.head = h, !.dropped = r.dropped + 1] /\ r.dropped + 1 \in Nat
        BY <1>2, <2>2, <2>4, <3>1
      <3> HIDE DEF q
      <3> QED  BY <1>1, <1>2, <3>1, <3>2, RingKeeps DEF Ring
    <2>7. Whole(q)
      BY <1>5, <2>1, <2>4, <2>6 DEF Whole
    <2>8. \A i \in DOMAIN q.buf : q.buf[i] = m \/ \E j \in DOMAIN r.buf : q.buf[i] = r.buf[j]
      <3> HIDE DEF q
      <3> QED  BY <1>2, <2>4, <2>5, <2>6
    <2>9. q.dropped + q.count = r.dropped + r.count + 1
      BY <1>1, <1>2, <2>6
    <2>10. Len(Live(q)) = size
      BY <2>6, <2>7, LiveRows
    <2>11. ASSUME NEW i \in 1 .. size
           PROVE  Live(q)[i] = IF i = size THEN m ELSE Live(r)[i + 1]
      <3>1. i - 1 \in 0 .. q.count - 1 /\ i - 1 \in Nat
        BY <2>6
      <3>2. Slot(q, i - 1) = (IF q.head + (i - 1) < size THEN q.head + (i - 1) ELSE q.head + (i - 1) - size) + 1
        BY <2>6, <2>7, <3>1, SlotInRing
      <3>3. Live(q)[i] = back[Slot(q, i - 1)]
        BY <2>6 DEF Live
      <3>4. CASE i = size
        <4>1. Slot(q, i - 1) = r.head + 1
          BY <1>2, <2>1, <2>6, <3>2, <3>4
        <4> QED  BY <1>2, <2>1, <2>5, <3>3, <3>4, <4>1
      <3>5. CASE i # size
        <4>1. i \in 0 .. r.count - 1 /\ i + 1 \in 1 .. r.count
          BY <1>1, <3>5
        <4>2. Slot(r, i) = (IF r.head + i < size THEN r.head + i ELSE r.head + i - size) + 1
          BY <1>1, <4>1, SlotInRing
        <4>3. Live(r)[i + 1] = r.buf[Slot(r, i)]
          BY <4>1 DEF Live
        <4>4. Slot(q, i - 1) = Slot(r, i) /\ Slot(r, i) # r.head + 1 /\ Slot(r, i) \in 1 .. size
          <5> HIDE DEF q
          <5>1. PICK b \in Nat : b = q.head /\ b = (IF r.head + 1 < size THEN r.head + 1 ELSE 0)
            BY <1>2, <2>6
          <5>2. i \in Nat /\ i >= 1 /\ i < size
            BY <3>5
          <5>3. /\ (IF b + (i - 1) < size THEN b + (i - 1) ELSE b + (i - 1) - size)
                     = (IF r.head + i < size THEN r.head + i ELSE r.head + i - size)
                /\ (IF r.head + i < size THEN r.head + i ELSE r.head + i - size) \in 0 .. size - 1 \ {r.head}
            BY <1>2, <2>1, <5>1, <5>2, TurnedSlot
          <5>4. PICK k \in 0 .. size - 1 \ {r.head} :
                    k = IF r.head + i < size THEN r.head + i ELSE r.head + i - size
            BY <5>3
          <5>5. Slot(r, i) = k + 1
            BY <4>2, <5>4
          <5>6. Slot(q, i - 1) = k + 1
            BY <3>2, <5>1, <5>3, <5>4
          <5>7. k + 1 # r.head + 1 /\ k + 1 \in 1 .. size
            BY <1>2, <5>4, SMTT(60)
          <5> QED  BY <5>5, <5>6, <5>7
        <4> QED  BY <2>5, <3>3, <3>5, <4>3, <4>4
      <3> QED  BY <3>4, <3>5
    <2>12. Live(q)[size] = m /\ \A i \in 1 .. size - 1 : Live(q)[i] = Live(r)[i + 1]
      BY <2>1, <2>11
    <2> QED  BY <1>3, <2>7, <2>8, <2>9, <2>10, <2>12
  <1>6. size < Limit \/ size = Limit
    BY <1>1, LimitAssumption
  <1> QED  BY <1>4, <1>5, <1>6

(* restore: the batch goes in front; what does not fit goes from the front *)
(* of it, and is counted.                                                  *)
LEMMA PutBack ==
    ASSUME NEW r, Whole(r), NEW rows \in Seq(Row)
    PROVE  LET q == Restored(r, rows) IN
           /\ Whole(q) /\ q.dropped + q.count = r.dropped + r.count + Len(rows)
           /\ Live(q) = q.buf
           /\ EndOf(q.buf, rows \o Live(r))
           /\ \A i \in DOMAIN q.buf : \/ \E j \in DOMAIN rows : q.buf[i] = rows[j]
                                     \/ \E j \in DOMAIN r.buf : q.buf[i] = r.buf[j]
  <1> DEFINE all == rows \o Live(r)
             over == IF Len(all) > Limit THEN Len(all) - Limit ELSE 0
             kept == SubSeq(all, over + 1, Len(all))
             q == Restored(r, rows)
  <1>1. /\ Live(r) \in Seq(Row) /\ Len(Live(r)) = r.count /\ From(Live(r), r.buf)
        /\ r \in Ring /\ r.count \in Nat /\ r.dropped \in Nat
    BY LiveRows DEF Whole, Ring
  <1>2. all \in Seq(Row) /\ Len(all) \in Nat /\ Len(all) = Len(rows) + r.count /\ DOMAIN all = 1 .. Len(all)
    BY <1>1
  <1>3. \A i \in DOMAIN all : (\E j \in DOMAIN rows : all[i] = rows[j]) \/ (\E j \in DOMAIN r.buf : all[i] = r.buf[j])
    BY <1>1, SMTT(60) DEF From
  <1> HIDE DEF all
  <1>4. over \in Nat /\ over <= Len(all) /\ Len(all) - over <= Limit
    BY <1>2, LimitAssumption
  <1>5. q = [Holding(r, kept) EXCEPT !.dropped = Holding(r, kept).dropped + over]
    BY DEF Restored, all
  <1> HIDE DEF over
  <1>6. kept \in Seq(Row) /\ Len(kept) = Len(all) - over /\ \A i \in 1 .. Len(all) - over : kept[i] = all[over + i]
    BY <1>2, <1>4
  <1> HIDE DEF kept, q
  <1>7. /\ Whole(Holding(r, kept)) /\ Holding(r, kept).buf = kept /\ Holding(r, kept).count = Len(kept)
        /\ Holding(r, kept).dropped = r.dropped /\ Holding(r, kept).head = 0
    BY <1>1, <1>4, <1>6, Held
  <1>8. q \in Ring /\ q.buf = kept /\ q.head = 0 /\ q.count = Len(kept) /\ q.dropped = r.dropped + over
    <2>1. Holding(r, kept) \in Ring /\ r.dropped + over \in Nat /\ Len(kept) \in Nat
      BY <1>1, <1>4, <1>6, <1>7 DEF Whole
    <2> QED  BY <1>5, <1>7, <2>1, RingKeeps DEF Ring
  <1>9. Whole(q)
    BY <1>4, <1>6, <1>8 DEF Whole
  <1>10. Live(q) = q.buf
    BY <1>8, <1>9, LiveRows
  <1>11. q.dropped + q.count = r.dropped + r.count + Len(rows)
    <2>1. Len(rows) \in Nat
      OBVIOUS
    <2> QED  BY <1>1, <1>2, <1>4, <1>6, <1>8, <2>1, SMTT(60)
  <1>12. \A i \in DOMAIN q.buf : over + i \in DOMAIN all /\ q.buf[i] = all[over + i]
    <2>1. DOMAIN q.buf = 1 .. Len(all) - over
      BY <1>2, <1>4, <1>6, <1>8
    <2> QED  BY <1>2, <1>4, <1>6, <1>8, <2>1
  <1>13. \A i \in DOMAIN q.buf : \/ \E j \in DOMAIN rows : q.buf[i] = rows[j]
                               \/ \E j \in DOMAIN r.buf : q.buf[i] = r.buf[j]
    BY <1>3, <1>12
  <1>14. EndOf(q.buf, all)
    BY <1>4, <1>12 DEF EndOf
  <1> QED  BY <1>9, <1>10, <1>11, <1>13, <1>14 DEF q, all

(* A bad set would have a bad one that has no bad subset.                  *)
LEMMA SmallestSet ==
    ASSUME NEW P, IsFiniteSet(P), NEW Bad, \A s \in Bad : s \subseteq P, Bad # {}
    PROVE  \E s \in Bad : \A t \in Bad : t \subseteq s => t = s
  <1>1. Bad \subseteq FiniteSubsetsOf(P)
    BY FS_Subset DEF FiniteSubsetsOf
  <1>2. PICK s \in Bad : \A t \in Bad : ~(<<t, s>> \in StrictSubsetOrdering(P))
    BY <1>1, FS_StrictSubsetOrderingWellFounded, WFMin
  <1>3. ASSUME NEW t \in Bad, t \subseteq s PROVE t = s
    BY <1>2, <1>3 DEF StrictSubsetOrdering
  <1> QED  BY <1>3

(* A bad number would have a least one.                                    *)
LEMMA FirstNumber ==
  ASSUME NEW N \in SUBSET Nat, N # {}
  PROVE  \E x \in N : \A y \in N : x <= y
<1>1. \A x, y \in Nat : <<x, y>> \in OpToRel(<, Nat) <=> x < y
  BY Zenon DEF OpToRel
<1>2. \E x \in N : \A y \in N : ~(<<y, x>> \in OpToRel(<, Nat))
  BY NatLessThanWellFounded, WFMin
<1>3. \E x \in N : \A y \in N : ~(y < x)
  BY <1>1, <1>2, Zenon
<1> QED BY <1>3

(* Every finite set of places can be put in order.                         *)
Ordered(at, p) ==
    p \in [1 .. Cardinality(at) -> at] /\ \A i, j \in 1 .. Cardinality(at) : i < j => p[i] < p[j]

LEMMA OneMorePlace ==
    ASSUME NEW n \in Nat, NEW at \in SUBSET (1 .. n), NEW p, Ordered(at, p)
    PROVE  \E q : Ordered(at \cup {n + 1}, q)
  <1>1. IsFiniteSet(at) /\ n + 1 \notin at
    <2>1. IsFiniteSet(1 .. n)
      BY FS_Interval
    <2>2. IsFiniteSet(at)
      BY <2>1, FS_Subset
    <2>3. n + 1 \notin 1 .. n
      OBVIOUS
    <2> QED  BY <2>2, <2>3
  <1>2. PICK c \in Nat : c = Cardinality(at)
    BY <1>1, FS_CardinalityType
  <1>3. Cardinality(at \cup {n + 1}) = c + 1
    BY <1>1, <1>2, FS_AddElement
  <1>4. p \in [1 .. c -> at] /\ \A i, j \in 1 .. c : i < j => p[i] < p[j]
    BY <1>2 DEF Ordered
  <1> DEFINE q == [i \in 1 .. c + 1 |-> IF i <= c THEN p[i] ELSE n + 1]
  <1>5. \A i \in 1 .. c + 1 : q[i] \in at \cup {n + 1} /\ (i <= c => q[i] = p[i] /\ q[i] < n + 1) /\ (i = c + 1 => q[i] = n + 1)
    <2> TAKE i \in 1 .. c + 1
    <2>1. q[i] = IF i <= c THEN p[i] ELSE n + 1
      OBVIOUS
    <2> HIDE DEF q
    <2>2. ASSUME i <= c PROVE p[i] \in at /\ p[i] < n + 1
      <3>1. i \in 1 .. c
        BY <2>2
      <3>2. p[i] \in at
        BY <1>4, <3>1
      <3>3. \A k \in 1 .. n : k < n + 1
        OBVIOUS
      <3> QED  BY <3>2, <3>3
    <2>3. i = c + 1 => ~(i <= c)
      OBVIOUS
    <2>4. i <= c \/ i = c + 1
      OBVIOUS
    <2> QED  BY <2>1, <2>2, <2>3, <2>4
  <1>6. q \in [1 .. c + 1 -> at \cup {n + 1}]
    BY <1>5
  <1> HIDE DEF q
  <1>7. ASSUME NEW i \in 1 .. c + 1, NEW j \in 1 .. c + 1, i < j PROVE q[i] < q[j]
    <2>1. i <= c /\ i \in 1 .. c
      BY <1>7
    <2>2. CASE j <= c
      <3>1. j \in 1 .. c
        BY <2>2
      <3> QED  BY <1>4, <1>5, <1>7, <2>1, <2>2, <3>1
    <2>3. CASE j = c + 1
      BY <1>5, <2>1, <2>3
    <2> QED  BY <2>2, <2>3
  <1> QED  BY <1>3, <1>6, <1>7 DEF Ordered

LEMMA PlacesInOrder ==
    ASSUME NEW N \in Nat, NEW at \in SUBSET (1 .. N)
    PROVE  Ordered(at, InOrder(at)) /\ Cardinality(at) \in Nat /\ Cardinality(at) <= N
  <1> DEFINE Bad == {n \in Nat : \E here \in SUBSET (1 .. n) : ~\E p : Ordered(here, p)}
  <1>1. ASSUME Bad # {} PROVE FALSE
    <2>1. PICK n \in Bad : \A k \in Bad : n <= k
      BY <1>1, FirstNumber
    <2>2. PICK here \in SUBSET (1 .. n) : ~\E p : Ordered(here, p)
      OBVIOUS
    <2>3. n # 0
      <3>1. ASSUME n = 0 PROVE \E p : Ordered(here, p)
        <4>1. here = {} /\ Cardinality(here) = 0
          <5>1. 1 .. n = {}
            BY <3>1
          <5>2. here = {}
            BY <5>1
          <5> QED  BY <5>2, FS_EmptySet
        <4>2. <<>> \in [1 .. 0 -> {}] /\ 1 .. 0 = {}
          OBVIOUS
        <4>3. Ordered(here, <<>>)
          BY <4>1, <4>2 DEF Ordered
        <4> QED  BY <4>3
      <3> QED  BY <2>2, <3>1
    <2>4. PICK m \in Nat : n = m + 1 /\ m \notin Bad
      <3>1. n \in Nat /\ n - 1 \in Nat /\ n = (n - 1) + 1
        BY <2>3
      <3>2. n - 1 \notin Bad
        BY <2>1, <3>1
      <3> QED  BY <3>1, <3>2
    <2>5. \A there \in SUBSET (1 .. m) : \E p : Ordered(there, p)
      BY <2>4
    <2>6. CASE n \notin here
      <3>1. here \in SUBSET (1 .. m)
        BY <2>4, <2>6
      <3> QED  BY <2>2, <2>5, <3>1
    <2>7. CASE n \in here
      <3>1. here \ {n} \in SUBSET (1 .. m) /\ here = (here \ {n}) \cup {m + 1}
        BY <2>4, <2>7
      <3>2. PICK p : Ordered(here \ {n}, p)
        BY <2>5, <3>1
      <3>3. \E q : Ordered((here \ {n}) \cup {m + 1}, q)
        BY <3>1, <3>2, OneMorePlace
      <3> QED  BY <2>2, <3>1, <3>3
    <2> QED  BY <2>6, <2>7
  <1>2. \E p : Ordered(at, p)
    <2>1. N \notin Bad
      BY <1>1
    <2> QED  BY <2>1
  <1>3. IsFiniteSet(1 .. N) /\ Cardinality(1 .. N) = N
    BY FS_Interval
  <1>4. Cardinality(at) \in Nat /\ Cardinality(at) <= N
    BY <1>3, FS_Subset, FS_CardinalityType
  <1>5. Ordered(at, InOrder(at))
    <2>1. InOrder(at) = CHOOSE p \in [1 .. Cardinality(at) -> at] : \A i, j \in DOMAIN p : i < j => p[i] < p[j]
      BY DEF InOrder
    <2>2. \E p \in [1 .. Cardinality(at) -> at] : \A i, j \in DOMAIN p : i < j => p[i] < p[j]
      BY <1>2 DEF Ordered
    <2> QED  BY <2>1, <2>2 DEF Ordered
  <1> QED  BY <1>4, <1>5

(* What a Clear leaves is some of the rows there were, in the same order.  *)
LEMMA LeftOutside ==
    ASSUME NEW rows \in Seq(Row), NEW filter
    PROVE  LET left == Outside(filter, rows) IN
           /\ left \in Seq(Row) /\ Len(left) <= Len(rows) /\ From(left, rows)
           /\ Ascending(rows) => Ascending(left)
  <1> DEFINE places == {i \in DOMAIN rows : ~Matches(filter, rows[i])}
             left == Outside(filter, rows)
  <1>1. Len(rows) \in Nat /\ DOMAIN rows = 1 .. Len(rows)
    OBVIOUS
  <1>2. places \in SUBSET (1 .. Len(rows))
    BY <1>1
  <1> HIDE DEF places
  <1>3. PICK p : p = InOrder(places)
    OBVIOUS
  <1>11. Ordered(places, p) /\ Cardinality(places) \in Nat /\ Cardinality(places) <= Len(rows)
    BY <1>1, <1>2, <1>3, PlacesInOrder
  <1>12. PICK c \in Nat : /\ c = Cardinality(places) /\ c <= Len(rows)
                         /\ p \in [1 .. c -> places] /\ \A i, j \in 1 .. c : i < j => p[i] < p[j]
    BY <1>11 DEF Ordered
  <1>4. left = [i \in 1 .. c |-> rows[p[i]]]
    BY <1>3, <1>12 DEF Outside, places
  <1>5. \A i \in 1 .. c : p[i] \in 1 .. Len(rows) /\ rows[p[i]] \in Row
    <2> TAKE i \in 1 .. c
    <2>1. p[i] \in places
      BY <1>12
    <2>2. p[i] \in 1 .. Len(rows)
      BY <1>2, <2>1
    <2>3. \A k \in 1 .. Len(rows) : rows[k] \in Row
      BY <1>1
    <2> QED  BY <2>2, <2>3
  <1>6. left \in [1 .. c -> Row]
    BY <1>4, <1>5
  <1>7. left \in Seq(Row) /\ Len(left) = c /\ DOMAIN left = 1 .. c
    BY <1>6
  <1>8. \A i \in 1 .. c : left[i] = rows[p[i]]
    BY <1>4
  <1> HIDE DEF left
  <1>9. From(left, rows)
    BY <1>1, <1>5, <1>7, <1>8 DEF From
  <1>10. Ascending(rows) => Ascending(left)
    BY <1>1, <1>12, <1>5, <1>7, <1>8 DEF Ascending
  <1> QED  BY <1>12, <1>7, <1>9, <1>10 DEF left

(* The rows on disk come before those in flight, these before those in the *)
(* ring, and each of the three is in order.                                *)
Line(d, u, r, last) ==
    /\ Ascending(d) /\ Ascending(u) /\ Ascending(Live(r))
    /\ Before(d, u) /\ Before(d, r.buf) /\ Before(u, r.buf)
    /\ Upto(d, last) /\ Upto(u, last) /\ Upto(r.buf, last)

LEMMA NumbersAreNumbers ==
    ASSUME NEW rows \in Seq(Row), NEW i \in DOMAIN rows
    PROVE  rows[i] \in Row /\ rows[i].n \in Nat
  <1>1. rows[i] \in Row
    OBVIOUS
  <1>2. \A m \in Row : m.n \in Nat
    BY BoundAssumption DEF Row
  <1> QED  BY <1>1, <1>2

LEMMA LineRecords ==
    ASSUME NEW d \in Seq(Row), NEW u \in Seq(Row), NEW r, Whole(r), NEW last \in Nat,
           Line(d, u, r, last), NEW m \in Row, m.n = last + 1
    PROVE  Line(d, u, Push(r, m), last + 1)
  <1> DEFINE q == Push(r, m)
  <1>1. /\ Whole(q)
        /\ \A i \in DOMAIN q.buf : q.buf[i] = m \/ \E j \in DOMAIN r.buf : q.buf[i] = r.buf[j]
        /\ \/ Live(q) = Append(Live(r), m)
           \/ /\ Len(Live(q)) = Len(Live(r)) /\ Live(q)[Len(Live(r))] = m
              /\ \A i \in 1 .. Len(Live(r)) - 1 : Live(q)[i] = Live(r)[i + 1]
    BY Pushed, ZenonT(60)
  <1> HIDE DEF q
  <1>2. r.buf \in Seq(Row) /\ Live(r) \in Seq(Row) /\ From(Live(r), r.buf) /\ Live(q) \in Seq(Row)
    BY <1>1, LiveRows DEF Whole, Ring
  <1>3. \A rows \in {d, u, r.buf} : Upto(rows, last) /\ \A i \in DOMAIN rows : rows[i].n \in Nat
    BY <1>2, NumbersAreNumbers DEF Line
  <1>4. \A i \in DOMAIN q.buf : q.buf[i].n = last + 1 \/ \E j \in DOMAIN r.buf : q.buf[i].n = r.buf[j].n
    BY <1>1
  <1>5. ASSUME NEW rows \in {d, u} PROVE Before(rows, q.buf) /\ Upto(rows, last + 1)
    <2>1. Before(rows, r.buf)
      BY DEF Line
    <2>2. \A i \in DOMAIN rows : rows[i].n \in Nat /\ rows[i].n <= last
      BY <1>3 DEF Upto
    <2>3. \A k \in Nat : k <= last => k < last + 1 /\ k <= last + 1
      OBVIOUS
    <2> QED  BY <1>4, <2>1, <2>2, <2>3 DEF Before, Upto
  <1>6. Upto(q.buf, last + 1)
    <2>1. \A i \in DOMAIN r.buf : r.buf[i].n \in Nat /\ r.buf[i].n <= last
      BY <1>3 DEF Upto
    <2>2. \A k \in Nat : k <= last => k <= last + 1
      OBVIOUS
    <2> QED  BY <1>4, <2>1, <2>2 DEF Upto
  <1>7. Ascending(Live(q))
    <2>1. PICK size \in Nat : size = Len(Live(r)) /\ DOMAIN Live(r) = 1 .. size
      BY <1>2
    <2>2. \A i \in 1 .. size : Live(r)[i].n \in Nat /\ Live(r)[i].n < last + 1
      <3>1. \A i \in DOMAIN r.buf : r.buf[i].n \in Nat /\ r.buf[i].n <= last
        BY <1>3 DEF Upto
      <3>2. \A k \in Nat : k <= last => k < last + 1
        OBVIOUS
      <3> QED  BY <1>2, <2>1, <3>1, <3>2 DEF From
    <2>3. \A i, j \in 1 .. size : i < j => Live(r)[i].n < Live(r)[j].n
      BY <2>1 DEF Line, Ascending
    <2>4. CASE Live(q) = Append(Live(r), m)
      <3>1. DOMAIN Live(q) = 1 .. size + 1 /\ \A i \in 1 .. size + 1 : Live(q)[i] = IF i = size + 1 THEN m ELSE Live(r)[i]
        BY <1>2, <2>1, <2>4
      <3>2. \A i \in 1 .. size + 1 : i # size + 1 => i \in 1 .. size
        OBVIOUS
      <3> QED  BY <2>2, <2>3, <3>1, <3>2 DEF Ascending
    <2>5. CASE /\ Len(Live(q)) = Len(Live(r)) /\ Live(q)[Len(Live(r))] = m
               /\ \A i \in 1 .. Len(Live(r)) - 1 : Live(q)[i] = Live(r)[i + 1]
      <3>1. DOMAIN Live(q) = 1 .. size
        BY <1>2, <2>1, <2>5
      <3>2. \A i \in 1 .. size : Live(q)[i] = IF i = size THEN m ELSE Live(r)[i + 1]
        BY <2>1, <2>5
      <3> SUFFICES ASSUME NEW i \in 1 .. size, NEW j \in 1 .. size, i < j PROVE Live(q)[i].n < Live(q)[j].n
        BY <3>1 DEF Ascending
      <3>3. i # size /\ i + 1 \in 1 .. size /\ Live(q)[i].n = Live(r)[i + 1].n
        BY <3>2
      <3>4. CASE j = size
        BY <1>1, <2>2, <3>2, <3>3, <3>4
      <3>5. CASE j # size
        <4>1. j + 1 \in 1 .. size /\ i + 1 < j + 1 /\ Live(q)[j].n = Live(r)[j + 1].n
          BY <3>2, <3>5, SMTT(60)
        <4> QED  BY <2>3, <3>3, <4>1
      <3> QED  BY <3>4, <3>5
    <2> QED  BY <1>1, <2>4, <2>5
  <1> QED  BY <1>5, <1>6, <1>7 DEF Line, q

(* No rows are in order with any.                                          *)
LEMMA NoRows ==
    /\ Ascending(<<>>)
    /\ \A rows, k : Before(<<>>, rows) /\ Before(rows, <<>>) /\ Upto(<<>>, k) /\ Beyond(<<>>, k)
  BY DEF Ascending, Before, Upto, Beyond

LEMMA LineDrains ==
    ASSUME NEW d \in Seq(Row), NEW r, Whole(r), NEW last, Line(d, <<>>, r, last)
    PROVE  Line(d, Live(r), Holding(r, <<>>), last)
  <1>1. From(Live(r), r.buf)
    BY LiveRows
  <1>2. Before(d, Live(r)) /\ Upto(Live(r), last)
    BY <1>1 DEF Line, Before, Upto, From
  <1>3. Holding(r, <<>>).buf = <<>> /\ Live(Holding(r, <<>>)) = <<>>
    <2>1. <<>> \in Seq(Row) /\ Len(<<>>) <= Limit /\ r \in Ring
      BY LimitAssumption DEF Whole
    <2> QED  BY <2>1, Held
  <1> QED  BY <1>2, <1>3, NoRows DEF Line

LEMMA LineWrites ==
    ASSUME NEW d \in Seq(Row), NEW u \in Seq(Row), NEW r, NEW last, Line(d, u, r, last)
    PROVE  Line(d \o u, <<>>, r, last)
  <1>6. Len(d) \in Nat /\ Len(u) \in Nat
    OBVIOUS
  <1>1. PICK k \in Nat, l \in Nat : k = Len(d) /\ l = Len(u) /\ DOMAIN d = 1 .. k /\ DOMAIN u = 1 .. l
    BY <1>6
  <1>7. d \o u \in Seq(Row)
    OBVIOUS
  <1>2. PICK all \in Seq(Row) : all = d \o u
    BY <1>7
  <1>3. DOMAIN all = 1 .. k + l /\ \A i \in 1 .. k + l : IF i <= k THEN i \in 1 .. k /\ all[i] = d[i]
                                                            ELSE i - k \in 1 .. l /\ all[i] = u[i - k]
    BY <1>1, <1>2
  <1>4. Before(all, r.buf) /\ Upto(all, last)
    BY <1>1, <1>3, ZenonT(60) DEF Line, Before, Upto
  <1>5. Ascending(all)
    <2> SUFFICES ASSUME NEW i \in 1 .. k + l, NEW j \in 1 .. k + l, i < j PROVE all[i].n < all[j].n
      BY <1>3 DEF Ascending
    <2>1. CASE j <= k
      <3>1. i <= k
        BY <2>1
      <3> QED  BY <1>1, <1>3, <2>1, <3>1 DEF Line, Ascending
    <2>2. CASE i <= k /\ ~(j <= k)
      BY <1>1, <1>3, <2>2 DEF Line, Before
    <2>3. CASE ~(i <= k)
      <3>1. i - k < j - k /\ ~(j <= k)
        BY <2>3
      <3> QED  BY <1>1, <1>3, <2>3, <3>1 DEF Line, Ascending
    <2> QED  BY <2>1, <2>2, <2>3
  <1> QED  BY <1>2, <1>4, <1>5, NoRows DEF Line

LEMMA LinePutsBack ==
    ASSUME NEW d \in Seq(Row), NEW u \in Seq(Row), NEW r, Whole(r), NEW last, Line(d, u, r, last)
    PROVE  Line(d, <<>>, Restored(r, u), last)
  <1> DEFINE q == Restored(r, u)
  <1>1. /\ Live(q) = q.buf
        /\ EndOf(q.buf, u \o Live(r))
        /\ \A i \in DOMAIN q.buf : \/ \E j \in DOMAIN u : q.buf[i] = u[j]
                                  \/ \E j \in DOMAIN r.buf : q.buf[i] = r.buf[j]
        /\ q.buf \in Seq(Row)
    <2>1. Whole(q)
      BY PutBack
    <2>2. q.buf \in Seq(Row)
      BY <2>1 DEF Whole, Ring
    <2>3. Live(q) = q.buf
      BY PutBack
    <2>4. EndOf(q.buf, u \o Live(r))
      BY PutBack
    <2>5. \A i \in DOMAIN q.buf : \/ \E j \in DOMAIN u : q.buf[i] = u[j]
                                 \/ \E j \in DOMAIN r.buf : q.buf[i] = r.buf[j]
      BY PutBack
    <2> HIDE DEF q
    <2> QED  BY <2>2, <2>3, <2>4, <2>5
  <1> HIDE DEF q
  <1>2. Before(d, q.buf) /\ Upto(q.buf, last)
    BY <1>1 DEF Line, Before, Upto
  <1>3. Live(r) \in Seq(Row) /\ From(Live(r), r.buf)
    BY LiveRows
  <1>4. Line(u, Live(r), Holding(r, <<>>), last)
    <2>1. Before(u, Live(r)) /\ Upto(Live(r), last)
      BY <1>3 DEF Line, Before, Upto, From
    <2>2. Holding(r, <<>>).buf = <<>> /\ Live(Holding(r, <<>>)) = <<>>
      <3>1. <<>> \in Seq(Row) /\ Len(<<>>) <= Limit /\ r \in Ring
        BY LimitAssumption DEF Whole
      <3> QED  BY <3>1, Held
    <2> QED  BY <2>1, <2>2, NoRows DEF Line
  <1>5. Ascending(u \o Live(r))
    BY <1>3, <1>4, LineWrites DEF Line
  <1>6. PICK all \in Seq(Row) : all = u \o Live(r)
    <2>1. u \o Live(r) \in Seq(Row)
      BY <1>3
    <2> QED  BY <2>1
  <1>7. PICK over \in Nat : \A i \in DOMAIN q.buf : over + i \in DOMAIN all /\ q.buf[i] = all[over + i]
    BY <1>1, <1>6 DEF EndOf
  <1>8. Ascending(q.buf)
    <2> SUFFICES ASSUME NEW i \in DOMAIN q.buf, NEW j \in DOMAIN q.buf, i < j PROVE q.buf[i].n < q.buf[j].n
      BY DEF Ascending
    <2>1. i \in Nat /\ j \in Nat
      BY <1>1
    <2>2. over + i < over + j
      BY <2>1
    <2> QED  BY <1>5, <1>6, <1>7, <2>2 DEF Ascending
  <1> QED  BY <1>1, <1>2, <1>8, NoRows DEF Line, q

LEMMA LineIsCleared ==
    ASSUME NEW d \in Seq(Row), NEW u \in Seq(Row), NEW r, Whole(r), NEW last, Line(d, u, r, last), NEW filter
    PROVE  /\ Line(Outside(filter, d), u, r, last)
           /\ Line(d, u, Holding(r, Outside(filter, Live(r))), last)
           /\ Whole(Holding(r, Outside(filter, Live(r)))) /\ Len(Outside(filter, Live(r))) \in 0 .. r.count
           /\ From(Holding(r, Outside(filter, Live(r))).buf, r.buf)
           /\ Holding(r, Outside(filter, Live(r))).count = Len(Outside(filter, Live(r)))
           /\ Holding(r, Outside(filter, Live(r))).dropped = r.dropped
  <1>1. PICK left \in Seq(Row) : left = Outside(filter, d) /\ From(left, d) /\ Ascending(left)
    BY LeftOutside DEF Line
  <1>2. Before(left, u) /\ Before(left, r.buf) /\ Upto(left, last)
    BY <1>1 DEF Line, Before, Upto, From
  <1>3. Line(Outside(filter, d), u, r, last)
    BY <1>1, <1>2 DEF Line
  <1>4. Live(r) \in Seq(Row) /\ From(Live(r), r.buf) /\ Len(Live(r)) = r.count /\ r.count <= Limit /\ r.count \in Nat
    BY LiveRows DEF Whole, Ring
  <1>5. PICK rows \in Seq(Row) : /\ rows = Outside(filter, Live(r)) /\ From(rows, Live(r)) /\ Ascending(rows)
                               /\ Len(rows) \in 0 .. r.count
    <2>1. Outside(filter, Live(r)) \in Seq(Row) /\ Len(Outside(filter, Live(r))) \in Nat
      BY <1>4, LeftOutside
    <2> QED  BY <1>4, <2>1, LeftOutside DEF Line
  <1>6. From(rows, r.buf)
    BY <1>4, <1>5, ZenonT(60) DEF From
  <1>7. Before(d, rows) /\ Before(u, rows) /\ Upto(rows, last)
    BY <1>6 DEF Line, Before, Upto, From
  <1>8. /\ Whole(Holding(r, rows)) /\ Live(Holding(r, rows)) = rows /\ Holding(r, rows).buf = rows
        /\ Holding(r, rows).count = Len(rows) /\ Holding(r, rows).dropped = r.dropped
    <2>1. Len(rows) <= Limit /\ r \in Ring
      BY <1>4, <1>5, LimitAssumption DEF Whole
    <2> QED  BY <2>1, Held
  <1>9. Line(d, u, Holding(r, rows), last)
    BY <1>5, <1>7, <1>8 DEF Line
  <1> QED  BY <1>3, <1>5, <1>6, <1>8, <1>9

(* What a call of Flush that returned nil was promised.                    *)
Ack(at, promised, u, b) ==
    /\ at = "ok" => Beyond(u, promised) /\ Beyond(b, promised)
    /\ at \in {"drained", "opening", "writing", "wrote", "failed"} => Beyond(b, promised)

StoreTypes ==
    /\ sealed \in BOOLEAN /\ written \in Nat /\ cleared \in Nat /\ reported \in Nat
    /\ disk \in Seq(Row) /\ batch \in [Calls -> Seq(Row)] /\ Whole(ring)
    /\ mark \in [Calls -> Nat] /\ \A c \in Calls : mark[c] <= recorded
    /\ settle \in [at : SettleAt, attempt : Nat]
RowsInv ==
    /\ StoreTypes /\ RowsAccounted
    /\ Line(disk, Unwritten, ring, recorded)
    /\ \A c \in Calls : Ack(pc[c], mark[c], Unwritten, ring.buf)

LEMMA BatchInHand ==
    ASSUME SerialInv, StoreTypes
    PROVE  /\ Unwritten \in Seq(Row) /\ InFlight \in Seq(Row)
           /\ flushMu = Nobody => Unwritten = <<>> /\ InFlight = <<>>
           /\ \A c \in Calls : flushMu = c =>
                 InFlight = batch[c] /\ Unwritten = IF pc[c] = "wrote" THEN <<>> ELSE batch[c]
           /\ \A c \in Calls : flushMu = c <=> pc[c] \in {"drained", "opening", "writing", "wrote", "failed"}
           /\ \A c \in Calls : batch[c] \in Seq(Row)
  <1>1. flushMu \in Calls \cup {Nobody} /\ Nobody \notin Calls
    BY CallerAssumption DEF SerialInv, CallTypes, Calls
  <1>2. \A c \in Calls : batch[c] \in Seq(Row)
    BY DEF StoreTypes
  <1>3. <<>> \in Seq(Row)
    OBVIOUS
  <1>4. \A c \in Calls : flushMu = c <=> pc[c] \in {"drained", "opening", "writing", "wrote", "failed"}
    BY DEF SerialInv, FlushesSerialized
  <1> QED  BY <1>1, <1>2, <1>3, <1>4 DEF Unwritten, InFlight

(* A step that moves no rows.                                              *)
LEMMA RowsStay ==
    ASSUME SerialInv, RowsInv, UNCHANGED <<recorded, ring, written, disk, flushMu, batch, cleared>>,
           flushMu # Nobody => (pc'[flushMu] = "wrote" <=> pc[flushMu] = "wrote"),
           sealed' \in BOOLEAN, reported' \in Nat, settle' \in [at : SettleAt, attempt : Nat],
           mark' \in [Calls -> Nat], \A c \in Calls : mark'[c] <= recorded,
           \A c \in Calls : Ack(pc'[c], mark'[c], Unwritten, ring.buf)
    PROVE  RowsInv'
  <1>1. Unwritten' = Unwritten /\ InFlight' = InFlight
    BY DEF Unwritten, InFlight
  <1>2. StoreTypes'
    BY DEF RowsInv, StoreTypes
  <1>3. RowsAccounted'
    BY <1>1 DEF RowsInv, RowsAccounted
  <1> QED  BY <1>1, <1>2, <1>3 DEF RowsInv

(* One call of Flush goes from place to place, and no other.               *)
LEMMA CallMoves ==
    ASSUME SerialInv, RowsInv, UNCHANGED <<recorded, ring, written, disk, flushMu, batch, cleared>>,
           sealed' \in BOOLEAN, reported' \in Nat, settle' \in [at : SettleAt, attempt : Nat],
           NEW c \in Calls, NEW at \in Pc, pc' = [pc EXCEPT ![c] = at], pc[c] # "wrote" /\ at # "wrote",
           NEW promised \in Nat, mark' = [mark EXCEPT ![c] = promised], promised <= recorded,
           Ack(at, promised, Unwritten, ring.buf)
    PROVE  RowsInv'
  <1>1. pc \in [Calls -> Pc] /\ flushMu \in Calls \cup {Nobody} /\ mark \in [Calls -> Nat]
        /\ \A d \in Calls : mark[d] <= recorded /\ Ack(pc[d], mark[d], Unwritten, ring.buf)
    BY DEF SerialInv, CallTypes, RowsInv, StoreTypes
  <1>2. \A d \in Calls : pc'[d] = (IF d = c THEN at ELSE pc[d]) /\ mark'[d] = IF d = c THEN promised ELSE mark[d]
    BY <1>1
  <1>3. mark' \in [Calls -> Nat]
    BY <1>1
  <1>4. flushMu # Nobody => (pc'[flushMu] = "wrote" <=> pc[flushMu] = "wrote")
    BY <1>1, <1>2
  <1>5. \A d \in Calls : mark'[d] <= recorded /\ Ack(pc'[d], mark'[d], Unwritten, ring.buf)
    BY <1>1, <1>2
  <1> QED  BY <1>3, <1>4, <1>5, RowsStay

LEMMA RecordKeepsRows == ASSUME SerialInv, RowsInv, NEW k \in Keys, Record(k) PROVE RowsInv'
  <1> DEFINE m == [n |-> recorded + 1, key |-> k]
  <1>1. /\ recorded \in Nat /\ recorded < MaxRows /\ recorded' = recorded + 1
        /\ UNCHANGED <<sealed, written, disk, flushMu, pc, batch, mark, cleared, settle, reported>>
    BY BoundAssumption DEF Record, SerialInv, CallTypes, callVars, clearVars, settleVars
  <1>2. /\ StoreTypes /\ Whole(ring) /\ disk \in Seq(Row) /\ Unwritten \in Seq(Row) /\ InFlight \in Seq(Row)
        /\ Line(disk, Unwritten, ring, recorded) /\ ring \in Ring
    BY BatchInHand DEF RowsInv, StoreTypes, Whole
  <1>3. Unwritten' = Unwritten /\ InFlight' = InFlight
    BY <1>1 DEF Unwritten, InFlight
  <1>4. m \in Row /\ m.n = recorded + 1
    BY <1>1, BoundAssumption DEF Row
  <1> HIDE DEF m
  <1>5. /\ Whole(ring') /\ Line(disk, Unwritten, ring', recorded + 1)
        /\ ring'.dropped + ring'.count = ring.dropped + ring.count + 1
        /\ \A i \in DOMAIN ring'.buf : ring'.buf[i].n = recorded + 1 \/ \E j \in DOMAIN ring.buf : ring'.buf[i] = ring.buf[j]
    <2>1. CASE ~sealed
      <3>1. ring' = Push(ring, m)
        BY <2>1 DEF Record, m
      <3> DEFINE q == Push(ring, m)
      <3>2. Whole(q) /\ q.dropped + q.count = ring.dropped + ring.count + 1
        BY <1>2, <1>4, Pushed
      <3>3. \A i \in DOMAIN q.buf : q.buf[i] = m \/ \E j \in DOMAIN ring.buf : q.buf[i] = ring.buf[j]
        BY <1>2, <1>4, Pushed, ZenonT(60)
      <3>4. Line(disk, Unwritten, q, recorded + 1)
        BY <1>1, <1>2, <1>4, LineRecords
      <3> HIDE DEF q
      <3>5. ring' = q
        BY <3>1 DEF q
      <3> QED  BY <1>4, <3>2, <3>3, <3>4, <3>5
    <2>2. CASE sealed
      <3>1. PICK d \in Nat : d = ring.dropped + 1 /\ ring' = [ring EXCEPT !.dropped = d]
        <4>1. ring.dropped \in Nat
          BY <1>2 DEF Ring
        <4>2. ring' = [ring EXCEPT !.dropped = ring.dropped + 1]
          BY <2>2 DEF Record
        <4>3. PICK d : d = ring.dropped + 1
          OBVIOUS
        <4>4. d \in Nat
          BY <4>1, <4>3
        <4> QED  BY <4>2, <4>3, <4>4
      <3>2. ring' \in Ring /\ ring'.buf = ring.buf /\ ring'.head = ring.head /\ ring'.count = ring.count /\ ring'.dropped = d
        BY <1>2, <3>1, RingKeeps DEF Ring
      <3>3. Whole(ring') /\ Live(ring') = Live(ring)
        BY <1>2, <3>2 DEF Whole, Live, Slot
      <3>4. \A rows \in {disk, Unwritten, ring.buf} : Upto(rows, recorded + 1)
        <4>1. \A rows \in {disk, Unwritten, ring.buf} : rows \in Seq(Row) /\ Upto(rows, recorded)
          BY <1>2 DEF Line, Ring
        <4>2. \A i \in Nat : i <= recorded => i <= recorded + 1
          BY <1>1
        <4> QED  BY <4>1, <4>2, NumbersAreNumbers DEF Upto
      <3>5. Line(disk, Unwritten, ring', recorded + 1)
        BY <1>2, <3>2, <3>3, <3>4 DEF Line
      <3>6. ring'.dropped + ring'.count = ring.dropped + ring.count + 1
        BY <1>2, <3>1, <3>2 DEF Ring
      <3> QED  BY <3>2, <3>3, <3>5, <3>6
    <2> QED  BY <2>1, <2>2
  <1>6. StoreTypes'
    <2>1. \A c \in Calls : mark[c] \in Nat /\ mark[c] <= recorded
      BY <1>2 DEF StoreTypes
    <2> QED  BY <1>1, <1>2, <1>5, <2>1 DEF StoreTypes
  <1>7. RowsAccounted'
    <2>1. Len(InFlight) \in Nat /\ written \in Nat /\ cleared \in Nat /\ ring.dropped \in Nat /\ ring.count \in Nat
          /\ ring'.dropped \in Nat /\ ring'.count \in Nat
      BY <1>2, <1>5, SMTT(60) DEF StoreTypes, Whole, Ring
    <2>2. recorded = ring.dropped + ring.count + Len(InFlight) + written + cleared
      BY DEF RowsInv, RowsAccounted
    <2> QED  BY <1>1, <1>3, <1>5, <2>1, <2>2, SMTT(60) DEF RowsAccounted
  <1>8. ASSUME NEW c \in Calls PROVE Ack(pc[c], mark[c], Unwritten, ring'.buf)
    <2>1. mark[c] \in Nat /\ mark[c] <= recorded /\ Ack(pc[c], mark[c], Unwritten, ring.buf)
      BY <1>2 DEF StoreTypes, RowsInv
    <2>2. recorded + 1 > mark[c]
      BY <1>1, <2>1
    <2>3. Beyond(ring.buf, mark[c]) => Beyond(ring'.buf, mark[c])
      BY <1>5, <2>2 DEF Beyond
    <2> QED  BY <2>1, <2>3 DEF Ack
  <1> QED  BY <1>1, <1>3, <1>5, <1>6, <1>7, <1>8 DEF RowsInv

(* The facts every step of a flush starts from.                            *)
LEMMA FlushFacts ==
    ASSUME SerialInv, RowsInv
    PROVE  /\ recorded \in Nat /\ StoreTypes /\ Whole(ring) /\ ring \in Ring
           /\ disk \in Seq(Row) /\ batch \in [Calls -> Seq(Row)] /\ mark \in [Calls -> Nat] /\ pc \in [Calls -> Pc]
           /\ Unwritten \in Seq(Row) /\ InFlight \in Seq(Row)
           /\ written \in Nat /\ cleared \in Nat /\ ring.dropped \in Nat /\ ring.count \in Nat /\ Len(InFlight) \in Nat
           /\ Line(disk, Unwritten, ring, recorded)
           /\ recorded = ring.dropped + ring.count + Len(InFlight) + written + cleared
           /\ \A c \in Calls : mark[c] \in Nat /\ mark[c] <= recorded /\ Ack(pc[c], mark[c], Unwritten, ring.buf)
  <1>1. StoreTypes /\ recorded \in Nat /\ pc \in [Calls -> Pc] /\ Whole(ring)
    BY BoundAssumption DEF RowsInv, SerialInv, CallTypes, StoreTypes
  <1>2. ring \in Ring /\ ring.dropped \in Nat /\ ring.count \in Nat
    BY <1>1 DEF Whole, Ring
  <1>3. Unwritten \in Seq(Row) /\ InFlight \in Seq(Row) /\ Len(InFlight) \in Nat
    BY <1>1, BatchInHand
  <1> QED  BY <1>1, <1>2, <1>3 DEF RowsInv, RowsAccounted, StoreTypes

LEMMA CallStepsKeepRows ==
    ASSUME SerialInv, RowsInv, NEW c \in Calls, FlushCall(c) \/ FlushReturns(c),
           sealed' \in BOOLEAN, reported' \in Nat, settle' \in [at : SettleAt, attempt : Nat]
    PROVE  RowsInv'
  <1>1. UNCHANGED <<recorded, ring, written, disk, flushMu, batch, cleared>>
    BY DEF FlushCall, FlushReturns, clearVars
  <1>2. CASE FlushCall(c)
    <2>1. pc[c] # "wrote" /\ pc' = [pc EXCEPT ![c] = "waiting"] /\ mark' = [mark EXCEPT ![c] = recorded]
      BY <1>2 DEF FlushCall
    <2>2. "waiting" \in Pc /\ recorded \in Nat /\ recorded <= recorded
      BY FlushFacts DEF Pc
    <2>3. Ack("waiting", recorded, Unwritten, ring.buf)
      BY DEF Ack
    <2> QED  BY <1>1, <2>1, <2>2, <2>3, CallMoves
  <1>3. CASE FlushReturns(c)
    <2>1. pc[c] # "wrote" /\ pc' = [pc EXCEPT ![c] = "idle"] /\ mark' = [mark EXCEPT ![c] = 0]
      BY <1>3 DEF FlushReturns
    <2>2. "idle" \in Pc /\ 0 \in Nat /\ 0 <= recorded
      BY FlushFacts DEF Pc
    <2>3. Ack("idle", 0, Unwritten, ring.buf)
      BY DEF Ack
    <2> QED  BY <1>1, <2>1, <2>2, <2>3, CallMoves
  <1> QED  BY <1>2, <1>3

LEMMA SettleTyped ==
    ASSUME RowsInv
    PROVE  /\ sealed \in BOOLEAN /\ reported \in Nat /\ settle \in [at : SettleAt, attempt : Nat]
           /\ settle.attempt \in Nat /\ settle.at \in SettleAt
  <1>1. settle \in [at : SettleAt, attempt : Nat]
    BY DEF RowsInv, StoreTypes
  <1> QED  BY <1>1 DEF RowsInv, StoreTypes

LEMMA ConnectKeepsRows ==
    ASSUME SerialInv, RowsInv, NEW c \in Calls, Acquire(c) \/ GiveUp(c) \/ Open(c)
    PROVE  RowsInv'
  <1>1. /\ UNCHANGED <<recorded, ring, written, disk, flushMu, batch, cleared, mark, sealed, reported, settle>>
        /\ pc[c] \in {"drained", "opening"}
    BY DEF Acquire, GiveUp, Open, clearVars, settleVars
  <1>2. PICK at \in {"opening", "writing", "failed"} : pc' = [pc EXCEPT ![c] = at]
    BY DEF Acquire, GiveUp, Open
  <1>3. mark' = [mark EXCEPT ![c] = mark[c]] /\ mark[c] \in Nat /\ mark[c] <= recorded /\ at \in Pc /\ at # "wrote"
    BY <1>1, FlushFacts DEF Pc
  <1>4. Ack(at, mark[c], Unwritten, ring.buf)
    BY <1>1, FlushFacts DEF Ack
  <1> QED  BY <1>1, <1>2, <1>3, <1>4, CallMoves, SettleTyped

LEMMA DrainKeepsRows == ASSUME SerialInv, SerialInv', RowsInv, NEW c \in Calls, Drain(c) PROVE RowsInv'
  <1>1. /\ UNCHANGED <<recorded, sealed, written, disk, mark, cleared, settle, reported>>
        /\ flushMu = Nobody /\ pc[c] = "waiting"
    BY DEF Drain, clearVars, settleVars
  <1>2. /\ StoreTypes /\ Whole(ring) /\ ring \in Ring /\ disk \in Seq(Row) /\ batch \in [Calls -> Seq(Row)]
        /\ Line(disk, Unwritten, ring, recorded) /\ pc \in [Calls -> Pc] /\ mark \in [Calls -> Nat]
        /\ Unwritten = <<>> /\ InFlight = <<>>
    BY <1>1, FlushFacts, BatchInHand
  <1>3. CASE ring.count = 0 /\ pc' = [pc EXCEPT ![c] = "ok"] /\ UNCHANGED <<ring, batch, flushMu>>
    <2>1. mark' = [mark EXCEPT ![c] = mark[c]] /\ mark[c] \in Nat /\ mark[c] <= recorded /\ "ok" \in Pc
      BY <1>1, FlushFacts DEF Pc
    <2>2. DOMAIN ring.buf = {} /\ DOMAIN Unwritten = {}
      <3>1. ring.buf \in Seq(Row) /\ Len(ring.buf) = 0
        BY <1>2, <1>3 DEF Whole, Ring
      <3> QED  BY <1>2, <3>1
    <2>3. Ack("ok", mark[c], Unwritten, ring.buf)
      BY <2>2 DEF Ack, Beyond
    <2> QED  BY <1>1, <1>3, <2>1, <2>3, CallMoves, SettleTyped
  <1>4. CASE /\ ring.count > 0 /\ pc' = [pc EXCEPT ![c] = "drained"]
             /\ batch' = [batch EXCEPT ![c] = Live(ring)] /\ ring' = Holding(ring, <<>>) /\ flushMu' = c
    <2>1. Live(ring) \in Seq(Row) /\ Len(Live(ring)) = ring.count /\ From(Live(ring), ring.buf)
      BY <1>2, LiveRows
    <2>2. /\ Whole(ring') /\ ring'.buf = <<>> /\ ring'.count = 0 /\ ring'.dropped = ring.dropped
      <3>1. <<>> \in Seq(Row) /\ Len(<<>>) <= Limit /\ Len(<<>>) = 0
        BY LimitAssumption
      <3> QED  BY <1>2, <1>4, <3>1, Held
    <2>3. pc'[c] = "drained" /\ batch'[c] = Live(ring) /\ c # Nobody /\ batch' \in [Calls -> Seq(Row)]
      BY <1>2, <1>4, <2>1, CallerAssumption DEF Calls
    <2>4. Unwritten' = Live(ring) /\ InFlight' = Live(ring)
      BY <1>4, <2>3 DEF Unwritten, InFlight
    <2>5. Line(disk, Live(ring), ring', recorded)
      BY <1>2, <1>4, LineDrains
    <2>6. StoreTypes'
      BY <1>1, <1>2, <2>2, <2>3 DEF StoreTypes
    <2>7. RowsAccounted'
      <3>1. recorded = ring.dropped + ring.count + written + cleared /\ ring.dropped \in Nat /\ ring.count \in Nat
            /\ written \in Nat /\ cleared \in Nat
        BY <1>2, FlushFacts
      <3> QED  BY <1>1, <2>1, <2>2, <2>4, <3>1 DEF RowsAccounted
    <2>8. ASSUME NEW d \in Calls PROVE Ack(pc'[d], mark[d], Live(ring), ring'.buf)
      <3>1. pc'[d] = (IF d = c THEN "drained" ELSE pc[d]) /\ Ack(pc[d], mark[d], Unwritten, ring.buf)
        BY <1>2, <1>4, FlushFacts
      <3>2. Beyond(ring.buf, mark[d]) => Beyond(Live(ring), mark[d])
        BY <2>1 DEF Beyond, From
      <3>3. Beyond(ring'.buf, mark[d])
        BY <2>2, NoRows
      <3> QED  BY <3>1, <3>2, <3>3 DEF Ack
    <2> QED  BY <1>1, <2>4, <2>5, <2>6, <2>7, <2>8 DEF RowsInv
  <1> QED  BY <1>3, <1>4, <1>1 DEF Drain

LEMMA WriteKeepsRows == ASSUME SerialInv, SerialInv', RowsInv, NEW c \in Calls, Write(c) PROVE RowsInv'
  <1>1. /\ UNCHANGED <<recorded, ring, sealed, written, flushMu, batch, mark, cleared, settle, reported>>
        /\ pc[c] = "writing"
    BY DEF Write, clearVars, settleVars
  <1>2. CASE pc' = [pc EXCEPT ![c] = "failed"] /\ UNCHANGED disk
    <2>1. mark' = [mark EXCEPT ![c] = mark[c]] /\ mark[c] \in Nat /\ mark[c] <= recorded /\ "failed" \in Pc
      BY <1>1, FlushFacts DEF Pc
    <2>2. Ack("failed", mark[c], Unwritten, ring.buf)
      BY <1>1, FlushFacts DEF Ack
    <2> QED  BY <1>1, <1>2, <2>1, <2>2, CallMoves, SettleTyped
  <1>3. CASE disk' = disk \o batch[c] /\ pc' = [pc EXCEPT ![c] = "wrote"]
    <2>1. /\ flushMu = c /\ Unwritten = batch[c] /\ batch[c] \in Seq(Row) /\ disk \in Seq(Row) /\ pc \in [Calls -> Pc]
          /\ Line(disk, Unwritten, ring, recorded) /\ StoreTypes
      BY <1>1, FlushFacts, BatchInHand
    <2>2. pc'[c] = "wrote" /\ disk' \in Seq(Row)
      BY <1>3, <2>1
    <2>3. Unwritten' = <<>> /\ InFlight' = InFlight
      BY <1>1, <2>1, <2>2 DEF Unwritten, InFlight
    <2>4. Line(disk', <<>>, ring, recorded)
      BY <1>3, <2>1, LineWrites
    <2>5. StoreTypes' /\ RowsAccounted'
      BY <1>1, <2>1, <2>2, <2>3 DEF StoreTypes, RowsInv, RowsAccounted
    <2>6. ASSUME NEW d \in Calls PROVE Ack(pc'[d], mark[d], <<>>, ring.buf)
      <3>1. pc'[d] = (IF d = c THEN "wrote" ELSE pc[d]) /\ Ack(pc[d], mark[d], Unwritten, ring.buf)
        BY <1>3, <2>1, FlushFacts
      <3> QED  BY <1>1, <3>1, NoRows DEF Ack
    <2> QED  BY <1>1, <2>3, <2>4, <2>5, <2>6 DEF RowsInv
  <1> QED  BY <1>2, <1>3 DEF Write

LEMMA FlushEndsKeepsRows == ASSUME SerialInv, SerialInv', RowsInv, NEW c \in Calls, FlushEnds(c) PROVE RowsInv'
  <1>1. /\ UNCHANGED <<recorded, sealed, disk, mark, cleared, settle, reported>>
        /\ batch' = [batch EXCEPT ![c] = <<>>] /\ flushMu' = Nobody
    BY DEF FlushEnds, clearVars, settleVars
  <1>2. /\ flushMu = c /\ InFlight = batch[c] /\ Unwritten = IF pc[c] = "wrote" THEN <<>> ELSE batch[c]
    <2>1. pc[c] \in {"wrote", "failed"}
      BY DEF FlushEnds
    <2> QED  BY <2>1, FlushFacts, BatchInHand
  <1>3. Unwritten' = <<>> /\ InFlight' = <<>> /\ Len(InFlight') = 0
    BY <1>1 DEF Unwritten, InFlight
  <1>4. batch' \in [Calls -> Seq(Row)]
    <2>1. <<>> \in Seq(Row)
      OBVIOUS
    <2> QED  BY <1>1, <2>1, FlushFacts
  <1>5. PICK l \in Nat : l = Len(InFlight) /\ l = Len(batch[c]) /\ recorded = ring.dropped + ring.count + l + written + cleared
    BY <1>2, FlushFacts
  <1>6. CASE pc[c] = "wrote" /\ written' = written + Len(batch[c]) /\ pc' = [pc EXCEPT ![c] = "ok"] /\ UNCHANGED ring
    <2>1. StoreTypes' /\ RowsAccounted'
      <3>1. written' \in Nat /\ written' = written + l
        BY <1>5, <1>6, FlushFacts, SMTT(60)
      <3>2. StoreTypes'
        BY <1>1, <1>4, <1>6, <3>1, FlushFacts DEF StoreTypes
      <3> QED  BY <1>1, <1>3, <1>5, <1>6, <3>1, <3>2, FlushFacts, SMTT(60) DEF RowsAccounted
    <2>2. Unwritten = <<>>
      BY <1>2, <1>6
    <2>3. ASSUME NEW d \in Calls PROVE Ack(pc'[d], mark[d], <<>>, ring.buf)
      <3>1. pc'[d] = (IF d = c THEN "ok" ELSE pc[d]) /\ Ack(pc[d], mark[d], <<>>, ring.buf)
        BY <1>6, <2>2, FlushFacts
      <3> QED  BY <1>6, <3>1, NoRows DEF Ack
    <2>4. Line(disk, <<>>, ring, recorded)
      BY <2>2, FlushFacts
    <2> QED  BY <1>1, <1>3, <1>6, <2>1, <2>3, <2>4 DEF RowsInv
  <1>7. CASE pc[c] = "failed" /\ ring' = Restored(ring, batch[c]) /\ pc' = [pc EXCEPT ![c] = "error"] /\ UNCHANGED written
    <2>1. Unwritten = batch[c] /\ batch[c] \in Seq(Row)
      BY <1>2, <1>7, FlushFacts
    <2> DEFINE q == Restored(ring, batch[c])
    <2>2. Whole(ring) /\ Line(disk, batch[c], ring, recorded) /\ disk \in Seq(Row)
      BY <2>1, FlushFacts
    <2>3. Whole(q) /\ q.dropped + q.count = ring.dropped + ring.count + Len(batch[c])
      BY <2>1, <2>2, PutBack
    <2>4. \A i \in DOMAIN q.buf : \/ \E j \in DOMAIN batch[c] : q.buf[i] = batch[c][j]
                                 \/ \E j \in DOMAIN ring.buf : q.buf[i] = ring.buf[j]
      BY <2>1, <2>2, PutBack
    <2>5. Line(disk, <<>>, q, recorded)
      BY <2>1, <2>2, LinePutsBack
    <2> HIDE DEF q
    <2>6. ring' = q
      BY <1>7 DEF q
    <2>7. StoreTypes'
      BY <1>1, <1>4, <1>7, <2>3, <2>6, FlushFacts DEF StoreTypes
    <2>8. RowsAccounted'
      <3>1. ring'.dropped \in Nat /\ ring'.count \in Nat
        BY <2>3, <2>6 DEF Whole, Ring
      <3>2. ring'.dropped + ring'.count = ring.dropped + ring.count + l
        BY <1>5, <2>3, <2>6
      <3>3. ring.dropped \in Nat /\ ring.count \in Nat /\ written \in Nat /\ cleared \in Nat
        BY FlushFacts
      <3> QED  BY <1>1, <1>3, <1>5, <1>7, <3>1, <3>2, <3>3 DEF RowsAccounted
    <2>9. ASSUME NEW d \in Calls PROVE Ack(pc'[d], mark[d], <<>>, q.buf)
      <3>1. pc'[d] = (IF d = c THEN "error" ELSE pc[d]) /\ Ack(pc[d], mark[d], batch[c], ring.buf)
        BY <1>7, <2>1, FlushFacts
      <3>2. Beyond(batch[c], mark[d]) /\ Beyond(ring.buf, mark[d]) => Beyond(q.buf, mark[d])
        BY <2>4 DEF Beyond
      <3>3. d # c => pc[d] \notin {"drained", "opening", "writing", "wrote", "failed"}
        BY <1>2, BatchInHand, FlushFacts
      <3> QED  BY <3>1, <3>2, <3>3, NoRows DEF Ack
    <2> QED  BY <1>1, <1>3, <2>5, <2>6, <2>7, <2>8, <2>9 DEF RowsInv
  <1> QED  BY <1>6, <1>7 DEF FlushEnds

LEMMA ClearKeepsRows == ASSUME SerialInv, SerialInv', RowsInv, ClearAttempts \/ ClearBuffer PROVE RowsInv'
  <1>1. UNCHANGED <<recorded, sealed, written, flushMu, pc, batch, mark, settle, reported>>
    BY DEF ClearAttempts, ClearBuffer, callVars, settleVars
  <1>2. Unwritten' = Unwritten /\ InFlight' = InFlight
    BY <1>1 DEF Unwritten, InFlight
  <1> DEFINE left == Outside(clearing.filter, Live(ring))
             q == Holding(ring, left)
             rest == Outside(clearing.filter, disk)
  <1>3. /\ Whole(ring) /\ StoreTypes /\ disk \in Seq(Row) /\ Unwritten \in Seq(Row)
        /\ Line(disk, Unwritten, ring, recorded)
    BY FlushFacts
  <1>4. /\ Line(rest, Unwritten, ring, recorded) /\ Line(disk, Unwritten, q, recorded)
        /\ Whole(q) /\ Len(left) \in 0 .. ring.count /\ From(q.buf, ring.buf)
        /\ q.count = Len(left) /\ q.dropped = ring.dropped
    BY <1>3, LineIsCleared
  <1>5. rest \in Seq(Row)
    BY <1>3, LeftOutside
  <1> HIDE DEF q, left, rest
  <1>6. CASE ClearAttempts
    <2>1. disk' = rest /\ UNCHANGED <<ring, cleared>>
      BY <1>6 DEF ClearAttempts, rest
    <2>2. StoreTypes' /\ RowsAccounted'
      BY <1>1, <1>2, <1>3, <1>5, <2>1 DEF StoreTypes, RowsInv, RowsAccounted
    <2> QED  BY <1>1, <1>2, <1>4, <2>1, <2>2 DEF RowsInv
  <1>7. CASE ClearBuffer
    <2>1. ring' = q /\ cleared' = cleared + (ring.count - Len(left)) /\ UNCHANGED disk
      BY <1>7 DEF ClearBuffer, q, left
    <2>2. PICK l \in Nat : l = Len(left) /\ l <= ring.count /\ ring.count \in Nat /\ cleared \in Nat
      BY <1>4, FlushFacts
    <2>3. cleared' \in Nat
      BY <2>1, <2>2
    <2>4. StoreTypes'
      BY <1>1, <1>3, <1>4, <2>1, <2>3 DEF StoreTypes
    <2>5. RowsAccounted'
      <3>1. recorded = ring.dropped + ring.count + Len(InFlight) + written + cleared /\ Len(InFlight) \in Nat
            /\ ring.dropped \in Nat /\ written \in Nat
        BY FlushFacts
      <3>2. ring'.count = l /\ ring'.dropped = ring.dropped
        BY <1>4, <2>1, <2>2
      <3>3. PICK k \in Nat : k = Len(InFlight)
        BY <3>1
      <3>4. cleared' = cleared + (ring.count - l)
        BY <2>1, <2>2
      <3>5. recorded = ring.dropped + l + k + written + cleared'
        BY <2>2, <3>1, <3>3, <3>4, SMTT(60)
      <3> QED  BY <1>1, <1>2, <3>2, <3>3, <3>5 DEF RowsAccounted
    <2>6. ASSUME NEW d \in Calls PROVE Ack(pc[d], mark[d], Unwritten, q.buf)
      <3>1. Ack(pc[d], mark[d], Unwritten, ring.buf)
        BY FlushFacts
      <3>2. Beyond(ring.buf, mark[d]) => Beyond(q.buf, mark[d])
        BY <1>4 DEF Beyond, From
      <3> QED  BY <3>1, <3>2 DEF Ack
    <2> QED  BY <1>1, <1>2, <1>4, <2>1, <2>4, <2>5, <2>6 DEF RowsInv
  <1> QED  BY <1>6, <1>7

LEMMA RestKeepsRows ==
    ASSUME SerialInv, RowsInv,
           \/ \E filter \in Keys \cup {AllKeys} : ClearConnects(filter)
           \/ ClearOpens \/ ClearFails \/ ReadConnects \/ ReadEnds
           \/ Seal \/ Report \/ UNCHANGED vars
    PROVE  RowsInv'
  <1>1. UNCHANGED <<recorded, ring, written, disk, flushMu, pc, batch, mark, cleared>>
    BY DEF ClearConnects, ClearOpens, ClearFails, ReadConnects, ReadEnds, Seal, Report,
              callVars, clearVars, settleVars, vars
  <1>2. sealed' \in BOOLEAN
    BY SettleTyped DEF ClearConnects, ClearOpens, ClearFails, ReadConnects, ReadEnds, Seal, Report,
              callVars, clearVars, settleVars, vars
  <1>3. reported' \in Nat
    BY SettleTyped, FlushFacts DEF ClearConnects, ClearOpens, ClearFails, ReadConnects, ReadEnds, Seal, Report,
              callVars, clearVars, settleVars, vars
  <1>4. settle' \in [at : SettleAt, attempt : Nat]
    <2>1. settle' = settle \/ \E at \in SettleAt : settle' = [settle EXCEPT !.at = at]
      BY DEF ClearConnects, ClearOpens, ClearFails, ReadConnects, ReadEnds, Seal, Report,
              callVars, clearVars, settleVars, vars, SettleAt
    <2> QED  BY <2>1, SettleTyped
  <1>5. mark' \in [Calls -> Nat] /\ \A c \in Calls : mark'[c] <= recorded /\ Ack(pc'[c], mark'[c], Unwritten, ring.buf)
    BY <1>1, FlushFacts
  <1> QED  BY <1>1, <1>2, <1>3, <1>4, <1>5, RowsStay

LEMMA SettleKeepsRows == ASSUME SerialInv, RowsInv, SettleBegin \/ SettleAttempt PROVE RowsInv'
  <1>1. FlushLast \in Calls /\ sealed \in BOOLEAN /\ reported' = reported /\ reported \in Nat
    BY SettleTyped DEF Calls, SettleBegin, SettleAttempt
  <1>2. CASE SettleBegin
    <2>1. settle' \in [at : SettleAt, attempt : Nat] /\ FlushCall(FlushLast) /\ sealed' = sealed
      BY <1>2 DEF SettleBegin, SettleAt, FlushCall
    <2> QED  BY <1>1, <2>1, CallStepsKeepRows
  <1>3. CASE FlushReturns(FlushLast) /\ \E at \in {"flushed", "gaveUp"} : settle' = [at |-> at, attempt |-> 0]
    <2>1. settle' \in [at : SettleAt, attempt : Nat] /\ sealed' = sealed
      BY <1>3 DEF SettleAt, FlushReturns
    <2> QED  BY <1>1, <1>3, <2>1, CallStepsKeepRows
  <1>4. CASE /\ pc[FlushLast] = "error" /\ settle' = [settle EXCEPT !.attempt = settle.attempt + 1]
             /\ pc' = [pc EXCEPT ![FlushLast] = "waiting"] /\ mark' = [mark EXCEPT ![FlushLast] = recorded]
             /\ UNCHANGED <<recorded, ring, sealed, written, disk, flushMu, conn, batch, clearVars>>
    <2>1. settle' \in [at : SettleAt, attempt : Nat]
      <3>1. PICK k \in Nat : k = settle.attempt + 1
        BY SettleTyped
      <3>2. settle' = [settle EXCEPT !.attempt = k]
        BY <1>4, <3>1
      <3> QED  BY <3>2, SettleTyped
    <2>2. "waiting" \in Pc /\ recorded \in Nat /\ recorded <= recorded /\ UNCHANGED <<cleared, sealed>>
      BY <1>4, FlushFacts DEF Pc, clearVars
    <2>3. Ack("waiting", recorded, Unwritten, ring.buf)
      BY DEF Ack
    <2> QED  BY <1>1, <1>4, <2>1, <2>2, <2>3, CallMoves
  <1> QED  BY <1>2, <1>3, <1>4 DEF SettleAttempt

LEMMA InitRows == Init => RowsInv
  <1> SUFFICES ASSUME Init PROVE RowsInv
    OBVIOUS
  <1>1. ring \in Ring /\ ring.buf = <<>> /\ ring.head = 0 /\ ring.count = 0 /\ ring.dropped = 0
    BY DEF Init, Ring
  <1>2. Whole(ring) /\ Live(ring) = <<>>
    <2>1. Whole(ring)
      BY <1>1, LimitAssumption DEF Whole
    <2> QED  BY <1>1, <2>1, LiveRows
  <1>3. Unwritten = <<>> /\ InFlight = <<>> /\ recorded = 0 /\ disk = <<>> /\ written = 0 /\ cleared = 0
    BY DEF Init, Unwritten, InFlight
  <1>4. StoreTypes
    <2>1. batch \in [Calls -> Seq(Row)] /\ mark \in [Calls -> Nat] /\ \A c \in Calls : mark[c] = 0
      <3>1. <<>> \in Seq(Row)
        OBVIOUS
      <3> QED  BY <3>1 DEF Init
    <2>2. /\ sealed = FALSE /\ recorded = 0 /\ written = 0 /\ cleared = 0 /\ reported = 0
          /\ settle = [at |-> "running", attempt |-> 0] /\ disk = <<>>
      BY DEF Init
    <2>3. settle \in [at : SettleAt, attempt : Nat] /\ disk \in Seq(Row)
      BY <2>2 DEF SettleAt
    <2>4. \A c \in Calls : mark[c] <= recorded
      BY <2>1, <2>2
    <2> QED  BY <1>2, <2>1, <2>2, <2>3, <2>4 DEF StoreTypes
  <1>5. RowsAccounted
    BY <1>1, <1>3 DEF RowsAccounted
  <1>6. Line(disk, Unwritten, ring, recorded)
    BY <1>1, <1>2, <1>3, NoRows DEF Line
  <1>7. \A c \in Calls : Ack(pc[c], mark[c], Unwritten, ring.buf)
    BY DEF Init, Ack
  <1> QED  BY <1>4, <1>5, <1>6, <1>7 DEF RowsInv

LEMMA NextRows == SerialInv /\ SerialInv' /\ RowsInv /\ [Next]_vars => RowsInv'
  <1> SUFFICES ASSUME SerialInv, SerialInv', RowsInv, [Next]_vars PROVE RowsInv'
    OBVIOUS
  <1>1. ASSUME NEW c \in Flushers, FlushCall(c) \/ FlushReturns(c), UNCHANGED settleVars PROVE RowsInv'
    <2>1. c \in Calls /\ UNCHANGED <<sealed, reported, settle>>
      BY <1>1 DEF Calls, FlushCall, FlushReturns, settleVars
    <2> QED  BY <1>1, <2>1, CallStepsKeepRows, SettleTyped
  <1>2. ASSUME NEW c \in Calls, FlushStep(c) PROVE RowsInv'
    BY <1>2, DrainKeepsRows, ConnectKeepsRows, WriteKeepsRows, FlushEndsKeepsRows DEF FlushStep
  <1> QED
    BY <1>1, <1>2, RecordKeepsRows, ClearKeepsRows, RestKeepsRows, SettleKeepsRows
       DEF Next, ClearStep, SettleStep

LEMMA RowsInOrder ==
    ASSUME SerialInv, RowsInv
    PROVE  StoreInv /\ RowsKept
  <1>1. /\ StoreTypes /\ Whole(ring) /\ ring \in Ring /\ disk \in Seq(Row) /\ Unwritten \in Seq(Row)
        /\ Line(disk, Unwritten, ring, recorded) /\ mark \in [Calls -> Nat]
    BY FlushFacts
  <1>2. TypeOK
    <2>1. clearing \in [at : ClearAt, filter : Keys \cup {AllKeys}, mark : Nat]
      BY BoundAssumption DEF SerialInv, CallTypes
    <2> QED  BY <1>1, <2>1 DEF TypeOK, SerialInv, CallTypes, StoreTypes, Ring
  <1>3. RingShape
    BY <1>1 DEF Whole, RingShape
  <1>4. OrderKept
    <2>1. Line(disk \o Unwritten, <<>>, ring, recorded)
      BY <1>1, LineWrites
    <2>2. disk \o Unwritten \in Seq(Row) /\ Live(ring) \in Seq(Row) /\ From(Live(ring), ring.buf)
      BY <1>1, LiveRows
    <2>3. Line(disk \o Unwritten, Live(ring), Holding(ring, <<>>), recorded)
      BY <1>1, <2>1, <2>2, LineDrains
    <2>4. Ascending((disk \o Unwritten) \o Live(ring))
      BY <2>2, <2>3, LineWrites DEF Line
    <2> QED  BY <2>4 DEF OrderKept, Ascending
  <1>5. FlushedIsDurable
    <2> SUFFICES ASSUME NEW c \in Calls, pc[c] = "ok", NEW n \in Numbers(Unwritten) \cup Numbers(ring.buf)
                 PROVE  n > mark[c]
      BY DEF FlushedIsDurable
    <2>1. Beyond(Unwritten, mark[c]) /\ Beyond(ring.buf, mark[c])
      BY FlushFacts DEF Ack
    <2> QED  BY <2>1 DEF Beyond, Numbers
  <1> QED
    BY <1>2, <1>3, <1>4, <1>5 DEF StoreInv, RowsKept, SerialInv, RowsInv

(* Record, Flush, restore, Clear and flushLast: flushes are serialized, the *)
(* ring never exceeds its ceiling, and every row Record was given is pending, *)
(* in a batch, written, cleared or counted as dropped, whatever fails when. *)
THEOREM StoreInvHolds == Spec => []StoreInv
  <1>1. SerialInv /\ RowsInv => StoreInv
    BY RowsInOrder
  <1> QED  BY <1>1, InitSerial, NextSerial, InitRows, NextRows, PTL DEF Spec

(* A failed batch goes back in front of what arrived meanwhile, so disk,   *)
(* batch and ring hold the rows in the order they happened, each one once; *)
(* and once Flush has returned nil, no row recorded before the call is     *)
(* still in memory.                                                        *)
THEOREM RowsKeptHolds == Spec => []RowsKept
  <1>1. SerialInv /\ RowsInv => RowsKept
    BY RowsInOrder
  <1> QED  BY <1>1, InitSerial, NextSerial, InitRows, NextRows, PTL DEF Spec

-----------------------------------------------------------------------------
(* The funnel.                                                             *)

Candidate == [id : Int, state : States, score : Int, quality : Int,
              samples : Nat, attempts : Nat, expired : BOOLEAN,
              cost : [tokens : Int, duration : Int]]

(* cheaper is transitive and irreflexive.                                  *)
LEMMA CheaperIsStrict ==
    ASSUME NEW x \in Candidate, NEW y \in Candidate, NEW z \in Candidate
    PROVE  /\ ~Cheaper(x, x)
           /\ Cheaper(x, y) /\ Cheaper(y, z) => Cheaper(x, z)
  <1>1. /\ x.cost = [tokens |-> x.cost.tokens, duration |-> x.cost.duration]
        /\ y.cost = [tokens |-> y.cost.tokens, duration |-> y.cost.duration]
        /\ z.cost = [tokens |-> z.cost.tokens, duration |-> z.cost.duration]
        /\ x.cost.tokens \in Int /\ x.cost.duration \in Int
        /\ y.cost.tokens \in Int /\ y.cost.duration \in Int
        /\ z.cost.tokens \in Int /\ z.cost.duration \in Int
    BY DEF Candidate
  <1> QED  BY <1>1 DEF Cheaper

(* The number of dominators is a number.                                   *)
LEMMA DominatorsType ==
    ASSUME NEW over \in SUBSET Candidate, IsFiniteSet(over), NEW x \in Candidate
    PROVE  /\ Dominators(x, over) \in Nat
           /\ IsFiniteSet({y \in over : Cheaper(y, x)})
  <1>1. {y \in over : Cheaper(y, x)} \subseteq over
    OBVIOUS
  <1> QED  BY <1>1, FS_Subset, FS_CardinalityType DEF Dominators

(* dominationCounts: everything that dominates x also dominates whatever x *)
(* dominates, and x does too, so a candidate that beats another outright   *)
(* always has the smaller count and goes first by cost.                    *)
THEOREM DominatorGoesFirst ==
    ASSUME NEW over \in SUBSET Candidate, IsFiniteSet(over),
           NEW x \in over, NEW y \in over, Cheaper(x, y)
    PROVE  ByCost(x, y, over) < 0
  <1> DEFINE A == {w \in over : Cheaper(w, x)}
             B == {w \in over : Cheaper(w, y)}
  <1>1. x \in Candidate /\ y \in Candidate
    OBVIOUS
  <1>2. A \subseteq B
    BY <1>1, CheaperIsStrict
  <1>3. x \in B /\ x \notin A
    BY <1>1, CheaperIsStrict
  <1>4. IsFiniteSet(A) /\ IsFiniteSet(B)
    BY <1>1, DominatorsType
  <1>5. Cardinality(A) \in Nat /\ Cardinality(B) \in Nat
    BY <1>4, FS_CardinalityType
  <1>6. Cardinality(A) < Cardinality(B)
    <2>1. A # B
      BY <1>3
    <2> HIDE DEF A, B
    <2> QED  BY <1>2, <1>4, <1>5, <2>1, FS_Subset
  <1> QED  BY <1>5, <1>6 DEF ByCost, Dominators

-----------------------------------------------------------------------------
(* With no measurement owed and no quality known, the ranking compares     *)
(* health, score, dominators and id, one after the other.                  *)
LEMMA PlainCompare ==
    ASSUME NEW over \in SUBSET Candidate, IsFiniteSet(over),
           NEW measuring \in BOOLEAN, NEW x \in over, NEW y \in over,
           x.quality = 0,
           measuring => ~InBreakIn(x) /\ ~InBreakIn(y)
    PROVE  Compare(x, y, over, measuring) =
             IF x.state # y.state THEN Rank(x.state) - Rank(y.state)
             ELSE IF x.score # y.score THEN y.score - x.score
             ELSE IF Dominators(x, over) # Dominators(y, over)
                  THEN Dominators(x, over) - Dominators(y, over)
             ELSE x.id - y.id
  <1>1. /\ x.state \in States /\ y.state \in States
        /\ x.score \in Int /\ y.score \in Int /\ x.id \in Int /\ y.id \in Int
    BY DEF Candidate
  <1>2. Dominators(x, over) \in Nat /\ Dominators(y, over) \in Nat
    BY DominatorsType
  <1>3. /\ ByHealth(x, y, measuring) = Rank(x.state) - Rank(y.state)
        /\ ByQuality(x, y) = 0
        /\ ByTurn(x, y, measuring) = 0
    BY DEF ByHealth, SettlingRank, ByQuality, ByTurn, OwesMore
  <1>4. /\ x.state = y.state => Rank(x.state) - Rank(y.state) = 0
        /\ x.state # y.state => Rank(x.state) - Rank(y.state) # 0
    BY <1>1 DEF States, Rank
  <1>5. Compare(x, y, over, measuring) =
          Then(Rank(x.state) - Rank(y.state),
          Then(ByScore(x, y),
          Then(Dominators(x, over) - Dominators(y, over), x.id - y.id)))
    BY <1>3 DEF Compare, Then, ByCost
  <1>6. CASE x.state # y.state
    BY <1>4, <1>5, <1>6 DEF Then
  <1>7. CASE x.state = y.state /\ x.score # y.score
    <2>1. ByScore(x, y) = y.score - x.score /\ y.score - x.score # 0
      BY <1>1, <1>7 DEF ByScore
    <2>2. Rank(x.state) - Rank(y.state) = 0
      BY <1>4, <1>7
    <2> QED  BY <1>5, <1>7, <2>1, <2>2 DEF Then
  <1>8. CASE x.state = y.state /\ x.score = y.score
    <2>1. ByScore(x, y) = 0
      BY <1>1, <1>8 DEF ByScore
    <2>2. Rank(x.state) - Rank(y.state) = 0
      BY <1>4, <1>8
    <2>3. \A m, n \in Nat : m = n <=> m - n = 0
      OBVIOUS
    <2> QED  BY <1>2, <1>5, <1>8, <2>1, <2>2, <2>3 DEF Then
  <1> QED  BY <1>6, <1>7, <1>8

(* rankWith: while no measurement is owed and no quality is known, the     *)
(* comparator separates any two candidates of different ids, one way only, *)
(* and is transitive, as slices.SortFunc requires of it.                   *)
THEOREM PlainRankingIsAnOrder ==
    ASSUME NEW over \in SUBSET Candidate, IsFiniteSet(over),
           NEW measuring \in BOOLEAN,
           \A v \in over : v.quality = 0 /\ (measuring => ~InBreakIn(v)),
           NEW x \in over, NEW y \in over, NEW z \in over
    PROVE  /\ x.id # y.id => \/ Compare(x, y, over, measuring) < 0
                             \/ Compare(y, x, over, measuring) < 0
           /\ Compare(x, y, over, measuring) < 0 => Compare(y, x, over, measuring) > 0
           /\ Compare(x, y, over, measuring) < 0 /\ Compare(y, z, over, measuring) < 0
                => Compare(x, z, over, measuring) < 0
  <1>1. /\ x.state \in States /\ y.state \in States /\ z.state \in States
        /\ x.score \in Int /\ y.score \in Int /\ z.score \in Int
        /\ x.id \in Int /\ y.id \in Int /\ z.id \in Int
    BY DEF Candidate
  <1>2. /\ Dominators(x, over) \in Nat /\ Dominators(y, over) \in Nat
        /\ Dominators(z, over) \in Nat
    BY DominatorsType
  <1>3. \A v, w \in States : /\ Rank(v) \in 0 .. 3
                             /\ Rank(v) = Rank(w) => v = w
    BY DEF States, Rank
  <1> DEFINE C(v, w) ==
        IF v.state # w.state THEN Rank(v.state) - Rank(w.state)
        ELSE IF v.score # w.score THEN w.score - v.score
        ELSE IF Dominators(v, over) # Dominators(w, over)
             THEN Dominators(v, over) - Dominators(w, over)
        ELSE v.id - w.id
  <1>4. /\ Compare(x, y, over, measuring) = C(x, y)
        /\ Compare(y, x, over, measuring) = C(y, x)
        /\ Compare(y, z, over, measuring) = C(y, z)
        /\ Compare(x, z, over, measuring) = C(x, z)
    BY PlainCompare
  <1>5. /\ x.id # y.id => C(x, y) < 0 \/ C(y, x) < 0
        /\ C(x, y) < 0 => C(y, x) > 0
        /\ C(x, y) < 0 /\ C(y, z) < 0 => C(x, z) < 0
    BY <1>1, <1>2, <1>3
  <1> HIDE DEF C
  <1> QED  BY <1>4, <1>5

(* A set in which every id is there once.                                 *)
OneEach(cands) == \A x, y \in cands : x.id = y.id => x = y

(* The last of some candidates, by their ids.                             *)
LEMMA LastIs ==
    ASSUME NEW over, IsFiniteSet(over), \A x \in over : x.id \in Int,
           NEW t \in SUBSET over, t # {}
    PROVE  LastById(t) \in t /\ \A y \in t : y.id <= LastById(t).id
  <1> DEFINE Has(s) == \E x \in s : \A y \in s : y.id <= x.id
  <1>1. PICK Bad : Bad = {s \in SUBSET over : s # {} /\ ~Has(s)}
    OBVIOUS
  <1>2. ASSUME Bad # {} PROVE FALSE
    <2>1. PICK s \in Bad : \A u \in Bad : u \subseteq s => u = s
      <3>1. \A s \in Bad : s \subseteq over
        BY <1>1
      <3> QED  BY <1>2, <3>1, SmallestSet
    <2>2. s \in SUBSET over /\ s # {} /\ ~Has(s)
      BY <1>1
    <2>3. PICK x \in s : TRUE
      BY <2>2
    <2>4. PICK r : r = s \ {x}
      OBVIOUS
    <2>5. r \notin Bad /\ r \subseteq over
      BY <2>1, <2>2, <2>4
    <2>6. CASE r = {}
      BY <2>2, <2>3, <2>4, <2>6
    <2>7. CASE r # {}
      <3>1. PICK m \in r : \A y \in r : y.id <= m.id
        BY <1>1, <2>5, <2>7
      <3>2. m \in s /\ x \in s /\ m.id \in Int /\ x.id \in Int
        BY <2>2, <2>4, <3>1
      <3>3. CASE x.id <= m.id
        <4>1. \A y \in s : y.id <= m.id
          BY <2>4, <3>1, <3>3
        <4> QED  BY <2>2, <3>2, <4>1
      <3>4. CASE m.id <= x.id
        <4>1. ASSUME NEW y \in s PROVE y.id <= x.id
          <5>1. y.id \in Int /\ (y = x \/ y.id <= m.id)
            BY <2>2, <2>4, <3>1
          <5> QED  BY <3>2, <3>4, <5>1
        <4> QED  BY <2>2, <3>2, <4>1
      <3> QED  BY <3>2, <3>3, <3>4
    <2> QED  BY <2>6, <2>7
  <1>3. Has(t)
    BY <1>1, <1>2
  <1> QED  BY <1>3 DEF LastById

(* One more in its place: what was there stays, and the first of all is    *)
(* the new one if it goes before everything, and the old first otherwise.  *)
Placed(q, x, s, t, over, measuring) ==
    /\ q \in Seq(t \cup {x})
    /\ \A j \in 1 .. Len(s) : \E k \in 1 .. Len(q) : q[k] = s[j]
    /\ \E k \in 1 .. Len(q) : q[k] = x
    /\ q # <<>>
    /\ \/ q[1] = x /\ \A j \in 1 .. Len(s) : ~(Compare(x, s[j], over, measuring) >= 0)
       \/ s # <<>> /\ q[1] = s[1] /\ \E j \in 1 .. Len(s) : Compare(x, s[j], over, measuring) >= 0

LEMMA InsertedIs ==
    ASSUME NEW over, NEW measuring, NEW t, NEW s \in Seq(t), NEW x, NEW q, q = Inserted(x, s, over, measuring)
    PROVE  Placed(q, x, s, t, over, measuring)
  <1>1. PICK n \in Nat : n = Len(s)
    OBVIOUS
  <1>2. PICK stays : stays = {j \in 1 .. n : Compare(x, s[j], over, measuring) >= 0}
    OBVIOUS
  <1>3. PICK m \in 0 .. n : m = Max(stays \cup {0}) /\ (m = 0 => stays = {}) /\ (m # 0 => m \in stays)
    <2>1. PICK B : B = {b \in Nat : \A j \in stays : j <= b}
      OBVIOUS
    <2>2. n \in B
      BY <1>2, <2>1
    <2>3. PICK b \in B : \A c \in B : b <= c
      BY <2>1, <2>2, FirstNumber
    <2>4. b \in Nat /\ \A j \in stays \cup {0} : j <= b
      BY <2>1
    <2>5. b \in stays \cup {0}
      <3>1. SUFFICES ASSUME b \notin stays, b # 0 PROVE FALSE
        OBVIOUS
      <3>2. b - 1 \in Nat /\ \A j \in stays : j <= b - 1
        BY <1>2, <2>4, <3>1
      <3>3. b - 1 \in B
        BY <2>1, <3>2
      <3> QED  BY <2>3, <2>4, <3>3
    <2>6. \A y \in stays \cup {0} : b >= y
      BY <1>2, <2>4
    <2>7. Max(stays \cup {0}) \in stays \cup {0} /\ \A y \in stays \cup {0} : Max(stays \cup {0}) >= y
      BY <2>5, <2>6 DEF Max
    <2>8. PICK z : z = Max(stays \cup {0})
      OBVIOUS
    <2>9. z \in 0 .. n /\ (z = 0 => stays = {}) /\ (z # 0 => z \in stays)
      BY <1>2, <2>7, <2>8
    <2> QED  BY <2>8, <2>9
  <1>11. n = Len(s) /\ n \in Nat /\ m \in Nat /\ m <= n
    BY <1>1, <1>3
  <1>4. DOMAIN s = 1 .. n
    BY <1>1
  <1>5. q = SubSeq(s, 1, m) \o <<x>> \o SubSeq(s, m + 1, n)
    <2>1. stays = {j \in DOMAIN s : Compare(x, s[j], over, measuring) >= 0}
      BY <1>2, <1>4
    <2>2. q = InsertAt(s, Max(stays \cup {0}) + 1, x)
      BY <2>1 DEF Inserted
    <2>3. q = InsertAt(s, m + 1, x)
      BY <1>1, <1>3, <2>2
    <2>4. PICK k : k = m + 1
      OBVIOUS
    <2>5. q = SubSeq(s, 1, k - 1) \o <<x>> \o SubSeq(s, k, Len(s))
      BY <2>3, <2>4 DEF InsertAt
    <2>6. k - 1 = m
      BY <1>11, <2>4
    <2> QED  BY <1>1, <2>4, <2>5, <2>6
  <1>6. /\ q \in Seq(t \cup {x}) /\ Len(q) = n + 1
        /\ \A k \in 1 .. m : q[k] = s[k]
        /\ q[m + 1] = x
        /\ \A k \in m + 2 .. n + 1 : q[k] = s[k - 1]
    <2>1. PICK a : a = SubSeq(s, 1, m)
      OBVIOUS
    <2>2. PICK b : b = SubSeq(s, m + 1, n)
      OBVIOUS
    <2>3. a \in Seq(t \cup {x}) /\ Len(a) = m /\ \A k \in 1 .. m : a[k] = s[k]
      <3>1. \A i \in 1 .. m : s[i] \in t \cup {x}
        BY <1>11
      <3>2. /\ a \in Seq(t \cup {x}) /\ Len(a) = (IF 1 <= m THEN m - 1 + 1 ELSE 0)
            /\ \A i \in 1 .. m - 1 + 1 : a[i] = s[1 + i - 1]
        BY <1>11, <2>1, <3>1, SubSeqProperties
      <3>3. m - 1 + 1 = m /\ (1 <= m \/ m = 0) /\ \A i \in 1 .. m : 1 + i - 1 = i
        BY <1>11
      <3> QED  BY <3>2, <3>3
    <2>4. b \in Seq(t \cup {x}) /\ Len(b) = n - m /\ \A k \in 1 .. n - m : b[k] = s[k + m]
      <3>1. \A i \in m + 1 .. n : s[i] \in t \cup {x}
        BY <1>11
      <3>2. /\ b \in Seq(t \cup {x}) /\ Len(b) = (IF m + 1 <= n THEN n - (m + 1) + 1 ELSE 0)
            /\ \A i \in 1 .. n - (m + 1) + 1 : b[i] = s[m + 1 + i - 1]
        BY <1>11, <2>2, <3>1, SubSeqProperties
      <3>3. n - (m + 1) + 1 = n - m /\ (m + 1 <= n \/ n - m = 0) /\ \A i \in 1 .. n - m : m + 1 + i - 1 = i + m
        BY <1>11
      <3> QED  BY <3>2, <3>3
    <2>5. q = a \o <<x>> \o b
      BY <1>5, <2>1, <2>2
    <2>6. PICK d : d = a \o <<x>>
      OBVIOUS
    <2>7. d \in Seq(t \cup {x}) /\ Len(d) = m + 1 /\ d[m + 1] = x /\ \A k \in 1 .. m : d[k] = s[k]
      <3>1. PICK e : e = <<x>>
        OBVIOUS
      <3>2. e \in Seq(t \cup {x}) /\ Len(e) = 1 /\ e[1] = x
        BY <3>1
      <3>3. /\ d \in Seq(t \cup {x}) /\ Len(d) = m + 1
            /\ \A i \in 1 .. m + 1 : d[i] = IF i <= m THEN a[i] ELSE e[i - m]
        BY <2>3, <2>6, <3>1, <3>2, ConcatProperties
      <3>4. m + 1 - m = 1 /\ m + 1 \in 1 .. m + 1 /\ ~(m + 1 <= m) /\ \A i \in 1 .. m : i \in 1 .. m + 1 /\ i <= m
        BY <1>11
      <3> QED  BY <2>3, <3>2, <3>3, <3>4
    <2>8. /\ q \in Seq(t \cup {x}) /\ Len(q) = m + 1 + (n - m)
          /\ \A i \in 1 .. m + 1 + (n - m) : q[i] = IF i <= m + 1 THEN d[i] ELSE b[i - (m + 1)]
      <3>1. q = d \o b
        BY <2>5, <2>6
      <3>2. /\ q \in Seq(t \cup {x}) /\ Len(q) = Len(d) + Len(b)
            /\ \A i \in 1 .. Len(d) + Len(b) : q[i] = IF i <= Len(d) THEN d[i] ELSE b[i - Len(d)]
        <4>1. d \in Seq(t \cup {x}) /\ b \in Seq(t \cup {x})
          BY <2>4, <2>7
        <4> QED  BY <3>1, <4>1, ConcatProperties
      <3> QED  BY <2>4, <2>7, <3>2
    <2>9. m + 1 + (n - m) = n + 1
      BY <1>11
    <2>10. \A k \in 1 .. m + 1 : k \in 1 .. n + 1 /\ k <= m + 1
      BY <1>11
    <2>11. m + 1 \in 1 .. m + 1 /\ 1 .. m \subseteq 1 .. m + 1
      BY <1>11
    <2>12. ASSUME NEW k \in m + 2 .. n + 1 PROVE q[k] = s[k - 1]
      <3>1. k \in 1 .. n + 1 /\ ~(k <= m + 1) /\ k - (m + 1) \in 1 .. n - m /\ k - (m + 1) + m = k - 1
        BY <1>11
      <3>2. q[k] = b[k - (m + 1)]
        BY <2>8, <2>9, <3>1
      <3> QED  BY <2>4, <3>1, <3>2
    <2>13. \A k \in 1 .. m + 1 : q[k] = d[k]
      BY <2>8, <2>9, <2>10
    <2> QED  BY <2>7, <2>8, <2>9, <2>11, <2>12, <2>13
  <1>7. ASSUME NEW j \in 1 .. n PROVE \E k \in 1 .. n + 1 : q[k] = s[j]
    <2>1. CASE j <= m
      BY <1>11, <1>6, <2>1
    <2>2. CASE j > m
      <3>1. PICK k : k = j + 1
        OBVIOUS
      <3>2. k \in m + 2 .. n + 1 /\ k - 1 = j /\ k \in 1 .. n + 1
        BY <1>11, <2>2, <3>1
      <3>3. q[k] = s[k - 1]
        BY <1>6, <3>2
      <3> QED  BY <3>2, <3>3
    <2> QED  BY <1>11, <2>1, <2>2
  <1>8. m + 1 \in 1 .. n + 1
    BY <1>11
  <1>9. CASE m = 0
    BY <1>1, <1>2, <1>3, <1>6, <1>7, <1>8, <1>9 DEF Placed
  <1>10. CASE m # 0
    <2>1. m \in 1 .. n /\ 1 \in 1 .. m /\ Compare(x, s[m], over, measuring) >= 0
      BY <1>2, <1>3, <1>10
    <2>2. q[1] = s[1] /\ s # <<>>
      BY <1>1, <1>6, <2>1
    <2> QED  BY <1>1, <1>6, <1>7, <1>8, <2>1, <2>2, SMTT(60) DEF Placed
  <1> QED  BY <1>9, <1>10

(* What the fold of slices.SortFunc goes through.                          *)
Sorting(h, s, over, measuring) ==
    h = [t \in SUBSET s |-> IF t = {} THEN <<>>
                            ELSE Inserted(LastById(t), h[t \ {LastById(t)}], over, measuring)]

LEMMA SortingExists ==
    ASSUME NEW over, IsFiniteSet(over), \A x \in over : x.id \in Int, OneEach(over), NEW measuring
    PROVE  \E h : Sorting(h, over, over, measuring)
  <1>1. PICK Bad : Bad = {s \in SUBSET over : ~\E h : Sorting(h, s, over, measuring)}
    OBVIOUS
  <1>2. ASSUME Bad # {} PROVE FALSE
    <2>1. PICK s \in Bad : \A u \in Bad : u \subseteq s => u = s
      <3>1. \A s \in Bad : s \subseteq over
        BY <1>1
      <3> QED  BY <1>2, <3>1, SmallestSet
    <2>2. s \in SUBSET over /\ ~\E h : Sorting(h, s, over, measuring)
      BY <1>1
    <2>3. CASE s = {}
      <3>1. PICK h : h = [t \in SUBSET s |-> <<>>]
        OBVIOUS
      <3>2. h = [t \in SUBSET s |-> IF t = {} THEN <<>>
                            ELSE Inserted(LastById(t), h[t \ {LastById(t)}], over, measuring)]
        BY <2>3, <3>1
      <3> QED  BY <2>2, <3>2 DEF Sorting
    <2>4. CASE s # {}
      <3>1. PICK x : x = LastById(s)
        OBVIOUS
      <3>2. x \in s /\ \A y \in s : y.id <= x.id
        BY <2>2, <2>4, <3>1, LastIs
      <3>3. PICK r : r = s \ {x}
        OBVIOUS
      <3>4. r \notin Bad /\ r \subseteq over
        BY <2>1, <2>2, <3>2, <3>3
      <3>5. PICK g : Sorting(g, r, over, measuring)
        BY <1>1, <3>4
      <3> DEFINE In(z, q) == Inserted(z, q, over, measuring)
      <3>6. /\ g[{}] = <<>>
            /\ \A t \in SUBSET r : t # {} => g[t] = In(LastById(t), g[t \ {LastById(t)}])
        BY <3>5 DEF Sorting
      <3> DEFINE Put(t) == IF t = {} THEN <<>> ELSE IF x \in t THEN In(x, g[t \ {x}]) ELSE g[t]
      <3>7. PICK h : h = [t \in SUBSET s |-> Put(t)]
        OBVIOUS
      <3>8. ASSUME NEW t \in SUBSET s, t # {} PROVE Put(t) = In(LastById(t), h[t \ {LastById(t)}])
        <4>1. PICK l : l = LastById(t)
          OBVIOUS
        <4>2. l \in t /\ \A y \in t : y.id <= l.id
          BY <2>2, <3>8, <4>1, LastIs
        <4>3. PICK u : u = t \ {l}
          OBVIOUS
        <4>4. u \in SUBSET s /\ h[u] = Put(u)
          BY <3>7, <4>3
        <4>5. CASE x \in t
          <5>1. l.id \in Int /\ x.id \in Int /\ l.id <= x.id /\ x.id <= l.id
            BY <2>2, <3>2, <4>2, <4>5
          <5>2. l.id = x.id
            BY <5>1
          <5>3. l = x
            BY <2>2, <3>2, <4>2, <5>2 DEF OneEach
          <5>4. Put(u) = g[u]
            BY <3>6, <4>3, <5>3
          <5>5. Put(t) = In(x, g[t \ {x}])
            BY <3>8, <4>5
          <5> QED  BY <4>1, <4>3, <4>4, <5>3, <5>4, <5>5
        <4>6. CASE x \notin t
          <5>1. t \in SUBSET r
            BY <3>3, <4>6
          <5>2. Put(u) = g[u]
            BY <3>6, <4>3, <4>6
          <5>3. Put(t) = In(l, g[u])
            BY <3>6, <3>8, <4>1, <4>3, <4>6, <5>1
          <5> QED  BY <4>1, <4>3, <4>4, <5>2, <5>3
        <4> QED  BY <4>5, <4>6
      <3>9. ASSUME NEW t \in SUBSET s PROVE Put(t) = IF t = {} THEN <<>> ELSE In(LastById(t), h[t \ {LastById(t)}])
        <4>1. CASE t = {}
          BY <4>1
        <4>2. CASE t # {}
          <5> HIDE DEF Put, In
          <5> QED  BY <3>8, <4>2
        <4> QED  BY <4>1, <4>2
      <3>10. h = [t \in SUBSET s |-> IF t = {} THEN <<>> ELSE In(LastById(t), h[t \ {LastById(t)}])]
        <4> HIDE DEF Put, In
        <4> QED  BY <3>7, <3>9
      <3> QED  BY <2>2, <3>10 DEF Sorting
    <2> QED  BY <2>3, <2>4
  <1> QED  BY <1>1, <1>2

(* Nothing that the ranking would rather not look at: no measurement owed, *)
(* no quality known.                                                       *)
Plain(over, measuring) ==
    \A x \in over : x.quality = 0 /\ (measuring => ~InBreakIn(x))

LEMMA PlainOrder ==
    ASSUME NEW over \in SUBSET Candidate, IsFiniteSet(over), OneEach(over), NEW measuring \in BOOLEAN, Plain(over, measuring),
           NEW x \in over, NEW y \in over, NEW z \in over
    PROVE  /\ x # y /\ ~(Compare(x, y, over, measuring) >= 0) => Compare(x, y, over, measuring) < 0
           /\ x # y /\ Compare(x, y, over, measuring) >= 0 => Compare(y, x, over, measuring) < 0
           /\ Compare(x, y, over, measuring) < 0 /\ Compare(y, z, over, measuring) < 0 => Compare(x, z, over, measuring) < 0
  <1>1. x.id # y.id \/ x = y
    BY DEF OneEach
  <1>2. /\ x.quality = 0 /\ y.quality = 0 /\ z.quality = 0
        /\ measuring => ~InBreakIn(x) /\ ~InBreakIn(y) /\ ~InBreakIn(z)
    BY DEF Plain
  <1>3. \A v \in over : v.quality = 0 /\ (measuring => ~InBreakIn(v))
    BY DEF Plain
  <1>5. /\ x.id # y.id => Compare(x, y, over, measuring) < 0 \/ Compare(y, x, over, measuring) < 0
        /\ Compare(x, y, over, measuring) < 0 => Compare(y, x, over, measuring) > 0
        /\ Compare(x, y, over, measuring) < 0 /\ Compare(y, z, over, measuring) < 0 => Compare(x, z, over, measuring) < 0
    BY <1>3, PlainRankingIsAnOrder
  <1>4. Compare(x, y, over, measuring) \in Int
    <2>1. /\ x.state \in States /\ y.state \in States /\ x.score \in Int /\ y.score \in Int /\ x.id \in Int /\ y.id \in Int
      BY DEF Candidate
    <2>2. Dominators(x, over) \in Nat /\ Dominators(y, over) \in Nat
      BY DominatorsType
    <2>3. Rank(x.state) \in Int /\ Rank(y.state) \in Int
      BY <2>1 DEF States, Rank
    <2> QED  BY <1>2, <2>1, <2>2, <2>3, PlainCompare
  <1> QED  BY <1>1, <1>4, <1>5

LEMMA SortedIs ==
    ASSUME NEW over \in SUBSET Candidate, IsFiniteSet(over), OneEach(over), over # {}, NEW measuring \in BOOLEAN,
           NEW first, first = Sorted(over, measuring)[1]
    PROVE  /\ first \in over
           /\ Plain(over, measuring) => \A x \in over : x = first \/ Compare(first, x, over, measuring) < 0
  <1>1. \A x \in over : x.id \in Int
    BY DEF Candidate
  <1>2. Sorted(over, measuring) = (CHOOSE g : Sorting(g, over, over, measuring))[over]
    BY DEF Sorted, MapThenFoldSet, Sorting
  <1>3. PICK g : Sorted(over, measuring) = g[over] /\ Sorting(g, over, over, measuring)
    BY <1>1, <1>2, SortingExists
  <1> DEFINE Good(t) == /\ g[t] \in Seq(t)
                        /\ \A x \in t : \E k \in 1 .. Len(g[t]) : g[t][k] = x
                        /\ t # {} => g[t] # <<>>
                        /\ Plain(over, measuring) => \A x \in t : x = g[t][1] \/ Compare(g[t][1], x, over, measuring) < 0
  <1>4. PICK Bad : Bad = {t \in SUBSET over : ~Good(t)}
    OBVIOUS
  <1>5. ASSUME Bad # {} PROVE FALSE
    <2>1. PICK t \in Bad : \A u \in Bad : u \subseteq t => u = t
      <3>1. \A s \in Bad : s \subseteq over
        BY <1>4
      <3> QED  BY <1>5, <3>1, SmallestSet
    <2>2. t \in SUBSET over /\ ~Good(t)
      BY <1>4
    <2>3. g[{}] = <<>>
      BY <1>3 DEF Sorting
    <2>4. CASE t = {}
      <3>1. g[t] = <<>> /\ <<>> \in Seq(t)
        BY <2>3, <2>4
      <3>2. Good(t)
        BY <2>4, <3>1
      <3> QED  BY <2>2, <3>2
    <2>5. CASE t # {}
      <3>1. PICK x : x = LastById(t)
        OBVIOUS
      <3>2. x \in t
        BY <1>1, <2>2, <2>5, <3>1, LastIs
      <3>3. PICK r : r = t \ {x}
        OBVIOUS
      <3>4. r \notin Bad /\ r \in SUBSET over /\ t = r \cup {x} /\ x \notin r
        BY <2>1, <2>2, <3>2, <3>3
      <3>5. Good(r)
        BY <1>4, <3>4
      <3>6. PICK s : s = g[r]
        OBVIOUS
      <3>7. PICK q : q = g[t]
        OBVIOUS
      <3>8. q = Inserted(x, s, over, measuring)
        BY <1>3, <2>2, <2>5, <3>1, <3>3, <3>6, <3>7 DEF Sorting
      <3>9. s \in Seq(r) /\ \A y \in r : \E k \in 1 .. Len(s) : s[k] = y
        BY <3>5, <3>6
      <3>10. /\ q \in Seq(r \cup {x})
             /\ \A j \in 1 .. Len(s) : \E k \in 1 .. Len(q) : q[k] = s[j]
             /\ \E k \in 1 .. Len(q) : q[k] = x
             /\ q # <<>>
             /\ \/ q[1] = x /\ \A j \in 1 .. Len(s) : ~(Compare(x, s[j], over, measuring) >= 0)
                \/ s # <<>> /\ q[1] = s[1] /\ \E j \in 1 .. Len(s) : Compare(x, s[j], over, measuring) >= 0
        <4>1. s \in Seq(r)
          BY <3>9
        <4>2. Placed(q, x, s, r, over, measuring)
          BY <3>8, <4>1, InsertedIs
        <4> QED  BY <4>2 DEF Placed
      <3>11. \A y \in t : \E k \in 1 .. Len(q) : q[k] = y
        BY <3>4, <3>9, <3>10, ZenonT(60)
      <3>12. ASSUME Plain(over, measuring), NEW y \in t PROVE y = q[1] \/ Compare(q[1], y, over, measuring) < 0
        <4>1. \A z \in r : z = s[1] \/ Compare(s[1], z, over, measuring) < 0
          BY <3>5, <3>6, <3>12
        <4>2. CASE q[1] = x /\ \A j \in 1 .. Len(s) : ~(Compare(x, s[j], over, measuring) >= 0)
          <5>1. CASE y = x
            BY <4>2, <5>1
          <5>2. CASE y \in r
            <6>1. ~(Compare(x, y, over, measuring) >= 0) /\ x # y /\ x \in over /\ y \in over
              BY <2>2, <3>2, <3>4, <3>9, <4>2, <5>2
            <6>2. Compare(x, y, over, measuring) < 0
              BY <3>12, <6>1, PlainOrder
            <6> QED  BY <4>2, <6>2
          <5> QED  BY <3>4, <5>1, <5>2
        <4>3. CASE s # <<>> /\ q[1] = s[1] /\ \E j \in 1 .. Len(s) : Compare(x, s[j], over, measuring) >= 0
          <5>1. CASE y \in r
            BY <4>1, <4>3, <5>1
          <5>2. CASE y = x
            <6>1. PICK j \in 1 .. Len(s) : Compare(x, s[j], over, measuring) >= 0
              BY <4>3
            <6>2. PICK z : z = s[j]
              OBVIOUS
            <6>3. PICK f : f = s[1]
              OBVIOUS
            <6>4. z \in r /\ f \in r
              BY <3>9, <4>3, <6>1, <6>2, <6>3, SMTT(60)
            <6>5. z \in over /\ f \in over /\ x \in over /\ x # z
              BY <2>2, <3>2, <3>4, <6>4
            <6>6. Compare(z, x, over, measuring) < 0
              BY <3>12, <6>1, <6>2, <6>5, PlainOrder
            <6>7. z = f \/ Compare(f, z, over, measuring) < 0
              BY <4>1, <6>3, <6>4
            <6>8. Compare(f, x, over, measuring) < 0
              BY <3>12, <6>5, <6>6, <6>7, PlainOrder
            <6> QED  BY <4>3, <5>2, <6>3, <6>8
          <5> QED  BY <3>4, <5>1, <5>2
        <4> QED  BY <3>10, <4>2, <4>3
      <3> QED  BY <2>2, <3>4, <3>7, <3>10, <3>11, <3>12, ZenonT(60)
    <2> QED  BY <2>4, <2>5
  <1>6. Good(over)
    BY <1>4, <1>5
  <1>7. g[over] # <<>> /\ g[over] \in Seq(over)
    BY <1>6
  <1>8. g[over][1] \in over
    BY <1>7
  <1> QED  BY <1>3, <1>6, <1>8

-----------------------------------------------------------------------------
(* The ladder.                                                             *)

(* Rows that count each attempt once or not at all, and no two the same.   *)
Single(rows) ==
    /\ IsFiniteSet(rows)
    /\ \A x \in rows : x.attempts \in [Ids -> {0, 1}]
    /\ \A i \in Ids : \A x, y \in rows : x.attempts[i] = 1 /\ y.attempts[i] = 1 => x = y
Counting(rows, i) == \E x \in rows : x.attempts[i] = 1

(* What they count under a key was counted, or written, under that key.    *)
CountsOf(rows, parts) ==
    \A x \in rows : \A i \in Ids : x.attempts[i] = 1 => \E y \in parts : y.attempts[i] = 1 /\ y.key = x.key
Keyed(rows, w) == \A x \in rows : \A i \in Ids : x.attempts[i] = 1 => \E v \in w : v.id = i /\ v.key = x.key

(* One row per bucket and key.                                            *)
Distinct(rows) == \A x, y \in rows : Same(x, y) => x = y

(* The sum of one count over such rows is 1 where one of them has it.      *)
LEMMA SumOfSingle ==
    ASSUME NEW rows, Single(rows), NEW i \in Ids
    PROVE  MapThenSumSet(LAMBDA x : x.attempts[i], rows) = IF Counting(rows, i) THEN 1 ELSE 0
  <1> DEFINE One(s) == CHOOSE x \in s : TRUE
             It(g) == [s \in SUBSET rows |-> IF s = {} THEN 0 ELSE One(s).attempts[i] + g[s \ {One(s)}]]
             Is(s) == IF Counting(s, i) THEN 1 ELSE 0
  <1>1. MapThenSumSet(LAMBDA x : x.attempts[i], rows) = (CHOOSE g : g = It(g))[rows]
    BY DEF MapThenSumSet, MapThenFoldSet
  <1>2. ASSUME NEW s \in SUBSET rows, s # {} PROVE One(s) \in s /\ Is(s) = One(s).attempts[i] + Is(s \ {One(s)})
    <2>1. One(s) \in s
      BY <1>2
    <2>2. PICK x : x = One(s)
      OBVIOUS
    <2>3. x.attempts[i] \in {0, 1} /\ \A y \in s : y.attempts[i] \in {0, 1}
      BY <2>1, <2>2 DEF Single
    <2>4. CASE x.attempts[i] = 1
      <3>1. Counting(s, i) /\ ~Counting(s \ {x}, i)
        BY <2>1, <2>2, <2>4 DEF Single, Counting
      <3> QED  BY <2>1, <2>2, <2>4, <3>1
    <2>5. CASE x.attempts[i] = 0
      <3>1. Counting(s, i) <=> Counting(s \ {x}, i)
        <4>1. \A y \in s : y.attempts[i] = 1 => y \in s \ {x}
          BY <2>5
        <4> QED  BY <4>1 DEF Counting
      <3> QED  BY <2>1, <2>2, <2>5, <3>1
    <2> QED  BY <2>3, <2>4, <2>5
  <1>3. PICK k : k = [s \in SUBSET rows |-> Is(s)]
    OBVIOUS
  <1>4. k = It(k)
    <2>1. ASSUME NEW s \in SUBSET rows PROVE Is(s) = IF s = {} THEN 0 ELSE One(s).attempts[i] + k[s \ {One(s)}]
      <3>1. CASE s = {}
        BY <3>1 DEF Counting
      <3>2. CASE s # {}
        <4>1. Is(s) = One(s).attempts[i] + Is(s \ {One(s)})
          BY <1>2, <3>2
        <4>2. k[s \ {One(s)}] = Is(s \ {One(s)})
          BY <1>3
        <4> QED  BY <3>2, <4>1, <4>2
      <3> QED  BY <3>1, <3>2
    <2> HIDE DEF Is, One
    <2> QED  BY <1>3, <2>1
  <1>5. PICK g : g = CHOOSE q : q = It(q)
    OBVIOUS
  <1>6. g = It(g)
    <2> HIDE DEF It
    <2> QED  BY <1>4, <1>5
  <1>7. \A s \in SUBSET rows : g[s] = IF s = {} THEN 0 ELSE One(s).attempts[i] + g[s \ {One(s)}]
    BY <1>6
  <1> HIDE DEF It, One
  <1>8. \A s \in SUBSET rows : g[s] = Is(s)
    <2> DEFINE Bad == {s \in SUBSET rows : g[s] # Is(s)}
    <2> SUFFICES ASSUME Bad # {} PROVE FALSE
      OBVIOUS
    <2>0. \A s \in Bad : s \subseteq rows
      OBVIOUS
    <2>1. PICK s \in Bad : \A t \in Bad : t \subseteq s => t = s
      <3> HIDE DEF Bad
      <3> QED  BY <2>0, SmallestSet DEF Single
    <2>2. s # {}
      BY <1>7, <2>1 DEF Counting
    <2>3. PICK x : x = One(s)
      OBVIOUS
    <2>4. x \in s /\ Is(s) = x.attempts[i] + Is(s \ {x}) /\ g[s] = x.attempts[i] + g[s \ {x}]
      BY <1>2, <1>7, <2>1, <2>2, <2>3
    <2>5. g[s \ {x}] = Is(s \ {x})
      BY <2>1, <2>4
    <2> QED  BY <2>1, <2>4, <2>5
  <1> QED  BY <1>1, <1>5, <1>8

(* Folded into one row, they are counted there.                            *)
LEMMA FoldIs ==
    ASSUME NEW rows, Single(rows), NEW g, NEW b, NEW k, NEW z, z = Fold(g, b, k, rows)
    PROVE  /\ z.grain = g /\ z.bucket = b /\ z.key = k
           /\ z.attempts \in [Ids -> {0, 1}]
           /\ \A i \in Ids : z.attempts[i] = 1 <=> Counting(rows, i)
  <1>1. z.attempts = [i \in Ids |-> MapThenSumSet(LAMBDA x : x.attempts[i], rows)]
    BY DEF Fold
  <1>2. ASSUME NEW i \in Ids PROVE z.attempts[i] = IF Counting(rows, i) THEN 1 ELSE 0
    BY <1>1, SumOfSingle
  <1>3. z.grain = g /\ z.bucket = b /\ z.key = k
    BY DEF Fold
  <1>4. DOMAIN z.attempts = Ids /\ z.attempts = [i \in Ids |-> z.attempts[i]]
    BY <1>1
  <1>5. \A i \in Ids : z.attempts[i] \in {0, 1}
    BY <1>2
  <1> QED  BY <1>2, <1>3, <1>4, <1>5

(* GROUP BY moves every count into the row of its bucket and key.          *)
LEMMA GroupedIs ==
    ASSUME NEW parts, Single(parts), NEW grain, NEW G, G = Grouped(grain, parts)
    PROVE  /\ Single(G)
           /\ \A x \in G : x.grain = grain
           /\ Distinct(G)
           /\ \A i \in Ids : Counting(G, i) <=> Counting(parts, i)
           /\ CountsOf(G, parts)
  <1> DEFINE place(x) == <<Trunc(grain, x.bucket), x.key>>
             of(q) == {x \in parts : place(x) = q}
             row(q) == Fold(grain, q[1], q[2], of(q))
             places == {place(x) : x \in parts}
  <1>1. G = {row(q) : q \in places}
    BY DEF Grouped
  <1>2. \A q \in places : Single(of(q))
    <2> TAKE q \in places
    <2>1. of(q) \subseteq parts
      OBVIOUS
    <2> HIDE DEF of
    <2>2. IsFiniteSet(of(q))
      BY <2>1, FS_Subset DEF Single
    <2> QED  BY <2>1, <2>2 DEF Single
  <1>3. ASSUME NEW q \in places
        PROVE  /\ row(q).grain = grain /\ row(q).bucket = q[1] /\ row(q).key = q[2]
               /\ row(q).attempts \in [Ids -> {0, 1}]
               /\ \A i \in Ids : row(q).attempts[i] = 1 <=> Counting(of(q), i)
    <2> HIDE DEF of, places
    <2>1. Single(of(q))
      BY <1>2
    <2> QED  BY <2>1, FoldIs
  <1>4. \A q, r \in places : q[1] = r[1] /\ q[2] = r[2] => q = r
    OBVIOUS
  <1>5. IsFiniteSet(places)
    <2>1. PICK f : f = [x \in parts |-> place(x)]
      OBVIOUS
    <2>2. f \in Surjection(parts, places)
      BY <2>1 DEF Surjection
    <2> HIDE DEF places
    <2> QED  BY <2>2, FS_Surjection DEF Single
  <1>6. IsFiniteSet(G)
    <2>1. PICK f : f = [q \in places |-> row(q)]
      OBVIOUS
    <2> HIDE DEF row, places
    <2>2. f \in Surjection(places, G)
      BY <1>1, <2>1 DEF Surjection
    <2> QED  BY <1>5, <2>2, FS_Surjection
  <1>7. \A x \in parts : place(x) \in places /\ x \in of(place(x))
    OBVIOUS
  <1>8. \A q \in places : \A x \in of(q) : x \in parts /\ place(x) = q /\ x.key = q[2]
    OBVIOUS
  <1> HIDE DEF row, of, places
  <1>9. \A x \in G : x.grain = grain
    BY <1>1, <1>3
  <1>10. ASSUME NEW x \in G, NEW y \in G, Same(x, y) PROVE x = y
    <2>1. PICK q \in places, r \in places : x = row(q) /\ y = row(r)
      BY <1>1
    <2>2. q[1] = r[1] /\ q[2] = r[2]
      BY <1>3, <1>10, <2>1 DEF Same
    <2> QED  BY <1>4, <2>1, <2>2
  <1>11. \A x \in G : x.attempts \in [Ids -> {0, 1}]
    BY <1>1, <1>3
  <1>12. ASSUME NEW i \in Ids, NEW x \in G, x.attempts[i] = 1
         PROVE  \E y \in parts : y.attempts[i] = 1 /\ y.key = x.key /\ x = row(place(y))
    <2>1. PICK q \in places : x = row(q)
      BY <1>1
    <2>2. PICK y \in of(q) : y.attempts[i] = 1
      BY <1>3, <1>12, <2>1 DEF Counting
    <2> QED  BY <1>3, <1>8, <2>1, <2>2
  <1>13. ASSUME NEW i \in Ids, NEW y \in parts, y.attempts[i] = 1 PROVE Counting(G, i)
    <2>1. Counting(of(place(y)), i) /\ place(y) \in places
      BY <1>7, <1>13 DEF Counting
    <2>2. row(place(y)) \in G /\ row(place(y)).attempts[i] = 1
      BY <1>1, <1>3, <2>1
    <2> QED  BY <2>2 DEF Counting
  <1>14. Single(G)
    <2>1. ASSUME NEW i \in Ids, NEW x \in G, NEW y \in G, x.attempts[i] = 1, y.attempts[i] = 1 PROVE x = y
      <3>1. PICK v \in parts : v.attempts[i] = 1 /\ x = row(place(v))
        BY <1>12, <2>1
      <3>2. PICK w \in parts : w.attempts[i] = 1 /\ y = row(place(w))
        BY <1>12, <2>1
      <3>3. v = w
        BY <3>1, <3>2 DEF Single
      <3> QED  BY <3>1, <3>2, <3>3
    <2> QED  BY <1>6, <1>11, <2>1 DEF Single
  <1>15. \A i \in Ids : Counting(G, i) <=> Counting(parts, i)
    BY <1>12, <1>13 DEF Counting
  <1>16. CountsOf(G, parts)
    BY <1>12, ZenonT(60) DEF CountsOf
  <1>17. Distinct(G)
    BY <1>10 DEF Distinct
  <1> HIDE DEF place
  <1> QED  BY <1>9, <1>14, <1>15, <1>16, <1>17

(* ON CONFLICT: what is merged is counted where its bucket and key are.    *)
LEMMA MergeIs ==
    ASSUME NEW table, NEW fresh, Single(table \cup fresh), Distinct(fresh),
           NEW M, M = Merge(table, fresh)
    PROVE  /\ Single(M)
           /\ \A i \in Ids : Counting(M, i) <=> Counting(table \cup fresh, i)
           /\ CountsOf(M, table \cup fresh)
           /\ \A x \in M : (x \in table /\ \A y \in fresh : ~Same(x, y)) \/ \E y \in fresh : Same(x, y)
  <1> DEFINE of(y) == {y} \cup {x \in table : Same(x, y)}
             row(y) == Fold(y.grain, y.bucket, y.key, of(y))
             kept == {x \in table : ~\E y \in fresh : Same(x, y)}
             made == {row(y) : y \in fresh}
  <1>1. M = kept \cup made
    BY DEF Merge
  <1>2. \A y \in fresh : of(y) \subseteq table \cup fresh
    OBVIOUS
  <1>3. \A y \in fresh : Single(of(y))
    <2> TAKE y \in fresh
    <2>1. of(y) \subseteq table \cup fresh
      BY <1>2
    <2> HIDE DEF of
    <2>2. IsFiniteSet(of(y))
      BY <2>1, FS_Subset DEF Single
    <2> QED  BY <2>1, <2>2 DEF Single
  <1>4. \A y \in fresh : \A x \in of(y) : Same(x, y)
    BY DEF Same
  <1>5. \A y \in fresh : y \in of(y) /\ \A x \in table : Same(x, y) => x \in of(y)
    OBVIOUS
  <1>6. \A y \in fresh : \A x \in of(y) : x \in table \/ x = y
    OBVIOUS
  <1>7. ASSUME NEW y \in fresh
        PROVE  /\ row(y).grain = y.grain /\ row(y).bucket = y.bucket /\ row(y).key = y.key
               /\ row(y).attempts \in [Ids -> {0, 1}]
               /\ \A i \in Ids : row(y).attempts[i] = 1 <=> Counting(of(y), i)
    <2> HIDE DEF of
    <2>1. Single(of(y))
      BY <1>3
    <2> QED  BY <2>1, FoldIs
  <1>8. IsFiniteSet(table) /\ IsFiniteSet(fresh)
    BY FS_Subset DEF Single
  <1>9. IsFiniteSet(M)
    <2>1. PICK f : f = [y \in fresh |-> row(y)]
      OBVIOUS
    <2>2. f \in Surjection(fresh, made)
      <3> HIDE DEF row
      <3> QED  BY <2>1 DEF Surjection
    <2>3. IsFiniteSet(kept)
      BY <1>8, FS_Subset
    <2> HIDE DEF made, kept
    <2>4. IsFiniteSet(made)
      BY <1>8, <2>2, FS_Surjection
    <2> QED  BY <1>1, <2>3, <2>4, FS_Union
  <1>10. \A x \in made : \E y \in fresh : x = row(y) /\ Same(x, y)
    <2> TAKE x \in made
    <2>1. PICK y \in fresh : x = row(y)
      OBVIOUS
    <2> HIDE DEF row
    <2> QED  BY <1>7, <2>1 DEF Same
  <1>11. \A x \in kept : x \in table /\ \A y \in fresh : ~Same(x, y)
    OBVIOUS
  <1>12. \A y \in fresh : row(y) \in made
    OBVIOUS
  <1>13. \A x \in table : x \in kept \/ \E y \in fresh : Same(x, y)
    OBVIOUS
  <1> HIDE DEF row, of, kept, made
  <1>14. \A x \in M : x.attempts \in [Ids -> {0, 1}]
    BY <1>1, <1>7, <1>10, <1>11 DEF Single
  <1>15. ASSUME NEW i \in Ids, NEW x \in M, x.attempts[i] = 1
         PROVE  \E v \in table \cup fresh : /\ v.attempts[i] = 1 /\ v.key = x.key
                                            /\ \/ v = x /\ x \in kept
                                               \/ \E y \in fresh : x = row(y) /\ v \in of(y)
    <2>1. CASE x \in kept
      BY <1>11, <1>15, <2>1
    <2>2. CASE x \in made
      <3>1. PICK y \in fresh : x = row(y)
        BY <1>10, <2>2
      <3>2. PICK v \in of(y) : v.attempts[i] = 1
        BY <1>7, <1>15, <3>1 DEF Counting
      <3>3. v.key = x.key
        BY <1>4, <1>7, <3>1, <3>2 DEF Same
      <3> QED  BY <1>2, <3>1, <3>2, <3>3
    <2> QED  BY <1>1, <2>1, <2>2
  <1>16. ASSUME NEW i \in Ids, NEW v \in table \cup fresh, v.attempts[i] = 1 PROVE Counting(M, i)
    <2>1. CASE v \in kept
      BY <1>1, <1>16, <2>1 DEF Counting
    <2>2. CASE v \notin kept
      <3>1. PICK y \in fresh : v \in of(y)
        BY <1>5, <1>13, <2>2
      <3>2. row(y).attempts[i] = 1
        BY <1>7, <1>16, <3>1 DEF Counting
      <3> QED  BY <1>1, <1>12, <3>2 DEF Counting
    <2> QED  BY <2>1, <2>2
  <1>17. ASSUME NEW v \in kept, NEW y \in fresh, v \in of(y) PROVE FALSE
    BY <1>4, <1>11, <1>17
  <1>18. ASSUME NEW y \in fresh, NEW z \in fresh, NEW v, v \in of(y), v \in of(z) PROVE y = z
    <2>1. Same(v, y) /\ Same(v, z)
      BY <1>4, <1>18
    <2>2. Same(y, z)
      BY <2>1 DEF Same
    <2> QED  BY <2>2 DEF Distinct
  <1>19. ASSUME NEW i \in Ids, NEW x \in M, NEW y \in M, x.attempts[i] = 1, y.attempts[i] = 1 PROVE x = y
    <2>1. PICK v \in table \cup fresh : v.attempts[i] = 1 /\ ((v = x /\ x \in kept) \/ \E z \in fresh : x = row(z) /\ v \in of(z))
      BY <1>15, <1>19
    <2>2. PICK w \in table \cup fresh : w.attempts[i] = 1 /\ ((w = y /\ y \in kept) \/ \E z \in fresh : y = row(z) /\ w \in of(z))
      BY <1>15, <1>19
    <2>3. v = w
      BY <2>1, <2>2 DEF Single
    <2> QED  BY <1>17, <1>18, <2>1, <2>2, <2>3
  <1>20. Single(M)
    BY <1>9, <1>14, <1>19 DEF Single
  <1>21. \A i \in Ids : Counting(M, i) <=> Counting(table \cup fresh, i)
    BY <1>15, <1>16 DEF Counting
  <1>22. \A x \in M : (x \in table /\ \A y \in fresh : ~Same(x, y)) \/ \E y \in fresh : Same(x, y)
    BY <1>1, <1>10, <1>11
  <1>23. CountsOf(M, table \cup fresh)
    BY <1>15 DEF CountsOf
  <1> QED  BY <1>20, <1>21, <1>22, <1>23

(* What MetricsLadder assumes of its constants, as far as it is needed.    *)
LadderConstants == NoAtenea \notin Ateneas /\ Times \subseteq Nat /\ Times # {}

LEMMA LadderAssumptions == LadderConstants
  BY NoAteneaAssumption, TimesAssumption DEF LadderConstants

Rowed == [id : Ids, at : Times, key : RowKeys, folded : BOOLEAN]
Counter(m, i) == m.id = i /\ ~m.folded

(* The attempts of a table are attempts that were written, each at most    *)
(* once; the rollups count each at most once and under its key; no attempt *)
(* counts in both, and each counts somewhere until a Clear names it.       *)
Listed(d, w) ==
    /\ d.measurement \subseteq Rowed /\ IsFiniteSet(d.measurement)
    /\ \A m, n \in d.measurement : m.id = n.id => m = n
    /\ \A m \in d.measurement : \E v \in w : v.id = m.id /\ v.key = m.key /\ v.at = m.at
Apart(d) == \A m \in d.measurement : ~m.folded => ~Counting(d.rollup, m.id)
Somewhere(d, w, n) ==
    \A v \in w : v.id \notin n => Counting(d.rollup, v.id) \/ \E m \in d.measurement : Counter(m, v.id)
Sound(d, w, n) ==
    /\ DOMAIN d = {"measurement", "rollup", "lastRun"}
    /\ \A v \in w : v.id \in Ids
    /\ Listed(d, w) /\ Single(d.rollup) /\ Keyed(d.rollup, w) /\ Apart(d) /\ Somewhere(d, w, n)

(* Sound tables count each attempt as often as they should.                *)
LEMMA SoundCounts ==
    ASSUME NEW d, NEW w, NEW n, Sound(d, w, n), NEW v \in w
    PROVE  Counted(d, v.id) <= 1 /\ (v.id \notin n => Counted(d, v.id) = 1)
  <1> DEFINE open == {m \in d.measurement : m.id = v.id /\ ~m.folded}
  <1>1. Counted(d, v.id) = Cardinality(open) + IF Counting(d.rollup, v.id) THEN 1 ELSE 0
    BY SumOfSingle DEF Counted, Sound
  <1>2. CASE open = {}
    <2>1. Cardinality(open) = 0
      BY <1>2, FS_EmptySet
    <2>2. ~\E m \in d.measurement : Counter(m, v.id)
      BY <1>2 DEF Counter
    <2>3. v.id \notin n => Counting(d.rollup, v.id)
      BY <2>2 DEF Sound, Somewhere
    <2> QED  BY <1>1, <2>1, <2>3
  <1>3. CASE open # {}
    <2>1. PICK m : m \in d.measurement /\ m.id = v.id /\ ~m.folded
      BY <1>3
    <2>2. open = {m}
      BY <2>1 DEF Sound, Listed
    <2>3. Cardinality(open) = 1
      BY <2>2, FS_Singleton
    <2>4. ~Counting(d.rollup, v.id)
      BY <2>1 DEF Sound, Apart
    <2> QED  BY <1>1, <2>3, <2>4
  <1> QED  BY <1>2, <1>3

(* Counted into its hour and marked, an attempt is counted once.           *)
AloneOf(M) == {Alone(m) : m \in M}
LEMMA AloneIs ==
    ASSUME NEW M, M \subseteq Rowed, IsFiniteSet(M), \A m, n \in M : m.id = n.id => m = n
    PROVE  /\ Single(AloneOf(M))
           /\ \A i \in Ids : Counting(AloneOf(M), i) <=> \E m \in M : m.id = i
           /\ \A y \in AloneOf(M) : \A i \in Ids : y.attempts[i] = 1 => \E m \in M : m.id = i /\ m.key = y.key
  <1>1. ASSUME NEW m \in M
        PROVE  /\ Alone(m).key = m.key /\ Alone(m).attempts \in [Ids -> {0, 1}]
               /\ \A i \in Ids : Alone(m).attempts[i] = 1 <=> i = m.id
    BY DEF Alone
  <1>2. IsFiniteSet(AloneOf(M))
    <2>1. PICK f : f = [m \in M |-> Alone(m)]
      OBVIOUS
    <2>2. f \in Surjection(M, AloneOf(M))
      BY <2>1 DEF Surjection, AloneOf
    <2> QED  BY <2>2, FS_Surjection
  <1>3. \A y \in AloneOf(M) : \E m \in M : y = Alone(m)
    BY DEF AloneOf
  <1>4. \A m \in M : Alone(m) \in AloneOf(M) /\ m.id \in Ids
    BY DEF AloneOf, Rowed
  <1>5. \A y \in AloneOf(M) : y.attempts \in [Ids -> {0, 1}]
    BY <1>1, <1>3
  <1>6. ASSUME NEW i \in Ids, NEW y \in AloneOf(M), y.attempts[i] = 1
        PROVE  \E m \in M : m.id = i /\ m.key = y.key /\ y = Alone(m)
    BY <1>1, <1>3, <1>6
  <1>7. Single(AloneOf(M))
    BY <1>2, <1>5, <1>6 DEF Single
  <1>8. \A i \in Ids : Counting(AloneOf(M), i) <=> \E m \in M : m.id = i
    BY <1>1, <1>4, <1>6 DEF Counting
  <1> QED  BY <1>6, <1>7, <1>8

(* Rows that count nothing in common count each attempt once together.      *)
LEMMA Together ==
    ASSUME NEW R, NEW F, Single(R), Single(F), \A i \in Ids : ~(Counting(R, i) /\ Counting(F, i))
    PROVE  Single(R \cup F)
  <1>1. IsFiniteSet(R \cup F)
    BY FS_Union DEF Single
  <1>2. \A x \in R \cup F : x.attempts \in [Ids -> {0, 1}]
    BY DEF Single
  <1>3. ASSUME NEW i \in Ids, NEW x \in R \cup F, NEW y \in R \cup F, x.attempts[i] = 1, y.attempts[i] = 1 PROVE x = y
    <2>1. CASE x \in R /\ y \in R
      BY <1>3, <2>1 DEF Single
    <2>2. CASE x \in F /\ y \in F
      BY <1>3, <2>2 DEF Single
    <2>3. CASE (x \in R /\ y \in F) \/ (x \in F /\ y \in R)
      BY <1>3, <2>3 DEF Counting
    <2> QED  BY <2>1, <2>2, <2>3
  <1> QED  BY <1>1, <1>2, <1>3 DEF Single

(* What was counted and what is counted now: a table of rollups in place   *)
(* of another, and of the counts that were moved into it.                  *)
LEMMA MergedRollups ==
    ASSUME NEW R, NEW F, Single(R), Single(F), Distinct(F),
           \A i \in Ids : ~(Counting(R, i) /\ Counting(F, i)),
           NEW w, NEW M, M = Merge(R, F),
           Keyed(R \cup F, w)
    PROVE  /\ Single(M)
           /\ \A i \in Ids : Counting(M, i) <=> Counting(R, i) \/ Counting(F, i)
           /\ Keyed(M, w)
  <1>1. \A i \in Ids : Counting(R \cup F, i) <=> Counting(R, i) \/ Counting(F, i)
    BY DEF Counting
  <1>2. Single(R \cup F)
    BY Together
  <1>3. Single(M) /\ CountsOf(M, R \cup F) /\ \A i \in Ids : Counting(M, i) <=> Counting(R \cup F, i)
    BY <1>2, MergeIs
  <1>4. Keyed(M, w)
    <2> SUFFICES ASSUME NEW x \in M, NEW i \in Ids, x.attempts[i] = 1 PROVE \E v \in w : v.id = i /\ v.key = x.key
      BY DEF Keyed
    <2>1. PICK y \in R \cup F : y.attempts[i] = 1 /\ y.key = x.key
      BY <1>3 DEF CountsOf
    <2> QED  BY <2>1 DEF Keyed
  <1> QED  BY <1>1, <1>3, <1>4

(* An attempt as it is marked.                                             *)
Marked(m, U) == IF m \in U THEN [m EXCEPT !.folded = TRUE] ELSE m
LEMMA MarkedIs ==
    ASSUME NEW m \in Rowed, NEW U
    PROVE  /\ Marked(m, U) \in Rowed /\ Marked(m, U).id = m.id /\ Marked(m, U).key = m.key /\ Marked(m, U).at = m.at
           /\ Marked(m, U).folded <=> m.folded \/ m \in U
           /\ m \notin U => Marked(m, U) = m
  <1>1. CASE m \notin U
    BY <1>1 DEF Marked
  <1>2. CASE m \in U
    <2>1. Marked(m, U) = [m EXCEPT !.folded = TRUE]
      BY <1>2 DEF Marked
    <2>2. PICK q : q = [m EXCEPT !.folded = TRUE]
      OBVIOUS
    <2>3. q = [id |-> m.id, at |-> m.at, key |-> m.key, folded |-> TRUE]
      BY <2>2 DEF Rowed
    <2>4. q \in Rowed /\ q.id = m.id /\ q.key = m.key /\ q.at = m.at
      BY <2>3 DEF Rowed
    <2>5. q.folded
      BY <2>3, Zenon
    <2>6. Marked(m, U) = q
      BY <2>1, <2>2
    <2> QED  BY <1>2, <2>4, <2>5, <2>6
  <1> QED  BY <1>1, <1>2

(* foldAttempts and the UPDATE after it.                                   *)
LEMMA FoldMarkIs ==
    ASSUME NEW d, NEW c, DOMAIN d = {"measurement", "rollup", "lastRun"},
           NEW e, e = MarkFolded(FoldAttempts(d, c), c), NEW U, U = Unfolded(d, c)
    PROVE  /\ DOMAIN e = {"measurement", "rollup", "lastRun"} /\ e.lastRun = d.lastRun
           /\ e.measurement = {Marked(m, U) : m \in d.measurement}
           /\ e.rollup = Merge(d.rollup, Grouped("hour", AloneOf(U)))
  <1>1. PICK R : R = Merge(d.rollup, Grouped("hour", AloneOf(U)))
    OBVIOUS
  <1>2. PICK f : f = [d EXCEPT !.rollup = R]
    OBVIOUS
  <1>3. f.measurement = d.measurement /\ f.rollup = R /\ f.lastRun = d.lastRun /\ DOMAIN f = DOMAIN d
    BY <1>2
  <1>4. f = FoldAttempts(d, c)
    BY <1>1, <1>2 DEF FoldAttempts, AloneOf
  <1>5. Unfolded(f, c) = U
    BY <1>3 DEF Unfolded
  <1>6. PICK M : M = {Marked(m, U) : m \in f.measurement}
    OBVIOUS
  <1>7. e = [f EXCEPT !.measurement = M]
    BY <1>4, <1>5, <1>6 DEF MarkFolded, Marked
  <1> QED  BY <1>1, <1>3, <1>6, <1>7

LEMMA FoldMarkKeeps ==
    ASSUME NEW d, NEW w, NEW n, Sound(d, w, n), NEW c, NEW e, e = MarkFolded(FoldAttempts(d, c), c)
    PROVE  Sound(e, w, n)
  <1>1. PICK U : U = Unfolded(d, c)
    OBVIOUS
  <1>2. PICK F : F = Grouped("hour", AloneOf(U))
    OBVIOUS
  <1>3. PICK R : R = d.rollup
    OBVIOUS
  <1>4. DOMAIN d = {"measurement", "rollup", "lastRun"} /\ Listed(d, w) /\ Single(R) /\ Keyed(R, w) /\ Apart(d) /\ Somewhere(d, w, n)
    BY <1>3 DEF Sound
  <1>5. /\ DOMAIN e = {"measurement", "rollup", "lastRun"}
        /\ e.measurement = {Marked(m, U) : m \in d.measurement} /\ e.rollup = Merge(R, F)
    BY <1>1, <1>2, <1>3, <1>4, FoldMarkIs
  <1>6. U \subseteq d.measurement /\ \A m \in U : ~m.folded
    BY <1>1 DEF Unfolded
  <1>7. U \subseteq Rowed /\ IsFiniteSet(U) /\ \A m, k \in U : m.id = k.id => m = k
    BY <1>4, <1>6, FS_Subset DEF Listed
  <1>8. /\ Single(AloneOf(U))
        /\ \A i \in Ids : Counting(AloneOf(U), i) <=> \E m \in U : m.id = i
        /\ \A y \in AloneOf(U) : \A i \in Ids : y.attempts[i] = 1 => \E m \in U : m.id = i /\ m.key = y.key
    BY <1>7, AloneIs
  <1>9. /\ Single(F)
        /\ Distinct(F)
        /\ \A i \in Ids : Counting(F, i) <=> Counting(AloneOf(U), i)
        /\ CountsOf(F, AloneOf(U))
    BY <1>2, <1>8, GroupedIs
  <1>10. \A i \in Ids : Counting(F, i) <=> \E m \in U : m.id = i
    BY <1>8, <1>9
  <1>11. \A i \in Ids : ~(Counting(R, i) /\ Counting(F, i))
    BY <1>3, <1>4, <1>6, <1>10 DEF Apart
  <1>12. Keyed(R \cup F, w)
    <2> SUFFICES ASSUME NEW x \in R \cup F, NEW i \in Ids, x.attempts[i] = 1 PROVE \E v \in w : v.id = i /\ v.key = x.key
      BY DEF Keyed
    <2>1. CASE x \in R
      BY <1>4, <2>1 DEF Keyed
    <2>2. CASE x \in F
      <3>1. PICK y \in AloneOf(U) : y.attempts[i] = 1 /\ y.key = x.key
        BY <1>9, <2>2 DEF CountsOf
      <3>2. PICK m \in U : m.id = i /\ m.key = y.key
        BY <1>8, <3>1
      <3> QED  BY <1>4, <1>6, <3>1, <3>2 DEF Listed
    <2> QED  BY <2>1, <2>2
  <1>13. Single(e.rollup) /\ Keyed(e.rollup, w) /\ \A i \in Ids : Counting(e.rollup, i) <=> Counting(R, i) \/ Counting(F, i)
    BY <1>4, <1>5, <1>9, <1>11, <1>12, MergedRollups
  <1>14. \A k \in e.measurement : \E m \in d.measurement : k = Marked(m, U) /\ m \in Rowed
    BY <1>4, <1>5 DEF Listed
  <1>15. \A m \in d.measurement : Marked(m, U) \in e.measurement /\ m \in Rowed /\ m.id \in Ids
    BY <1>4, <1>5 DEF Listed, Rowed
  <1>16. Listed(e, w)
    <2>1. IsFiniteSet(e.measurement)
      <3>1. PICK f : f = [m \in d.measurement |-> Marked(m, U)]
        OBVIOUS
      <3>2. f \in Surjection(d.measurement, e.measurement)
        BY <1>5, <3>1 DEF Surjection
      <3> QED  BY <1>4, <3>2, FS_Surjection DEF Listed
    <2>2. e.measurement \subseteq Rowed
      BY <1>14, MarkedIs
    <2>3. ASSUME NEW k \in e.measurement, NEW l \in e.measurement, k.id = l.id PROVE k = l
      <3>1. PICK m \in d.measurement : k = Marked(m, U) /\ m \in Rowed
        BY <1>14
      <3>2. PICK o \in d.measurement : l = Marked(o, U) /\ o \in Rowed
        BY <1>14
      <3>3. m.id = o.id
        BY <2>3, <3>1, <3>2, MarkedIs
      <3> QED  BY <1>4, <3>1, <3>2, <3>3 DEF Listed
    <2>4. ASSUME NEW k \in e.measurement PROVE \E v \in w : v.id = k.id /\ v.key = k.key /\ v.at = k.at
      <3>1. PICK m \in d.measurement : k = Marked(m, U) /\ m \in Rowed
        BY <1>14
      <3>2. k.id = m.id /\ k.key = m.key /\ k.at = m.at
        BY <3>1, MarkedIs
      <3> QED  BY <1>4, <3>2 DEF Listed
    <2> QED  BY <2>1, <2>2, <2>3, <2>4 DEF Listed
  <1>17. Apart(e)
    <2> SUFFICES ASSUME NEW k \in e.measurement, ~k.folded PROVE ~Counting(e.rollup, k.id)
      BY DEF Apart
    <2>1. PICK m \in d.measurement : k = Marked(m, U) /\ m \in Rowed
      BY <1>14
    <2>2. k.id = m.id /\ ~m.folded /\ m \notin U
      BY <2>1, MarkedIs
    <2>3. ~Counting(R, m.id)
      BY <1>3, <1>4, <2>2 DEF Apart
    <2>4. ~Counting(F, m.id)
      BY <1>4, <1>6, <1>10, <1>15, <2>2 DEF Listed
    <2> QED  BY <1>13, <1>15, <2>2, <2>3, <2>4
  <1>18. Somewhere(e, w, n)
    <2> SUFFICES ASSUME NEW v \in w, v.id \notin n, ~Counting(e.rollup, v.id) PROVE \E k \in e.measurement : Counter(k, v.id)
      BY DEF Somewhere
    <2>1. CASE \E m \in d.measurement : Counter(m, v.id)
      <3>1. PICK m \in d.measurement : m.id = v.id /\ ~m.folded
        BY <2>1 DEF Counter
      <3>2. m \notin U
        BY <1>10, <1>13, <1>15, <3>1
      <3>3. m \in e.measurement
        BY <1>15, <3>2, MarkedIs
      <3> QED  BY <3>1, <3>3 DEF Counter
    <2>2. CASE Counting(d.rollup, v.id)
      BY <1>3, <1>13, <2>2 DEF Sound
    <2> QED  BY <1>4, <2>1, <2>2 DEF Somewhere
  <1> QED  BY <1>5, <1>13, <1>16, <1>17, <1>18 DEF Sound

Tables == {"measurement", "rollup", "lastRun"}
LEMMA PruneKeeps ==
    ASSUME NEW d, NEW w, NEW n, Sound(d, w, n), NEW c, NEW e, e = PruneAttempts(d, c)
    PROVE  Sound(e, w, n)
  <1>1. PICK M : M = {m \in d.measurement : ~(m.folded /\ m.at < c)}
    OBVIOUS
  <1>2. e = [d EXCEPT !.measurement = M] /\ DOMAIN d = Tables
    BY <1>1 DEF PruneAttempts, Sound, Tables
  <1>3. DOMAIN e = Tables /\ e.measurement = M /\ e.rollup = d.rollup
    BY <1>2 DEF Tables
  <1>4. M \subseteq d.measurement /\ \A m \in d.measurement : ~m.folded => m \in M
    BY <1>1
  <1>5. Listed(e, w)
    <2>1. IsFiniteSet(M)
      BY <1>4, FS_Subset DEF Sound, Listed
    <2> QED  BY <1>3, <1>4, <2>1 DEF Sound, Listed
  <1>6. Apart(e)
    BY <1>3, <1>4 DEF Sound, Apart
  <1>7. Somewhere(e, w, n)
    BY <1>3, <1>4 DEF Sound, Somewhere, Counter
  <1> QED  BY <1>3, <1>5, <1>6, <1>7 DEF Sound, Tables

LEMMA StampKeeps ==
    ASSUME NEW d, NEW w, NEW n, Sound(d, w, n), NEW t, NEW e, e = [d EXCEPT !.lastRun = t]
    PROVE  Sound(e, w, n) /\ e.lastRun = t
  <1>1. DOMAIN e = Tables /\ e.measurement = d.measurement /\ e.rollup = d.rollup /\ e.lastRun = t
    BY DEF Sound, Tables
  <1> QED  BY <1>1 DEF Sound, Listed, Apart, Somewhere, Tables

(* Nothing but the rollups is another.                                     *)
RestAsWas(e, d) == DOMAIN e = Tables /\ e.measurement = d.measurement /\ e.lastRun = d.lastRun

(* The rows a rung has outlived.                                           *)
OldRows(d, from, c) == {x \in d.rollup : x.grain = from /\ x.bucket < c}

(* mergeRollup, then the DELETE of what was merged upwards.                *)
LEMMA PromoteIs ==
    ASSUME NEW d, NEW from, NEW to, from # to, NEW c, DOMAIN d = Tables, Single(d.rollup),
           NEW e, e = Promote(d, from, to, c),
           NEW old, old = OldRows(d, from, c),
           NEW F, F = Grouped(to, old)
    PROVE  /\ RestAsWas(e, d)
           /\ e.rollup = Merge(d.rollup \ old, F)
           /\ Single(old) /\ Single(d.rollup \ old) /\ Single(F)
           /\ Distinct(F)
           /\ \A x \in F : x.grain = to
           /\ \A i \in Ids : Counting(F, i) <=> Counting(old, i)
           /\ CountsOf(F, old)
  <1>1. PICK R : R = d.rollup
    OBVIOUS
  <1>2. old \subseteq R /\ (R \ old) \subseteq R /\ \A x \in old : x.grain = from
    BY <1>1 DEF OldRows
  <1>3. Single(old) /\ Single(R \ old)
    <2>1. IsFiniteSet(old) /\ IsFiniteSet(R \ old)
      BY <1>1, <1>2, FS_Subset DEF Single
    <2> QED  BY <1>1, <1>2, <2>1 DEF Single
  <1>4. /\ Single(F) /\ CountsOf(F, old)
        /\ \A x \in F : x.grain = to
        /\ Distinct(F)
        /\ \A i \in Ids : Counting(F, i) <=> Counting(old, i)
    <2>1. Single(F) /\ CountsOf(F, old) /\ Distinct(F)
      BY <1>3, GroupedIs
    <2>2. \A x \in F : x.grain = to
      BY <1>3, GroupedIs
    <2>3. \A i \in Ids : Counting(F, i) <=> Counting(old, i)
      BY <1>3, GroupedIs
    <2> QED  BY <2>1, <2>2, <2>3
  <1>5. PICK M : M = Merge(R, F) \ old
    OBVIOUS
  <1>6. e = [d EXCEPT !.rollup = M]
    BY <1>1, <1>5 DEF Promote, OldRows
  <1>7. M = Merge(R \ old, F)
    <2> DEFINE row(y, T) == Fold(y.grain, y.bucket, y.key, {y} \cup {x \in T : Same(x, y)})
    <2>1. \A x \in old : \A y \in F : ~Same(x, y)
      BY <1>2, <1>4 DEF Same
    <2>2. ASSUME NEW y \in F PROVE row(y, R) = row(y, R \ old) /\ row(y, R) \notin old
      <3>1. {x \in R : Same(x, y)} = {x \in R \ old : Same(x, y)}
        BY <2>1
      <3>2. row(y, R).grain = to
        BY <1>4 DEF Fold
      <3> HIDE DEF row
      <3>3. row(y, R) = row(y, R \ old)
        BY <3>1 DEF row
      <3> QED  BY <1>2, <3>2, <3>3
    <2>3. Merge(R, F) = {x \in R : ~\E y \in F : Same(x, y)} \cup {row(y, R) : y \in F}
      BY DEF Merge
    <2>4. Merge(R \ old, F) = {x \in R \ old : ~\E y \in F : Same(x, y)} \cup {row(y, R \ old) : y \in F}
      BY DEF Merge
    <2> HIDE DEF row
    <2>5. {row(y, R) : y \in F} \ old = {row(y, R \ old) : y \in F}
      BY <2>2
    <2> QED  BY <1>5, <2>3, <2>4, <2>5
  <1>8. DOMAIN e = Tables /\ e.measurement = d.measurement /\ e.lastRun = d.lastRun /\ e.rollup = M
    BY <1>6 DEF Tables
  <1>9. RestAsWas(e, d)
    BY <1>8 DEF RestAsWas
  <1> QED  BY <1>1, <1>3, <1>4, <1>7, <1>8, <1>9

LEMMA PromoteKeeps ==
    ASSUME NEW d, NEW w, NEW n, Sound(d, w, n), NEW from, NEW to, from # to, NEW c,
           NEW e, e = Promote(d, from, to, c)
    PROVE  Sound(e, w, n)
  <1>1. PICK old : old = OldRows(d, from, c)
    OBVIOUS
  <1>2. PICK F : F = Grouped(to, old)
    OBVIOUS
  <1>3. PICK R : R = d.rollup \ old
    OBVIOUS
  <1>4. DOMAIN d = Tables /\ Listed(d, w) /\ Single(d.rollup) /\ Keyed(d.rollup, w) /\ Apart(d) /\ Somewhere(d, w, n)
    BY DEF Sound, Tables
  <1>5. /\ DOMAIN e = Tables /\ e.measurement = d.measurement /\ e.rollup = Merge(R, F)
        /\ Single(R) /\ Single(F) /\ CountsOf(F, old) /\ Distinct(F)
        /\ \A i \in Ids : Counting(F, i) <=> Counting(old, i)
    <2>0. DOMAIN d = Tables /\ Single(d.rollup)
      BY <1>4
    <2>1. RestAsWas(e, d)
      BY <1>1, <1>2, <2>0, PromoteIs
    <2>2. e.rollup = Merge(d.rollup \ old, F)
      BY <1>1, <1>2, <2>0, PromoteIs
    <2>5. Single(d.rollup \ old)
      BY <1>1, <1>2, <2>0, PromoteIs, SMTT(60)
    <2>3. Single(F) /\ CountsOf(F, old) /\ Distinct(F)
      BY <1>1, <1>2, <2>0, PromoteIs, ZenonT(60)
    <2>4. \A i \in Ids : Counting(F, i) <=> Counting(old, i)
      BY <1>1, <1>2, <2>0, PromoteIs
    <2> QED  BY <1>3, <2>1, <2>2, <2>3, <2>4, <2>5 DEF RestAsWas
  <1>6. old \subseteq d.rollup
    BY <1>1 DEF OldRows
  <1>7. \A i \in Ids : ~(Counting(R, i) /\ Counting(F, i))
    <2> TAKE i \in Ids
    <2>1. ASSUME Counting(R, i), Counting(old, i) PROVE FALSE
      BY <1>3, <1>4, <1>6, <2>1 DEF Counting, Single
    <2> QED  BY <1>5, <2>1
  <1>8. Keyed(R \cup F, w)
    <2> SUFFICES ASSUME NEW x \in R \cup F, NEW i \in Ids, x.attempts[i] = 1 PROVE \E v \in w : v.id = i /\ v.key = x.key
      BY DEF Keyed
    <2>1. CASE x \in R
      BY <1>3, <1>4, <2>1 DEF Keyed
    <2>2. CASE x \in F
      <3>1. PICK y \in old : y.attempts[i] = 1 /\ y.key = x.key
        BY <1>5, <2>2 DEF CountsOf
      <3> QED  BY <1>4, <1>6, <3>1 DEF Keyed
    <2> QED  BY <2>1, <2>2
  <1>9. Single(e.rollup) /\ Keyed(e.rollup, w) /\ \A i \in Ids : Counting(e.rollup, i) <=> Counting(R, i) \/ Counting(F, i)
    BY <1>5, <1>7, <1>8, MergedRollups
  <1>10. \A i \in Ids : Counting(e.rollup, i) <=> Counting(d.rollup, i)
    <2> TAKE i \in Ids
    <2>1. Counting(d.rollup, i) <=> Counting(R, i) \/ Counting(old, i)
      BY <1>3, <1>6 DEF Counting
    <2> QED  BY <1>5, <1>9, <2>1
  <1>11. Apart(e)
    BY <1>4, <1>5, <1>10 DEF Apart, Listed, Rowed
  <1>12. Somewhere(e, w, n)
    BY <1>4, <1>5, <1>10 DEF Somewhere, Sound
  <1>13. Listed(e, w)
    BY <1>4, <1>5 DEF Listed
  <1> QED  BY <1>5, <1>9, <1>11, <1>12, <1>13 DEF Sound, Tables

(* Store.Flush.                                                            *)
FiledRow(m) == [id |-> m.id, at |-> m.at, key |-> m.key, folded |-> FALSE]
FiledOf(b) == {FiledRow(m) : m \in b}
LEMMA FiledRowIs ==
    ASSUME NEW m \in Attempt
    PROVE  /\ FiledRow(m) \in Rowed /\ ~FiledRow(m).folded
           /\ FiledRow(m).id = m.id /\ FiledRow(m).at = m.at /\ FiledRow(m).key = m.key
  BY DEF FiledRow, Rowed, Attempt

LEMMA WrittenKeeps ==
    ASSUME NEW d, NEW w, NEW n, Sound(d, w, n),
           NEW b, b \subseteq Attempt, IsFiniteSet(b), \A m, k \in b : m.id = k.id => m = k,
           \A m \in b : \A v \in w : m.id # v.id,
           NEW e, e = [d EXCEPT !.measurement = @ \cup FiledOf(b)]
    PROVE  Sound(e, w \cup b, n)
  <1>1. DOMAIN d = Tables /\ Listed(d, w) /\ Single(d.rollup) /\ Keyed(d.rollup, w) /\ Apart(d) /\ Somewhere(d, w, n)
    BY DEF Sound, Tables
  <1>2. DOMAIN e = Tables /\ e.measurement = d.measurement \cup FiledOf(b) /\ e.rollup = d.rollup
    BY <1>1 DEF Tables
  <1>3. \A k \in FiledOf(b) : \E m \in b : k = FiledRow(m) /\ k.id = m.id /\ k.at = m.at /\ k.key = m.key
    BY FiledRowIs DEF FiledOf
  <1>4. \A m \in b : FiledRow(m) \in FiledOf(b)
    BY DEF FiledOf
  <1>5. \A m \in b : m.id \in Ids /\ m.at \in Times /\ m.key \in RowKeys
    BY DEF Attempt
  <1>6. FiledOf(b) \subseteq Rowed
    BY FiledRowIs DEF FiledOf
  <1>7. \A k \in FiledOf(b) : ~k.folded
    BY FiledRowIs DEF FiledOf
  <1>8. IsFiniteSet(e.measurement)
    <2>1. PICK f : f = [m \in b |-> FiledRow(m)]
      OBVIOUS
    <2>2. f \in Surjection(b, FiledOf(b))
      BY <2>1 DEF Surjection, FiledOf
    <2>3. IsFiniteSet(FiledOf(b))
      BY <2>2, FS_Surjection
    <2>4. IsFiniteSet(d.measurement)
      BY <1>1 DEF Listed
    <2>5. IsFiniteSet(d.measurement \cup FiledOf(b))
      BY <2>3, <2>4, FS_Union, Zenon
    <2> QED  BY <1>2, <2>5
  <1>9. Listed(e, w \cup b)
    <2>1. e.measurement \subseteq Rowed
      BY <1>1, <1>2, <1>6 DEF Listed
    <2>2. ASSUME NEW k \in e.measurement PROVE \E v \in w \cup b : v.id = k.id /\ v.key = k.key /\ v.at = k.at
      BY <1>1, <1>2, <1>3 DEF Listed
    <2>3. ASSUME NEW k \in FiledOf(b), NEW l \in FiledOf(b), k.id = l.id PROVE k = l
      BY <1>3, <2>3
    <2>4. ASSUME NEW k \in FiledOf(b), NEW l \in d.measurement PROVE k.id # l.id
      <3>1. PICK m \in b : k.id = m.id
        BY <1>3
      <3>2. PICK v \in w : v.id = l.id
        BY <1>1 DEF Listed
      <3> QED  BY <3>1, <3>2
    <2>5. \A k, l \in e.measurement : k.id = l.id => k = l
      BY <1>1, <1>2, <2>3, <2>4 DEF Listed
    <2> QED  BY <1>8, <2>1, <2>2, <2>5 DEF Listed
  <1>10. Keyed(e.rollup, w \cup b)
    BY <1>1, <1>2 DEF Keyed
  <1>11. \A i \in Ids : Counting(d.rollup, i) => \E v \in w : v.id = i
    BY <1>1 DEF Counting, Keyed
  <1>12. Apart(e)
    <2> SUFFICES ASSUME NEW k \in FiledOf(b) PROVE ~Counting(d.rollup, k.id)
      BY <1>1, <1>2 DEF Apart
    <2>1. PICK m \in b : k.id = m.id /\ m.id \in Ids
      BY <1>3, <1>5
    <2> QED  BY <1>11, <2>1
  <1>13. Somewhere(e, w \cup b, n)
    <2> SUFFICES ASSUME NEW v \in w \cup b, v.id \notin n
                 PROVE  Counting(d.rollup, v.id) \/ \E m \in d.measurement \cup FiledOf(b) : Counter(m, v.id)
      BY <1>2 DEF Somewhere
    <2>1. CASE v \in w
      BY <1>1, <2>1 DEF Somewhere
    <2>2. CASE v \in b
      <3>1. FiledRow(v) \in FiledOf(b) /\ Counter(FiledRow(v), v.id)
        BY <1>4, <2>2, FiledRowIs DEF Counter
      <3> QED  BY <3>1
    <2> QED  BY <2>1, <2>2
  <1>14. \A v \in w \cup b : v.id \in Ids
    BY <1>5 DEF Sound
  <1> QED  BY <1>1, <1>2, <1>9, <1>10, <1>12, <1>13, <1>14 DEF Sound, Tables

(* The two statements of a Clear.                                          *)
Bare(d, key) == [d EXCEPT !.measurement = {m \in @ : m.key # key}]
NamedBy(w, key) == {m.id : m \in {v \in w : v.key = key}}
LEMMA ClearedAttemptsKeep ==
    ASSUME NEW d, NEW w, NEW n, Sound(d, w, n), NEW key,
           NEW e, e = Bare(d, key), NEW o, o = n \cup NamedBy(w, key)
    PROVE  Sound(e, w, o) /\ \A v \in w : v.key = key => v.id \in o
  <1>1. PICK M : M = {m \in d.measurement : m.key # key}
    OBVIOUS
  <1>2. DOMAIN d = Tables /\ Listed(d, w) /\ Single(d.rollup) /\ Keyed(d.rollup, w) /\ Apart(d) /\ Somewhere(d, w, n)
    BY DEF Sound, Tables
  <1>3. DOMAIN e = Tables /\ e.measurement = M /\ e.rollup = d.rollup
    BY <1>1, <1>2 DEF Tables, Bare
  <1>4. \A v \in w : v.key = key => v.id \in o
    BY DEF NamedBy
  <1>5. M \subseteq d.measurement
    BY <1>1
  <1>6. Listed(e, w)
    <2>1. IsFiniteSet(M)
      BY <1>2, <1>5, FS_Subset DEF Listed
    <2> QED  BY <1>2, <1>3, <1>5, <2>1 DEF Listed
  <1>7. Apart(e)
    BY <1>2, <1>3, <1>5 DEF Apart
  <1>8. Somewhere(e, w, o)
    <2> SUFFICES ASSUME NEW v \in w, v.id \notin o PROVE Counting(d.rollup, v.id) \/ \E m \in M : Counter(m, v.id)
      BY <1>3 DEF Somewhere
    <2>1. v.id \notin n
      OBVIOUS
    <2>2. CASE \E m \in d.measurement : Counter(m, v.id)
      <3>1. PICK m \in d.measurement : m.id = v.id /\ ~m.folded
        BY <2>2 DEF Counter
      <3>2. PICK u \in w : u.id = m.id /\ u.key = m.key
        BY <1>2 DEF Listed
      <3>3. m.key # key
        BY <1>4, <3>1, <3>2
      <3> QED  BY <1>1, <3>1, <3>3 DEF Counter
    <2> QED  BY <1>2, <2>1, <2>2 DEF Somewhere
  <1> QED  BY <1>2, <1>3, <1>4, <1>6, <1>7, <1>8 DEF Sound, Tables

LEMMA ClearedRollupsKeep ==
    ASSUME NEW d, NEW w, NEW n, Sound(d, w, n), NEW key, \A v \in w : v.key = key => v.id \in n,
           NEW e, e = [d EXCEPT !.rollup = {x \in @ : x.key # key}]
    PROVE  Sound(e, w, n)
  <1>1. PICK R : R = {x \in d.rollup : x.key # key}
    OBVIOUS
  <1>2. DOMAIN d = Tables /\ Listed(d, w) /\ Single(d.rollup) /\ Keyed(d.rollup, w) /\ Apart(d) /\ Somewhere(d, w, n)
    BY DEF Sound, Tables
  <1>3. DOMAIN e = Tables /\ e.rollup = R /\ e.measurement = d.measurement
    BY <1>1, <1>2 DEF Tables
  <1>4. R \subseteq d.rollup
    BY <1>1
  <1>5. Single(R) /\ Keyed(R, w)
    <2>1. IsFiniteSet(R)
      BY <1>2, <1>4, FS_Subset DEF Single
    <2> QED  BY <1>2, <1>4, <2>1 DEF Single, Keyed
  <1>6. Apart(e)
    BY <1>2, <1>3, <1>4 DEF Apart, Counting
  <1>7. Somewhere(e, w, n)
    <2> SUFFICES ASSUME NEW v \in w, v.id \notin n, Counting(d.rollup, v.id) PROVE Counting(R, v.id)
      BY <1>2, <1>3 DEF Somewhere
    <2>1. v.id \in Ids
      BY DEF Sound
    <2>2. PICK x \in d.rollup : x.attempts[v.id] = 1
      BY DEF Counting
    <2>3. PICK u \in w : u.id = v.id /\ u.key = x.key
      BY <1>2, <2>1, <2>2 DEF Keyed
    <2>4. x.key # key
      BY <2>3
    <2> QED  BY <1>1, <2>2, <2>4 DEF Counting
  <1>8. Listed(e, w)
    BY <1>2, <1>3 DEF Listed
  <1> QED  BY <1>3, <1>5, <1>6, <1>7, <1>8 DEF Sound, Tables

TxStages == {"begun", "due", "counted", "marked", "hours", "days", "weeks", "climbed", "stamped"}
(* The tables a transaction is about to have: what it counted into hours   *)
(* it is about to mark.                                                    *)
Working(s, t, x) == IF s = "counted" THEN MarkFolded(x, Trunc("hour", t)) ELSE x
(* A transaction's tables are sound; a Clear between its statements has    *)
(* named every attempt of its key.                                         *)
Under(s, t, x, w, n) ==
    /\ s \in TxStages => Sound(Working(s, t, x), w, n)
    /\ s = "attempts" => \A v \in w : v.key = t => v.id \in n

LadderTypes ==
    /\ now \in Times /\ attempted \in 0 .. MaxAttempts
    /\ buffer \in [Ateneas -> SUBSET Attempt] /\ wrote \subseteq Attempt
    /\ stage \in [Ateneas -> Stages] /\ DOMAIN call = Ateneas /\ holder \in Ateneas \cup {NoAtenea}
    /\ \A p \in Ateneas : Holds(p) <=> holder = p
(* Every attempt has an id of its own, in one buffer or written.           *)
IdsApart ==
    /\ \A v \in wrote : v.id <= attempted
    /\ \A p \in Ateneas : IsFiniteSet(buffer[p]) /\ \A m \in buffer[p] : m.id <= attempted /\ \A v \in wrote : m.id # v.id
    /\ \A p, q \in Ateneas : \A m \in buffer[p] : \A k \in buffer[q] : m.id = k.id => p = q /\ m = k
LadderInv ==
    /\ LadderTypes /\ IdsApart /\ Sound(db, wrote, named)
    /\ \A p \in Ateneas : Under(stage[p], call[p], tx, wrote, named)

LEMMA LadderStart == ASSUME LadderConstants PROVE LadderInit => LadderInv
  <1> SUFFICES ASSUME LadderInit PROVE LadderInv
    OBVIOUS
  <1>1. Min(Times) \in Times
    <2>1. PICK x \in Times : \A y \in Times : x <= y
      BY FirstNumber DEF LadderConstants
    <2> QED  BY <2>1 DEF Min
  <1>2. /\ now \in Times /\ attempted = 0 /\ buffer = [p \in Ateneas |-> {}] /\ holder = NoAtenea
        /\ stage = [p \in Ateneas |-> "idle"] /\ call = [p \in Ateneas |-> Never] /\ wrote = {} /\ named = {}
        /\ db = Empty
    BY <1>1 DEF LadderInit
  <1>3. LadderTypes
    BY <1>2, AttemptAssumption DEF LadderConstants, LadderTypes, Holds, Stages
  <1>4. IdsApart
    BY <1>2, FS_EmptySet DEF IdsApart
  <1>5. Sound(db, wrote, named)
    <2>1. db.measurement = {} /\ db.rollup = {} /\ DOMAIN db = {"measurement", "rollup", "lastRun"}
      BY <1>2 DEF Empty
    <2>2. Single({})
      BY FS_EmptySet DEF Single
    <2> QED  BY <1>2, <2>1, <2>2, FS_EmptySet DEF Sound, Listed, Keyed, Apart, Somewhere
  <1>6. \A p \in Ateneas : Under(stage[p], call[p], tx, wrote, named)
    BY <1>2 DEF Under, TxStages
  <1> QED  BY <1>3, <1>4, <1>5, <1>6 DEF LadderInv

(* One process moves: the others are where they were.                      *)
Moves(p, s) == stage' = [stage EXCEPT ![p] = s] /\ \/ call' = call
                                                   \/ \E t : call' = [call EXCEPT ![p] = t]
LEMMA TypesOn ==
    ASSUME LadderInv, LadderConstants, NEW p \in Ateneas, NEW s \in Stages, Moves(p, s), UNCHANGED <<now, attempted, wrote>>,
           buffer' = buffer,
           \/ holder' = holder /\ (Holds(p) <=> s \notin {"idle", "compacting", "flushed"})
           \/ holder' = NoAtenea /\ Holds(p) /\ s \in {"idle", "compacting", "flushed"}
           \/ holder' = p /\ holder = NoAtenea /\ s \notin {"idle", "compacting", "flushed"}
    PROVE  LadderTypes' /\ IdsApart'
  <1>1. stage' \in [Ateneas -> Stages] /\ DOMAIN call' = Ateneas
    BY DEF LadderInv, LadderTypes, Moves
  <1>2. stage'[p] = s /\ \A q \in Ateneas \ {p} : stage'[q] = stage[q]
    BY DEF LadderInv, LadderTypes, Moves
  <1>3. \A q \in Ateneas : Holds(q)' <=> holder' = q
    BY <1>2 DEF LadderInv, LadderTypes, Holds, LadderConstants
  <1>4. holder' \in Ateneas \cup {NoAtenea}
    BY DEF LadderInv, LadderTypes
  <1> QED  BY <1>1, <1>3, <1>4 DEF LadderInv, LadderTypes, IdsApart

LEMMA OthersOn ==
    ASSUME LadderInv, LadderConstants, NEW p \in Ateneas, NEW s \in Stages, Moves(p, s), wrote' = wrote, named' = named,
           tx' = tx \/ Holds(p) \/ holder = NoAtenea
    PROVE  \A q \in Ateneas \ {p} : Under(stage'[q], call'[q], tx', wrote', named')
  <1> TAKE q \in Ateneas \ {p}
  <1>1. stage'[q] = stage[q] /\ call'[q] = call[q]
    BY DEF LadderInv, LadderTypes, Moves
  <1>2. Under(stage[q], call[q], tx, wrote, named)
    BY DEF LadderInv
  <1>3. CASE tx' = tx
    BY <1>1, <1>2, <1>3
  <1>4. CASE Holds(p) \/ holder = NoAtenea
    <2>1. ~Holds(q)
      BY <1>4 DEF LadderInv, LadderTypes, LadderConstants
    <2>2. stage[q] \notin TxStages /\ stage[q] # "attempts"
      BY <2>1 DEF Holds, TxStages
    <2> QED  BY <1>1, <2>2 DEF Under
  <1> QED  BY <1>3, <1>4

(* A statement of the transaction, what the next is given, and the end.    *)
LEMMA StatementKeeps ==
    ASSUME LadderInv, LadderConstants, NEW p \in Ateneas, NEW from \in TxStages, NEW to \in TxStages, NEW d,
           Statement(p, from, to, d),
           Sound(Working(from, call[p], tx), wrote, named) => Sound(Working(to, call[p], d), wrote, named)
    PROVE  LadderInv'
  <1>1. /\ stage[p] = from /\ holder = p /\ tx' = d /\ stage' = [stage EXCEPT ![p] = to]
        /\ UNCHANGED <<now, attempted, buffer, db, holder, call, wrote, named>>
    BY DEF Statement, ghosts
  <1>2. Moves(p, to) /\ to \in Stages /\ to \notin {"idle", "compacting", "flushed"} /\ Holds(p)
    BY <1>1 DEF Moves, TxStages, Stages, Holds
  <1>3. LadderTypes' /\ IdsApart'
    BY <1>1, <1>2, TypesOn
  <1>4. \A q \in Ateneas \ {p} : Under(stage'[q], call'[q], tx', wrote', named')
    BY <1>1, <1>2, OthersOn
  <1>5. Under(stage'[p], call'[p], tx', wrote', named')
    <2>1. stage'[p] = to /\ to # "attempts"
      BY <1>1 DEF LadderInv, LadderTypes, TxStages
    <2>2. Sound(Working(from, call[p], tx), wrote, named)
      BY <1>1 DEF LadderInv, Under
    <2> QED  BY <1>1, <2>1, <2>2 DEF Under
  <1>6. Sound(db', wrote', named')
    BY <1>1 DEF LadderInv
  <1> QED  BY <1>3, <1>4, <1>5, <1>6 DEF LadderInv

LEMMA PassKeeps ==
    ASSUME LadderInv, LadderConstants, NEW p \in Ateneas,
           Due(p) \/ Count(p) \/ MarkRows(p) \/ Prune(p) \/ Ladder(p) \/ Stamp(p)
    PROVE  LadderInv'
  <1>1. CASE Due(p)
    BY <1>1, StatementKeeps DEF Due, TxStages, Working
  <1>2. CASE Count(p)
    <2>1. PICK d : d = FoldAttempts(tx, ClosedHour(p))
      OBVIOUS
    <2>2. Statement(p, "due", "counted", d)
      BY <1>2, <2>1 DEF Count
    <2>3. Working("counted", call[p], d) = MarkFolded(FoldAttempts(tx, ClosedHour(p)), ClosedHour(p))
      BY <2>1 DEF Working, ClosedHour
    <2>4. Working("due", call[p], tx) = tx
      BY DEF Working
    <2>5. Sound(tx, wrote, named) => Sound(Working("counted", call[p], d), wrote, named)
      BY <2>3, FoldMarkKeeps
    <2> QED  BY <2>2, <2>4, <2>5, StatementKeeps DEF TxStages
  <1>3. CASE MarkRows(p)
    <2>1. PICK d : d = MarkFolded(tx, ClosedHour(p))
      OBVIOUS
    <2>2. Statement(p, "counted", "marked", d)
      BY <1>3, <2>1 DEF MarkRows
    <2>3. Working("counted", call[p], tx) = d /\ Working("marked", call[p], d) = d
      BY <2>1 DEF Working, ClosedHour
    <2> QED  BY <2>2, <2>3, StatementKeeps DEF TxStages
  <1>4. CASE Prune(p)
    <2>1. PICK d : d = PruneAttempts(tx, call[p] - Retention["attempts"])
      OBVIOUS
    <2>2. Statement(p, "marked", "hours", d)
      BY <1>4, <2>1 DEF Prune
    <2>3. Working("marked", call[p], tx) = tx /\ Working("hours", call[p], d) = d
      BY DEF Working
    <2>4. Sound(tx, wrote, named) => Sound(d, wrote, named)
      BY <2>1, PruneKeeps
    <2> QED  BY <2>2, <2>3, <2>4, StatementKeeps DEF TxStages
  <1>5. ASSUME NEW from \in TxStages, NEW to \in TxStages, from # "counted", to # "counted", NEW g, NEW h, g # h, NEW c,
               Statement(p, from, to, Promote(tx, g, h, c))
        PROVE  LadderInv'
    <2>1. PICK d : d = Promote(tx, g, h, c)
      OBVIOUS
    <2>2. Statement(p, from, to, d)
      BY <1>5, <2>1
    <2>3. Working(from, call[p], tx) = tx /\ Working(to, call[p], d) = d
      BY <1>5 DEF Working
    <2>4. Sound(tx, wrote, named) => Sound(d, wrote, named)
      BY <1>5, <2>1, PromoteKeeps
    <2> QED  BY <2>2, <2>3, <2>4, StatementKeeps
  <1>6. CASE Ladder(p)
    BY <1>5, <1>6 DEF Ladder, TxStages
  <1>7. CASE Stamp(p)
    <2>1. PICK d : d = [tx EXCEPT !.lastRun = call[p]]
      OBVIOUS
    <2>2. Statement(p, "climbed", "stamped", d)
      BY <1>7, <2>1 DEF Stamp
    <2>3. Working("climbed", call[p], tx) = tx /\ Working("stamped", call[p], d) = d
      BY DEF Working
    <2>4. Sound(tx, wrote, named) => Sound(d, wrote, named)
      BY <2>1, StampKeeps
    <2> QED  BY <2>2, <2>3, <2>4, StatementKeeps DEF TxStages
  <1> QED  BY <1>1, <1>2, <1>3, <1>4, <1>6, <1>7

(* A process's call begins, goes on or ends; the tables stay.              *)
LEMMA CallKeeps ==
    ASSUME LadderInv, LadderConstants, NEW p \in Ateneas, NEW s \in Stages, Moves(p, s),
           UNCHANGED <<now, attempted, buffer, db, wrote, named>>,
           \/ holder' = holder /\ tx' = tx /\ ~Holds(p) /\ s \in {"idle", "compacting", "flushed"}
           \/ holder' = NoAtenea /\ Holds(p) /\ s \in {"idle", "compacting", "flushed"}
           \/ holder' = p /\ holder = NoAtenea /\ s = "begun" /\ tx' = db
           \/ holder' = p /\ holder = NoAtenea /\ s = "clearing" /\ tx' = tx
    PROVE  LadderInv'
  <1>1. LadderTypes' /\ IdsApart'
    BY TypesOn
  <1>2. \A q \in Ateneas \ {p} : Under(stage'[q], call'[q], tx', wrote', named')
    BY OthersOn
  <1>3. stage'[p] = s
    BY DEF LadderInv, LadderTypes, Moves
  <1>4. Under(stage'[p], call'[p], tx', wrote', named')
    <2>1. CASE s # "begun"
      BY <1>3, <2>1 DEF Under, TxStages
    <2>2. CASE s = "begun"
      BY <1>3, <2>2 DEF LadderInv, Under, Working
    <2> QED  BY <2>1, <2>2
  <1> QED  BY <1>1, <1>2, <1>4 DEF LadderInv

LEMMA TickKeeps == ASSUME LadderInv, Tick PROVE LadderInv'
  <1>1. now' \in Times /\ UNCHANGED <<attempted, buffer, db, holder, tx, stage, call, wrote, named>>
    BY DEF Tick, ghosts
  <1>2. LadderTypes'
    BY <1>1 DEF LadderInv, LadderTypes, Holds
  <1>3. IdsApart'
    BY <1>1 DEF LadderInv, IdsApart
  <1> QED  BY <1>1, <1>2, <1>3 DEF LadderInv

LEMMA RecordKeeps == ASSUME LadderInv, NEW p \in Ateneas, NEW key \in RowKeys, RecordAttempt(p, key) PROVE LadderInv'
  <1>1. PICK m : m = [id |-> attempted + 1, at |-> now, key |-> key]
    OBVIOUS
  <1>2. PICK b : b = buffer[p] \cup {m}
    OBVIOUS
  <1>3. /\ attempted < MaxAttempts /\ attempted' = attempted + 1 /\ buffer' = [buffer EXCEPT ![p] = b]
        /\ UNCHANGED <<now, db, holder, tx, stage, call, wrote, named>>
    BY <1>1, <1>2 DEF RecordAttempt, ghosts
  <1>4. attempted \in 0 .. MaxAttempts /\ now \in Times /\ attempted' \in 0 .. MaxAttempts /\ attempted + 1 \in Ids
    BY <1>3, AttemptAssumption DEF LadderInv, LadderTypes, Ids
  <1>5. m \in Attempt /\ m.id = attempted + 1
    BY <1>1, <1>4 DEF Attempt
  <1>6. buffer' \in [Ateneas -> SUBSET Attempt] /\ buffer'[p] = b /\ \A q \in Ateneas \ {p} : buffer'[q] = buffer[q]
    BY <1>2, <1>3, <1>5 DEF LadderInv, LadderTypes
  <1>7. LadderTypes'
    BY <1>3, <1>4, <1>6 DEF LadderInv, LadderTypes, Holds
  <1>8. \A k : k.id \in Nat /\ k.id <= attempted => k.id # m.id /\ k.id <= attempted'
    BY <1>3, <1>4, <1>5
  <1>9. (\A v \in wrote : v.id \in Nat) /\ \A q \in Ateneas : \A k \in buffer[q] : k.id \in Nat
    BY DEF LadderInv, LadderTypes, Attempt, Ids
  <1>10. IsFiniteSet(b)
    BY <1>2, FS_AddElement DEF LadderInv, IdsApart
  <1>11. \A q \in Ateneas : \A k \in buffer'[q] : (k \in buffer[q] /\ k.id # m.id) \/ (q = p /\ k = m)
    BY <1>2, <1>6, <1>8, <1>9 DEF LadderInv, IdsApart
  <1>12. IdsApart'
    <2>1. \A v \in wrote' : v.id <= attempted'
      BY <1>3, <1>8, <1>9 DEF LadderInv, IdsApart
    <2>2. ASSUME NEW q \in Ateneas
          PROVE  IsFiniteSet(buffer'[q]) /\ \A k \in buffer'[q] : k.id <= attempted' /\ \A v \in wrote' : k.id # v.id
      <3>1. IsFiniteSet(buffer'[q])
        BY <1>6, <1>10 DEF LadderInv, IdsApart
      <3>2. ASSUME NEW k \in buffer[q] PROVE k.id <= attempted' /\ \A v \in wrote' : k.id # v.id
        BY <1>3, <1>8, <1>9 DEF LadderInv, IdsApart
      <3>3. m.id <= attempted' /\ \A v \in wrote' : m.id # v.id
        BY <1>3, <1>4, <1>5, <1>8, <1>9 DEF LadderInv, IdsApart
      <3> QED  BY <1>11, <3>1, <3>2, <3>3
    <2>3. ASSUME NEW q \in Ateneas, NEW r \in Ateneas, NEW k \in buffer'[q], NEW l \in buffer'[r], k.id = l.id PROVE q = r /\ k = l
      BY <1>11, <2>3 DEF LadderInv, IdsApart
    <2> QED  BY <2>1, <2>2, <2>3 DEF IdsApart
  <1> QED  BY <1>3, <1>7, <1>12 DEF LadderInv

(* The beat, and the flush of a pass.                                      *)
LEMMA WrittenIs ==
    ASSUME LadderInv, LadderConstants, NEW p \in Ateneas, Written(p), NEW s \in {"idle", "flushed"}, ~Holds(p),
           stage' = [stage EXCEPT ![p] = s]
    PROVE  LadderInv'
  <1>1. PICK b : b = buffer[p]
    OBVIOUS
  <1>2. /\ b # {} => holder = NoAtenea
        /\ db' = [db EXCEPT !.measurement = @ \cup FiledOf(b)]
        /\ wrote' = wrote \cup b /\ buffer' = [buffer EXCEPT ![p] = {}]
        /\ UNCHANGED <<now, attempted, holder, tx, call, named>>
    BY <1>1 DEF Written, FiledOf, FiledRow
  <1>3. b \subseteq Attempt /\ IsFiniteSet(b) /\ (\A m, k \in b : m.id = k.id => m = k) /\ \A m \in b : \A v \in wrote : m.id # v.id
    BY <1>1 DEF LadderInv, LadderTypes, IdsApart
  <1>4. Sound(db', wrote', named')
    BY <1>2, <1>3, WrittenKeeps DEF LadderInv
  <1>5. stage' \in [Ateneas -> Stages] /\ stage'[p] = s /\ \A q \in Ateneas \ {p} : stage'[q] = stage[q]
    BY DEF LadderInv, LadderTypes, Stages
  <1>6. \A q \in Ateneas : Holds(q)' <=> Holds(q)
    BY <1>5 DEF Holds
  <1>7. buffer' \in [Ateneas -> SUBSET Attempt] /\ buffer'[p] = {} /\ \A q \in Ateneas \ {p} : buffer'[q] = buffer[q]
    BY <1>2 DEF LadderInv, LadderTypes
  <1>8. LadderTypes'
    BY <1>2, <1>3, <1>5, <1>6, <1>7 DEF LadderInv, LadderTypes
  <1>9. IdsApart'
    <2>1. \A v \in wrote' : v.id <= attempted'
      BY <1>1, <1>2 DEF LadderInv, IdsApart
    <2>2. \A q \in Ateneas : buffer'[q] \subseteq buffer[q] /\ (buffer'[q] = {} \/ q # p)
      BY <1>7
    <2>3. \A q \in Ateneas : IsFiniteSet(buffer'[q])
      BY <1>7, FS_EmptySet DEF LadderInv, IdsApart
    <2>4. ASSUME NEW q \in Ateneas, NEW m \in buffer'[q] PROVE m.id <= attempted' /\ \A v \in wrote' : m.id # v.id
      <3>1. m \in buffer[q] /\ q # p
        BY <2>2
      <3>2. m.id <= attempted' /\ (\A v \in wrote : m.id # v.id) /\ \A v \in b : m.id # v.id
        BY <1>1, <1>2, <3>1 DEF LadderInv, IdsApart
      <3> QED  BY <1>2, <3>2
    <2>5. \A q, r \in Ateneas : \A m \in buffer'[q] : \A k \in buffer'[r] : m.id = k.id => q = r /\ m = k
      BY <2>2 DEF LadderInv, IdsApart
    <2> QED  BY <2>1, <2>3, <2>4, <2>5 DEF IdsApart
  <1>10. \A q \in Ateneas : Under(stage'[q], call'[q], tx', wrote', named')
    <2> TAKE q \in Ateneas
    <2>1. CASE q = p
      BY <1>5, <2>1 DEF Under, TxStages
    <2>2. CASE q # p /\ b = {}
      <3>1. wrote' = wrote
        BY <1>2, <2>2
      <3> QED  BY <1>2, <1>5, <2>2, <3>1 DEF LadderInv
    <2>3. CASE q # p /\ b # {}
      <3>1. ~Holds(q)
        BY <1>2, <2>3 DEF LadderInv, LadderTypes, LadderConstants
      <3>2. stage[q] \notin TxStages /\ stage[q] # "attempts"
        BY <3>1 DEF Holds, TxStages
      <3> QED  BY <1>5, <2>3, <3>2 DEF Under
    <2> QED  BY <2>1, <2>2, <2>3
  <1> QED  BY <1>4, <1>8, <1>9, <1>10 DEF LadderInv

(* Less in a buffer is as apart as before.                                 *)
LEMMA BufferShrinks ==
    ASSUME LadderInv, LadderConstants, NEW p \in Ateneas, Moves(p, "idle"), UNCHANGED <<now, attempted, db, wrote, named>>,
           \/ holder' = holder /\ tx' = tx /\ ~Holds(p)
           \/ holder' = NoAtenea /\ Holds(p),
           NEW b, b \subseteq buffer[p], buffer' = [buffer EXCEPT ![p] = b]
    PROVE  LadderInv'
  <1>1. stage' \in [Ateneas -> Stages] /\ DOMAIN call' = Ateneas /\ stage'[p] = "idle" /\ \A q \in Ateneas \ {p} : stage'[q] = stage[q]
    BY DEF LadderInv, LadderTypes, Moves, Stages
  <1>2. \A q \in Ateneas : Holds(q)' <=> holder' = q
    BY <1>1 DEF LadderInv, LadderTypes, Holds, LadderConstants
  <1>3. buffer' \in [Ateneas -> SUBSET Attempt] /\ \A q \in Ateneas : buffer'[q] \subseteq buffer[q]
    BY DEF LadderInv, LadderTypes
  <1>4. LadderTypes'
    BY <1>1, <1>2, <1>3 DEF LadderInv, LadderTypes
  <1>5. \A q \in Ateneas : IsFiniteSet(buffer'[q])
    BY <1>3, FS_Subset DEF LadderInv, IdsApart
  <1>6. IdsApart'
    BY <1>3, <1>5 DEF LadderInv, IdsApart
  <1>7. \A q \in Ateneas \ {p} : Under(stage'[q], call'[q], tx', wrote', named')
    BY OthersOn DEF Stages
  <1>8. Under(stage'[p], call'[p], tx', wrote', named')
    BY <1>1 DEF Under, TxStages
  <1> QED  BY <1>4, <1>6, <1>7, <1>8 DEF LadderInv

LEMMA CommitKeeps == ASSUME LadderInv, LadderConstants, NEW p \in Ateneas, Commit(p) PROVE LadderInv'
  <1>1. /\ stage[p] = "stamped" /\ holder = p /\ db' = tx /\ holder' = NoAtenea /\ Moves(p, "idle")
        /\ UNCHANGED <<now, attempted, buffer, wrote, named>>
    BY DEF Commit, Release, ghosts, Moves
  <1>2. Sound(tx, wrote, named)
    BY <1>1 DEF LadderInv, Under, TxStages, Working
  <1>3. Holds(p)
    BY <1>1 DEF Holds
  <1>4. LadderTypes' /\ IdsApart'
    BY <1>1, <1>3, TypesOn DEF Stages
  <1>5. \A q \in Ateneas \ {p} : Under(stage'[q], call'[q], tx', wrote', named')
    BY <1>1, <1>3, OthersOn DEF Stages
  <1>6. Under(stage'[p], call'[p], tx', wrote', named')
    BY <1>1 DEF LadderInv, LadderTypes, Moves, Under, TxStages
  <1> QED  BY <1>1, <1>2, <1>4, <1>5, <1>6 DEF LadderInv

LEMMA ClearKeeps ==
    ASSUME LadderInv, LadderConstants, NEW p \in Ateneas, ClearMeasurements(p) \/ ClearRollups(p)
    PROVE  LadderInv'
  <1>1. PICK s \in {"attempts", "rollups"} :
            /\ stage' = [stage EXCEPT ![p] = s] /\ UNCHANGED <<now, attempted, buffer, holder, tx, call, wrote>>
            /\ \/ s = "attempts" /\ ClearMeasurements(p)
               \/ s = "rollups" /\ ClearRollups(p)
    BY DEF ClearMeasurements, ClearRollups, ghosts
  <1>2. Holds(p)
    BY DEF ClearMeasurements, ClearRollups, Holds
  <1>3. s \in Stages /\ Moves(p, s) /\ s \notin {"idle", "compacting", "flushed"} /\ s \notin TxStages /\ stage'[p] = s
    BY <1>1 DEF Stages, Moves, TxStages, LadderInv, LadderTypes
  <1>4. LadderTypes' /\ IdsApart'
    BY <1>1, <1>2, <1>3, TypesOn
  <1>5. \A q \in Ateneas \ {p} : stage'[q] = stage[q] /\ stage[q] \notin TxStages /\ stage[q] # "attempts"
    <2> TAKE q \in Ateneas \ {p}
    <2>1. ~Holds(q)
      BY <1>2 DEF LadderInv, LadderTypes
    <2> QED  BY <1>1, <2>1 DEF Holds, TxStages, LadderInv, LadderTypes
  <1>6. \A q \in Ateneas \ {p} : Under(stage'[q], call'[q], tx', wrote', named')
    BY <1>5 DEF Under
  <1>7. CASE s = "attempts"
    <2>1. db' = Bare(db, call[p]) /\ named' = named \cup NamedBy(wrote, call[p])
      BY <1>1, <1>7 DEF ClearMeasurements, Bare, NamedBy
    <2>2. Sound(db', wrote, named') /\ \A v \in wrote : v.key = call[p] => v.id \in named'
      BY <2>1, ClearedAttemptsKeep DEF LadderInv
    <2> QED  BY <1>1, <1>3, <1>4, <1>6, <1>7, <2>2 DEF LadderInv, Under
  <1>8. CASE s = "rollups"
    <2>1. stage[p] = "attempts" /\ db' = [db EXCEPT !.rollup = {x \in @ : x.key # call[p]}] /\ named' = named
      BY <1>1, <1>8 DEF ClearRollups, ghosts
    <2>2. \A v \in wrote : v.key = call[p] => v.id \in named
      BY <2>1 DEF LadderInv, Under
    <2>3. Sound(db', wrote, named)
      BY <2>1, <2>2, ClearedRollupsKeep DEF LadderInv
    <2> QED  BY <1>1, <1>3, <1>4, <1>6, <1>8, <2>1, <2>3 DEF LadderInv, Under
  <1> QED  BY <1>1, <1>7, <1>8

LEMMA LadderStep == ASSUME LadderConstants PROVE LadderInv /\ [LadderNext]_ladderVars => LadderInv'
  <1> SUFFICES ASSUME LadderInv, [LadderNext]_ladderVars PROVE LadderInv'
    OBVIOUS
  <1>1. CASE UNCHANGED ladderVars
    BY <1>1 DEF ladderVars, LadderInv, LadderTypes, IdsApart, Holds
  <1>2. CASE Tick
    BY <1>2, TickKeeps
  <1>3. ASSUME NEW p \in Ateneas, NEW key \in RowKeys, RecordAttempt(p, key) PROVE LadderInv'
    BY <1>3, RecordKeeps
  <1>4. ASSUME NEW p \in Ateneas, NEW key \in RowKeys, Clear(p, key) PROVE LadderInv'
    <2>1. /\ Moves(p, "clearing") /\ holder = NoAtenea /\ holder' = p /\ tx' = tx
          /\ UNCHANGED <<now, attempted, buffer, db, wrote, named>>
      BY <1>4 DEF Clear, ghosts, Moves
    <2> QED  BY <2>1, CallKeeps DEF Stages
  <1>5. ASSUME NEW p \in Ateneas, Beat(p) PROVE LadderInv'
    <2>1. Written(p) /\ ~Holds(p) /\ stage' = stage /\ stage[p] = "idle"
      BY <1>5 DEF Beat, Holds
    <2>2. stage' = [stage EXCEPT ![p] = "idle"]
      BY <2>1 DEF LadderInv, LadderTypes
    <2> QED  BY <2>1, <2>2, WrittenIs
  <1>6. ASSUME NEW p \in Ateneas, Flush(p) PROVE LadderInv'
    BY <1>6, WrittenIs DEF Flush, Holds
  <1>7. ASSUME NEW p \in Ateneas, CompactIfDue(p) \/ Begin(p) \/ NotDue(p) PROVE LadderInv'
    <2>1. CASE CompactIfDue(p)
      <3>1. /\ Moves(p, "compacting") /\ ~Holds(p) /\ holder' = holder /\ tx' = tx
            /\ UNCHANGED <<now, attempted, buffer, db, wrote, named>>
        BY <2>1 DEF CompactIfDue, ghosts, Moves, Holds
      <3> QED  BY <3>1, CallKeeps DEF Stages
    <2>2. CASE Begin(p)
      <3>1. /\ Moves(p, "begun") /\ holder = NoAtenea /\ holder' = p /\ tx' = db
            /\ UNCHANGED <<now, attempted, buffer, db, wrote, named>>
        BY <2>2 DEF Begin, ghosts, Moves
      <3> QED  BY <3>1, CallKeeps DEF Stages
    <2>3. CASE NotDue(p)
      <3>1. /\ Moves(p, "idle") /\ Holds(p) /\ holder' = NoAtenea
            /\ UNCHANGED <<now, attempted, buffer, db, wrote, named>>
        BY <2>3 DEF NotDue, Release, ghosts, Moves, Holds
      <3> QED  BY <3>1, CallKeeps DEF Stages
    <2> QED  BY <1>7, <2>1, <2>2, <2>3
  <1>8. ASSUME NEW p \in Ateneas, Commit(p) PROVE LadderInv'
    BY <1>8, CommitKeeps
  <1>9. ASSUME NEW p \in Ateneas, Compact(p) PROVE LadderInv'
    BY <1>6, <1>7, <1>8, <1>9, PassKeeps DEF Compact
  <1>10. ASSUME NEW p \in Ateneas, ClearMeasurements(p) \/ ClearRollups(p) PROVE LadderInv'
    BY <1>10, ClearKeeps
  <1>11. ASSUME NEW p \in Ateneas, ClearBuffered(p) PROVE LadderInv'
    <2>1. PICK b : b = {m \in buffer[p] : m.key # call[p]}
      OBVIOUS
    <2>2. /\ Moves(p, "idle") /\ Holds(p) /\ holder' = NoAtenea /\ b \subseteq buffer[p]
          /\ buffer' = [buffer EXCEPT ![p] = b] /\ UNCHANGED <<now, attempted, db, wrote, named>>
      BY <1>11, <2>1 DEF ClearBuffered, Release, ghosts, Moves, Holds
    <2> QED  BY <2>2, BufferShrinks
  <1>12. ASSUME NEW p \in Ateneas, Fail(p) PROVE LadderInv'
    <2>1. /\ Moves(p, "idle") /\ UNCHANGED <<now, attempted, buffer, db, wrote, named>>
          /\ \/ holder' = holder /\ tx' = tx /\ ~Holds(p)
             \/ holder' = NoAtenea /\ Holds(p)
      BY <1>12 DEF Fail, ghosts, Moves
    <2> QED  BY <2>1, CallKeeps DEF Stages
  <1>13. ASSUME NEW p \in Ateneas, Crash(p) PROVE LadderInv'
    <2>1. PICK b : b = {}
      OBVIOUS
    <2>2. b \subseteq buffer[p]
      BY <2>1
    <2>3. /\ Moves(p, "idle") /\ buffer' = [buffer EXCEPT ![p] = b] /\ UNCHANGED <<now, attempted, db, wrote, named>>
          /\ \/ holder' = holder /\ tx' = tx /\ ~Holds(p)
             \/ holder' = NoAtenea /\ Holds(p)
      BY <1>13, <2>1 DEF Crash, ghosts, Moves
    <2> QED  BY <2>2, <2>3, BufferShrinks
  <1> QED  BY <1>1, <1>2, <1>3, <1>4, <1>5, <1>9, <1>10, <1>11, <1>12, <1>13 DEF LadderNext

LEMMA LadderCounts == LadderInv => CountedOnce
  BY SoundCounts DEF LadderInv, CountedOnce

(* CompactIfDue, foldAttempts, mergeRollup, promote, Clear: for every       *)
(* number of Ateneas, recordings and ages, whatever fails or crashes when, *)
(* each attempt written is counted once over the attempts not yet folded   *)
(* and the rollups of every grain; one a Clear named, at most once.        *)
THEOREM CountedOnceHolds == LadderSpec => []CountedOnce
  <1>1. LadderInit => LadderInv
    BY LadderStart, LadderAssumptions
  <1>2. LadderInv /\ [LadderNext]_ladderVars => LadderInv'
    BY LadderStep, LadderAssumptions
  <1> QED  BY <1>1, <1>2, LadderCounts, PTL DEF LadderSpec

-----------------------------------------------------------------------------
(* The rows of the ladder, each in its bucket.                             *)

(* The arithmetic of date_trunc.                                           *)
Multiple(a, s) == \E q \in Int : a = s * q

LEMMA Steps ==
    ASSUME NEW q \in Int, NEW r \in Int, NEW s \in Nat \ {0}
    PROVE  /\ s * q \in Int /\ s * r \in Int
           /\ q < r => s * q + s <= s * r
           /\ s * q < s * r => q < r
           /\ s * q < s * r + s => q <= r
           /\ q <= r => s * q <= s * r
  <1>1. s * q \in Int /\ s * r \in Int
    OBVIOUS
  <1>2. ASSUME NEW a \in Int, NEW b \in Int, a < b PROVE s * a + s <= s * b
    <2>1. PICK k : k = b - a - 1
      OBVIOUS
    <2>2. k \in Nat /\ b = a + 1 + k
      BY <1>2, <2>1
    <2>3. s * b = s * a + s + s * k
      BY <2>2
    <2>4. s * k \in Nat /\ s * a \in Int /\ s * b \in Int
      BY <2>2
    <2> QED  BY <2>3, <2>4
  <1>3. q < r => s * q + s <= s * r
    BY <1>2
  <1>4. r < q => s * r + s <= s * q
    BY <1>2
  <1>5. q = r => s * q = s * r
    OBVIOUS
  <1> HIDE DEF Multiple
  <1> QED  BY <1>1, <1>3, <1>4, <1>5

LEMMA TruncIs ==
    ASSUME NEW grain, Span[grain] \in Nat \ {0}, NEW a \in Int, NEW t, t = Trunc(grain, a)
    PROVE  t \in Int /\ t <= a /\ a < t + Span[grain] /\ Multiple(t, Span[grain])
  <1>1. PICK s \in Nat \ {0} : s = Span[grain]
    OBVIOUS
  <1>2. a % s \in 0 .. s - 1
    OBVIOUS
  <1>3. a \div s \in Int
    OBVIOUS
  <1>4. a = (s * (a \div s)) + (a % s)
    OBVIOUS
  <1>5. t = a - (a % s)
    BY <1>1 DEF Trunc
  <1>6. t = s * (a \div s)
    BY <1>2, <1>3, <1>4, <1>5
  <1>7. Multiple(t, s)
    BY <1>3, <1>6 DEF Multiple
  <1>8. t \in Int /\ t <= a /\ a < t + s
    BY <1>2, <1>5
  <1> QED  BY <1>1, <1>7, <1>8

LEMMA DividesIs ==
    ASSUME NEW a \in Nat, NEW s \in Nat \ {0}, a % s = 0
    PROVE  Multiple(a, s)
  <1>1. a \div s \in Int
    OBVIOUS
  <1>2. a = (s * (a \div s)) + (a % s)
    OBVIOUS
  <1>3. a = s * (a \div s)
    BY <1>1, <1>2
  <1> QED  BY <1>1, <1>3 DEF Multiple

(* A later instant is in no earlier bucket.                                *)
LEMMA TruncGrows ==
    ASSUME NEW grain, Span[grain] \in Nat \ {0}, NEW a \in Int, NEW b \in Int, a <= b
    PROVE  Trunc(grain, a) <= Trunc(grain, b)
  <1>1. PICK s \in Nat \ {0} : s = Span[grain]
    OBVIOUS
  <1>2. PICK t : t = Trunc(grain, a)
    OBVIOUS
  <1>3. PICK u : u = Trunc(grain, b)
    OBVIOUS
  <1>4. t \in Int /\ t <= a /\ Multiple(t, s)
    BY <1>1, <1>2, TruncIs
  <1>5. u \in Int /\ b < u + s /\ Multiple(u, s)
    BY <1>1, <1>3, TruncIs
  <1>6. PICK q \in Int : t = s * q
    BY <1>4 DEF Multiple
  <1>7. PICK r \in Int : u = s * r
    BY <1>5 DEF Multiple
  <1>8. s * q < s * r + s
    BY <1>4, <1>5, <1>6, <1>7
  <1>9. q <= r
    BY <1>8, Steps
  <1>10. s * q <= s * r
    BY <1>9, Steps
  <1> QED  BY <1>2, <1>3, <1>6, <1>7, <1>10

(* A bucket that begins in a longer one, of so many of its length, ends in *)
(* it.                                                                     *)
LEMMA EndsWithin ==
    ASSUME NEW s \in Nat \ {0}, NEW long \in Nat \ {0}, Multiple(long, s),
           NEW b \in Int, Multiple(b, s), NEW t \in Int, Multiple(t, long), b < t + long
    PROVE  b + s <= t + long
  <1>1. PICK k \in Int : long = s * k
    BY DEF Multiple
  <1>2. PICK q \in Int : b = s * q
    BY DEF Multiple
  <1>3. PICK r \in Int : t = long * r
    BY DEF Multiple
  <1>4. PICK m : m = k * r + k
    OBVIOUS
  <1>5. m \in Int
    BY <1>4
  <1>6. t + long = s * m
    <2>1. k * r \in Int
      OBVIOUS
    <2>2. t = s * (k * r)
      BY <1>1, <1>3
    <2>3. s * m = s * (k * r) + s * k
      BY <1>4, <2>1
    <2> QED  BY <1>1, <2>2, <2>3
  <1>7. q < m
    BY <1>2, <1>5, <1>6, Steps
  <1>8. s * q + s <= s * m
    BY <1>5, <1>7, Steps
  <1> QED  BY <1>2, <1>6, <1>8

(* What the rows promise takes of the constants.                           *)
RowsConstants ==
    /\ LadderConstants
    /\ Span \in [Grains -> Nat \ {0}]
    /\ Span["day"] % Span["hour"] = 0 /\ Span["week"] % Span["day"] = 0
    /\ Retention \in [{"attempts", "hour", "day", "week"} -> Nat]
    /\ Every \in Nat \ {0}

LEMMA RowsAssumptions == RowsConstants
  BY LadderAssumptions, SpanAssumption, RetentionAssumption DEF RowsConstants, Grains

(* A row counts only what happened in its bucket and before lim, something *)
(* at least, and its last_seen is the newest of that.                      *)
Own(x, s, w, lim) ==
    /\ x.bucket \in Int /\ Multiple(x.bucket, s)
    /\ \A v \in w : x.attempts[v.id] = 1 =>
        /\ x.bucket <= v.at /\ v.at < lim /\ v.at <= x.lastSeen
        /\ x.grain # "month" => v.at < x.bucket + s
    /\ \E v \in w : x.attempts[v.id] = 1 /\ x.lastSeen = v.at
RowsRight(rows, w, lim) ==
    /\ Distinct(rows)
    /\ \A x \in rows : x.grain \in Grains /\ Own(x, Span[x.grain], w, lim)
Dated(w) == \A v \in w : v.id \in Ids /\ v.at \in Nat

(* The maximum of last_seen is that of one of the rows.                    *)
LEMMA FoldSeen ==
    ASSUME NEW rows, rows # {}, NEW lim \in Int, \A x \in rows : x.lastSeen \in Nat /\ x.lastSeen < lim,
           NEW g, NEW b, NEW k, NEW z, z = Fold(g, b, k, rows)
    PROVE  (\E x \in rows : z.lastSeen = x.lastSeen) /\ \A x \in rows : x.lastSeen <= z.lastSeen
  <1>1. PICK N : N = {lim - x.lastSeen : x \in rows}
    OBVIOUS
  <1>2. N \in SUBSET Nat /\ N # {}
    BY <1>1
  <1>3. PICK i \in N : \A j \in N : i <= j
    BY <1>2, FirstNumber
  <1>4. PICK y \in rows : i = lim - y.lastSeen
    BY <1>1, <1>3
  <1>5. ASSUME NEW x \in rows PROVE x.lastSeen <= y.lastSeen
    <2>1. lim - x.lastSeen \in N
      BY <1>1
    <2>2. lim - y.lastSeen <= lim - x.lastSeen
      BY <1>3, <1>4, <2>1
    <2>3. x.lastSeen \in Nat /\ y.lastSeen \in Nat
      OBVIOUS
    <2> QED  BY <2>2, <2>3
  <1>6. PICK S : S = {x.lastSeen : x \in rows}
    OBVIOUS
  <1>7. z.lastSeen = Max(S)
    BY <1>6 DEF Fold
  <1>8. y.lastSeen \in S /\ \A t \in S : y.lastSeen >= t
    BY <1>5, <1>6
  <1>9. Max(S) \in S /\ \A t \in S : Max(S) >= t
    BY <1>8 DEF Max
  <1> QED  BY <1>6, <1>7, <1>9

(* One row made of several that have their own has its own, when its       *)
(* bucket begins with or before theirs and ends with or after them.        *)
LEMMA FoldOwn ==
    ASSUME NEW rows, Single(rows), rows # {}, NEW w, Dated(w), NEW lim \in Int, NEW s \in Nat, NEW long \in Nat,
           \A x \in rows : Own(x, s, w, lim),
           NEW g, NEW b \in Int, Multiple(b, long), NEW k,
           \A x \in rows : b <= x.bucket /\ (g # "month" => x.grain # "month" /\ x.bucket + s <= b + long),
           NEW z, z = Fold(g, b, k, rows)
    PROVE  Own(z, long, w, lim)
  <1>1. /\ z.grain = g /\ z.bucket = b
        /\ \A i \in Ids : z.attempts[i] = 1 <=> Counting(rows, i)
    BY FoldIs
  <1>2. \A x \in rows : x.lastSeen \in Nat /\ x.lastSeen < lim
    BY DEF Own, Dated
  <1>3. (\E x \in rows : z.lastSeen = x.lastSeen) /\ \A x \in rows : x.lastSeen <= z.lastSeen
    BY <1>2, FoldSeen
  <1>4. PICK top \in rows : z.lastSeen = top.lastSeen
    BY <1>3
  <1>5. \E v \in w : z.attempts[v.id] = 1 /\ z.lastSeen = v.at
    <2>1. PICK v \in w : top.attempts[v.id] = 1 /\ top.lastSeen = v.at
      BY DEF Own
    <2>2. z.attempts[v.id] = 1
      BY <1>1, <2>1 DEF Counting, Dated
    <2> QED  BY <1>4, <2>1, <2>2
  <1>6. ASSUME NEW v \in w, z.attempts[v.id] = 1
        PROVE  /\ b <= v.at /\ v.at < lim /\ v.at <= z.lastSeen
               /\ g # "month" => v.at < b + long
    <2>1. PICK x \in rows : x.attempts[v.id] = 1
      BY <1>1, <1>6 DEF Counting, Dated
    <2>2. /\ x.bucket \in Int /\ v.at \in Nat /\ x.bucket <= v.at /\ v.at < lim /\ v.at <= x.lastSeen
          /\ x.grain # "month" => v.at < x.bucket + s
      BY <2>1 DEF Own, Dated
    <2>3. x.lastSeen \in Nat /\ x.lastSeen <= z.lastSeen /\ z.lastSeen \in Nat
      BY <1>2, <1>3, <1>4
    <2>4. b <= x.bucket /\ (g # "month" => x.grain # "month" /\ x.bucket + s <= b + long)
      OBVIOUS
    <2> QED  BY <2>2, <2>3, <2>4
  <1> QED  BY <1>1, <1>5, <1>6 DEF Own

(* GROUP BY a longer bucket.                                               *)
LEMMA GroupedOwn ==
    ASSUME RowsConstants, NEW parts, Single(parts), NEW w, Dated(w), NEW lim \in Int, NEW s \in Nat \ {0},
           NEW grain \in Grains, grain # "month" => Multiple(Span[grain], s),
           \A x \in parts : x.grain # "month" /\ Own(x, s, w, lim),
           NEW G, G = Grouped(grain, parts)
    PROVE  \A y \in G : y.grain = grain /\ Own(y, Span[grain], w, lim)
  <1> DEFINE place(x) == <<Trunc(grain, x.bucket), x.key>>
             of(q) == {x \in parts : place(x) = q}
             row(q) == Fold(grain, q[1], q[2], of(q))
             places == {place(x) : x \in parts}
  <1>1. G = {row(q) : q \in places}
    BY DEF Grouped
  <1>2. Span[grain] \in Nat \ {0}
    BY DEF RowsConstants
  <1>3. ASSUME NEW q \in places PROVE row(q).grain = grain /\ Own(row(q), Span[grain], w, lim)
    <2>1. PICK rows : rows = of(q)
      OBVIOUS
    <2>2. rows \subseteq parts /\ rows # {}
      BY <2>1
    <2>3. Single(rows)
      <3>1. IsFiniteSet(rows)
        BY <2>2, FS_Subset DEF Single
      <3> QED  BY <2>2, <3>1 DEF Single
    <2>4. \A x \in rows : x.bucket \in Int /\ q[1] = Trunc(grain, x.bucket)
      BY <2>1 DEF Own
    <2>5. q[1] \in Int /\ Multiple(q[1], Span[grain])
      BY <1>2, <2>2, <2>4, TruncIs
    <2>6. ASSUME NEW x \in rows
          PROVE  q[1] <= x.bucket /\ (grain # "month" => x.grain # "month" /\ x.bucket + s <= q[1] + Span[grain])
      <3>1. q[1] <= x.bucket /\ x.bucket < q[1] + Span[grain]
        BY <1>2, <2>4, TruncIs
      <3>2. x.grain # "month" /\ Multiple(x.bucket, s) /\ x.bucket \in Int
        BY <2>2 DEF Own
      <3>3. grain # "month" => x.bucket + s <= q[1] + Span[grain]
        BY <1>2, <2>5, <3>1, <3>2, EndsWithin
      <3> QED  BY <3>1, <3>2, <3>3
    <2>7. PICK z : z = Fold(grain, q[1], q[2], rows)
      OBVIOUS
    <2>8. z = row(q)
      BY <2>1, <2>7
    <2> HIDE DEF row, of, place, places
    <2>9. Own(z, Span[grain], w, lim)
      BY <1>2, <2>2, <2>3, <2>5, <2>6, <2>7, FoldOwn
    <2>10. z.grain = grain
      BY <2>7 DEF Fold
    <2> QED  BY <2>8, <2>9, <2>10
  <1> HIDE DEF row, of, place, places
  <1> QED  BY <1>1, <1>3

(* ON CONFLICT: what is merged keeps its bucket, and there is one row of   *)
(* each.                                                                   *)
LEMMA MergeOwn ==
    ASSUME RowsConstants, NEW R, NEW F, Single(R), Single(F), \A i \in Ids : ~(Counting(R, i) /\ Counting(F, i)),
           NEW w, Dated(w), NEW lim \in Int, RowsRight(R, w, lim), RowsRight(F, w, lim),
           NEW M, M = Merge(R, F)
    PROVE  RowsRight(M, w, lim)
  <1> DEFINE of(y) == {y} \cup {x \in R : Same(x, y)}
             row(y) == Fold(y.grain, y.bucket, y.key, of(y))
             kept == {x \in R : ~\E y \in F : Same(x, y)}
             made == {row(y) : y \in F}
  <1>1. M = kept \cup made
    BY DEF Merge
  <1>2. Single(R \cup F)
    BY Together
  <1>3. ASSUME NEW y \in F
        PROVE  Same(row(y), y) /\ row(y).grain \in Grains /\ Own(row(y), Span[row(y).grain], w, lim)
    <2>1. PICK rows : rows = of(y)
      OBVIOUS
    <2>2. rows \subseteq R \cup F /\ y \in rows /\ \A x \in rows : Same(x, y)
      BY <2>1 DEF Same
    <2>3. Single(rows)
      <3>1. IsFiniteSet(rows)
        BY <1>2, <2>2, FS_Subset DEF Single
      <3> QED  BY <1>2, <2>2, <3>1 DEF Single
    <2>4. PICK s : s = Span[y.grain]
      OBVIOUS
    <2>5. s \in Nat \ {0} /\ y.grain \in Grains /\ y.bucket \in Int /\ Multiple(y.bucket, s)
      BY <2>4 DEF RowsConstants, RowsRight, Own
    <2>6. \A x \in rows : x.grain = y.grain /\ x.bucket = y.bucket
      BY <2>2 DEF Same
    <2>7. \A x \in rows : Own(x, s, w, lim)
      BY <2>2, <2>4, <2>6 DEF RowsRight
    <2>8. \A x \in rows : y.bucket <= x.bucket /\ (y.grain # "month" => x.grain # "month" /\ x.bucket + s <= y.bucket + s)
      BY <2>5, <2>6
    <2>9. PICK z : z = Fold(y.grain, y.bucket, y.key, rows)
      OBVIOUS
    <2>10. z = row(y)
      BY <2>1, <2>9
    <2> HIDE DEF of, row, kept, made
    <2>11. Own(z, s, w, lim)
      BY <2>2, <2>3, <2>5, <2>7, <2>8, <2>9, FoldOwn
    <2>12. z.grain = y.grain /\ z.bucket = y.bucket /\ z.key = y.key
      BY <2>9 DEF Fold
    <2> QED  BY <2>4, <2>5, <2>10, <2>11, <2>12 DEF Same
  <1>4. \A x \in kept : x \in R /\ \A y \in F : ~Same(x, y)
    OBVIOUS
  <1> HIDE DEF of, row, kept
  <1>5. \A x \in made : \E y \in F : x = row(y) /\ Same(x, y)
    BY <1>3
  <1> HIDE DEF made
  <1>6. \A x \in M : x.grain \in Grains /\ Own(x, Span[x.grain], w, lim)
    BY <1>1, <1>3, <1>4, <1>5 DEF RowsRight
  <1>7. ASSUME NEW x \in M, NEW y \in M, Same(x, y) PROVE x = y
    <2>1. CASE x \in kept /\ y \in kept
      BY <1>4, <1>7, <2>1 DEF RowsRight, Distinct
    <2>2. CASE x \in made /\ y \in made
      <3>1. PICK u \in F : x = row(u) /\ Same(x, u)
        BY <1>5, <2>2
      <3>2. PICK v \in F : y = row(v) /\ Same(y, v)
        BY <1>5, <2>2
      <3>3. Same(u, v)
        BY <1>7, <3>1, <3>2 DEF Same
      <3> QED  BY <3>1, <3>2, <3>3 DEF RowsRight, Distinct
    <2>3. ASSUME NEW k \in kept, NEW m \in made, Same(k, m) \/ Same(m, k) PROVE FALSE
      <3>1. PICK u \in F : Same(m, u)
        BY <1>5
      <3>2. Same(k, u)
        BY <2>3, <3>1 DEF Same
      <3> QED  BY <1>4, <3>2
    <2> QED  BY <1>1, <1>7, <2>1, <2>2, <2>3
  <1> QED  BY <1>6, <1>7 DEF RowsRight, Distinct

(* Fewer rows, an attempt more or a later limit: the rows are as right.    *)
LEMMA FewerRight ==
    ASSUME NEW R, NEW w, NEW lim, RowsRight(R, w, lim), NEW F, F \subseteq R
    PROVE  RowsRight(F, w, lim)
  BY DEF RowsRight, Distinct

LEMMA LaterRight ==
    ASSUME NEW R, NEW w, Dated(w), NEW lim \in Int, RowsRight(R, w, lim), NEW c \in Int, lim <= c
    PROVE  RowsRight(R, w, c)
  <1> SUFFICES ASSUME NEW x \in R PROVE Own(x, Span[x.grain], w, c)
    BY DEF RowsRight
  <1>1. Own(x, Span[x.grain], w, lim)
    BY DEF RowsRight
  <1>2. \A v \in w : v.at \in Int /\ (v.at < lim => v.at < c)
    BY DEF Dated
  <1> QED  BY <1>1, <1>2 DEF Own

LEMMA MoreRight ==
    ASSUME NEW R, NEW w, NEW lim, RowsRight(R, w, lim), Single(R), Keyed(R, w),
           NEW b, \A v \in b : v.id \in Ids /\ \A u \in w : u.id # v.id
    PROVE  RowsRight(R, w \cup b, lim)
  <1> SUFFICES ASSUME NEW x \in R PROVE Own(x, Span[x.grain], w \cup b, lim)
    BY DEF RowsRight
  <1>1. Own(x, Span[x.grain], w, lim)
    BY DEF RowsRight
  <1>2. \A v \in b : x.attempts[v.id] # 1
    BY DEF Keyed
  <1> QED  BY <1>1, <1>2 DEF Own

(* foldAttempts.                                                           *)
OneId(w) == \A u, v \in w : u.id = v.id => u = v

LEMMA FoldAttemptsIs ==
    ASSUME NEW d, DOMAIN d = Tables, NEW c, NEW e, e = FoldAttempts(d, c)
    PROVE  /\ DOMAIN e = Tables /\ e.measurement = d.measurement /\ e.lastRun = d.lastRun
           /\ e.rollup = Merge(d.rollup, Grouped("hour", AloneOf(Unfolded(d, c))))
  <1>1. PICK R : R = Merge(d.rollup, Grouped("hour", AloneOf(Unfolded(d, c))))
    OBVIOUS
  <1>2. e = [d EXCEPT !.rollup = R]
    BY <1>1 DEF FoldAttempts, AloneOf
  <1> QED  BY <1>1, <1>2 DEF Tables

LEMMA CountedRight ==
    ASSUME RowsConstants, NEW d, NEW w, NEW n, Sound(d, w, n), Dated(w), OneId(w),
           NEW lim \in Int, RowsRight(d.rollup, w, lim), NEW c \in Int, lim <= c,
           NEW e, e = FoldAttempts(d, c)
    PROVE  RowsRight(e.rollup, w, c)
  <1>1. PICK U : U = Unfolded(d, c)
    OBVIOUS
  <1>2. PICK F : F = Grouped("hour", AloneOf(U))
    OBVIOUS
  <1>3. PICK R : R = d.rollup
    OBVIOUS
  <1>4. DOMAIN d = Tables /\ Listed(d, w) /\ Single(R) /\ Keyed(R, w) /\ Apart(d)
    BY <1>3 DEF Sound, Tables
  <1>5. e.rollup = Merge(R, F)
    BY <1>1, <1>2, <1>3, <1>4, FoldAttemptsIs
  <1>6. U \subseteq d.measurement /\ \A m \in U : ~m.folded /\ m.at < c
    BY <1>1 DEF Unfolded
  <1>7. U \subseteq Rowed /\ IsFiniteSet(U) /\ \A m, k \in U : m.id = k.id => m = k
    BY <1>4, <1>6, FS_Subset DEF Listed
  <1>8. Single(AloneOf(U)) /\ \A i \in Ids : Counting(AloneOf(U), i) <=> \E m \in U : m.id = i
    BY <1>7, AloneIs
  <1>9. /\ Single(F)
        /\ Distinct(F)
        /\ \A i \in Ids : Counting(F, i) <=> Counting(AloneOf(U), i)
    BY <1>2, <1>8, GroupedIs
  <1>10. \A i \in Ids : ~(Counting(R, i) /\ Counting(F, i))
    BY <1>3, <1>4, <1>6, <1>8, <1>9 DEF Apart
  <1>11. ASSUME NEW x \in AloneOf(U) PROVE x.grain # "month" /\ Own(x, 1, w, c)
    <2>1. PICK m \in U : x = Alone(m)
      BY DEF AloneOf
    <2>2. /\ x.grain = "attempt" /\ x.bucket = m.at /\ x.lastSeen = m.at
          /\ \A i \in Ids : x.attempts[i] = 1 <=> i = m.id
      BY <2>1 DEF Alone
    <2>3. PICK u \in w : u.id = m.id /\ u.at = m.at
      BY <1>4, <1>6 DEF Listed
    <2>4. m.at \in Int /\ m.at < c
      BY <1>6, <2>3 DEF Dated
    <2>5. \A v \in w : x.attempts[v.id] = 1 => v.at = m.at
      BY <2>2, <2>3 DEF OneId, Dated
    <2>6. Multiple(m.at, 1)
      BY <2>4 DEF Multiple
    <2>7. u.id \in Ids
      BY DEF Dated
    <2> QED  BY <2>2, <2>3, <2>4, <2>5, <2>6, <2>7 DEF Own
  <1>12. "hour" \in Grains /\ Span["hour"] \in Nat \ {0}
    BY DEF RowsConstants, Grains
  <1>13. Multiple(Span["hour"], 1)
    BY <1>12 DEF Multiple
  <1>14. \A y \in F : y.grain = "hour" /\ Own(y, Span["hour"], w, c)
    BY <1>2, <1>8, <1>11, <1>12, <1>13, GroupedOwn
  <1>15. RowsRight(F, w, c)
    BY <1>9, <1>12, <1>14 DEF RowsRight
  <1>16. RowsRight(R, w, c)
    BY <1>3, LaterRight
  <1> QED  BY <1>4, <1>5, <1>9, <1>10, <1>15, <1>16, MergeOwn

(* No row of a grain is left before a bucket.                              *)
Outlived(rows, grain, c) == \A x \in rows : x.grain = grain => x.bucket >= c
Rungs == {<<"hour", "day">>, <<"day", "week">>, <<"week", "month">>}

LEMMA RungsDivide == ASSUME RowsConstants, NEW r \in Rungs
                     PROVE  /\ r[1] \in Grains \ {"month"} /\ r[2] \in Grains /\ r[1] # r[2]
                            /\ Span[r[1]] \in Nat \ {0}
                            /\ r[2] # "month" => Multiple(Span[r[2]], Span[r[1]])
  <1>1. \A g \in Grains : Span[g] \in Nat \ {0}
    BY DEF RowsConstants
  <1>2. r[1] \in Grains \ {"month"} /\ r[2] \in Grains /\ r[1] # r[2]
    BY DEF Rungs, Grains
  <1>3. Multiple(Span["day"], Span["hour"]) /\ Multiple(Span["week"], Span["day"])
    BY <1>1, DividesIs DEF RowsConstants, Grains
  <1> QED  BY <1>1, <1>2, <1>3 DEF Rungs

(* promote.                                                                *)
LEMMA PromotedRight ==
    ASSUME RowsConstants, NEW d, NEW w, NEW n, Sound(d, w, n), Dated(w),
           NEW lim \in Int, RowsRight(d.rollup, w, lim), NEW c \in Int,
           NEW r \in Rungs, NEW e, e = Promote(d, r[1], r[2], c)
    PROVE  /\ RestAsWas(e, d) /\ RowsRight(e.rollup, w, lim) /\ Outlived(e.rollup, r[1], c)
           /\ \A g, b : g # r[2] /\ Outlived(d.rollup, g, b) => Outlived(e.rollup, g, b)
  <1>1. PICK from, to : from = r[1] /\ to = r[2]
    OBVIOUS
  <1>2. PICK old : old = OldRows(d, from, c)
    OBVIOUS
  <1>3. PICK F : F = Grouped(to, old)
    OBVIOUS
  <1>4. PICK R : R = d.rollup \ old
    OBVIOUS
  <1>5. DOMAIN d = Tables /\ Single(d.rollup) /\ from # to /\ e = Promote(d, from, to, c)
    BY <1>1, RungsDivide DEF Sound, Tables
  <1>6. RestAsWas(e, d) /\ e.rollup = Merge(d.rollup \ old, F)
    BY <1>2, <1>3, <1>5, PromoteIs
  <1>7. Single(old) /\ Single(R) /\ Single(F)
    <2>1. old \subseteq d.rollup /\ R \subseteq d.rollup
      BY <1>2, <1>4 DEF OldRows
    <2>2. IsFiniteSet(old) /\ IsFiniteSet(R)
      BY <1>5, <2>1, FS_Subset DEF Single
    <2>3. Single(old) /\ Single(R)
      BY <1>5, <2>1, <2>2 DEF Single
    <2> QED  BY <1>3, <2>3, GroupedIs
  <1>8. Distinct(F) /\ \A i \in Ids : Counting(F, i) <=> Counting(old, i)
    BY <1>3, <1>7, GroupedIs
  <1>9. \A i \in Ids : ~(Counting(R, i) /\ Counting(F, i))
    <2> TAKE i \in Ids
    <2>1. old \subseteq d.rollup
      BY <1>2 DEF OldRows
    <2>2. ASSUME Counting(R, i), Counting(old, i) PROVE FALSE
      BY <1>4, <1>5, <2>1, <2>2 DEF Counting, Single
    <2> QED  BY <1>8, <2>2
  <1>10. /\ from \in Grains \ {"month"} /\ to \in Grains /\ Span[from] \in Nat \ {0}
         /\ to # "month" => Multiple(Span[to], Span[from])
    BY <1>1, RungsDivide
  <1>11. \A x \in old : x.grain # "month" /\ Own(x, Span[from], w, lim)
    BY <1>2, <1>10 DEF OldRows, RowsRight
  <1>12. \A y \in F : y.grain = to /\ Own(y, Span[to], w, lim)
    BY <1>3, <1>7, <1>10, <1>11, GroupedOwn
  <1>13. RowsRight(F, w, lim)
    BY <1>8, <1>10, <1>12 DEF RowsRight
  <1>14. RowsRight(R, w, lim)
    BY <1>4, FewerRight
  <1>15. RowsRight(e.rollup, w, lim)
    BY <1>4, <1>6, <1>7, <1>9, <1>13, <1>14, MergeOwn
  <1>16. ASSUME NEW x \in e.rollup, x.grain # to PROVE x \in R
    <2>1. Single(R \cup F)
      BY <1>4, <1>7, <1>9, Together
    <2>2. (x \in R /\ \A y \in F : ~Same(x, y)) \/ \E y \in F : Same(x, y)
      BY <1>4, <1>6, <1>8, <2>1, MergeIs
    <2>3. \A y \in F : ~Same(x, y)
      BY <1>12, <1>16 DEF Same
    <2> QED  BY <2>2, <2>3
  <1>17. Outlived(e.rollup, from, c)
    <2> SUFFICES ASSUME NEW x \in e.rollup, x.grain = from PROVE x.bucket >= c
      BY DEF Outlived
    <2>1. x \in d.rollup /\ x \notin old
      BY <1>4, <1>5, <1>16
    <2>2. x.bucket \in Int
      BY <2>1 DEF RowsRight, Own
    <2> QED  BY <1>2, <2>1, <2>2 DEF OldRows
  <1>18. \A g, b : g # to /\ Outlived(d.rollup, g, b) => Outlived(e.rollup, g, b)
    BY <1>4, <1>16 DEF Outlived
  <1> QED  BY <1>1, <1>6, <1>15, <1>17, <1>18

(* An attempt is there to read until it is older than its window, measured *)
(* from t.                                                                 *)
Kept(d, w, n, t) ==
    \A v \in w : \/ v.id \in n
                 \/ \E m \in d.measurement : m.id = v.id
                 \/ t # Never /\ v.at < t - Retention["attempts"]
Walked == {"hour", "day", "week"}

(* What the committed tables hold, and what a transaction's do on the way: *)
(* the hours since the last pass are counted, then what has outlived its   *)
(* rung is gone from it, one rung after the other.                         *)
Right(d, w, n) ==
    /\ RowsRight(d.rollup, w, Trunc("hour", d.lastRun))
    /\ Kept(d, w, n, d.lastRun)
    /\ \A g \in Walked : Outlived(d.rollup, g, d.lastRun - Retention[g])
Behind(g) ==
    CASE g = "hour" -> {"days", "weeks", "climbed", "stamped"}
      [] g = "day"  -> {"weeks", "climbed", "stamped"}
      [] g = "week" -> {"climbed", "stamped"}
OnTheWay(s, t, x, d, w, n) ==
    /\ x.lastRun = IF s = "stamped" THEN t ELSE d.lastRun
    /\ s # "begun" => d.lastRun = Never \/ t >= d.lastRun + Every
    /\ RowsRight(x.rollup, w, Trunc("hour", IF s \in {"begun", "due"} THEN d.lastRun ELSE t))
    /\ Kept(x, w, n, IF s \in {"begun", "due", "counted", "marked"} THEN d.lastRun ELSE t)
    /\ \A g \in Walked : s \in Behind(g) => Outlived(x.rollup, g, t - Retention[g])
Passing(s, t, x, d, w, n) ==
    /\ s \in {"compacting", "flushed"} \cup TxStages => t \in Times
    /\ s \in TxStages => OnTheWay(s, t, x, d, w, n)
RightInv ==
    /\ LadderInv /\ OneId(wrote)
    /\ db.lastRun \in Times \cup {Never} /\ Right(db, wrote, named)
    /\ \A p \in Ateneas : Passing(stage[p], call[p], tx, db, wrote, named)

LEMMA RowsDated == ASSUME RightInv, RowsConstants
                   PROVE  Dated(wrote) /\ db.lastRun \in Int /\ Trunc("hour", db.lastRun) \in Int
  <1>1. Dated(wrote)
    BY DEF RightInv, LadderInv, LadderTypes, Attempt, Dated, RowsConstants, LadderConstants
  <1>2. db.lastRun \in Int
    <2>1. PICK t : t = db.lastRun
      OBVIOUS
    <2>2. t \in Times \/ t = -1
      BY <2>1 DEF RightInv, Never
    <2>3. t \in Times => t \in Nat
      BY DEF RowsConstants, LadderConstants
    <2>4. t \in Int
      BY <2>2, <2>3
    <2> QED  BY <2>1, <2>4
  <1>3. Span["hour"] \in Nat \ {0}
    BY DEF RowsConstants, Grains
  <1> QED  BY <1>1, <1>2, <1>3, TruncIs

LEMMA RowsStart == ASSUME RowsConstants PROVE LadderInit => RightInv
  <1> SUFFICES ASSUME LadderInit PROVE RightInv
    OBVIOUS
  <1>1. LadderInv
    BY LadderStart DEF RowsConstants
  <1>2. db.measurement = {} /\ db.rollup = {} /\ db.lastRun = Never /\ wrote = {}
    BY DEF LadderInit, Empty
  <1>3. Right(db, wrote, named) /\ OneId(wrote)
    BY <1>2 DEF Right, RowsRight, Distinct, Kept, Outlived, OneId
  <1>4. \A p \in Ateneas : Passing(stage[p], call[p], tx, db, wrote, named)
    <2>1. \A p \in Ateneas : stage[p] = "idle"
      BY DEF LadderInit
    <2> QED  BY <2>1 DEF Passing, TxStages
  <1> QED  BY <1>1, <1>2, <1>3, <1>4 DEF RightInv

(* The others are where they were, and outside any transaction if this one *)
(* is in or begins one.                                                    *)
LEMMA OthersPass ==
    ASSUME RightInv, RowsConstants, NEW p \in Ateneas, NEW s, Moves(p, s),
           \/ UNCHANGED <<tx, db, wrote, named>>
           \/ Holds(p) \/ holder = NoAtenea
    PROVE  \A q \in Ateneas \ {p} : Passing(stage'[q], call'[q], tx', db', wrote', named')
  <1> TAKE q \in Ateneas \ {p}
  <1>1. stage'[q] = stage[q] /\ call'[q] = call[q]
    BY DEF RightInv, LadderInv, LadderTypes, Moves
  <1>2. Passing(stage[q], call[q], tx, db, wrote, named)
    BY DEF RightInv
  <1>3. CASE UNCHANGED <<tx, db, wrote, named>>
    BY <1>1, <1>2, <1>3
  <1>4. CASE Holds(p) \/ holder = NoAtenea
    <2>1. ~Holds(q)
      BY <1>4 DEF RightInv, LadderInv, LadderTypes, RowsConstants, LadderConstants
    <2>2. stage[q] \notin TxStages
      BY <2>1 DEF Holds, TxStages
    <2> QED  BY <1>1, <1>2, <2>2 DEF Passing
  <1> QED  BY <1>3, <1>4

(* A call begins, goes on or ends, and the committed tables stay.          *)
LEMMA RowsMove ==
    ASSUME RightInv, RowsConstants, LadderInv', NEW p \in Ateneas, NEW s, Moves(p, s), UNCHANGED <<db, wrote, named>>,
           tx' = tx \/ Holds(p) \/ holder = NoAtenea,
           Passing(s, call'[p], tx', db, wrote, named)
    PROVE  RightInv'
  <1>1. stage'[p] = s
    BY DEF RightInv, LadderInv, LadderTypes, Moves
  <1>2. \A q \in Ateneas \ {p} : Passing(stage'[q], call'[q], tx', db', wrote', named')
    BY OthersPass
  <1>3. Passing(stage'[p], call'[p], tx', db', wrote', named')
    BY <1>1
  <1> QED  BY <1>2, <1>3 DEF RightInv

LEMMA RowsStatement ==
    ASSUME RightInv, RowsConstants, LadderInv', NEW p \in Ateneas, NEW from \in TxStages, NEW to \in TxStages, NEW d,
           Statement(p, from, to, d),
           OnTheWay(from, call[p], tx, db, wrote, named) /\ call[p] \in Times => OnTheWay(to, call[p], d, db, wrote, named)
    PROVE  RightInv'
  <1>1. /\ stage[p] = from /\ tx' = d /\ stage' = [stage EXCEPT ![p] = to]
        /\ UNCHANGED <<db, call, wrote, named>>
    BY DEF Statement, ghosts
  <1>2. Moves(p, to) /\ Holds(p)
    BY <1>1 DEF Moves, TxStages, Holds
  <1>3. Passing(from, call[p], tx, db, wrote, named)
    BY <1>1 DEF RightInv
  <1>4. Passing(to, call'[p], tx', db, wrote, named)
    BY <1>1, <1>3 DEF Passing
  <1> QED  BY <1>1, <1>2, <1>4, RowsMove

LEMMA RetentionIs == ASSUME RowsConstants PROVE \A g \in Walked \cup {"attempts"} : Retention[g] \in Nat
  BY DEF RowsConstants, Walked

(* UPDATE measurement loses no row and touches nothing else.               *)
LEMMA MarkedStays ==
    ASSUME NEW d, NEW c, NEW e, e = MarkFolded(d, c), NEW w, NEW n, Sound(e, w, n)
    PROVE  /\ e.rollup = d.rollup /\ e.lastRun = d.lastRun
           /\ \A m \in d.measurement : \E k \in e.measurement : k.id = m.id
  <1>1. PICK U : U = Unfolded(d, c)
    OBVIOUS
  <1>2. PICK M : M = {Marked(m, U) : m \in d.measurement}
    OBVIOUS
  <1>3. e = [d EXCEPT !.measurement = M]
    BY <1>1, <1>2 DEF MarkFolded, Marked
  <1>4. DOMAIN d = Tables
    BY <1>3 DEF Sound, Tables
  <1>5. e.rollup = d.rollup /\ e.lastRun = d.lastRun /\ e.measurement = M
    BY <1>3, <1>4 DEF Tables
  <1>6. ASSUME NEW m \in d.measurement PROVE \E k \in e.measurement : k.id = m.id
    <2>1. PICK k : k = Marked(m, U)
      OBVIOUS
    <2>2. k \in e.measurement
      BY <1>2, <1>5, <2>1
    <2>3. k \in Rowed
      BY <2>2 DEF Sound, Listed
    <2>4. CASE m \in U
      <3>1. k = [m EXCEPT !.folded = TRUE]
        BY <2>1, <2>4 DEF Marked
      <3>2. DOMAIN k = DOMAIN m
        BY <3>1
      <3>3. "id" \in DOMAIN m
        BY <2>3, <3>2 DEF Rowed
      <3>4. k.id = m.id
        BY <3>1, <3>3
      <3> QED  BY <2>2, <3>4
    <2>5. CASE m \notin U
      BY <2>1, <2>2, <2>5 DEF Marked
    <2> QED  BY <2>4, <2>5
  <1> QED  BY <1>5, <1>6

(* pruneAttempts takes what is older than its window.                      *)
LEMMA PrunedKept ==
    ASSUME NEW d, NEW w, NEW n, Sound(d, w, n), Dated(w), OneId(w), NEW a \in Int, NEW t \in Int, t # Never,
           a = Never \/ a <= t, Retention["attempts"] \in Nat, Kept(d, w, n, a),
           NEW e, e = PruneAttempts(d, t - Retention["attempts"])
    PROVE  Kept(e, w, n, t) /\ e.rollup = d.rollup /\ e.lastRun = d.lastRun
  <1>1. PICK c : c = t - Retention["attempts"]
    OBVIOUS
  <1>2. PICK M : M = {m \in d.measurement : ~(m.folded /\ m.at < c)}
    OBVIOUS
  <1>3. e = [d EXCEPT !.measurement = M] /\ DOMAIN d = Tables
    BY <1>1, <1>2 DEF PruneAttempts, Sound, Tables
  <1>4. e.measurement = M /\ e.rollup = d.rollup /\ e.lastRun = d.lastRun
    BY <1>3 DEF Tables
  <1>5. ASSUME NEW v \in w, v.id \notin n, ~\E m \in M : m.id = v.id PROVE v.at < c
    <2>1. CASE \E m \in d.measurement : m.id = v.id
      <3>1. PICK m \in d.measurement : m.id = v.id
        BY <2>1
      <3>2. m.at < c
        BY <1>2, <1>5, <3>1
      <3>3. PICK u \in w : u.id = m.id /\ u.at = m.at
        BY DEF Sound, Listed
      <3>4. u = v
        BY <3>1, <3>3 DEF OneId
      <3> QED  BY <3>2, <3>3, <3>4
    <2>2. CASE a # Never /\ v.at < a - Retention["attempts"]
      BY <1>1, <2>2 DEF Dated
    <2> QED  BY <1>5, <2>1, <2>2 DEF Kept
  <1>6. Kept(e, w, n, t)
    BY <1>1, <1>4, <1>5 DEF Kept
  <1> QED  BY <1>4, <1>6

(* The statements of a pass, one after the other.                          *)
LEMMA RowsPass ==
    ASSUME RightInv, RowsConstants, LadderInv', NEW p \in Ateneas,
           Due(p) \/ Count(p) \/ MarkRows(p) \/ Prune(p) \/ Ladder(p) \/ Stamp(p)
    PROVE  RightInv'
  <1> DEFINE W(s, x) == OnTheWay(s, call[p], x, db, wrote, named)
  <1>0. ASSUME call[p] \in Times
        PROVE  /\ call[p] \in Int /\ call[p] # Never /\ Trunc("hour", call[p]) \in Int
               /\ (db.lastRun = Never \/ call[p] >= db.lastRun + Every) =>
                    db.lastRun <= call[p] /\ Trunc("hour", db.lastRun) <= Trunc("hour", call[p])
    <2>1. call[p] \in Nat
      BY <1>0 DEF RowsConstants, LadderConstants
    <2>2. Span["hour"] \in Nat \ {0} /\ Every \in Nat
      BY DEF RowsConstants, Grains
    <2>3. (db.lastRun = Never \/ call[p] >= db.lastRun + Every) => db.lastRun <= call[p]
      BY <2>1, <2>2, RowsDated DEF Never
    <2> QED  BY <2>1, <2>2, <2>3, RowsDated, TruncIs, TruncGrows DEF Never
  <1>1. CASE Due(p)
    <2>1. W("begun", tx) /\ IsDue(tx, call[p]) => W("due", tx)
      BY DEF OnTheWay, IsDue, Behind, Walked
    <2>2. IsDue(tx, call[p]) /\ Statement(p, "begun", "due", tx)
      BY <1>1 DEF Due
    <2> QED  BY <2>1, <2>2, RowsStatement DEF TxStages
  <1>2. CASE Count(p)
    <2>1. PICK c : c = Trunc("hour", call[p])
      OBVIOUS
    <2>2. PICK d : d = FoldAttempts(tx, c)
      OBVIOUS
    <2>3. Statement(p, "due", "counted", d)
      BY <1>2, <2>1, <2>2 DEF Count, ClosedHour
    <2>4. Sound(tx, wrote, named)
      BY <2>3 DEF RightInv, LadderInv, Under, Working, TxStages, Statement
    <2>5. d.measurement = tx.measurement /\ d.lastRun = tx.lastRun
      BY <2>2, <2>4, FoldAttemptsIs DEF Sound, Tables
    <2>6. ASSUME W("due", tx), call[p] \in Times PROVE W("counted", d)
      <3>1. RowsRight(tx.rollup, wrote, Trunc("hour", db.lastRun)) /\ tx.lastRun = db.lastRun
            /\ (db.lastRun = Never \/ call[p] >= db.lastRun + Every) /\ Kept(tx, wrote, named, db.lastRun)
        BY <2>6 DEF OnTheWay
      <3>2. RowsRight(d.rollup, wrote, c)
        BY <1>0, <2>1, <2>2, <2>4, <2>6, <3>1, RowsDated, CountedRight DEF RightInv
      <3>3. Kept(d, wrote, named, db.lastRun)
        BY <2>5, <3>1 DEF Kept
      <3> QED  BY <2>1, <2>5, <3>1, <3>2, <3>3 DEF OnTheWay, Behind, Walked
    <2> QED  BY <2>3, <2>6, RowsStatement DEF TxStages
  <1>3. CASE MarkRows(p)
    <2>1. PICK d : d = MarkFolded(tx, ClosedHour(p))
      OBVIOUS
    <2>2. Statement(p, "counted", "marked", d)
      BY <1>3, <2>1 DEF MarkRows
    <2>3. Sound(d, wrote, named)
      BY <2>1, <2>2 DEF RightInv, LadderInv, Under, Working, TxStages, Statement, ClosedHour
    <2>4. /\ d.rollup = tx.rollup /\ d.lastRun = tx.lastRun
          /\ \A m \in tx.measurement : \E k \in d.measurement : k.id = m.id
      BY <2>1, <2>3, MarkedStays
    <2>5. ASSUME W("counted", tx) PROVE W("marked", d)
      <3>1. Kept(d, wrote, named, db.lastRun)
        BY <2>4, <2>5 DEF OnTheWay, Kept
      <3> QED  BY <2>4, <2>5, <3>1 DEF OnTheWay, Behind, Walked
    <2> QED  BY <2>2, <2>5, RowsStatement DEF TxStages
  <1>4. CASE Prune(p)
    <2>1. PICK d : d = PruneAttempts(tx, call[p] - Retention["attempts"])
      OBVIOUS
    <2>2. Statement(p, "marked", "hours", d)
      BY <1>4, <2>1 DEF Prune
    <2>3. Sound(tx, wrote, named)
      BY <2>2 DEF RightInv, LadderInv, Under, Working, TxStages, Statement
    <2>4. ASSUME W("marked", tx), call[p] \in Times PROVE W("hours", d)
      <3>1. Kept(tx, wrote, named, db.lastRun) /\ (db.lastRun = Never \/ db.lastRun <= call[p])
        BY <1>0, <2>4 DEF OnTheWay
      <3>2. Kept(d, wrote, named, call[p]) /\ d.rollup = tx.rollup /\ d.lastRun = tx.lastRun
        BY <1>0, <2>1, <2>3, <2>4, <3>1, RowsDated, RetentionIs, PrunedKept DEF RightInv
      <3> QED  BY <2>4, <3>2 DEF OnTheWay, Behind, Walked
    <2> QED  BY <2>2, <2>4, RowsStatement DEF TxStages
  <1>5. ASSUME NEW from \in {"hours", "days", "weeks"}, NEW to \in {"days", "weeks", "climbed"}, NEW r \in Rungs,
               Statement(p, from, to, Promote(tx, r[1], r[2], call[p] - Retention[r[1]])),
               r[1] \in Walked, \A g \in Walked : to \in Behind(g) => g = r[1] \/ (from \in Behind(g) /\ g # r[2])
        PROVE  RightInv'
    <2>1. PICK c : c = call[p] - Retention[r[1]]
      OBVIOUS
    <2>2. PICK d : d = Promote(tx, r[1], r[2], c)
      OBVIOUS
    <2>3. Statement(p, from, to, d)
      BY <1>5, <2>1, <2>2
    <2>4. Sound(tx, wrote, named)
      BY <2>3 DEF RightInv, LadderInv, Under, Working, TxStages, Statement
    <2>5. ASSUME W(from, tx), call[p] \in Times PROVE W(to, d)
      <3>1. PICK lim : lim = Trunc("hour", call[p])
        OBVIOUS
      <3>2. /\ tx.lastRun = db.lastRun /\ (db.lastRun = Never \/ call[p] >= db.lastRun + Every)
            /\ RowsRight(tx.rollup, wrote, lim)
            /\ Kept(tx, wrote, named, call[p])
            /\ \A g \in Walked : from \in Behind(g) => Outlived(tx.rollup, g, call[p] - Retention[g])
        BY <2>5, <3>1 DEF OnTheWay
      <3>3. lim \in Int /\ c \in Int
        BY <1>0, <1>5, <2>1, <2>5, <3>1, RetentionIs
      <3>4. /\ RestAsWas(d, tx) /\ RowsRight(d.rollup, wrote, lim) /\ Outlived(d.rollup, r[1], c)
            /\ \A g, b : g # r[2] /\ Outlived(tx.rollup, g, b) => Outlived(d.rollup, g, b)
        BY <2>2, <2>4, <3>2, <3>3, RowsDated, PromotedRight
      <3>5. Kept(d, wrote, named, call[p])
        BY <3>2, <3>4 DEF Kept, RestAsWas
      <3>6. \A g \in Walked : to \in Behind(g) => Outlived(d.rollup, g, call[p] - Retention[g])
        BY <1>5, <2>1, <3>2, <3>4
      <3> QED  BY <3>1, <3>2, <3>4, <3>5, <3>6 DEF OnTheWay, RestAsWas
    <2> QED  BY <2>3, <2>5, RowsStatement DEF TxStages
  <1>6. CASE Ladder(p)
    <2>1. CASE Statement(p, "hours", "days", Promote(tx, "hour", "day", call[p] - Retention["hour"]))
      <3>1. PICK r \in Rungs : r = <<"hour", "day">>
        BY DEF Rungs
      <3> QED  BY <1>5, <2>1, <3>1 DEF Behind, Walked
    <2>2. CASE Statement(p, "days", "weeks", Promote(tx, "day", "week", call[p] - Retention["day"]))
      <3>1. PICK r \in Rungs : r = <<"day", "week">>
        BY DEF Rungs
      <3> QED  BY <1>5, <2>2, <3>1 DEF Behind, Walked
    <2>3. CASE Statement(p, "weeks", "climbed", Promote(tx, "week", "month", call[p] - Retention["week"]))
      <3>1. PICK r \in Rungs : r = <<"week", "month">>
        BY DEF Rungs
      <3> QED  BY <1>5, <2>3, <3>1 DEF Behind, Walked
    <2> QED  BY <1>6, <2>1, <2>2, <2>3 DEF Ladder
  <1>7. CASE Stamp(p)
    <2>1. PICK d : d = [tx EXCEPT !.lastRun = call[p]]
      OBVIOUS
    <2>2. Statement(p, "climbed", "stamped", d)
      BY <1>7, <2>1 DEF Stamp
    <2>3. DOMAIN tx = Tables
      BY <2>2 DEF RightInv, LadderInv, Under, Working, TxStages, Statement, Sound, Tables
    <2>4. d.measurement = tx.measurement /\ d.rollup = tx.rollup /\ d.lastRun = call[p]
      BY <2>1, <2>3 DEF Tables
    <2>5. ASSUME W("climbed", tx) PROVE W("stamped", d)
      <3>1. Kept(d, wrote, named, call[p])
        BY <2>4, <2>5 DEF OnTheWay, Kept
      <3> QED  BY <2>4, <2>5, <3>1 DEF OnTheWay, Behind, Walked
    <2> QED  BY <2>2, <2>5, RowsStatement DEF TxStages
  <1> QED  BY <1>1, <1>2, <1>3, <1>4, <1>6, <1>7

(* What was committed is what the transaction had; the next pass is as far *)
(* from it as it was told to be.                                           *)
LEMMA RowsCommit == ASSUME RightInv, RowsConstants, LadderInv', NEW p \in Ateneas, Commit(p) PROVE RightInv'
  <1>1. /\ stage[p] = "stamped" /\ db' = tx /\ Moves(p, "idle") /\ UNCHANGED <<wrote, named>> /\ Holds(p)
    BY DEF Commit, Release, ghosts, Moves, Holds
  <1>2. OnTheWay("stamped", call[p], tx, db, wrote, named) /\ call[p] \in Times
    BY <1>1 DEF RightInv, Passing, TxStages
  <1>3. Right(db', wrote', named') /\ db'.lastRun = call[p]
    BY <1>1, <1>2 DEF OnTheWay, Right, Behind, Walked
  <1>4. \A q \in Ateneas \ {p} : Passing(stage'[q], call'[q], tx', db', wrote', named')
    BY <1>1, OthersPass
  <1>5. Passing(stage'[p], call'[p], tx', db', wrote', named')
    BY <1>1 DEF RightInv, LadderInv, LadderTypes, Moves, Passing, TxStages
  <1> QED  BY <1>1, <1>2, <1>3, <1>4, <1>5 DEF RightInv

(* A flush adds attempts nobody has counted.                               *)
LEMMA RowsWritten ==
    ASSUME RightInv, RowsConstants, LadderInv', NEW p \in Ateneas, Written(p), ~Holds(p),
           NEW s \in {"idle", "flushed"}, stage' = [stage EXCEPT ![p] = s], s = "flushed" => call[p] \in Times
    PROVE  RightInv'
  <1>1. PICK b : b = buffer[p]
    OBVIOUS
  <1>2. /\ b # {} => holder = NoAtenea
        /\ db' = [db EXCEPT !.measurement = @ \cup FiledOf(b)]
        /\ wrote' = wrote \cup b /\ UNCHANGED <<tx, call, named>>
    BY <1>1 DEF Written, FiledOf, FiledRow
  <1>3. /\ b \subseteq Attempt /\ (\A m, k \in b : m.id = k.id => m = k)
        /\ \A m \in b : m.id \in Ids /\ \A v \in wrote : v.id # m.id
    BY <1>1 DEF RightInv, LadderInv, LadderTypes, IdsApart, Attempt
  <1>4. /\ db'.measurement = db.measurement \cup FiledOf(b) /\ db'.rollup = db.rollup /\ db'.lastRun = db.lastRun
    BY <1>2 DEF RightInv, LadderInv, Sound
  <1>5. OneId(wrote')
    BY <1>2, <1>3 DEF RightInv, OneId
  <1>6. RowsRight(db'.rollup, wrote', Trunc("hour", db'.lastRun))
    BY <1>2, <1>3, <1>4, MoreRight DEF RightInv, Right, LadderInv, Sound
  <1>7. Kept(db', wrote', named', db'.lastRun)
    <2> SUFFICES ASSUME NEW v \in wrote \cup b, v.id \notin named, ~\E m \in db'.measurement : m.id = v.id
                 PROVE  db.lastRun # Never /\ v.at < db.lastRun - Retention["attempts"]
      BY <1>2, <1>4 DEF Kept
    <2>1. CASE v \in wrote
      BY <1>4, <2>1 DEF RightInv, Right, Kept
    <2>2. CASE v \in b
      <3>1. FiledRow(v) \in db'.measurement /\ FiledRow(v).id = v.id
        BY <1>3, <1>4, <2>2, FiledRowIs DEF FiledOf
      <3> QED  BY <3>1
    <2> QED  BY <2>1, <2>2
  <1>8. Right(db', wrote', named')
    BY <1>4, <1>6, <1>7 DEF Right, RightInv
  <1>9. \A q \in Ateneas : Passing(stage'[q], call'[q], tx', db', wrote', named')
    <2> TAKE q \in Ateneas
    <2>1. stage'[p] = s /\ (q # p => stage'[q] = stage[q])
      BY DEF RightInv, LadderInv, LadderTypes
    <2>2. CASE q = p
      BY <1>2, <2>1, <2>2 DEF Passing, TxStages
    <2>3. CASE q # p /\ b # {}
      <3>1. ~Holds(q)
        BY <1>2, <2>3 DEF RightInv, LadderInv, LadderTypes, RowsConstants, LadderConstants
      <3>2. stage[q] \notin TxStages
        BY <3>1 DEF Holds, TxStages
      <3> QED  BY <1>2, <2>1, <2>3, <3>2 DEF RightInv, Passing
    <2>4. CASE q # p /\ b = {}
      <3>1. wrote' = wrote
        BY <1>2, <2>4
      <3> QED  BY <1>2, <1>4, <2>1, <2>4, <3>1 DEF RightInv, Passing, OnTheWay
    <2> QED  BY <2>2, <2>3, <2>4
  <1> QED  BY <1>4, <1>5, <1>8, <1>9 DEF RightInv

(* A Clear takes rows away, and names the attempts it takes.               *)
LEMMA RowsClear ==
    ASSUME RightInv, RowsConstants, LadderInv', NEW p \in Ateneas, ClearMeasurements(p) \/ ClearRollups(p)
    PROVE  RightInv'
  <1>1. PICK s \in {"attempts", "rollups"} : Moves(p, s) /\ wrote' = wrote /\ Holds(p)
    BY DEF ClearMeasurements, ClearRollups, ghosts, Moves, Holds
  <1>2. \A q \in Ateneas \ {p} : Passing(stage'[q], call'[q], tx', db', wrote', named')
    BY <1>1, OthersPass
  <1>3. Passing(stage'[p], call'[p], tx', db', wrote', named')
    BY <1>1 DEF RightInv, LadderInv, LadderTypes, Moves, Passing, TxStages
  <1>4. Right(db', wrote', named') /\ db'.lastRun = db.lastRun
    <2>1. CASE ClearMeasurements(p)
      <3>1. db' = Bare(db, call[p]) /\ named' = named \cup NamedBy(wrote, call[p])
        BY <2>1 DEF ClearMeasurements, Bare, NamedBy
      <3>2. PICK M : M = {m \in db.measurement : m.key # call[p]}
        OBVIOUS
      <3>3. db'.measurement = M /\ db'.rollup = db.rollup /\ db'.lastRun = db.lastRun
        BY <3>1, <3>2 DEF Bare, RightInv, LadderInv, Sound
      <3>4. Kept(db', wrote, named', db.lastRun)
        <4> SUFFICES ASSUME NEW v \in wrote, v.id \notin named', ~\E m \in M : m.id = v.id
                     PROVE  db.lastRun # Never /\ v.at < db.lastRun - Retention["attempts"]
          BY <3>3 DEF Kept
        <4>1. v.id \notin named /\ v.key # call[p]
          BY <3>1 DEF NamedBy
        <4>2. ASSUME NEW m \in db.measurement, m.id = v.id PROVE m \in M
          <5>1. PICK u \in wrote : u.id = m.id /\ u.key = m.key
            BY DEF RightInv, LadderInv, Sound, Listed
          <5>2. u = v
            BY <4>2, <5>1 DEF RightInv, OneId
          <5> QED  BY <3>2, <4>1, <5>1, <5>2
        <4> QED  BY <4>1, <4>2 DEF RightInv, Right, Kept
      <3> QED  BY <1>1, <3>3, <3>4 DEF RightInv, Right
    <2>2. CASE ClearRollups(p)
      <3>1. PICK R : R = {x \in db.rollup : x.key # call[p]}
        OBVIOUS
      <3>2. db' = [db EXCEPT !.rollup = R] /\ named' = named
        BY <2>2, <3>1 DEF ClearRollups, ghosts
      <3>3. db'.measurement = db.measurement /\ db'.rollup = R /\ db'.lastRun = db.lastRun /\ R \subseteq db.rollup
        BY <3>1, <3>2 DEF RightInv, LadderInv, Sound
      <3>4. RowsRight(R, wrote, Trunc("hour", db.lastRun))
        BY <3>3, FewerRight DEF RightInv, Right
      <3> QED  BY <1>1, <3>2, <3>3, <3>4 DEF RightInv, Right, Kept, Outlived
    <2> QED  BY <2>1, <2>2
  <1> QED  BY <1>1, <1>2, <1>3, <1>4 DEF RightInv

LEMMA RowsStep ==
    ASSUME RowsConstants, RightInv, [LadderNext]_ladderVars
    PROVE  /\ RightInv'
           /\ db'.lastRun # db.lastRun => db.lastRun = Never \/ db'.lastRun >= db.lastRun + Every
  <1> DEFINE Spaced == db'.lastRun # db.lastRun => db.lastRun = Never \/ db'.lastRun >= db.lastRun + Every
  <1>0. LadderInv'
    BY LadderStep DEF RightInv, RowsConstants
  <1>1. CASE UNCHANGED ladderVars
    BY <1>0, <1>1 DEF ladderVars, RightInv
  <1>2. ASSUME Tick \/ \E p \in Ateneas : \E key \in RowKeys : RecordAttempt(p, key) PROVE RightInv' /\ Spaced
    BY <1>0, <1>2 DEF Tick, RecordAttempt, ghosts, RightInv
  <1>3. ASSUME NEW p \in Ateneas, NEW s, s \notin TxStages \cup {"compacting", "flushed"}, Moves(p, s), UNCHANGED <<db, wrote, named>>,
               tx' = tx \/ Holds(p)
        PROVE  RightInv' /\ Spaced
    BY <1>0, <1>3, RowsMove DEF Passing
  <1>4. ASSUME NEW p \in Ateneas, NEW key \in RowKeys, Clear(p, key) PROVE RightInv' /\ Spaced
    BY <1>3, <1>4 DEF Clear, ghosts, Moves, TxStages
  <1>5. ASSUME NEW p \in Ateneas, Beat(p) \/ Flush(p) PROVE RightInv' /\ Spaced
    <2>1. PICK s \in {"idle", "flushed"} :
              /\ Written(p) /\ ~Holds(p) /\ stage' = [stage EXCEPT ![p] = s]
              /\ s = "flushed" => stage[p] = "compacting"
      <3>1. CASE Beat(p)
        BY <3>1 DEF Beat, Holds, RightInv, LadderInv, LadderTypes
      <3>2. CASE Flush(p)
        BY <3>2 DEF Flush, Holds
      <3> QED  BY <1>5, <3>1, <3>2
    <2>2. s = "flushed" => call[p] \in Times
      BY <2>1 DEF RightInv, Passing
    <2>3. db'.lastRun = db.lastRun
      BY <2>1 DEF Written, RightInv, LadderInv, Sound
    <2> QED  BY <1>0, <2>1, <2>2, <2>3, RowsWritten
  <1>6. ASSUME NEW p \in Ateneas, CompactIfDue(p) PROVE RightInv' /\ Spaced
    <2>1. Moves(p, "compacting") /\ UNCHANGED <<tx, db, wrote, named>> /\ call'[p] = now
      BY <1>6 DEF CompactIfDue, ghosts, Moves, RightInv, LadderInv, LadderTypes
    <2>2. Passing("compacting", call'[p], tx', db, wrote, named)
      BY <2>1 DEF Passing, TxStages, RightInv, LadderInv, LadderTypes
    <2> QED  BY <1>0, <2>1, <2>2, RowsMove
  <1>7. ASSUME NEW p \in Ateneas, Begin(p) PROVE RightInv' /\ Spaced
    <2>1. stage[p] = "flushed" /\ Moves(p, "begun") /\ UNCHANGED <<db, call, wrote, named>> /\ holder = NoAtenea /\ tx' = db
      BY <1>7 DEF Begin, ghosts, Moves
    <2>2. call[p] \in Times
      BY <2>1 DEF RightInv, Passing
    <2>3. OnTheWay("begun", call[p], db, db, wrote, named)
      BY DEF OnTheWay, RightInv, Right, Behind, Walked
    <2> QED  BY <1>0, <2>1, <2>2, <2>3, RowsMove DEF Passing
  <1>8. ASSUME NEW p \in Ateneas, NotDue(p) \/ ClearBuffered(p) PROVE RightInv' /\ Spaced
    <2>1. Moves(p, "idle") /\ UNCHANGED <<db, wrote, named>> /\ Holds(p)
      BY <1>8 DEF NotDue, ClearBuffered, Release, ghosts, Moves, Holds
    <2> QED  BY <1>3, <2>1 DEF TxStages
  <1>9. ASSUME NEW p \in Ateneas, Fail(p) \/ Crash(p) PROVE RightInv' /\ Spaced
    <2>1. Moves(p, "idle") /\ UNCHANGED <<db, wrote, named>> /\ (tx' = tx \/ Holds(p))
      BY <1>9 DEF Fail, Crash, ghosts, Moves
    <2> QED  BY <1>3, <2>1 DEF TxStages
  <1>10. ASSUME NEW p \in Ateneas, Commit(p) PROVE RightInv' /\ Spaced
    <2>1. db' = tx /\ OnTheWay("stamped", call[p], tx, db, wrote, named)
      BY <1>10 DEF Commit, RightInv, Passing, TxStages
    <2>2. Spaced
      BY <2>1 DEF OnTheWay
    <2> QED  BY <1>0, <1>10, <2>2, RowsCommit
  <1>11. ASSUME NEW p \in Ateneas, ClearMeasurements(p) \/ ClearRollups(p) PROVE RightInv' /\ Spaced
    <2>1. db'.lastRun = db.lastRun
      BY <1>11 DEF ClearMeasurements, ClearRollups, RightInv, LadderInv, Sound
    <2> QED  BY <1>0, <1>11, <2>1, RowsClear
  <1>12. ASSUME NEW p \in Ateneas,
                Due(p) \/ Count(p) \/ MarkRows(p) \/ Prune(p) \/ Ladder(p) \/ Stamp(p)
         PROVE  RightInv' /\ Spaced
    <2>1. db' = db
      BY <1>12 DEF Due, Count, MarkRows, Prune, Ladder, Stamp, Statement
    <2> QED  BY <1>0, <1>12, <2>1, RowsPass
  <1>13. ASSUME NEW p \in Ateneas, Compact(p) PROVE RightInv' /\ Spaced
    BY <1>5, <1>6, <1>7, <1>8, <1>10, <1>12, <1>13 DEF Compact
  <1> QED  BY <1>1, <1>2, <1>4, <1>5, <1>8, <1>9, <1>11, <1>13 DEF LadderNext

LEMMA RowsPromise == ASSUME RowsConstants, RightInv PROVE RowsAreRight
  <1>1. RowsRight(db.rollup, wrote, Trunc("hour", db.lastRun)) /\ Single(db.rollup) /\ Keyed(db.rollup, wrote) /\ OneId(wrote)
    BY DEF RightInv, Right, LadderInv, Sound
  <1>2. Dated(wrote)
    BY RowsDated
  <1>3. \A x \in db.rollup : x.attempts \in [Ids -> {0, 1}] /\ \A v \in wrote : x.attempts[v.id] > 0 <=> x.attempts[v.id] = 1
    BY <1>1, <1>2 DEF Single, Dated
  <1>4. OneRowPerBucket
    BY <1>1 DEF RowsRight, Distinct, OneRowPerBucket
  <1>5. ASSUME NEW x \in db.rollup
        PROVE  x.lastSeen = Max({u.at : u \in {v \in wrote : x.attempts[v.id] > 0}})
    <2>1. PICK S : S = {u.at : u \in {v \in wrote : x.attempts[v.id] > 0}}
      OBVIOUS
    <2>2. Own(x, Span[x.grain], wrote, Trunc("hour", db.lastRun))
      BY <1>1 DEF RowsRight
    <2>3. x.lastSeen \in S
      BY <1>3, <2>1, <2>2 DEF Own
    <2>4. \A t \in S : t \in Nat /\ t <= x.lastSeen
      BY <1>2, <1>3, <2>1, <2>2 DEF Own, Dated
    <2>5. Max(S) \in S /\ \A t \in S : Max(S) >= t
      BY <2>3, <2>4 DEF Max
    <2>6. PICK m : m = Max(S)
      OBVIOUS
    <2>7. m \in Nat /\ x.lastSeen \in Nat /\ m <= x.lastSeen /\ m >= x.lastSeen
      BY <2>3, <2>4, <2>5, <2>6
    <2>8. m = x.lastSeen
      BY <2>7
    <2> QED  BY <2>1, <2>6, <2>8
  <1>6. LastSeenIsNewest
    BY <1>5 DEF LastSeenIsNewest
  <1>7. BucketsHoldTheirOwn
    <2> SUFFICES ASSUME NEW x \in db.rollup, NEW v \in wrote, x.attempts[v.id] = 1
                 PROVE  /\ x.key = v.key /\ x.bucket <= v.at /\ (x.grain # "month" => v.at < x.bucket + Span[x.grain])
                        /\ v.at < Trunc("hour", db.lastRun)
      BY <1>3 DEF BucketsHoldTheirOwn
    <2>1. PICK u \in wrote : u.id = v.id /\ u.key = x.key
      BY <1>1, <1>2 DEF Keyed, Dated
    <2>2. u = v
      BY <1>1, <2>1 DEF OneId
    <2> QED  BY <1>1, <2>1, <2>2 DEF RowsRight, Own
  <1>8. LadderWalked
    BY <1>1 DEF RightInv, Right, RowsRight, Outlived, Walked, LadderWalked, Grains
  <1>9. DetailKept
    BY DEF RightInv, Right, Kept, DetailKept
  <1> QED  BY <1>4, <1>6, <1>7, <1>8, <1>9 DEF RowsAreRight

(* CompactIfDue, foldAttempts, mergeRollup, pruneAttempts, promote: after  *)
(* every step, whatever fails or crashes when, there is one rollup per     *)
(* bucket and key, with its own attempts and the newest's instant, no rung *)
(* holds what it has outlived, and an attempt is there to read for its     *)
(* whole window; and committed passes are as far apart as they were told   *)
(* to be, for every number of Ateneas, spans, windows and interval.        *)
THEOREM LadderHoldsHolds == LadderSpec => LadderHolds
  <1>1. LadderInit => RightInv
    BY RowsStart, RowsAssumptions
  <1>2. RightInv /\ [LadderNext]_ladderVars => RightInv'
    BY RowsStep, RowsAssumptions
  <1>3. RightInv /\ RightInv' /\ [LadderNext]_ladderVars
        => [/\ RowsAreRight'
            /\ db'.lastRun # db.lastRun => db.lastRun = Never \/ db'.lastRun >= db.lastRun + Every]_ladderVars
    <2>1. RightInv => RowsAreRight
      BY RowsPromise, RowsAssumptions
    <2>2. (RightInv => RowsAreRight)'
      BY <2>1, PTL
    <2> QED  BY <2>2, RowsStep, RowsAssumptions
  <1> QED  BY <1>1, <1>2, <1>3, PTL DEF LadderSpec, LadderHolds

-----------------------------------------------------------------------------
(* What the questions asked at once know, and whom the funnel picks.       *)

(* What Selection assumes of its constants, as far as it is needed.        *)
ChoiceConstants ==
    /\ IsFiniteSet(Impls) /\ Impls \subseteq Int
    /\ Nothing \notin Impls /\ Nothing \notin Results
    /\ Declared \subseteq [Impls -> [state : States, score : Int]]
    /\ Estimate \in [Impls -> Amount] /\ Costs \subseteq Amount
    /\ Histories \subseteq [Impls -> Entry]
    /\ Ledgers \subseteq [Impls -> {0} \cup Levels]
    /\ Reaches \subseteq SUBSET Impls
    /\ Levels \subseteq Nat \ {0} /\ FaultStreak \in Nat \ {0}

LEMMA ChoiceAssumptions == ChoiceConstants
  <1>1. PICK n \in Nat : n = Cardinality(Impls)
    BY ImplsAssumption, FS_CardinalityType
  <1>2. Impls = 1 .. n
    BY <1>1, ImplsAssumption
  <1>3. Impls \subseteq Int
    BY <1>2
  <1> QED
    BY <1>3, ImplsAssumption, StartAssumption, LevelAssumption, StreakAssumption, NothingAssumption DEF ChoiceConstants

(* What a question reads of one implementation before its quality is known. *)
Unrated == [id : Impls, state : States, score : Int, expired : BOOLEAN,
            samples : Nat, attempts : Nat, cost : Amount]

(* A down that does not grow old stays what it is, whatever the base says. *)
LEMMA PricedIs ==
    ASSUME ChoiceConstants, record \in [Impls -> Entry], NEW x \in Unrated, NEW y, y = Priced(x)
    PROVE  y \in Unrated /\ y.id = x.id /\ (x.state = "down" /\ ~x.expired => y.state = "down" /\ ~y.expired)
  <1>1. PICK r : r = record[x.id]
    OBVIOUS
  <1>2. x.id \in Impls /\ x.state \in States /\ x.score \in Int /\ x.expired \in BOOLEAN /\ x.cost \in Amount
    BY DEF Unrated
  <1>3. r \in Entry
    BY <1>1, <1>2
  <1>4. r.samples \in Nat /\ r.attempts \in Nat /\ r.average \in Amount
    BY <1>3 DEF Entry
  <1>5. PICK s : s = Recorded(r)
    OBVIOUS
  <1>6. s \in {"alive", "degraded", "down", Nothing}
    BY <1>5 DEF Recorded
  <1>7. PICK a : a = [state |-> x.state, score |-> x.score, expired |-> x.expired]
    OBVIOUS
  <1>8. PICK h : h = Reconcile(a, s)
    OBVIOUS
  <1>9. a \in [state : States, score : Int, expired : BOOLEAN] /\ a.state = x.state /\ a.expired = x.expired
    BY <1>2, <1>7
  <1>10. \/ h = a
         \/ /\ a.state # "down" /\ s \in {"alive", "degraded", "down"}
            /\ h = [state |-> s, expired |-> FALSE, score |-> IF s = "alive" THEN a.score ELSE 0]
    <2>1. \A v \in States : Rank(v) \in 0 .. 3 /\ (v = "down" => Rank(v) = 3)
      BY DEF States, Rank
    <2>2. h = IF \/ s \in {"degraded", "down"} /\ Rank(s) > Rank(a.state)
                 \/ s = "alive" /\ a.state = "unknown"
              THEN [state |-> s, expired |-> FALSE, score |-> IF s = "alive" THEN a.score ELSE 0]
              ELSE a
      BY <1>8 DEF Reconcile
    <2>3. s \in {"degraded", "down"} /\ Rank(s) > Rank(a.state) => a.state # "down"
      BY <1>9, <2>1 DEF States
    <2> QED  BY <2>2, <2>3
  <1>11. /\ h.state \in States /\ h.score \in Int /\ h.expired \in BOOLEAN
         /\ (x.state = "down" /\ ~x.expired => h.state = "down" /\ ~h.expired)
    <2>1. CASE h = a
      BY <1>9, <2>1
    <2>2. CASE /\ a.state # "down" /\ s \in {"alive", "degraded", "down"}
               /\ h = [state |-> s, expired |-> FALSE, score |-> IF s = "alive" THEN a.score ELSE 0]
      <3>1. h.state = s /\ h.expired = FALSE /\ h.score = IF s = "alive" THEN a.score ELSE 0
        BY <2>2
      <3> QED  BY <1>9, <2>2, <3>1 DEF States
    <2> QED  BY <1>10, <2>1, <2>2
  <1>12. y = IF r.attempts = 0 THEN x
             ELSE [x EXCEPT !.state = h.state, !.score = h.score, !.expired = h.expired, !.samples = r.samples,
                            !.attempts = r.attempts,
                            !.cost = IF r.samples >= BreakInSamples THEN r.average ELSE @]
    BY <1>1, <1>5, <1>7, <1>8 DEF Priced
  <1>13. CASE y = x
    BY <1>13
  <1>14. CASE y # x
    <2>1. PICK p : p = IF r.samples >= BreakInSamples THEN r.average ELSE x.cost
      OBVIOUS
    <2>2. p \in Amount
      BY <1>2, <1>4, <2>1
    <2>3. y = [x EXCEPT !.state = h.state, !.score = h.score, !.expired = h.expired, !.samples = r.samples,
                        !.attempts = r.attempts, !.cost = p]
      BY <1>12, <1>14, <2>1
    <2> QED  BY <1>4, <1>11, <2>2, <2>3 DEF Unrated
  <1> QED  BY <1>13, <1>14

(* One of each of finitely many ids is finitely many.                      *)
LEMMA OneEachIsFinite ==
    ASSUME ChoiceConstants, NEW s, OneEach(s), \A x \in s : x.id \in Impls
    PROVE  IsFiniteSet(s)
  <1>1. PICK f : f = [x \in s |-> x.id]
    OBVIOUS
  <1>2. f \in [s -> Impls]
    BY <1>1
  <1>3. \A x, y \in DOMAIN f : f[x] = f[y] => x = y
    BY <1>1 DEF OneEach
  <1>4. f \in Injection(s, Impls)
    BY <1>2, <1>3 DEF Injection, IsInjective
  <1> QED  BY <1>4, FS_Injection DEF ChoiceConstants

(* Rated and Aged leave the id alone and make a candidate.                 *)
LEMMA SurvivorIs ==
    ASSUME ChoiceConstants, quality \in [Impls -> Nat], NEW known, NEW x \in Unrated,
           NEW y, y = Aged(Rated(x, known))
    PROVE  /\ y \in Candidate /\ y.id = x.id
           /\ x.state = "down" /\ ~x.expired => y.state = "down"
  <1>1. /\ x.id \in Impls /\ x.id \in Int /\ x.state \in States /\ x.score \in Int /\ x.expired \in BOOLEAN
        /\ x.samples \in Nat /\ x.attempts \in Nat /\ x.cost \in [tokens : Int, duration : Int]
    <2>1. /\ x.id \in Impls /\ x.state \in States /\ x.score \in Int /\ x.expired \in BOOLEAN
          /\ x.samples \in Nat /\ x.attempts \in Nat /\ x.cost \in Amount
      BY DEF Unrated
    <2>2. x.id \in Int
      BY <2>1 DEF ChoiceConstants
    <2>3. PICK c : c = x.cost
      OBVIOUS
    <2>4. c \in [tokens : Int, duration : Int]
      BY <2>1, <2>3 DEF Amount
    <2> QED  BY <2>1, <2>2, <2>3, <2>4
  <1>2. PICK q \in Int : q = IF x.id \in known THEN quality[x.id] ELSE 0
    BY <1>1
  <1>3. PICK r : r = Rated(x, known)
    OBVIOUS
  <1>4. r = [id |-> x.id, state |-> x.state, score |-> x.score, expired |-> x.expired,
             samples |-> x.samples, attempts |-> x.attempts, cost |-> x.cost, quality |-> q]
    BY <1>2, <1>3 DEF Rated
  <1>5. r \in Candidate /\ r.id = x.id /\ r.state = x.state /\ r.expired = x.expired
    BY <1>1, <1>2, <1>4 DEF Candidate
  <1>6. y = IF r.expired THEN [r EXCEPT !.state = "unknown"] ELSE r
    BY <1>3 DEF Aged
  <1>7. CASE y = r
    BY <1>1, <1>5, <1>6, <1>7
  <1>8. CASE y = [r EXCEPT !.state = "unknown"] /\ r.expired
    BY <1>5, <1>8 DEF Candidate, States
  <1> QED  BY <1>6, <1>7, <1>8

(* filterConstraints, filterReach and filterHealth leave some of them, and *)
(* none that the settings declare down.                                    *)
LeftOf(left, seen) ==
    /\ left \in SUBSET Candidate /\ OneEach(left) /\ IsFiniteSet(left)
    /\ \A y \in left : y.id \in Impls /\ \E x \in seen : x.id = y.id /\ ~(x.state = "down" /\ ~x.expired)

LEMMA SurvivorsAre ==
    ASSUME ChoiceConstants, quality \in [Impls -> Nat], NEW seen \in SUBSET Unrated, OneEach(seen), NEW known, NEW reach,
           NEW rated, rated = {Rated(x, known) : x \in seen}, NEW left, left = Survivors(rated, reach)
    PROVE  LeftOf(left, seen)
  <1>1. ASSUME NEW y \in left PROVE \E x \in seen : y = Aged(Rated(x, known)) /\ y.state # "down"
    <2>1. PICK r \in rated : y = Aged(r) /\ y.state # "down"
      BY DEF Survivors
    <2>2. PICK x \in seen : r = Rated(x, known)
      OBVIOUS
    <2> QED  BY <2>1, <2>2
  <1>2. ASSUME NEW y \in left PROVE y \in Candidate /\ y.id \in Impls /\ \E x \in seen : x.id = y.id /\ ~(x.state = "down" /\ ~x.expired)
    <2>1. PICK x \in seen : y = Aged(Rated(x, known)) /\ y.state # "down"
      BY <1>1
    <2>2. x \in Unrated
      OBVIOUS
    <2>3. y \in Candidate /\ y.id = x.id /\ ~(x.state = "down" /\ ~x.expired)
      BY <2>1, <2>2, SurvivorIs
    <2> QED  BY <2>2, <2>3 DEF Unrated
  <1>3. ASSUME NEW y \in left, NEW z \in left, y.id = z.id PROVE y = z
    <2>1. PICK v \in seen : y = Aged(Rated(v, known))
      BY <1>1
    <2>2. PICK w \in seen : z = Aged(Rated(w, known))
      BY <1>1
    <2>3. y.id = v.id
      BY <2>1, SurvivorIs
    <2>4. z.id = w.id
      BY <2>2, SurvivorIs
    <2>5. v = w
      BY <1>3, <2>3, <2>4 DEF OneEach
    <2> QED  BY <2>1, <2>2, <2>5
  <1>4. OneEach(left)
    BY <1>3 DEF OneEach
  <1>5. IsFiniteSet(left)
    BY <1>2, <1>4, OneEachIsFinite
  <1> QED  BY <1>2, <1>4, <1>5 DEF LeftOf

(* Nobody healthier, and nobody as healthy who beats it outright.          *)
Best(x, cands) ==
    \A y \in cands : /\ Rank(x.state) <= Rank(y.state)
                     /\ x.state = y.state /\ x.score = y.score => ~Cheaper(y, x)

(* choose takes one of the survivors, and the ranking the best of them.    *)
LEMMA ChosenIs ==
    ASSUME NEW left \in SUBSET Candidate, OneEach(left), IsFiniteSet(left), left # {}, NEW measuring \in BOOLEAN,
           NEW cands, NEW prefer, NEW i, i = Choose(cands, left, prefer, measuring)
    PROVE  /\ \E x \in left : x.id = i
           /\ prefer = Nothing /\ (\A y \in left : y.id # RulePrefer) /\ Plain(left, measuring)
                => \A x \in left : x.id = i => Best(x, left)
  <1>1. PICK preferred : preferred = {x \in left : prefer # Nothing /\ x.id \in Named(cands, prefer)}
    OBVIOUS
  <1>2. PICK among : among = IF preferred # {} THEN preferred ELSE left
    OBVIOUS
  <1>3. PICK ruled : ruled = {x \in among : x.id = RulePrefer}
    OBVIOUS
  <1>4. i = IF ruled # {} THEN (CHOOSE x \in ruled : TRUE).id ELSE Sorted(among, measuring)[1].id
    BY <1>1, <1>2, <1>3 DEF Choose
  <1>5. among \in SUBSET left /\ among # {}
    BY <1>1, <1>2
  <1>6. among \in SUBSET Candidate /\ OneEach(among) /\ IsFiniteSet(among)
    <2>1. IsFiniteSet(among)
      BY <1>5, FS_Subset
    <2> QED  BY <1>5, <2>1 DEF OneEach
  <1>7. PICK first : first = Sorted(among, measuring)[1]
    OBVIOUS
  <1>8. first \in among /\ (Plain(among, measuring) => \A x \in among : x = first \/ Compare(first, x, among, measuring) < 0)
    BY <1>5, <1>6, <1>7, SortedIs
  <1>9. CASE ruled # {}
    <2>1. PICK w : w = CHOOSE x \in ruled : TRUE
      OBVIOUS
    <2>2. w \in ruled
      BY <1>9, <2>1
    <2>3. w \in left /\ w.id = RulePrefer /\ i = w.id
      BY <1>3, <1>4, <1>5, <1>9, <2>1, <2>2
    <2> QED  BY <2>3
  <1>10. CASE ruled = {}
    <2>1. i = first.id
      BY <1>4, <1>7, <1>10
    <2>2. first \in left
      BY <1>5, <1>8
    <2>3. ASSUME prefer = Nothing, Plain(left, measuring) PROVE Best(first, left)
      <3>1. among = left
        BY <1>1, <1>2, <2>3
      <3>2. SUFFICES ASSUME NEW y \in left
                     PROVE  /\ Rank(first.state) <= Rank(y.state)
                            /\ first.state = y.state /\ first.score = y.score => ~Cheaper(y, first)
        BY DEF Best
      <3>3. y = first \/ Compare(first, y, left, measuring) < 0
        BY <1>8, <2>3, <3>1
      <3>4. /\ first.state \in States /\ y.state \in States /\ first.score \in Int /\ y.score \in Int
            /\ first.id \in Int /\ y.id \in Int /\ first \in Candidate /\ y \in Candidate
        BY <2>2 DEF Candidate
      <3>5. \A v, w \in States : Rank(v) \in Int /\ (Rank(v) = Rank(w) => v = w)
        BY DEF States, Rank
      <3>6. CASE y = first
        BY <3>4, <3>5, <3>6, CheaperIsStrict
      <3>7. CASE Compare(first, y, left, measuring) < 0
        <4>1. Dominators(first, left) \in Nat /\ Dominators(y, left) \in Nat
          BY <3>4, DominatorsType
        <4>2. Compare(first, y, left, measuring) =
                 IF first.state # y.state THEN Rank(first.state) - Rank(y.state)
                 ELSE IF first.score # y.score THEN y.score - first.score
                 ELSE IF Dominators(first, left) # Dominators(y, left) THEN Dominators(first, left) - Dominators(y, left)
                 ELSE first.id - y.id
          <5>1. first.quality = 0 /\ (measuring => ~InBreakIn(first) /\ ~InBreakIn(y))
            BY <2>2, <2>3 DEF Plain
          <5> QED  BY <2>2, <5>1, PlainCompare
        <4>3. Rank(first.state) <= Rank(y.state)
          BY <3>4, <3>5, <3>7, <4>2
        <4>4. ASSUME first.state = y.state, first.score = y.score, Cheaper(y, first) PROVE FALSE
          <5>1. ByCost(y, first, left) < 0
            BY <2>2, <4>4, DominatorGoesFirst
          <5>2. Dominators(y, left) - Dominators(first, left) < 0
            BY <5>1 DEF ByCost
          <5> QED  BY <3>7, <4>1, <4>2, <4>4, <5>2
        <4> QED  BY <4>3, <4>4
      <3> QED  BY <3>3, <3>6, <3>7
    <2>4. \A x \in left : x.id = i => x = first
      BY <2>1, <2>2 DEF OneEach
    <2> QED  BY <2>1, <2>2, <2>3, <2>4
  <1> QED  BY <1>9, <1>10

Question ==
    [pc : Pcs, prefer : Preferences \cup {Nothing}, reach : SUBSET Impls, seen : SUBSET (Unrated \cup Candidate),
     measuring : BOOLEAN, chosen : Impls \cup {Nothing}, result : Results \cup {Nothing}]

(* What one question knows is in order: one candidate of each id, of the   *)
(* declared down that they are down, a choice that is not one of those.    *)
Answered == {"answered", "recovering", "closed"}
Fit(q, d, sc) ==
    /\ q \in Question
    /\ OneEach(q.seen)
    /\ q.pc \in {"asked", "priced"} =>
            q.seen \subseteq Unrated /\ \A x \in q.seen : d[x.id].state = "down" => x.state = "down" /\ ~x.expired
    /\ q.chosen \in Impls => d[q.chosen].state # "down"
    /\ q.pc \in {"running"} \cup Answered => q.chosen \in Impls
    /\ q.pc \notin Answered => q.result = Nothing
    /\ q.pc \in Answered => q.result \in Results
    /\ q.pc = "recovering" => ~sc
    /\ /\ q.pc = "running" /\ q.prefer = Nothing
       /\ \A y \in q.seen : y.id # RulePrefer
       /\ Plain(q.seen, q.measuring)
       => \A x \in q.seen : x.id = q.chosen => Best(x, q.seen)

ChoiceTypes ==
    /\ declared \in [Impls -> [state : States, score : Int]]
    /\ scoped \in BOOLEAN
    /\ observed \in [Impls -> [state : {Nothing, "alive", "down"}, expired : BOOLEAN]]
    /\ record \in [Impls -> Entry]
    /\ quality \in [Impls -> Nat]
    /\ DOMAIN chat = Chats

(* No probe speaks of the declared down, nor of anybody where one subject  *)
(* says nothing about another.                                             *)
Unprobed ==
    /\ \A i \in Impls : declared[i].state = "down" => observed[i].state = Nothing
    /\ scoped => \A i \in Impls : observed[i].state = Nothing

ChoiceInv == ChoiceTypes /\ Unprobed /\ \A c \in Chats : Fit(chat[c], declared, scoped)

LEMMA QuietIsFit == ASSUME ChoiceConstants, NEW d, NEW sc PROVE Fit(Quiet, d, sc)
  <1>1. PICK q : q = Quiet
    OBVIOUS
  <1>2. q = [pc |-> "idle", prefer |-> Nothing, reach |-> {}, seen |-> {}, measuring |-> FALSE, chosen |-> Nothing,
             result |-> Nothing]
    BY <1>1 DEF Quiet
  <1>3. /\ q.pc = "idle" /\ q.seen = {} /\ q.chosen = Nothing /\ q.result = Nothing
        /\ q \in Question
    BY <1>2 DEF Question, Pcs
  <1>4. Fit(q, d, sc)
    BY <1>3 DEF Fit, OneEach, Answered, ChoiceConstants
  <1> QED  BY <1>1, <1>4

(* A step of one question.                                                 *)
LEMMA QuestionMoves ==
    ASSUME ChoiceInv, UNCHANGED <<declared, scoped>>, NEW c \in Chats, NEW q, Fit(q, declared, scoped), chat' = [chat EXCEPT ![c] = q]
    PROVE  DOMAIN chat' = Chats /\ \A k \in Chats : Fit(chat'[k], declared', scoped')
  <1>1. DOMAIN chat = Chats /\ \A k \in Chats : Fit(chat[k], declared, scoped)
    BY DEF ChoiceInv, ChoiceTypes
  <1>2. \A k \in Chats : chat'[k] = IF k = c THEN q ELSE chat[k]
    BY <1>1
  <1>3. declared' = declared /\ scoped' = scoped /\ DOMAIN chat' = Chats
    BY <1>1
  <1>4. ASSUME NEW k \in Chats PROVE Fit(chat'[k], declared', scoped')
    <2>1. Fit(chat'[k], declared, scoped)
      BY <1>1, <1>2
    <2> QED  BY <1>3, <2>1
  <1> QED  BY <1>3, <1>4

(* One that leaves what is known alone.                                    *)
LEMMA QuestionKeeps ==
    ASSUME ChoiceInv, UNCHANGED <<declared, scoped, observed, record, quality>>,
           NEW c \in Chats, NEW q, Fit(q, declared, scoped), chat' = [chat EXCEPT ![c] = q]
    PROVE  ChoiceInv'
  <1>1. DOMAIN chat' = Chats /\ \A k \in Chats : Fit(chat'[k], declared', scoped')
    BY QuestionMoves
  <1>2. ChoiceTypes'
    BY <1>1 DEF ChoiceInv, ChoiceTypes
  <1>3. Unprobed'
    BY DEF ChoiceInv, Unprobed
  <1> QED  BY <1>1, <1>2, <1>3 DEF ChoiceInv

LEMMA AskKeeps == ASSUME ChoiceConstants, ChoiceInv, NEW c \in Chats, Ask(c) PROVE ChoiceInv'
  <1>1. PICK prefer \in Preferences, reach \in Reaches :
            chat' = [chat EXCEPT ![c] =
                [Quiet EXCEPT !.pc = "asked", !.prefer = prefer, !.reach = reach,
                                     !.seen = {Unpriced(i, Observed(i)) : i \in Impls}]]
    BY DEF Ask
  <1>2. PICK seen : seen = {Unpriced(i, Observed(i)) : i \in Impls}
    OBVIOUS
  <1>3. ASSUME NEW i \in Impls, NEW x, x = Unpriced(i, Observed(i))
        PROVE  x \in Unrated /\ x.id = i /\ (declared[i].state = "down" => x.state = "down" /\ ~x.expired)
    <2>1. PICK h : h = Observed(i)
      OBVIOUS
    <2>2. /\ declared[i].state \in States /\ declared[i].score \in Int
          /\ observed[i].state \in {Nothing, "alive", "down"} /\ observed[i].expired \in BOOLEAN
      BY DEF ChoiceInv, ChoiceTypes
    <2>3. h = IF observed[i].state = Nothing
              THEN [state |-> declared[i].state, score |-> declared[i].score, expired |-> FALSE]
              ELSE [state |-> observed[i].state, score |-> 0, expired |-> observed[i].expired]
      BY <2>1 DEF Observed
    <2>4. /\ h.state \in States /\ h.score \in Int /\ h.expired \in BOOLEAN
          /\ declared[i].state = "down" => h.state = "down" /\ ~h.expired
      <3>1. CASE observed[i].state = Nothing
        <4>1. h.state = declared[i].state /\ h.score = declared[i].score /\ h.expired = FALSE
          BY <2>3, <3>1
        <4> QED  BY <2>2, <4>1
      <3>2. CASE observed[i].state # Nothing
        <4>1. h.state = observed[i].state /\ h.score = 0 /\ h.expired = observed[i].expired
          BY <2>3, <3>2
        <4>2. declared[i].state # "down"
          BY <3>2 DEF ChoiceInv, Unprobed
        <4>3. h.state \in States
          BY <2>2, <3>2, <4>1 DEF States
        <4> QED  BY <2>2, <4>1, <4>2, <4>3
      <3> QED  BY <3>1, <3>2
    <2>5. x = [id |-> i, state |-> h.state, score |-> h.score, expired |-> h.expired, samples |-> 0, attempts |-> 0,
               cost |-> Estimate[i]]
      BY <1>3, <2>1 DEF Unpriced
    <2>6. Estimate[i] \in Amount
      BY DEF ChoiceConstants
    <2>7. x.id = i /\ x.state = h.state /\ x.expired = h.expired
      BY <2>5
    <2>8. x \in Unrated
      BY <2>4, <2>5, <2>6 DEF Unrated
    <2> QED  BY <2>4, <2>7, <2>8
  <1>4. ASSUME NEW x \in seen PROVE x \in Unrated /\ (declared[x.id].state = "down" => x.state = "down" /\ ~x.expired)
    <2>1. PICK i \in Impls : x = Unpriced(i, Observed(i))
      BY <1>2
    <2> QED  BY <1>3, <2>1
  <1>5. OneEach(seen)
    <2>1. ASSUME NEW x \in seen, NEW y \in seen, x.id = y.id PROVE x = y
      <3>1. PICK i \in Impls : x = Unpriced(i, Observed(i))
        BY <1>2
      <3>2. PICK j \in Impls : y = Unpriced(j, Observed(j))
        BY <1>2
      <3>3. x.id = i /\ y.id = j
        BY <1>3, <3>1, <3>2
      <3> QED  BY <2>1, <3>1, <3>2, <3>3
    <2> QED  BY <2>1 DEF OneEach
  <1>6. PICK z : z = Quiet
    OBVIOUS
  <1>7. PICK q : q = [z EXCEPT !.pc = "asked", !.prefer = prefer, !.reach = reach, !.seen = seen]
    OBVIOUS
  <1>8. seen \in SUBSET (Unrated \cup Candidate) /\ reach \in SUBSET Impls
    BY <1>4 DEF ChoiceConstants
  <1>9. z \in Question /\ z.chosen = Nothing /\ z.result = Nothing
    <2>1. z.chosen = Nothing /\ z.result = Nothing
      BY <1>6 DEF Quiet
    <2> QED  BY <1>6, <2>1, QuietIsFit DEF Fit
  <1>10. q \in Question /\ q.pc = "asked" /\ q.seen = seen /\ q.chosen = Nothing /\ q.result = Nothing
    BY <1>7, <1>8, <1>9 DEF Question, Pcs
  <1>11. Fit(q, declared, scoped)
    BY <1>4, <1>5, <1>10 DEF Fit, Answered, ChoiceConstants
  <1>12. UNCHANGED <<declared, scoped, observed, record, quality>>
    BY DEF Ask, settings
  <1>13. chat' = [chat EXCEPT ![c] = q]
    BY <1>1, <1>2, <1>6, <1>7
  <1> QED  BY <1>11, <1>12, <1>13, QuestionKeeps

LEMMA PriceKeeps == ASSUME ChoiceConstants, ChoiceInv, NEW c \in Chats, Price(c) PROVE ChoiceInv'
  <1>1. PICK o : o = chat[c]
    OBVIOUS
  <1>2. o.pc = "asked" /\ Fit(o, declared, scoped) /\ DOMAIN chat = Chats /\ record \in [Impls -> Entry]
    BY <1>1 DEF Price, ChoiceInv, ChoiceTypes
  <1>3. UNCHANGED <<declared, scoped, observed, record, quality>>
    BY DEF Price, settings
  <1>4. /\ o \in Question /\ OneEach(o.seen) /\ o.seen \subseteq Unrated
        /\ \A x \in o.seen : declared[x.id].state = "down" => x.state = "down" /\ ~x.expired
        /\ o.chosen \in Impls => declared[o.chosen].state # "down"
        /\ o.result = Nothing
    BY <1>2 DEF Fit, Answered
  <1>5. ASSUME NEW seen \in SUBSET Unrated, OneEach(seen), NEW m \in BOOLEAN,
               \A x \in seen : declared[x.id].state = "down" => x.state = "down" /\ ~x.expired,
               NEW q, q = [o EXCEPT !.pc = "priced", !.measuring = m, !.seen = seen]
        PROVE  Fit(q, declared, scoped)
    <2>1. q \in Question
      BY <1>4, <1>5 DEF Question, Pcs
    <2>2. q.pc = "priced" /\ q.seen = seen /\ q.chosen = o.chosen /\ q.result = Nothing
      BY <1>4, <1>5 DEF Question
    <2> QED  BY <1>4, <1>5, <2>1, <2>2 DEF Fit, Answered
  <1>6. CASE chat' = [chat EXCEPT ![c].pc = "priced", ![c].measuring = TRUE, ![c].seen = {Priced(x) : x \in @}]
    <2>1. PICK seen : seen = {Priced(x) : x \in o.seen}
      OBVIOUS
    <2>2. PICK m \in BOOLEAN : m = TRUE
      OBVIOUS
    <2>3. PICK q : q = [o EXCEPT !.pc = "priced", !.measuring = m, !.seen = seen]
      OBVIOUS
    <2>4. chat' = [chat EXCEPT ![c] = q]
      BY <1>1, <1>2, <1>6, <2>1, <2>2, <2>3
    <2>5. ASSUME NEW y \in seen PROVE y \in Unrated /\ (declared[y.id].state = "down" => y.state = "down" /\ ~y.expired)
      <3>1. PICK x \in o.seen : y = Priced(x)
        BY <2>1
      <3>2. x \in Unrated
        BY <1>4
      <3>3. y \in Unrated /\ y.id = x.id /\ (x.state = "down" /\ ~x.expired => y.state = "down" /\ ~y.expired)
        BY <1>2, <3>1, <3>2, PricedIs
      <3> QED  BY <1>4, <3>3
    <2>6. OneEach(seen)
      <3>1. ASSUME NEW x \in seen, NEW y \in seen, x.id = y.id PROVE x = y
        <4>1. PICK v \in o.seen : x = Priced(v)
          BY <2>1
        <4>2. PICK w \in o.seen : y = Priced(w)
          BY <2>1
        <4>3. x.id = v.id
          BY <1>2, <1>4, <4>1, PricedIs
        <4>4. y.id = w.id
          BY <1>2, <1>4, <4>2, PricedIs
        <4> QED  BY <1>4, <3>1, <4>1, <4>2, <4>3, <4>4 DEF OneEach
      <3> QED  BY <3>1 DEF OneEach
    <2>7. seen \in SUBSET Unrated
      BY <2>5
    <2>8. Fit(q, declared, scoped)
      BY <1>5, <2>3, <2>5, <2>6, <2>7
    <2> QED  BY <1>3, <2>4, <2>8, QuestionKeeps
  <1>7. CASE chat' = [chat EXCEPT ![c].pc = "priced"]
    <2>1. PICK seen : seen = o.seen
      OBVIOUS
    <2>2. PICK m : m = o.measuring
      OBVIOUS
    <2>3. PICK q : q = [o EXCEPT !.pc = "priced", !.measuring = m, !.seen = seen]
      OBVIOUS
    <2>4. chat' = [chat EXCEPT ![c] = q]
      <3>1. q = [o EXCEPT !.pc = "priced"]
        BY <1>4, <2>1, <2>2, <2>3 DEF Question
      <3> QED  BY <1>1, <1>2, <1>7, <3>1
    <2>5. m \in BOOLEAN /\ seen \in SUBSET Unrated
      BY <1>4, <2>1, <2>2 DEF Question
    <2>6. Fit(q, declared, scoped)
      BY <1>4, <1>5, <2>1, <2>3, <2>5
    <2> QED  BY <1>3, <2>4, <2>6, QuestionKeeps
  <1> QED  BY <1>6, <1>7 DEF Price

LEMMA SelectKeeps == ASSUME ChoiceConstants, ChoiceInv, NEW c \in Chats, Select(c) PROVE ChoiceInv'
  <1>1. PICK o : o = chat[c]
    OBVIOUS
  <1>2. o.pc = "priced" /\ Fit(o, declared, scoped) /\ DOMAIN chat = Chats /\ quality \in [Impls -> Nat]
    BY <1>1 DEF Select, ChoiceInv, ChoiceTypes
  <1>3. UNCHANGED <<declared, scoped, observed, record, quality>>
    BY DEF Select, settings
  <1>4. /\ o \in Question /\ OneEach(o.seen) /\ o.seen \in SUBSET Unrated /\ o.result = Nothing
        /\ \A x \in o.seen : declared[x.id].state = "down" => x.state = "down" /\ ~x.expired
    BY <1>2, SMTT(60) DEF Fit, Answered
  <1>5. PICK known \in SUBSET o.reach :
            LET seen == {Rated(x, known) : x \in o.seen}
                left == Survivors(seen, o.reach)
            IN  chat' = [chat EXCEPT ![c] =
                    IF left = {} \/ Mistaken(seen, o.prefer) THEN Quiet
                    ELSE [o EXCEPT !.pc = "running", !.seen = left,
                            !.chosen = Choose(seen, left, o.prefer, o.measuring)]]
    BY <1>1, <1>2 DEF Select
  <1>6. PICK seen : seen = {Rated(x, known) : x \in o.seen}
    OBVIOUS
  <1>7. PICK left : left = Survivors(seen, o.reach)
    OBVIOUS
  <1>8. /\ left \in SUBSET Candidate /\ OneEach(left) /\ IsFiniteSet(left)
        /\ \A y \in left : y.id \in Impls /\ \E x \in o.seen : x.id = y.id /\ ~(x.state = "down" /\ ~x.expired)
    <2>1. OneEach(o.seen) /\ o.seen \in SUBSET Unrated
      BY <1>4
    <2>2. LeftOf(left, o.seen)
      BY <1>2, <1>6, <1>7, <2>1, SurvivorsAre
    <2> QED  BY <2>2 DEF LeftOf
  <1>9. PICK i : i = Choose(seen, left, o.prefer, o.measuring)
    OBVIOUS
  <1>10. PICK q : q = [o EXCEPT !.pc = "running", !.seen = left, !.chosen = i]
    OBVIOUS
  <1>11. \/ chat' = [chat EXCEPT ![c] = Quiet]
         \/ left # {} /\ chat' = [chat EXCEPT ![c] = q]
    BY <1>5, <1>6, <1>7, <1>9, <1>10
  <1>12. CASE chat' = [chat EXCEPT ![c] = Quiet]
    BY <1>3, <1>12, QuietIsFit, QuestionKeeps
  <1>13. CASE left # {} /\ chat' = [chat EXCEPT ![c] = q]
    <2>1. o.measuring \in BOOLEAN
      BY <1>4 DEF Question
    <2>2. /\ \E x \in left : x.id = i
          /\ o.prefer = Nothing /\ (\A y \in left : y.id # RulePrefer) /\ Plain(left, o.measuring)
                => \A x \in left : x.id = i => Best(x, left)
      BY <1>8, <1>9, <1>13, <2>1, ChosenIs
    <2>3. i \in Impls /\ declared[i].state # "down"
      BY <1>4, <1>8, <2>2
    <2>4. q \in Question
      BY <1>4, <1>8, <1>10, <2>3 DEF Question, Pcs
    <2>5. /\ q.pc = "running" /\ q.seen = left /\ q.chosen = i /\ q.prefer = o.prefer /\ q.measuring = o.measuring
          /\ q.result = Nothing
      BY <1>4, <1>10 DEF Question
    <2>6. Fit(q, declared, scoped)
      BY <1>8, <2>2, <2>3, <2>4, <2>5 DEF Fit, Answered
    <2> QED  BY <1>3, <1>13, <2>6, QuestionKeeps
  <1> QED  BY <1>11, <1>12, <1>13

(* What a question that has been sent knows.                               *)
LEMMA SentIs ==
    ASSUME NEW o, NEW d, NEW sc, Fit(o, d, sc), o.pc \in {"running"} \cup Answered
    PROVE  o \in Question /\ o.chosen \in Impls /\ d[o.chosen].state # "down"
  BY DEF Fit

(* A later stage of a question: its choice stays, what came back stays.    *)
LEMMA AnsweredIsFit ==
    ASSUME NEW d, NEW sc, NEW o, o \in Question, NEW q \in Question, o.chosen \in Impls, d[o.chosen].state # "down",
           q.chosen = o.chosen, OneEach(q.seen), q.pc \in Answered, q.result \in Results, q.pc = "recovering" => ~sc
    PROVE  Fit(q, d, sc)
  BY DEF Fit, Answered

LEMMA AnswerKeeps == ASSUME ChoiceConstants, ChoiceInv, NEW c \in Chats, Answer(c) PROVE ChoiceInv'
  <1>1. PICK o : o = chat[c]
    OBVIOUS
  <1>2. o.pc = "running" /\ Fit(o, declared, scoped) /\ DOMAIN chat = Chats
    BY <1>1 DEF Answer, ChoiceInv, ChoiceTypes
  <1>3. o \in Question /\ o.chosen \in Impls /\ declared[o.chosen].state # "down"
    BY <1>2, SentIs
  <1>4. PICK result \in Results :
            /\ chat' = [chat EXCEPT ![c] =
                    [Quiet EXCEPT !.pc = "answered", !.chosen = chat[c].chosen, !.result = result]]
            /\ IF Counts(result)
               THEN \E q \in {0} \cup Levels : quality' = [quality EXCEPT ![chat[c].chosen] = q]
               ELSE UNCHANGED quality
    BY DEF Answer
  <1>5. PICK z : z = Quiet
    OBVIOUS
  <1>6. z \in Question /\ OneEach(z.seen)
    BY <1>5, QuietIsFit DEF Fit
  <1>7. PICK q : q = [z EXCEPT !.pc = "answered", !.chosen = o.chosen, !.result = result]
    OBVIOUS
  <1>8. q \in Question /\ q.pc = "answered" /\ q.chosen = o.chosen /\ q.seen = z.seen /\ q.result = result
    BY <1>3, <1>6, <1>7 DEF Question, Pcs
  <1>9. Fit(q, declared, scoped)
    BY <1>3, <1>6, <1>8, AnsweredIsFit DEF Answered
  <1>10. chat' = [chat EXCEPT ![c] = q]
    BY <1>1, <1>4, <1>5, <1>7
  <1>11. UNCHANGED <<declared, scoped, observed, record>>
    BY DEF Answer, settings
  <1>12. quality' \in [Impls -> Nat]
    BY <1>4 DEF ChoiceInv, ChoiceTypes, ChoiceConstants
  <1>13. DOMAIN chat' = Chats /\ \A k \in Chats : Fit(chat'[k], declared', scoped')
    BY <1>9, <1>10, <1>11, QuestionMoves
  <1>14. ChoiceTypes' /\ Unprobed'
    BY <1>11, <1>12, <1>13 DEF ChoiceInv, ChoiceTypes, Unprobed
  <1> QED  BY <1>13, <1>14 DEF ChoiceInv

(* SetHealth, of somebody the settings do not declare down, where what is  *)
(* said of one subject is said of all.                                     *)
LEMMA HealthIsSet ==
    ASSUME ChoiceInv, UNCHANGED <<declared, scoped, record, quality>>, NEW c \in Chats, NEW q, Fit(q, declared, scoped),
           chat' = [chat EXCEPT ![c] = q], ~scoped, NEW i \in Impls, declared[i].state # "down",
           NEW s \in {"alive", "down"}, SetHealth(i, s)
    PROVE  ChoiceInv'
  <1>1. DOMAIN chat' = Chats /\ \A k \in Chats : Fit(chat'[k], declared', scoped')
    BY QuestionMoves
  <1>2. PICK e : e = [state |-> s, expired |-> FALSE]
    OBVIOUS
  <1>3. observed' = [observed EXCEPT ![i] = e] /\ e \in [state : {Nothing, "alive", "down"}, expired : BOOLEAN]
    BY <1>2 DEF SetHealth
  <1>4. observed \in [Impls -> [state : {Nothing, "alive", "down"}, expired : BOOLEAN]]
    BY DEF ChoiceInv, ChoiceTypes
  <1>5. /\ observed' \in [Impls -> [state : {Nothing, "alive", "down"}, expired : BOOLEAN]]
        /\ \A j \in Impls : j # i => observed'[j] = observed[j]
    BY <1>3, <1>4
  <1>6. ChoiceTypes'
    BY <1>1, <1>5 DEF ChoiceInv, ChoiceTypes
  <1>7. Unprobed'
    BY <1>5 DEF ChoiceInv, Unprobed
  <1> QED  BY <1>1, <1>6, <1>7 DEF ChoiceInv

LEMMA ProbeKeeps == ASSUME ChoiceConstants, ChoiceInv, NEW c \in Chats, Probe(c) PROVE ChoiceInv'
  <1>1. PICK o : o = chat[c]
    OBVIOUS
  <1>2. o.pc = "answered" /\ Fit(o, declared, scoped) /\ DOMAIN chat = Chats
    BY <1>1 DEF Probe, ChoiceInv, ChoiceTypes
  <1>3. o \in Question /\ o.chosen \in Impls /\ declared[o.chosen].state # "down" /\ OneEach(o.seen) /\ o.result \in Results
    BY <1>2, SentIs DEF Answered, Fit
  <1>4. PICK s \in {"recovering", "closed"} :
            /\ chat' = [chat EXCEPT ![c].pc = s] /\ (s = "recovering" => ~scoped)
            /\ IF AffectsCatalog(c) THEN SetHealth(o.chosen, "down") ELSE UNCHANGED observed
    BY <1>1 DEF Probe
  <1>5. PICK q : q = [o EXCEPT !.pc = s]
    OBVIOUS
  <1>6. chat' = [chat EXCEPT ![c] = q]
    BY <1>1, <1>2, <1>4, <1>5
  <1>7. q \in Question /\ q.pc = s /\ q.chosen = o.chosen /\ q.seen = o.seen /\ q.result = o.result
    BY <1>3, <1>5 DEF Question, Pcs
  <1>8. Fit(q, declared, scoped)
    BY <1>3, <1>4, <1>7, AnsweredIsFit DEF Answered
  <1>9. UNCHANGED <<declared, scoped, record, quality>>
    BY DEF Probe, settings
  <1>10. CASE AffectsCatalog(c)
    <2>1. ~scoped /\ SetHealth(o.chosen, "down")
      BY <1>4, <1>10 DEF AffectsCatalog
    <2>2. PICK i \in Impls : i = o.chosen
      BY <1>3
    <2> QED  BY <1>3, <1>6, <1>8, <1>9, <2>1, <2>2, HealthIsSet
  <1>11. CASE ~AffectsCatalog(c)
    <2>1. UNCHANGED observed
      BY <1>4, <1>11
    <2> QED  BY <1>6, <1>8, <1>9, <2>1, QuestionKeeps
  <1> QED  BY <1>10, <1>11

LEMMA RecoverKeeps == ASSUME ChoiceConstants, ChoiceInv, NEW c \in Chats, Recover(c) PROVE ChoiceInv'
  <1>1. PICK o : o = chat[c]
    OBVIOUS
  <1>2. o.pc = "recovering" /\ Fit(o, declared, scoped) /\ DOMAIN chat = Chats
    BY <1>1 DEF Recover, ChoiceInv, ChoiceTypes
  <1>3. o \in Question /\ o.chosen \in Impls /\ declared[o.chosen].state # "down" /\ OneEach(o.seen) /\ ~scoped /\ o.result \in Results
    BY <1>2, SentIs DEF Answered, Fit
  <1>4. PICK q : q = [o EXCEPT !.pc = "closed"]
    OBVIOUS
  <1>5. chat' = [chat EXCEPT ![c] = q]
    BY <1>1, <1>2, <1>4 DEF Recover
  <1>6. q \in Question /\ q.pc = "closed" /\ q.chosen = o.chosen /\ q.seen = o.seen /\ q.result = o.result
    BY <1>3, <1>4 DEF Question, Pcs
  <1>7. Fit(q, declared, scoped)
    BY <1>3, <1>6, AnsweredIsFit DEF Answered
  <1>8. UNCHANGED <<declared, scoped, record, quality>> /\ SetHealth(o.chosen, "alive")
    BY <1>1 DEF Recover, settings
  <1>9. PICK i \in Impls : i = o.chosen
    BY <1>3
  <1> QED  BY <1>3, <1>5, <1>7, <1>8, <1>9, HealthIsSet

(* What is measured leaves an entry an entry.                              *)
LEMMA MeasuredIs ==
    ASSUME ChoiceConstants, NEW r \in Entry, NEW result \in Results, Counts(result), NEW average \in Costs
    PROVE  Measured(r, result, average) \in Entry
  <1>1. \A n, b \in Nat : Capped(n, b) \in Nat
    BY DEF Capped
  <1>2. /\ r.samples \in Nat /\ r.attempts \in Nat /\ r.streak \in Nat /\ r.same \in Nat
    BY DEF Entry
  <1>3. BreakInSamples \in Nat /\ BreakInAttempts \in Nat /\ FaultStreak \in Nat /\ average \in Amount
    BY BreakInAssumption DEF ChoiceConstants
  <1>4. PICK f : f = Capped(r.samples + 1, BreakInSamples)
    OBVIOUS
  <1>5. PICK a : a = Capped(r.attempts + 1, BreakInAttempts)
    OBVIOUS
  <1>6. PICK s : s = Capped(r.streak + 1, FaultStreak)
    OBVIOUS
  <1>7. PICK b : b = Bin(result)
    OBVIOUS
  <1>8. PICK m : m = IF r.streak > 0 /\ r.kind = b THEN Capped(r.same + 1, FaultStreak) ELSE 1
    OBVIOUS
  <1>9. f \in Nat /\ a \in Nat /\ s \in Nat /\ m \in Nat
    <2>1. r.samples + 1 \in Nat /\ r.attempts + 1 \in Nat /\ r.streak + 1 \in Nat /\ r.same + 1 \in Nat
      BY <1>2
    <2> QED  BY <1>1, <1>3, <1>4, <1>5, <1>6, <1>8, <2>1
  <1>10. PICK t \in BOOLEAN : t = TRUE
    OBVIOUS
  <1>11. CASE result = "ok"
    <2>1. PICK k \in {"", "unavailable", "refused"} : k = ""
      OBVIOUS
    <2>2. PICK n \in Nat : n = 0
      OBVIOUS
    <2>3. Measured(r, result, average) =
            [r EXCEPT !.samples = f, !.attempts = a, !.streak = n, !.same = n, !.kind = k, !.recent = t, !.average = average]
      BY <1>4, <1>5, <1>10, <1>11, <2>1, <2>2 DEF Measured
    <2> QED  BY <1>3, <1>9, <1>10, <2>1, <2>2, <2>3, ZenonT(60) DEF Entry
  <1>12. CASE result # "ok"
    <2>1. Measured(r, result, average) =
            [r EXCEPT !.attempts = a, !.streak = s, !.same = m, !.kind = b, !.recent = t]
      BY <1>5, <1>6, <1>7, <1>8, <1>10, <1>12 DEF Measured
    <2>2. b \in {"", "unavailable", "refused"}
      BY <1>7, <1>12 DEF Bin, Results, Failures, Counts
    <2> QED  BY <1>9, <1>10, <2>1, <2>2 DEF Entry
  <1> QED  BY <1>11, <1>12

LEMMA MeterKeeps == ASSUME ChoiceConstants, ChoiceInv, NEW c \in Chats, Meter(c) PROVE ChoiceInv'
  <1>1. PICK o : o = chat[c]
    OBVIOUS
  <1>2. o.pc = "closed" /\ Fit(o, declared, scoped) /\ record \in [Impls -> Entry]
    BY <1>1 DEF Meter, ChoiceInv, ChoiceTypes
  <1>3. o \in Question /\ o.chosen \in Impls
    BY <1>2, SentIs DEF Answered
  <1>4. PICK q : q = Quiet
    OBVIOUS
  <1>5. Fit(q, declared, scoped) /\ chat' = [chat EXCEPT ![c] = q]
    BY <1>4, QuietIsFit DEF Meter
  <1>6. UNCHANGED <<declared, scoped, observed, quality>>
    BY DEF Meter, settings
  <1>7. record' \in [Impls -> Entry]
    <2>1. CASE Counts(o.result)
      <3>1. PICK average \in Costs :
                record' = [record EXCEPT ![o.chosen] = Measured(@, o.result, average)]
        BY <1>1, <2>1 DEF Meter
      <3>2. PICK r : r = record[o.chosen]
        OBVIOUS
      <3>3. o.result \in Results /\ r \in Entry
        BY <1>2, <1>3, <3>2 DEF Question, Fit, Answered
      <3>4. PICK e : e = Measured(r, o.result, average)
        OBVIOUS
      <3>5. e \in Entry
        BY <2>1, <3>3, <3>4, MeasuredIs
      <3>6. record' = [record EXCEPT ![o.chosen] = e]
        BY <3>1, <3>2, <3>4
      <3> QED  BY <1>2, <3>5, <3>6
    <2>2. CASE ~Counts(o.result)
      BY <1>1, <1>2, <2>2 DEF Meter
    <2> QED  BY <2>1, <2>2
  <1>8. DOMAIN chat' = Chats /\ \A k \in Chats : Fit(chat'[k], declared', scoped')
    BY <1>5, <1>6, QuestionMoves
  <1>9. ChoiceTypes' /\ Unprobed'
    BY <1>6, <1>7, <1>8 DEF ChoiceInv, ChoiceTypes, Unprobed
  <1> QED  BY <1>8, <1>9 DEF ChoiceInv

LEMMA LapseKeeps == ASSUME ChoiceInv, NEW i \in Impls, Lapse(i) \/ Expire(i) PROVE ChoiceInv'
  <1>1. UNCHANGED <<declared, scoped, quality, chat>>
    BY DEF Lapse, Expire, settings
  <1>2. /\ record \in [Impls -> Entry]
        /\ observed \in [Impls -> [state : {Nothing, "alive", "down"}, expired : BOOLEAN]]
    BY DEF ChoiceInv, ChoiceTypes
  <1>3. record' \in [Impls -> Entry]
    <2>1. CASE Lapse(i)
      <3>1. PICK f \in BOOLEAN : f = FALSE
        OBVIOUS
      <3>2. PICK r : r = [record[i] EXCEPT !.recent = f]
        OBVIOUS
      <3>3. r \in Entry
        BY <1>2, <3>2, ZenonT(60) DEF Entry
      <3>4. record' = [record EXCEPT ![i] = r]
        BY <2>1, <3>1, <3>2 DEF Lapse
      <3> QED  BY <1>2, <3>3, <3>4
    <2>2. CASE Expire(i)
      BY <1>2, <2>2 DEF Expire
    <2> QED  BY <2>1, <2>2
  <1>4. /\ observed' \in [Impls -> [state : {Nothing, "alive", "down"}, expired : BOOLEAN]]
        /\ \A j \in Impls : observed'[j].state = observed[j].state
    <2>1. CASE Expire(i)
      <3>1. PICK f \in BOOLEAN : f = TRUE
        OBVIOUS
      <3>2. PICK e : e = [observed[i] EXCEPT !.expired = f]
        OBVIOUS
      <3>3. e \in [state : {Nothing, "alive", "down"}, expired : BOOLEAN] /\ e.state = observed[i].state
        BY <1>2, <3>2
      <3>4. observed' = [observed EXCEPT ![i] = e]
        BY <2>1, <3>1, <3>2 DEF Expire
      <3>5. \A j \in Impls : observed'[j] = IF j = i THEN e ELSE observed[j]
        BY <1>2, <3>4
      <3> QED  BY <1>2, <3>3, <3>4, <3>5
    <2>2. CASE Lapse(i)
      BY <1>2, <2>2 DEF Lapse
    <2> QED  BY <2>1, <2>2
  <1>5. ChoiceTypes' /\ Unprobed'
    BY <1>1, <1>3, <1>4 DEF ChoiceInv, ChoiceTypes, Unprobed
  <1> QED  BY <1>1, <1>5 DEF ChoiceInv

LEMMA ChoiceStart == ASSUME ChoiceConstants, SelectionInit PROVE ChoiceInv
  <1>1. declared \in [Impls -> [state : States, score : Int]] /\ scoped \in BOOLEAN /\ record \in [Impls -> Entry]
    <2>1. declared \in Declared /\ scoped \in BOOLEAN /\ record \in Histories
      BY DEF SelectionInit
    <2> QED  BY <2>1 DEF ChoiceConstants
  <1>2. quality \in [Impls -> Nat]
    <2>1. quality \in Ledgers
      BY DEF SelectionInit
    <2>2. quality \in [Impls -> {0} \cup Levels] /\ {0} \cup Levels \subseteq Nat
      BY <2>1 DEF ChoiceConstants
    <2> QED  BY <2>2
  <1>3. PICK f \in BOOLEAN : f = FALSE
    OBVIOUS
  <1>4. PICK e : e = [state |-> Nothing, expired |-> f]
    OBVIOUS
  <1>5. e \in [state : {Nothing, "alive", "down"}, expired : BOOLEAN] /\ e.state = Nothing
    BY <1>4
  <1>6. observed = [i \in Impls |-> e]
    BY <1>3, <1>4 DEF SelectionInit
  <1>7. DOMAIN chat = Chats /\ \A c \in Chats : chat[c] = Quiet
    BY DEF SelectionInit
  <1>8. \A c \in Chats : Fit(chat[c], declared, scoped)
    BY <1>7, QuietIsFit
  <1>9. ChoiceTypes /\ Unprobed
    BY <1>1, <1>2, <1>5, <1>6, <1>7 DEF ChoiceTypes, Unprobed
  <1> QED  BY <1>8, <1>9 DEF ChoiceInv

LEMMA ChoiceStep == ASSUME ChoiceConstants PROVE ChoiceInv /\ [SelectionNext]_selectionVars => ChoiceInv'
  <1> SUFFICES ASSUME ChoiceInv, [SelectionNext]_selectionVars PROVE ChoiceInv'
    OBVIOUS
  <1>1. CASE UNCHANGED selectionVars
    BY <1>1 DEF selectionVars, ChoiceInv, ChoiceTypes, Unprobed
  <1>2. ASSUME NEW c \in Chats, Ask(c) \/ Step(c) PROVE ChoiceInv'
    BY <1>2, AskKeeps, PriceKeeps, SelectKeeps, AnswerKeeps, ProbeKeeps, RecoverKeeps, MeterKeeps DEF Step
  <1>3. ASSUME NEW i \in Impls, Lapse(i) \/ Expire(i) PROVE ChoiceInv'
    BY <1>3, LapseKeeps
  <1> QED  BY <1>1, <1>2, <1>3 DEF SelectionNext

(* What the property says of a step.                                       *)
Learned ==
    \A c \in Chats :
        chat'[c] # chat[c] /\ {chat[c].result, chat'[c].result} \cap {"canceled", "cached"} # {}
          => UNCHANGED <<record, quality>>

LEMMA NothingIsLearned == ASSUME ChoiceConstants, ChoiceInv, [SelectionNext]_selectionVars PROVE Learned
  <1>1. SUFFICES ASSUME NEW k \in Chats, chat'[k] # chat[k],
                        {chat[k].result, chat'[k].result} \cap {"canceled", "cached"} # {}
                 PROVE  UNCHANGED <<record, quality>>
    BY DEF Learned
  <1>2. DOMAIN chat = Chats /\ Fit(chat[k], declared, scoped)
    BY DEF ChoiceInv, ChoiceTypes
  <1>3. Nothing \notin {"canceled", "cached"}
    BY DEF ChoiceConstants, Results
  <1>4. CASE UNCHANGED selectionVars
    BY <1>4, SMTT(60) DEF selectionVars
  <1>5. ASSUME NEW c \in Chats, Ask(c) \/ Price(c) \/ Select(c) \/ Probe(c) \/ Recover(c)
        PROVE  UNCHANGED <<record, quality>>
    BY <1>5 DEF Ask, Price, Select, Probe, Recover
  <1>6. ASSUME NEW c \in Chats, Answer(c) PROVE UNCHANGED <<record, quality>>
    <2>1. PICK result \in Results :
            /\ chat' = [chat EXCEPT ![c] =
                    [Quiet EXCEPT !.pc = "answered", !.chosen = chat[c].chosen, !.result = result]]
            /\ ~Counts(result) => UNCHANGED quality
      BY <1>6 DEF Answer
    <2>2. k = c
      BY <1>1, <1>2, <2>1
    <2>3. chat[c].result = Nothing
      BY <1>2, <1>6, <2>2 DEF Fit, Answered, Answer
    <2>4. PICK z : z = Quiet
      OBVIOUS
    <2>5. z \in Question
      BY <2>4, QuietIsFit DEF Fit
    <2>6. PICK q : q = [z EXCEPT !.pc = "answered", !.chosen = chat[c].chosen, !.result = result]
      OBVIOUS
    <2>7. q.result = result /\ chat'[c] = q
      BY <1>2, <2>1, <2>2, <2>4, <2>5, <2>6 DEF Question
    <2>8. result \in {"canceled", "cached"}
      BY <1>1, <1>3, <2>2, <2>3, <2>7
    <2>9. ~Counts(result)
      BY <2>8 DEF Counts
    <2> QED  BY <1>6, <2>1, <2>9 DEF Answer
  <1>7. ASSUME NEW c \in Chats, Meter(c) PROVE UNCHANGED <<record, quality>>
    <2>1. chat' = [chat EXCEPT ![c] = Quiet]
      BY <1>7 DEF Meter
    <2>2. k = c
      BY <1>1, <1>2, <2>1
    <2>3. chat'[c].result = Nothing
      BY <1>2, <2>1, <2>2 DEF Quiet
    <2>4. chat[c].result \in {"canceled", "cached"}
      BY <1>1, <1>3, <2>2, <2>3
    <2>5. ~Counts(chat[c].result)
      BY <2>4 DEF Counts
    <2> QED  BY <1>7, <2>5 DEF Meter
  <1>8. ASSUME NEW i \in Impls, Lapse(i) \/ Expire(i) PROVE FALSE
    BY <1>1, <1>8 DEF Lapse, Expire
  <1> QED  BY <1>4, <1>5, <1>6, <1>7, <1>8 DEF SelectionNext, Step

LEMMA OwnersKeep == ChoiceInv => VerdictsKeepTheirOwner
  <1> SUFFICES ASSUME ChoiceInv PROVE VerdictsKeepTheirOwner
    OBVIOUS
  <1>1. \A c \in Chats : chat[c].chosen \in Impls => declared[chat[c].chosen].state # "down"
    BY DEF ChoiceInv, Fit
  <1> QED  BY <1>1 DEF ChoiceInv, Unprobed, VerdictsKeepTheirOwner

LEMMA ChosenIsBest == ChoiceInv => HealthiestUndominated
  <1> SUFFICES ASSUME ChoiceInv, NEW c \in Chats, chat[c].pc = "running", chat[c].prefer = Nothing,
                      RulePrefer \notin {y.id : y \in chat[c].seen},
                      \A y \in chat[c].seen : y.quality = 0 /\ ~(chat[c].measuring /\ InBreakIn(y)),
                      NEW x \in chat[c].seen, NEW y \in chat[c].seen, x.id = chat[c].chosen
               PROVE  /\ Rank(x.state) <= Rank(y.state)
                      /\ x.state = y.state /\ x.score = y.score => ~Cheaper(y, x)
    BY DEF HealthiestUndominated
  <1>1. PICK q : q = chat[c]
    OBVIOUS
  <1>2. Fit(q, declared, scoped)
    BY <1>1 DEF ChoiceInv
  <1>3. Plain(q.seen, q.measuring)
    BY <1>1 DEF Plain
  <1>4. \A z \in q.seen : z.id # RulePrefer
    BY <1>1
  <1>5. Best(x, q.seen)
    BY <1>1, <1>2, <1>3, <1>4 DEF Fit
  <1> QED  BY <1>1, <1>5 DEF Best

(* choose, rankWithQuality: a choice that nobody prefers, that no          *)
(* measurement is owed for and no quality settles, has no survivor that is *)
(* healthier or that beats it outright, whatever is learned meanwhile: for *)
(* any implementations, costs and number of questions.                     *)
THEOREM HealthiestUndominatedHolds == SelectionSpec => []HealthiestUndominated
  <1>1. SelectionInit => ChoiceInv
    BY ChoiceStart, ChoiceAssumptions
  <1>2. ChoiceInv /\ [SelectionNext]_selectionVars => ChoiceInv'
    BY ChoiceStep, ChoiceAssumptions
  <1> QED  BY <1>1, <1>2, ChosenIsBest, PTL DEF SelectionSpec

(* Reconcile, healthAfterSuccessfulProbe, countsAsProviderSample: nobody   *)
(* the settings declare down is sent work or spoken of by the catalog,     *)
(* what one subject refused is not said of all, and a call that was        *)
(* interrupted or never made teaches neither the base nor the ledger.      *)
THEOREM VerdictsAreEarnedHolds == SelectionSpec => VerdictsAreEarned
  <1>1. SelectionInit => ChoiceInv
    BY ChoiceStart, ChoiceAssumptions
  <1>2. ChoiceInv /\ [SelectionNext]_selectionVars => ChoiceInv'
    BY ChoiceStep, ChoiceAssumptions
  <1>3. ChoiceInv' => VerdictsKeepTheirOwner'
    BY OwnersKeep, PTL
  <1>4. ChoiceInv /\ ChoiceInv' /\ [SelectionNext]_selectionVars
          => [VerdictsKeepTheirOwner' /\ Learned]_selectionVars
    BY <1>3, NothingIsLearned, ChoiceAssumptions
  <1> QED  BY <1>1, <1>2, <1>4, PTL DEF SelectionSpec, VerdictsAreEarned, Learned
=============================================================================
