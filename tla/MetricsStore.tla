---------------------------- MODULE MetricsStore ----------------------------
(***************************************************************************)
(* internal/metrics: the Store that buffers measurements and writes them   *)
(* in batches, and internal/core's flushLast, the last flush of a stop.    *)
(*                                                                         *)
(* A measurement is its place in the order of Record calls and the key a   *)
(* Filter may name.  Record, Seal and the two halves of Flush are single   *)
(* critical sections of Store.mu.  A write first takes the one place that  *)
(* dbaccess.AcquireConnection gives a process on a database file, waiting  *)
(* there as long as its context allows, and then opens the file.  The      *)
(* history that compaction keeps in rollups is in module MetricsLadder.    *)
(***************************************************************************)
EXTENDS Naturals, Sequences, FiniteSets

CONSTANTS
    Flushers,   \* concurrent calls of Flush: a beat, Baselines, Summary, ...
    Keys,       \* what a Filter narrows by
    Limit,      \* Options.BufferLimit
    MaxRows,    \* bound on the number of Record calls
    Attempts,   \* settleAttempts
    FlushLast,  \* the call of Flush that flushLast makes
    Clearer,    \* the call of Clear
    Reader,     \* whoever else connects: Baselines, Summary, compact, ...
    AllKeys,    \* the Filter that narrows nothing
    Nobody      \* stands for no caller

ASSUME LimitAssumption == Limit \in Nat \ {0}
ASSUME BoundAssumption == MaxRows \in Nat \ {0} /\ Attempts \in Nat \ {0}
ASSUME CallerAssumption ==
    /\ FlushLast \notin Flushers
    /\ Clearer \notin Flushers \cup {FlushLast}
    /\ Reader \notin Flushers \cup {FlushLast, Clearer}
    /\ Nobody \notin Flushers \cup {FlushLast, Clearer, Reader}
    /\ AllKeys \notin Keys

Calls == Flushers \cup {FlushLast}
Row == [n : 1 .. MaxRows, key : Keys]

VARIABLES
    recorded,   \* how many measurements Record was ever given
    ring,       \* Store.buf, head, count and dropped
    sealed,     \* Store.sealed
    written,    \* Store.written
    disk,       \* the measurement table, in insertion order
    flushMu,    \* who holds Store.flushMu
    conn,       \* who has this process's place on the database file
    pc,         \* where each call of Flush is
    batch,      \* what it drained
    mark,       \* recorded, when it was called
    clearing,   \* where Clear is, and its filter
    cleared,    \* buffered rows Clear threw away
    settle,     \* where flushLast is, and the attempt it is on
    reported    \* how many rows its incident says died with the process

vars == <<recorded, ring, sealed, written, disk, flushMu, conn, pc, batch,
          mark, clearing, cleared, settle, reported>>
callVars == <<pc, batch, mark>>
clearVars == <<clearing, cleared>>
settleVars == <<settle, reported>>

Pc == {"idle", "waiting", "drained", "opening", "writing", "wrote", "failed", "ok", "error"}
ClearAt == {"idle", "opening", "attempts", "rollups", "done"}
SettleAt == {"running", "flushing", "flushed", "gaveUp", "sealed", "done"}

NotClearing == [at |-> "idle", filter |-> AllKeys, mark |-> 0]

Init ==
    /\ recorded = 0
    /\ ring = [buf |-> <<>>, head |-> 0, count |-> 0, dropped |-> 0]
    /\ sealed = FALSE
    /\ written = 0
    /\ disk = <<>>
    /\ flushMu = Nobody
    /\ conn = Nobody
    /\ pc = [c \in Calls |-> "idle"]
    /\ batch = [c \in Calls |-> <<>>]
    /\ mark = [c \in Calls |-> 0]
    /\ clearing = NotClearing
    /\ cleared = 0
    /\ settle = [at |-> "running", attempt |-> 0]
    /\ reported = 0

-----------------------------------------------------------------------------
(* The ring.                                                               *)

(* Where the ring keeps its i-th live entry, the oldest being the 0-th.    *)
Slot(r, i) == ((r.head + i) % Len(r.buf)) + 1

(* The live entries, oldest first.                                         *)
Live(r) == [i \in 1 .. r.count |-> r.buf[Slot(r, i - 1)]]

Holding(r, rows) == [r EXCEPT !.buf = rows, !.head = 0, !.count = Len(rows)]

(* push.                                                                   *)
Push(r, m) ==
    IF r.count < Len(r.buf)
    THEN [r EXCEPT !.buf[Slot(r, r.count)] = m, !.count = @ + 1]
    ELSE IF Len(r.buf) < Limit
    THEN [r EXCEPT !.buf = Append(@, m), !.count = @ + 1]
    ELSE [r EXCEPT !.buf[r.head + 1] = m,
                   !.head = (r.head + 1) % Len(r.buf),
                   !.dropped = @ + 1]

(* Mutant: a failed batch goes back behind what arrived meanwhile.         *)
RestoredBehind(r, rows) ==
    LET all == Live(r) \o rows
        over == IF Len(all) > Limit THEN Len(all) - Limit ELSE 0
    IN  [Holding(r, SubSeq(all, over + 1, Len(all))) EXCEPT !.dropped = @ + over]

(* Mutant: what a restore pushes over the ceiling is not counted.          *)
RestoredUncounted(r, rows) ==
    LET all == rows \o Live(r)
        over == IF Len(all) > Limit THEN Len(all) - Limit ELSE 0
    IN  Holding(r, SubSeq(all, over + 1, Len(all)))

(* restore: in front of whatever arrived while the batch was written, the  *)
(* oldest going first when both do not fit.                                *)
Restored(r, rows) ==
    LET all == rows \o Live(r)
        over == IF Len(all) > Limit THEN Len(all) - Limit ELSE 0
    IN  [Holding(r, SubSeq(all, over + 1, Len(all))) EXCEPT !.dropped = @ + over]

(* Filter.matches, and Filter.where on the table.                          *)
Matches(filter, m) == filter \in {AllKeys, m.key}

(* Numbers, lowest first.                                                  *)
InOrder(at) ==
    CHOOSE p \in [1 .. Cardinality(at) -> at] :
        \A i, j \in DOMAIN p : i < j => p[i] < p[j]

(* The rows a Clear leaves, in their order.                                *)
Outside(filter, rows) ==
    LET places == InOrder({i \in DOMAIN rows : ~Matches(filter, rows[i])})
    IN  [i \in DOMAIN places |-> rows[places[i]]]

-----------------------------------------------------------------------------
(* Record.                                                                 *)

Record(k) ==
    /\ recorded < MaxRows
    /\ recorded' = recorded + 1
    /\ ring' = IF sealed THEN [ring EXCEPT !.dropped = @ + 1]
               ELSE Push(ring, [n |-> recorded + 1, key |-> k])
    /\ UNCHANGED <<sealed, written, disk, flushMu, conn, callVars, clearVars, settleVars>>

-----------------------------------------------------------------------------
(* Flush.                                                                  *)

FlushCall(c) ==
    /\ pc[c] = "idle"
    /\ pc' = [pc EXCEPT ![c] = "waiting"]
    /\ mark' = [mark EXCEPT ![c] = recorded]
    /\ UNCHANGED <<recorded, ring, sealed, written, disk, flushMu, conn, batch, clearVars>>

(* Mutant: the drain no longer waits for a flush that is mid-write.        *)
DrainUnlocked(c) ==
    /\ pc[c] = "waiting"
    /\ \/ /\ ring.count = 0
          /\ pc' = [pc EXCEPT ![c] = "ok"]
          /\ UNCHANGED <<ring, batch>>
       \/ /\ ring.count > 0
          /\ pc' = [pc EXCEPT ![c] = "drained"]
          /\ batch' = [batch EXCEPT ![c] = Live(ring)]
          /\ ring' = Holding(ring, <<>>)
    /\ UNCHANGED <<recorded, sealed, written, disk, flushMu, conn, mark, clearVars, settleVars>>

(* flushMu is taken and the ring drained; an empty batch returns nil.      *)
Drain(c) ==
    /\ pc[c] = "waiting"
    /\ flushMu = Nobody
    /\ \/ /\ ring.count = 0
          /\ pc' = [pc EXCEPT ![c] = "ok"]
          /\ UNCHANGED <<ring, batch, flushMu>>
       \/ /\ ring.count > 0
          /\ pc' = [pc EXCEPT ![c] = "drained"]
          /\ batch' = [batch EXCEPT ![c] = Live(ring)]
          /\ ring' = Holding(ring, <<>>)
          /\ flushMu' = c
    /\ UNCHANGED <<recorded, sealed, written, disk, conn, mark, clearVars, settleVars>>

(* The gate: one connection at a time in this process, whoever asks.  The  *)
(* wait has no bound of its own: flushLast and Close bring a context that  *)
(* never ends.                                                             *)
Acquire(c) ==
    /\ pc[c] = "drained"
    /\ conn = Nobody
    /\ conn' = c
    /\ pc' = [pc EXCEPT ![c] = "opening"]
    /\ UNCHANGED <<recorded, ring, sealed, written, disk, flushMu, batch, mark,
                   clearVars, settleVars>>

(* The context ended at the gate, or the path did not resolve.             *)
GiveUp(c) ==
    /\ pc[c] = "drained"
    /\ pc' = [pc EXCEPT ![c] = "failed"]
    /\ UNCHANGED <<recorded, ring, sealed, written, disk, flushMu, conn, batch, mark,
                   clearVars, settleVars>>

(* Mutant: a connect that fails past the gate keeps its place.             *)
OpenHolding(c) ==
    /\ pc[c] = "opening"
    /\ \E stage \in {"writing", "failed"} : pc' = [pc EXCEPT ![c] = stage]
    /\ UNCHANGED <<recorded, ring, sealed, written, disk, flushMu, conn, batch, mark,
                   clearVars, settleVars>>

(* The rest of connect, which lockWait and the context bound: the lease    *)
(* between processes and the file, or an error that gives the place back.  *)
Open(c) ==
    /\ pc[c] = "opening"
    /\ \/ /\ pc' = [pc EXCEPT ![c] = "writing"]
          /\ UNCHANGED conn
       \/ /\ pc' = [pc EXCEPT ![c] = "failed"]
          /\ conn' = Nobody
    /\ UNCHANGED <<recorded, ring, sealed, written, disk, flushMu, batch, mark,
                   clearVars, settleVars>>

(* write past its connect: one transaction, committed whole or rolled      *)
(* back; both ways the connection is released.                             *)
Write(c) ==
    /\ pc[c] = "writing"
    /\ conn' = Nobody
    /\ \/ /\ disk' = disk \o batch[c]
          /\ pc' = [pc EXCEPT ![c] = "wrote"]
       \/ /\ pc' = [pc EXCEPT ![c] = "failed"]
          /\ UNCHANGED disk
    /\ UNCHANGED <<recorded, ring, sealed, written, flushMu, batch, mark, clearVars, settleVars>>

(* The end of Flush: the rows are counted, or put back.                    *)
FlushEnds(c) ==
    /\ pc[c] \in {"wrote", "failed"}
    /\ \/ /\ pc[c] = "wrote"
          /\ written' = written + Len(batch[c])
          /\ pc' = [pc EXCEPT ![c] = "ok"]
          /\ UNCHANGED ring
       \/ /\ pc[c] = "failed"
          /\ ring' = Restored(ring, batch[c])
          /\ pc' = [pc EXCEPT ![c] = "error"]
          /\ UNCHANGED written
    /\ batch' = [batch EXCEPT ![c] = <<>>]
    /\ flushMu' = Nobody
    /\ UNCHANGED <<recorded, sealed, disk, conn, mark, clearVars, settleVars>>

(* The caller of Flush has its answer and goes on.                         *)
FlushReturns(c) ==
    /\ pc[c] \in {"ok", "error"}
    /\ pc' = [pc EXCEPT ![c] = "idle"]
    /\ mark' = [mark EXCEPT ![c] = 0]
    /\ UNCHANGED <<recorded, ring, sealed, written, disk, flushMu, conn, batch, clearVars>>

-----------------------------------------------------------------------------
(* Clear.                                                                  *)

(* connect, past the gate.                                                 *)
ClearConnects(filter) ==
    /\ clearing.at \in {"idle", "done"}
    /\ conn = Nobody
    /\ conn' = Clearer
    /\ clearing' = [at |-> "opening", filter |-> filter, mark |-> recorded]
    /\ UNCHANGED <<recorded, ring, sealed, written, disk, flushMu, callVars, cleared, settleVars>>

(* The file is open.                                                       *)
ClearOpens ==
    /\ clearing.at = "opening"
    /\ clearing' = [clearing EXCEPT !.at = "attempts"]
    /\ UNCHANGED <<recorded, ring, sealed, written, disk, flushMu, conn, callVars, cleared,
                   settleVars>>

(* The first DELETE, on the table of attempts.                             *)
ClearAttempts ==
    /\ clearing.at = "attempts"
    /\ disk' = Outside(clearing.filter, disk)
    /\ clearing' = [clearing EXCEPT !.at = "rollups"]
    /\ UNCHANGED <<recorded, ring, sealed, written, flushMu, conn, callVars, cleared, settleVars>>

(* The file would not open or a DELETE failed: Clear returns with the      *)
(* buffer untouched.                                                       *)
ClearFails ==
    /\ clearing.at \in {"opening", "attempts", "rollups"}
    /\ clearing' = NotClearing
    /\ conn' = Nobody
    /\ UNCHANGED <<recorded, ring, sealed, written, disk, flushMu, callVars, cleared, settleVars>>

(* The second DELETE, on the rollups, which this module does not keep,     *)
(* then clearBuffer and the deferred close of the connection.              *)
ClearBuffer ==
    /\ clearing.at = "rollups"
    /\ LET kept == Outside(clearing.filter, Live(ring)) IN
           /\ ring' = Holding(ring, kept)
           /\ cleared' = cleared + (ring.count - Len(kept))
    /\ clearing' = [clearing EXCEPT !.at = "done"]
    /\ conn' = Nobody
    /\ UNCHANGED <<recorded, sealed, written, disk, flushMu, callVars, settleVars>>

-----------------------------------------------------------------------------
(* Everybody else on the gate: each of them flushes first, as one of       *)
(* Flushers, and holds no flushMu when it connects.                        *)

ReadConnects ==
    /\ conn = Nobody
    /\ conn' = Reader
    /\ UNCHANGED <<recorded, ring, sealed, written, disk, flushMu, callVars, clearVars, settleVars>>

ReadEnds ==
    /\ conn = Reader
    /\ conn' = Nobody
    /\ UNCHANGED <<recorded, ring, sealed, written, disk, flushMu, callVars, clearVars, settleVars>>

-----------------------------------------------------------------------------
(* flushLast.                                                              *)

SettleBegin ==
    /\ settle.at = "running"
    /\ settle' = [at |-> "flushing", attempt |-> 1]
    /\ FlushCall(FlushLast)
    /\ UNCHANGED reported

(* Mutant: a failure is tried again for as long as it fails.               *)
SettleUnbounded ==
    /\ settle.at = "flushing"
    /\ \/ /\ pc[FlushLast] = "ok"
          /\ settle' = [at |-> "flushed", attempt |-> 0]
          /\ FlushReturns(FlushLast)
       \/ /\ pc[FlushLast] = "error"
          /\ pc' = [pc EXCEPT ![FlushLast] = "waiting"]
          /\ UNCHANGED <<recorded, ring, sealed, written, disk, flushMu, conn, batch, mark,
                         clearVars, settle>>
    /\ UNCHANGED reported

(* An attempt is over: a success and the last failure end the loop, any    *)
(* other failure is tried again.                                           *)
SettleAttempt ==
    /\ settle.at = "flushing"
    /\ \/ /\ pc[FlushLast] = "ok"
          /\ settle' = [at |-> "flushed", attempt |-> 0]
          /\ FlushReturns(FlushLast)
       \/ /\ pc[FlushLast] = "error" /\ settle.attempt = Attempts
          /\ settle' = [at |-> "gaveUp", attempt |-> 0]
          /\ FlushReturns(FlushLast)
       \/ /\ pc[FlushLast] = "error" /\ settle.attempt < Attempts
          /\ settle' = [settle EXCEPT !.attempt = @ + 1]
          /\ pc' = [pc EXCEPT ![FlushLast] = "waiting"]
          /\ mark' = [mark EXCEPT ![FlushLast] = recorded]
          /\ UNCHANGED <<recorded, ring, sealed, written, disk, flushMu, conn, batch, clearVars>>
    /\ UNCHANGED reported

(* Seal.  A flush that worked returns nil here.                            *)
Seal ==
    /\ settle.at \in {"flushed", "gaveUp"}
    /\ sealed' = TRUE
    /\ settle' = [settle EXCEPT !.at = IF settle.at = "flushed" THEN "done" ELSE "sealed"]
    /\ UNCHANGED <<recorded, ring, written, disk, flushMu, conn, callVars, clearVars, reported>>

(* The incident, of which Pending is the number that matters.              *)
Report ==
    /\ settle.at = "sealed"
    /\ reported' = ring.count
    /\ settle' = [settle EXCEPT !.at = "done"]
    /\ UNCHANGED <<recorded, ring, sealed, written, disk, flushMu, conn, callVars, clearVars>>

-----------------------------------------------------------------------------
FlushStep(c) ==
    Drain(c) \/ Acquire(c) \/ GiveUp(c) \/ Open(c) \/ Write(c) \/ FlushEnds(c)

ClearStep == ClearOpens \/ ClearAttempts \/ ClearFails \/ ClearBuffer

SettleStep == SettleAttempt \/ Seal \/ Report

Next ==
    \/ \E k \in Keys : Record(k)
    \/ \E c \in Flushers : (FlushCall(c) \/ FlushReturns(c)) /\ UNCHANGED settleVars
    \/ \E c \in Calls : FlushStep(c)
    \/ \E filter \in Keys \cup {AllKeys} : ClearConnects(filter)
    \/ ClearStep
    \/ ReadConnects \/ ReadEnds
    \/ SettleBegin \/ SettleStep

Spec == Init /\ [][Next]_vars

(* A Go mutex and a Go channel serve whoever waits longest, so a call gets *)
(* flushMu and the gate if others keep giving them back, and those do: the *)
(* lease and the open are bounded by lockWait, and a statement ends.  That *)
(* a call gives up at the gate is assumed of nobody.                       *)
FairSpec ==
    /\ Spec
    /\ \A c \in Calls : /\ SF_vars(Drain(c) \/ Acquire(c))
                        /\ WF_vars(Open(c) \/ Write(c) \/ FlushEnds(c))
    /\ WF_vars(ClearStep)
    /\ WF_vars(ReadEnds)
    /\ WF_vars(SettleStep)

-----------------------------------------------------------------------------
(* The rows of a sequence, by number.                                      *)
Numbers(rows) == {rows[i].n : i \in DOMAIN rows}

(* What the flush that holds flushMu has drained, and the part of it that  *)
(* is not on disk.                                                         *)
InFlight == IF flushMu = Nobody THEN <<>> ELSE batch[flushMu]
Unwritten ==
    IF flushMu = Nobody \/ pc[flushMu] = "wrote" THEN <<>> ELSE batch[flushMu]

TypeOK ==
    /\ recorded \in 0 .. MaxRows
    /\ ring \in [buf : Seq(Row), head : Nat, count : Nat, dropped : Nat]
    /\ sealed \in BOOLEAN
    /\ written \in Nat
    /\ disk \in Seq(Row)
    /\ flushMu \in Calls \cup {Nobody}
    /\ conn \in Calls \cup {Clearer, Reader, Nobody}
    /\ pc \in [Calls -> Pc]
    /\ batch \in [Calls -> Seq(Row)]
    /\ mark \in [Calls -> Nat]
    /\ clearing \in [at : ClearAt, filter : Keys \cup {AllKeys}, mark : Nat]
    /\ cleared \in Nat
    /\ settle \in [at : SettleAt, attempt : Nat]
    /\ reported \in Nat

(* "head only ever leaves zero once len(buf) has reached limit": the ring  *)
(* never exceeds its ceiling and every slot of it is live.                 *)
RingShape ==
    /\ ring.count = Len(ring.buf)
    /\ Len(ring.buf) <= Limit
    /\ ring.head # 0 => ring.head < Len(ring.buf) /\ Len(ring.buf) = Limit

(* flushMu "serializes whole flushes": a batch exists exactly while its    *)
(* flush holds it.                                                         *)
FlushesSerialized ==
    \A c \in Calls :
        /\ pc[c] \in {"drained", "opening", "writing", "wrote", "failed"} <=> flushMu = c
        /\ batch[c] # <<>> => flushMu = c
        /\ pc[c] \in {"opening", "writing"} <=> conn = c

(* Nothing Record was given is lost without a trace: a row is pending, in  *)
(* a batch, written, cleared or counted by Dropped, whatever fails when.   *)
RowsAccounted ==
    recorded = ring.dropped + ring.count + Len(InFlight) + written + cleared

StoreInv == TypeOK /\ RingShape /\ FlushesSerialized /\ RowsAccounted

(* A failed batch goes back "in front of whatever arrived while it was     *)
(* being written, so the next flush carries the rows in the order they     *)
(* happened": disk, batch and ring hold the rows in order, each one once.  *)
OrderKept ==
    LET rows == disk \o Unwritten \o Live(ring)
    IN  \A i, j \in DOMAIN rows : i < j => rows[i].n < rows[j].n

(* Flush waits for the one already running because every caller "flushes   *)
(* in order to read what it just recorded": once it has returned nil, no   *)
(* row recorded before the call is still in memory.                        *)
FlushedIsDurable ==
    \A c \in Calls : pc[c] = "ok" =>
        \A n \in Numbers(Unwritten) \cup Numbers(ring.buf) : n > mark[c]

(* Every call of Flush is answered, whoever holds flushMu and the          *)
(* connection, and whatever fails.                                         *)
FlushAnswered ==
    \A c \in Calls : pc[c] = "waiting" ~> pc[c] \in {"ok", "error"}

(* The last stand is bounded: flushLast ends.                              *)
SettleEnds == settle.at = "flushing" ~> settle.at = "done"

(* Rows reach the disk in their order, and by the time Flush says so.      *)
RowsKept == OrderKept /\ FlushedIsDurable

(* Every flush ends, the last one included (Flush, flushLast).             *)
FlushesEnd == FlushAnswered /\ SettleEnds

(* Clear drops the buffered rows because writing them "would put back a    *)
(* slice of exactly what was cleared" (internal/metrics/clear.go:85-88).   *)
ClearedStaysCleared ==
    clearing.at = "done" =>
        \A rows \in {disk, ring.buf} : \A i \in DOMAIN rows :
            rows[i].n <= clearing.mark => ~Matches(clearing.filter, rows[i])

(* After the last attempt "only what arrives after the last one is counted *)
(* as gone" (internal/core/core.go:1579-1581): when flushLast is done, the *)
(* rows left in the buffer are rows its incident told of.                  *)
LossReported == settle.at = "done" => ring.count <= reported
=============================================================================
