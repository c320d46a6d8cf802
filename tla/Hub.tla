-------------------------------- MODULE Hub ---------------------------------
(* The event hub (internal/observability/hub.go): a numbered, bounded ring of
   the newest events and, for each subscriber, a bounded channel. A publisher
   never waits: the subscriber whose channel is full is let go, and comes back
   with the number of the last event it saw. An event is its number. *)
EXTENDS Naturals, Sequences, FiniteSets
CONSTANTS Clients,
          Capacity,    \* events the ring keeps
          Room,        \* events a channel holds: 256 in the code
          MaxSeq,      \* bound: events of one life of the service
          MaxLives     \* bound: lives of the service
VARIABLES next, ring, closed, draining,
          passed,      \* publishers that found the hub open and wait for its lock
          subs,        \* the hub's subscribers
          open,        \* the clients whose channel is open
          chan,        \* per client, the replay not yet read and then the channel
          cursor,      \* per client, the last number it saw, 0 for none
          life,        \* the life of the service
          known        \* per client, the life its cursor is of
vars == <<next, ring, closed, draining, passed, subs, open, chan, cursor, life, known>>

Fresh == /\ next = 0 /\ ring = <<>> /\ closed = FALSE /\ draining = FALSE /\ passed = 0
         /\ subs = {} /\ open = {}
Init == /\ Fresh /\ chan = [c \in Clients |-> [replay |-> <<>>, live |-> <<>>]]
        /\ cursor = [c \in Clients |-> 0] /\ life = 1 /\ known = [c \in Clients |-> 1]

\* Publish: the look at closed, before the lock.
Pass == /\ ~closed /\ passed < 2 /\ next + passed < MaxSeq /\ passed' = passed + 1
        /\ UNCHANGED <<next, ring, closed, draining, subs, open, chan, cursor, life, known>>
\* Publish under the lock.
Full(c) == Len(chan[c].live) = Room
Publish ==
  /\ passed > 0 /\ passed' = passed - 1 /\ next' = next + 1
  /\ ring' = Append(IF Len(ring) < Capacity THEN ring ELSE Tail(ring), next + 1)
  /\ chan' = [c \in Clients |-> IF c \in subs /\ ~Full(c) THEN [chan[c] EXCEPT !.live = Append(@, next + 1)] ELSE chan[c]]
  /\ LET let_go == {c \in subs : Full(c)} IN subs' = subs \ let_go /\ open' = open \ let_go
  /\ UNCHANGED <<closed, draining, cursor, life, known>>

\* Subscribe: a client whose channel is closed and read comes back with its
\* cursor. What a Reset client does is its own: it takes a snapshot, which is
\* at least as new as the hub.
StaleLoose(after) == after # 0 /\ (ring = <<>> \/ (ring # <<>> /\ (after + 2 < ring[1] \/ after > ring[Len(ring)])))
Stale(after) == after # 0 /\ (ring = <<>> \/ (ring # <<>> /\ (after + 1 < ring[1] \/ after > ring[Len(ring)])))
\* What is newer than a cursor: the ring from the first such event on.
NewerThan(after) ==
  LET first == CHOOSE i \in 1..(Len(ring) + 1) : \A j \in 1..Len(ring) : j >= i <=> ring[j] > after
  IN SubSeq(ring, first, Len(ring))
Subscribe(c) ==
  /\ c \notin open /\ chan[c] = [replay |-> <<>>, live |-> <<>>] /\ ~closed
  /\ subs' = subs \cup {c} /\ open' = open \cup {c}
  /\ LET reset == Stale(cursor[c])
         replay == IF reset THEN <<>> ELSE NewerThan(cursor[c])
     IN /\ chan' = [chan EXCEPT ![c].replay = replay]
        /\ cursor' = [cursor EXCEPT ![c] = IF reset THEN next ELSE IF @ = 0 /\ replay # <<>> THEN replay[1] - 1 ELSE @]
        /\ known' = [known EXCEPT ![c] = IF reset \/ cursor[c] = 0 THEN life ELSE @]
  /\ UNCHANGED <<next, ring, closed, draining, passed, life>>
Receive(c) ==
  LET from == IF chan[c].replay # <<>> THEN "replay" ELSE "live"
  IN /\ chan[c][from] # <<>>
     /\ cursor' = [cursor EXCEPT ![c] = Head(chan[c][from])]
     /\ chan' = [chan EXCEPT ![c][from] = Tail(@)]
     /\ UNCHANGED <<next, ring, closed, draining, passed, subs, open, life, known>>
\* Cancel, which is remove.
Cancel(c) ==
  /\ c \in subs /\ subs' = subs \ {c} /\ open' = open \ {c}
  /\ UNCHANGED <<next, ring, closed, draining, passed, chan, cursor, life, known>>

\* Close: the mark, then the subscribers under the lock.
Close == /\ ~closed /\ closed' = TRUE /\ draining' = TRUE
         /\ UNCHANGED <<next, ring, passed, subs, open, chan, cursor, life, known>>
Drain == /\ draining /\ draining' = FALSE /\ subs' = {} /\ open' = {}
         /\ UNCHANGED <<next, ring, closed, passed, chan, cursor, life, known>>
\* The service starts again; its clients keep what they saw and had read.
Restart ==
  /\ life < MaxLives /\ life' = life + 1
  /\ next' = 0 /\ ring' = <<>> /\ closed' = FALSE /\ draining' = FALSE /\ passed' = 0 /\ subs' = {} /\ open' = {}
  /\ UNCHANGED <<chan, cursor, known>>

Next == \/ Pass \/ Publish \/ Close \/ Drain \/ Restart
        \/ \E c \in Clients : Subscribe(c) \/ Receive(c) \/ Cancel(c)
Spec == Init /\ [][Next]_vars

-----------------------------------------------------------------------------
\* A subscriber never has a gap, however it was let go, cancelled or came
\* back (Publish, Subscribe, remove): what is still on its way to it follows
\* the last number it saw without a hole, up to the newest event while it is
\* subscribed, and nothing is sent on a closed channel. A cursor of an earlier
\* life is the exception: Subscribe takes it for one of this life when the
\* numbers of this life have caught up with it.
HubLosesNothing ==
  /\ subs = open
  /\ \A c \in Clients : known[c] = life =>
       LET coming == chan[c].replay \o chan[c].live
       IN /\ \A i \in 1..Len(coming) : coming[i] = cursor[c] + i
          /\ c \in subs => cursor[c] + Len(coming) = next
=============================================================================
