------------------------------ MODULE Delegate ------------------------------
(* One call handed to a client that costs money (adapter/claudecode and
   adapter/codex): the child that is started, the events it prints, the price
   some of them carry, the commission's observer that stops the call when the
   price passes the permission (core/commission.go), the end of the child, and
   the outcome. Prices are whole numbers; what an event says beyond its price,
   whether it is the answer and whether it is an error is left out. *)
EXTENDS Naturals
CONSTANTS Budget,     \* Permission.BudgetUSD
          MaxEvents,  \* bound: lines the child prints
          Unpriced    \* no price was reported
VARIABLES client,  \* which adapter runs
          phase,   \* "idle", "streaming", "cut" (a line too long to read), "flood" (more output than is kept), "ended", "done"
          lines,   \* how many lines the child printed
          parsed,  \* whether one of them was an event
          out,     \* envelope / eventStream: what was read so far
          child,   \* "none", "up", "left" (status 0), "failed", "killed"
          ctx,     \* "live", "timeout", "canceled", "overspent"
          over,    \* commissioned.exceeded
          answer,  \* Outcome and error
          last,    \* history: the last price read
          peak     \* history: the highest
vars == <<client, phase, lines, parsed, out, child, ctx, over, answer, last, peak>>

Prices == {Unpriced} \cup 0 .. Budget + 1
Nothing == [price |-> Unpriced, has |-> FALSE, err |-> FALSE]
NoAnswer == [verdict |-> "none", price |-> Unpriced, notices |-> {}, lost |-> {}]
Events == [type : {"result", "other"}, price : Prices, err : BOOLEAN]
TooMuch(price) == price # Unpriced /\ price > Budget

Init == /\ client \in {"claude-code", "codex"} /\ phase = "idle" /\ lines = 0 /\ parsed = FALSE
        /\ out = Nothing /\ child = "none" /\ ctx = "live" /\ over = FALSE /\ answer = NoAnswer
        /\ last = Unpriced /\ peak = Unpriced

Ends(verdict) == phase' = "done" /\ answer' = [NoAnswer EXCEPT !.verdict = verdict, !.price = out.price]

\* Run's early returns: a request it does not serve, a permission without
\* money, a scope outside the repository; and a binary that is not there.
Refuse == /\ phase = "idle" /\ Ends("refused")
          /\ UNCHANGED <<client, lines, parsed, out, child, ctx, over, last, peak>>
Start == /\ phase = "idle" /\ phase' = "streaming" /\ child' = "up"
         /\ UNCHANGED <<client, lines, parsed, out, ctx, over, answer, last, peak>>

-----------------------------------------------------------------------------
(* The stream *)

\* carryCost: the closing event wins, but a price it does not carry stays.
CarryNothing(older, newer) == newer
CarryCost(older, newer) == IF newer.price = Unpriced THEN [newer EXCEPT !.price = older.price] ELSE newer

\* What the adapter holds after an event. Codex keeps the last message and the
\* last price; a failed turn is an error text beside them.
Absorb(event) ==
  IF event.type = "result"
    THEN CarryCost(out, [price |-> event.price, has |-> TRUE, err |-> event.err])
    ELSE [out EXCEPT !.price = IF event.price = Unpriced THEN @ ELSE event.price]

\* The observer the commission puts in the context: a price above the
\* permission ends the call.
Observe(price) ==
  IF TooMuch(price) THEN over' = TRUE /\ ctx' = "overspent" ELSE UNCHANGED <<over, ctx>>

Seen(price) == /\ last' = IF price = Unpriced THEN last ELSE price
               /\ peak' = IF price # Unpriced /\ (peak = Unpriced \/ price > peak) THEN price ELSE peak

\* One readable line. Codex reports the price it holds after every line, Claude
\* Code the one on the line.
Read(event) ==
  /\ phase = "streaming" /\ child = "up" /\ lines < MaxEvents /\ ctx # "overspent"
  /\ lines' = lines + 1 /\ parsed' = TRUE
  /\ out' = Absorb(event)
  /\ Seen(event.price)
  /\ Observe(IF client = "codex" THEN out'.price ELSE event.price)
  /\ UNCHANGED <<client, phase, child, answer>>

\* A line that is not an event is skipped.
Skip == /\ phase = "streaming" /\ child = "up" /\ lines < MaxEvents /\ ctx # "overspent"
        /\ lines' = lines + 1
        /\ UNCHANGED <<client, phase, parsed, out, child, ctx, over, answer, last, peak>>

\* A line longer than the scanner takes. Claude Code's adapter drains what is
\* left; codex's stops reading, and its child may stay blocked on the pipe.
TooLong == /\ phase = "streaming" /\ child = "up" /\ lines < MaxEvents /\ ctx # "overspent"
           /\ lines' = lines + 1 /\ phase' = "cut"
           /\ UNCHANGED <<client, parsed, out, child, ctx, over, answer, last, peak>>

\* More output than the capture keeps: the child is killed.
Flood == /\ phase = "streaming" /\ child = "up" /\ phase' = "flood" /\ child' = "killed"
         /\ UNCHANGED <<client, lines, parsed, out, ctx, over, answer, last, peak>>

\* The child leaves by itself, or is killed when the context ends.
Exit == /\ child = "up" /\ ctx = "live"
        /\ \E how \in {"left", "failed"} : child' = how
        /\ UNCHANGED <<client, phase, lines, parsed, out, ctx, over, answer, last, peak>>
Killed == /\ child = "up" /\ ctx # "live" /\ child' = "killed"
          /\ UNCHANGED <<client, phase, lines, parsed, out, ctx, over, answer, last, peak>>
ContextEnds == /\ phase \in {"streaming", "cut"} /\ ctx = "live"
               /\ \E why \in {"timeout", "canceled"} : ctx' = why
               /\ UNCHANGED <<client, phase, lines, parsed, out, child, over, answer, last, peak>>

-----------------------------------------------------------------------------
(* The outcome *)

\* A client of an older release prints one document instead of events: it is
\* read when no line was an event, with the price it carries.
Legacy == client = "claude-code" /\ phase = "streaming" /\ ctx = "live" /\ ~parsed /\ lines > 0

\* What invoke says of the call, in the order it asks.
Invoked(o) ==
  LET unread == phase = "cut" IN
  CASE phase = "flood" /\ client = "claude-code" -> "unavailable"
    [] unread /\ (client = "codex" \/ ~o.has) -> "unavailable"
    [] ctx = "overspent" -> "denied"
    [] ctx # "live" -> "stopped"
    [] client = "codex" /\ child # "left" -> "failed"
    [] ~o.has -> "unavailable"
    [] client = "claude-code" /\ o.err -> "failed"
    [] OTHER -> "answered"

\* Run and commissioned.Run after it: the price is reported once more, and
\* what passed the permission is refused whatever the answer was.
Settle(o, inTime) ==
  LET said == Invoked(o) IN
  IF over \/ TooMuch(o.price) THEN "denied" ELSE IF said = "answered" /\ ~inTime THEN "unavailable" ELSE said

\* cleanHit: a match outside the scope is counted, one that may not be shown is
\* dropped, one without a usable place is counted by Claude Code's adapter only.
Hits == {"good", "outside", "sensitive", "malformed"}
Kept(hits) == hits \cap {"good"}
Counted(hits) == hits \cap (IF client = "codex" THEN {"outside"} ELSE {"outside", "malformed"})
\* What the answer says is missing from it: counted matches, and a stream that was cut.
Notices(hits) == Counted(hits) \cup (IF phase = "cut" THEN {"stream"} ELSE {})

Finish ==
  /\ phase \in {"streaming", "cut", "flood"} /\ child \in {"left", "failed", "killed"}
  /\ \E usable \in BOOLEAN, hits \in SUBSET Hits, o \in (IF Legacy THEN [price : Prices, has : {TRUE}, err : BOOLEAN] ELSE {}) \cup {out} :
       LET verdict == Settle(o, usable) IN
       /\ answer' = IF verdict = "answered"
                      THEN [verdict |-> "ok", price |-> o.price, notices |-> Notices(hits),
                            lost |-> (hits \ Kept(hits)) \cup (IF phase = "cut" THEN {"stream"} ELSE {})]
                      ELSE [NoAnswer EXCEPT !.verdict = verdict, !.price = o.price]
       /\ out' = o /\ phase' = "done"
       /\ IF o = out THEN UNCHANGED <<last, peak>> ELSE Seen(o.price)
  /\ UNCHANGED <<client, lines, parsed, child, ctx, over>>

Next == \/ Refuse \/ Start \/ Skip \/ TooLong \/ Flood \/ Exit \/ Killed \/ ContextEnds \/ Finish
        \/ \E event \in Events : Read(event)
Spec == Init /\ [][Next]_vars

-----------------------------------------------------------------------------
\* When the call is over its child is, the outcome carries the last price the
\* child gave however the call ended, an answer is accepted only when no price
\* the child ever gave was above the permission, and what an answer lost on the
\* way is said in it, except what may not be shown and codex's unusable matches.
SpendIsTold ==
  phase = "done" =>
    /\ child # "up"
    /\ answer.price = last
    /\ answer.verdict = "ok" =>
         /\ ~TooMuch(peak)
         /\ answer.lost \ {"sensitive"} \subseteq answer.notices \cup (IF client = "codex" THEN {"malformed"} ELSE {})
=============================================================================
