------------------------------ MODULE MCChats -------------------------------
(* Conversations on screens of three kinds, every phone on the first of them. *)
EXTENDS Conversations, TLC
\* A screen of one window, the same with a second control of that name, and
\* another window after a turn of the device.
Home == [size |-> 1, turn |-> 0, window |-> "a", controls |-> {1}]
Pictures == {Home, [Home EXCEPT !.controls = {1, 2}], [size |-> 2, turn |-> 1, window |-> "b", controls |-> {2}]}
\* A window over the first, that has a control of that name in its place, and a
\* screen that is left alone.
Cover == [Home EXCEPT !.window = "b"]
Alone == [Home EXCEPT !.controls = {}]
Screens4 == Pictures \cup {Cover, Alone}

Parked == {d \in Serials : screen[d] = Alone}
MCInit == ConversationsInit /\ (focus = "phone" => \/ screen = [d \in Serials |-> Home]
                                                  \/ \E p \in Serials : screen = [d \in Serials |-> IF d = p THEN Alone ELSE Home])
\* Two devices: three calls of any kind, or two and what happens meanwhile.
Broad == Parked = {} /\ calls' <= 3 /\ (calls' = 3 => changes' = 0) /\ \A d \in Serials : screen'[d] \in Pictures
\* Or one of them and not the other: two pictures, then two inputs and one change,
\* or one input and two changes.
Paired ==
  /\ Parked # {} /\ calls' + changes' <= 5 /\ \A d \in Parked : link'[d] = link[d]
  /\ \A d \in Serials : screen'[d] \in IF d \in Parked THEN {Alone} ELSE {Home, Cover}
  /\ \A c \in Callers : \/ call'[c].pc = "idle"
                        \/ call'[c].d \notin Parked /\ call'[c].op \in IF call'[c].n <= 2 THEN {"screenshot", "semantic"} ELSE {"act", "select"}
MCSpec == MCInit /\ [][ConversationsNext /\ (focus = "phone" => Broad \/ Paired)]_allVars

\* The callers and the devices of the phone take the values of the connections
\* and of the session names, so that two permutations serve both.
Symmetry == Permutations(Conns) \cup Permutations(Names)
=============================================================================
