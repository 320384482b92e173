------------------------------ MODULE Indicator ------------------------------
(***************************************************************************)
(* The ring of the speakers: the colours the account has for its states,   *)
(* the light that stands for the first of them (SberIndicatorLight in      *)
(* light.py) and the coordinator's copy (async_set_indicator_color).       *)
(* Sber counts brightness to 100, Home Assistant to 255.                   *)
(***************************************************************************)
EXTENDS Integers, Sequences

CONSTANT Brightnesses       \* brightnesses Home Assistant may ask for, in 1 .. 255

VARIABLES
    cloud,      \* the colours the cloud has, a sequence of [id, hue, bright]
    colours,    \* coordinator.indicator_colors.current_colors, <<>> before the first answer
    sending,    \* the PUTs under way, each with the brightness that was asked
    asked       \* history: id and brightness of the last PUT that was answered since a refresh

vars == <<cloud, colours, sending, asked>>

None  == -1
Nothing == [id |-> "none", wish |-> 0]
Known == {<<[id |-> "online", hue |-> 0, bright |-> 0]>>,
          <<[id |-> "online", hue |-> 0, bright |-> 80],
            [id |-> "error", hue |-> 9, bright |-> 50]>>,
          <<[id |-> "error", hue |-> 9, bright |-> 50],
            [id |-> "online", hue |-> 0, bright |-> 80]>>}

Init == cloud \in Known /\ colours = <<>> /\ sending = {} /\ asked = Nothing

\* What is shown of a brightness, and sent for one: both are rounded up.
Clamped(low, high, n) == IF n < low THEN low ELSE IF n > high THEN high ELSE n
Shown(raw) == Clamped(0, 255, (raw * 255 + 99) \div 100)

\* Mutant: what is sent is rounded down.
SentDown(b) == Clamped(1, 100, (b * 100) \div 255)

Sent(b) == Clamped(1, 100, (b * 100 + 254) \div 255)

\* The colour takes the place of the one with its id, or comes last.
Put(list, colour) ==
    IF \E i \in 1 .. Len(list) : list[i].id = colour.id
    THEN [i \in 1 .. Len(list) |-> IF list[i].id = colour.id THEN colour ELSE list[i]]
    ELSE Append(list, colour)

\* _refresh_indicator(), hourly.
Refresh == colours' = cloud /\ asked' = Nothing /\ UNCHANGED <<cloud, sending>>

\* The user reorders the states in the application, or removes one.
Application ==
    /\ Len(cloud) = 2
    /\ cloud' \in {<<cloud[2], cloud[1]>>, <<cloud[2]>>}
    /\ UNCHANGED <<colours, sending, asked>>

\* async_turn_on(): without a brightness the ring keeps its own, or full after "off".
TurnOn(b) ==
    /\ colours # <<>> /\ sending = {}
    /\ LET current == colours[1]
           raw     == IF b # None THEN Sent(b)
                      ELSE IF current.bright # 0 THEN current.bright ELSE 100
       IN  sending' = {[colour |-> [current EXCEPT !.bright = raw],
                        wish |-> IF b # None THEN b ELSE Shown(raw)]}
    /\ UNCHANGED <<cloud, colours, asked>>

TurnOff ==
    /\ colours # <<>> /\ sending = {}
    /\ sending' = {[colour |-> [colours[1] EXCEPT !.bright = 0], wish |-> 0]}
    /\ UNCHANGED <<cloud, colours, asked>>

\* The PUT is served; then its answer patches the copy, or the action fails.
Served(put) ==
    /\ cloud' = Put(cloud, put.colour)
    /\ colours' = Put(colours, put.colour)
    /\ asked' = [id |-> put.colour.id, wish |-> put.wish]
    /\ sending' = {}

Refused == sending # {} /\ sending' = {} /\ UNCHANGED <<cloud, colours, asked>>

Next ==
    \/ Refresh \/ Application
    \/ \E b \in Brightnesses \cup {None} : TurnOn(b)
    \/ TurnOff
    \/ \E put \in sending : Served(put)
    \/ Refused

Spec == Init /\ [][Next]_vars

-------------------------------------------------------------------------------
(* Properties *)

\* Whatever a refresh finds while a PUT is under way: after its answer the state it was
\* for stands once in the copy and shows what was asked, no darker and never as "off".
RingShines ==
    asked # Nothing =>
        /\ \E i \in 1 .. Len(colours) : colours[i].id = asked.id
        /\ \A i, j \in 1 .. Len(colours) : colours[i].id = colours[j].id => i = j
        /\ \A i \in 1 .. Len(colours) : colours[i].id = asked.id =>
             /\ Shown(colours[i].bright) >= asked.wish
             /\ colours[i].bright > 0 <=> asked.wish > 0
===============================================================================
