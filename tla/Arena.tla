------------------------------- MODULE Arena -------------------------------
(***************************************************************************)
(* What the simulation promises to somebody who watches the grid: every    *)
(* living botbot stands on a cell of its own; it walks one cell at a time; *)
(* two botbots that meet fight, and what the loser loses the winner gains; *)
(* the loser falls exactly if it is left with nothing.  There is no map,   *)
(* no iterator and no second copy of a botbot's position here.             *)
(*                                                                         *)
(* Grid is shown to implement this specification.                          *)
(***************************************************************************)
EXTENDS Integers

CONSTANTS
  Botbots,  \* everybody who may ever enter
  Cells     \* the coordinates of the cells

VARIABLES
  place,   \* the cell of each living botbot
  nuts,    \* the nuts of each botbot
  bolts,   \* the bolts of each botbot
  fallen   \* the dead

arenaVars == <<place, nuts, bolts, fallen>>

Living == DOMAIN place

Adjacent(c, d) == c[1] - d[1] \in -1 .. 1 /\ c[2] - d[2] \in -1 .. 1

Empty(c) == \A b \in Living : place[b] # c

Init ==
  /\ place = [b \in {} |-> <<0, 0>>]
  /\ nuts = [b \in Botbots |-> 0]
  /\ bolts = [b \in Botbots |-> 0]
  /\ fallen = {}

\* A new botbot enters on an empty cell, with what it was built with.
Enter(b, c) ==
  /\ b \notin Living \cup fallen
  /\ Empty(c)
  /\ place' = [x \in Living \cup {b} |-> IF x = b THEN c ELSE place[x]]
  /\ nuts'[b] \in Nat /\ nuts' = [nuts EXCEPT ![b] = nuts'[b]]
  /\ bolts'[b] \in Nat /\ bolts' = [bolts EXCEPT ![b] = bolts'[b]]
  /\ UNCHANGED fallen

Walk(b, c) ==
  /\ Empty(c)
  /\ Adjacent(place[b], c)
  /\ place' = [place EXCEPT ![b] = c]
  /\ UNCHANGED <<nuts, bolts, fallen>>

Pay(purse, from, to, amount) ==
  [purse EXCEPT ![from] = @ - amount, ![to] = @ + amount]

\* Two neighbours fight for the cell of one of them, which the winner gets.
Fight(winner, loser) ==
  /\ winner # loser
  /\ Adjacent(place[winner], place[loser])
  /\ \E n \in 0 .. nuts[loser] : nuts' = Pay(nuts, loser, winner, n)
  /\ \E m \in 0 .. bolts[loser] : bolts' = Pay(bolts, loser, winner, m)
  /\ \E contested \in {place[winner], place[loser]} :
       LET other == IF contested = place[loser] THEN place[winner]
                    ELSE place[loser]
       IN  \/ /\ nuts'[loser] = 0 /\ bolts'[loser] = 0
              /\ fallen' = fallen \cup {loser}
              /\ place' = [x \in Living \ {loser} |->
                             IF x = winner THEN contested ELSE place[x]]
           \/ /\ nuts'[loser] > 0 \/ bolts'[loser] > 0
              /\ place' = [place EXCEPT ![winner] = contested, ![loser] = other]
              /\ UNCHANGED fallen

Next ==
  \/ \E b \in Botbots, c \in Cells : Enter(b, c)
  \/ \E b \in Living, c \in Cells : Walk(b, c)
  \/ \E winner, loser \in Living : Fight(winner, loser)

Spec == Init /\ [][Next]_arenaVars
=============================================================================
