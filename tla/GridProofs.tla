----------------------------- MODULE GridProofs -----------------------------
(***************************************************************************)
(* Proofs about Grid, for every size of the grid, number of botbots and    *)
(* amount of nuts and bolts.                                               *)
(***************************************************************************)
EXTENDS Grid, FiniteSetTheorems, WellFoundedInduction, SequenceTheorems, TLAPS

\* Every non-empty set of numbers has a least element.
LEMMA Least ==
  ASSUME NEW S, S \subseteq Nat, S # {}
  PROVE  \E x \in S : \A y \in S : x <= y
<1>1. PICK x \in S : \A y \in S : ~ (<<y, x>> \in OpToRel(<, Nat))
  BY NatLessThanWellFounded, WFMin
<1>2. \A y \in S : x <= y
  <2> SUFFICES ASSUME NEW y \in S PROVE x <= y
    OBVIOUS
  <2>1. ~(<<y, x>> \in {ss \in Nat \X Nat : ss[1] < ss[2]})
    BY <1>1 DEF OpToRel
  <2>2. <<y, x>> \in Nat \X Nat
    OBVIOUS
  <2> QED
    BY <2>1, <2>2
<1> QED
  BY <1>2

\* Every non-empty set of addresses has a smallest element.
LEMMA MinExists ==
  ASSUME NEW S, S \subseteq Nat, S # {}
  PROVE  Min(S) \in S
BY Least DEF Min

\* The next entry of a map is one of its entries, further on, or the end.
LEMMA SuccessorFacts ==
  ASSUME NEW keys, keys \subseteq Botbots, NEW b \in Botbots \cup {Nobody}
  PROVE  /\ Successor(keys, b) \in keys \cup {Nobody}
         /\ Successor(keys, b) # Nobody => Successor(keys, b) > b
<1> DEFINE later == {x \in keys : x > b}
<1>1. CASE later = {}
  BY <1>1 DEF Successor
<1>2. CASE later # {}
  <2>1. later \subseteq Nat
    BY BotbotsAssumption
  <2>2. Min(later) \in later
    BY <1>2, <2>1, MinExists
  <2> QED
    BY <1>2, <2>2 DEF Successor
<1> QED
  BY <1>1, <1>2

LEMMA Quotient == ASSUME NEW n \in Nat, NEW d \in Nat \ {0}
                  PROVE  n \div d \in Nat
OBVIOUS

LEMMA Sizes ==
  /\ Rows \in Nat \ {0} /\ Cols \in Nat \ {0}
  /\ MAX_BOTBOTS \in Nat
  /\ Cells \subseteq Int \X Int
  /\ IsFiniteSet(Cells)
  /\ Nobody \notin Botbots
<1>1. Rows \in Nat \ {0} /\ Cols \in Nat \ {0}
  BY SizeAssumption DEF Rows, Cols, Clamp
<1>2. MAX_BOTBOTS \in Nat
  <2>1. Rows * Cols \in Nat
    BY <1>1
  <2> QED
    BY <2>1, Quotient, SizeAssumption DEF MAX_BOTBOTS
<1>3. Cells \subseteq Int \X Int
  BY <1>1 DEF Cells
<1>4. IsFiniteSet(Cells)
  <2>1. IsFiniteSet(0 .. Rows - 1) /\ IsFiniteSet(0 .. Cols - 1)
    BY <1>1, FS_Interval
  <2> QED
    BY <2>1, FS_Product DEF Cells
<1>5. Nobody \notin Botbots
  BY BotbotsAssumption DEF Nobody
<1> QED
  BY <1>1, <1>2, <1>3, <1>4, <1>5

\* A botbot loses no more than it has.
LEMMA LossesFacts == ASSUME NEW n \in Nat PROVE Losses(n) \subseteq 0 .. n
BY MinNutsAssumption DEF Losses

Pay(purse, from, to, amount) ==
  [purse EXCEPT ![from] = @ - amount, ![to] = @ + amount]

\* A transfer between two botbots is a payment, and one from a botbot to itself
\* changes nothing.
LEMMA TransferFacts ==
  ASSUME NEW purse \in [Botbots -> Nat], NEW loser \in Botbots,
         NEW winner \in Botbots, NEW amount \in 0 .. purse[loser]
  PROVE  /\ Transfer(purse, loser, winner, amount) \in [Botbots -> Nat]
         /\ loser # winner =>
              Transfer(purse, loser, winner, amount) = Pay(purse, loser, winner, amount)
         /\ loser = winner => Transfer(purse, loser, winner, amount) = purse
<1> DEFINE paid == [purse EXCEPT ![loser] = @ - amount]
           after == Transfer(purse, loser, winner, amount)
<1>1. /\ purse[loser] \in Nat /\ purse[winner] \in Nat
      /\ amount \in Nat /\ amount <= purse[loser]
  OBVIOUS
<1>2. purse[loser] - amount \in Nat
  BY <1>1
<1>3. paid \in [Botbots -> Nat]
  BY <1>2
<1>4. paid[winner] + amount \in Nat
  BY <1>1, <1>3
<1>5. after = [paid EXCEPT ![winner] = @ + amount]
  BY DEF Transfer
<1>6. after \in [Botbots -> Nat]
  BY <1>3, <1>4, <1>5
<1>7. CASE loser # winner
  <2>1. after = [purse EXCEPT ![loser] = @ - amount, ![winner] = @ + amount]
    BY <1>5, <1>7
  <2> QED
    BY <1>6, <1>7, <2>1 DEF Pay
<1>8. CASE loser = winner
  <2>1. paid[winner] = purse[winner] - amount
    BY <1>8
  <2>2. paid[winner] + amount = purse[winner]
    BY <1>1, <2>1
  <2>3. \A b \in Botbots : after[b] = purse[b]
    BY <1>3, <1>5, <1>8, <2>2
  <2>4. after = purse
    BY <1>6, <2>3
  <2> QED
    BY <1>6, <1>8, <2>4
<1> QED
  BY <1>7, <1>8

LEMMA PayNothing ==
  ASSUME NEW purse \in [Botbots -> Nat], NEW loser \in Botbots,
         NEW winner \in Botbots, loser # winner
  PROVE  purse = Pay(purse, loser, winner, 0)
BY DEF Pay

LEMMA ScoresFacts ==
  ASSUME TypeOK, NEW b \in Botbots PROVE Scores(b) \subseteq Int
<1>1. nuts[b] \in Nat /\ bolts[b] \in Nat
  BY DEF TypeOK
<1> QED
  BY <1>1, BattleAssumption DEF Scores

Event == [nuts : Nat, bolts : Nat, winner : Botbots, loser : Botbots]

\* What a battle for target comes to: w wins it, l pays, and they are the two
\* botbots that met.
Outcome(w, l, target) ==
  /\ w \in {it, bot[target]} /\ l \in {it, bot[target]} /\ w # l
  /\ nuts' \in [Botbots -> Nat] /\ bolts' \in [Botbots -> Nat]
  /\ \E n \in 0 .. nuts[l] : nuts' = Pay(nuts, l, w, n)
  /\ \E m \in 0 .. bolts[l] : bolts' = Pay(bolts, l, w, m)
  /\ Settle(w, l, live_bots[it], target)
  /\ it' = IF l = Successor(Live, it) /\ l \notin DOMAIN live_bots'
           THEN Successor(Live, Successor(Live, it)) ELSE Successor(Live, it)
  /\ events' = events \/ \E e \in Event : events' = Append(events, e)
  /\ UNCHANGED <<cycles, state, left>>

LEMMA BattleFacts ==
  ASSUME TypeOK, it \in Botbots, NEW target \in Cells, Fight(target)
  PROVE  \E w, l \in Botbots : Outcome(w, l, target)
<1> DEFINE occupying == bot[target]
<1>1. occupying \in Botbots /\ occupying # it
  BY DEF Fight, TypeOK
<1>2. PICK scoreA \in Scores(occupying), scoreB \in Scores(it),
           surrender \in 0 .. SURRENDER_MOD - 1 :
         MoveBattle(target, scoreA, scoreB, surrender)
  BY DEF Fight
<1>3. scoreA \in Int /\ scoreB \in Int
  BY <1>1, ScoresFacts
<1> DEFINE w == Winner(occupying, it, scoreA, scoreB)
           paid == Loser(occupying, it, scoreA, scoreB)
           l == IF it = w THEN occupying ELSE it
<1> HIDE DEF occupying
<1>4. /\ w \in {it, occupying} /\ l \in {it, occupying} /\ w # l
      /\ paid = l \/ paid = w
      /\ paid \in Botbots /\ w \in Botbots /\ l \in Botbots
  BY <1>1, <1>3 DEF Winner, Loser
<1>5. /\ BattleBots(occupying, it, scoreA, scoreB, surrender)
      /\ Settle(w, l, live_bots[it], target)
      /\ it' = IF l = Successor(Live, it) /\ l \notin DOMAIN live_bots'
               THEN Successor(Live, Successor(Live, it)) ELSE Successor(Live, it)
      /\ UNCHANGED <<cycles, state, left>>
  BY <1>2 DEF MoveBattle, occupying
<1> HIDE DEF w, paid, l
<1>0. nuts \in [Botbots -> Nat] /\ bolts \in [Botbots -> Nat]
  BY DEF TypeOK
<1>6. /\ nuts' \in [Botbots -> Nat] /\ bolts' \in [Botbots -> Nat]
      /\ \E n \in 0 .. nuts[l] : nuts' = Pay(nuts, l, w, n)
      /\ \E m \in 0 .. bolts[l] : bolts' = Pay(bolts, l, w, m)
      /\ events' = events \/ \E e \in Event : events' = Append(events, e)
  <2>1. CASE UNCHANGED <<nuts, bolts, events>>
    <3>1. nuts = Pay(nuts, l, w, 0) /\ bolts = Pay(bolts, l, w, 0)
      BY <1>4, <1>0, PayNothing
    <3>2. 0 \in 0 .. nuts[l] /\ 0 \in 0 .. bolts[l]
      BY <1>4, <1>0
    <3> QED
      BY <1>0, <2>1, <3>1, <3>2
  <2>2. CASE \E n \in Losses(nuts[paid]), m \in Losses(bolts[paid]) :
               /\ nuts' = Transfer(nuts, paid, w, n)
               /\ bolts' = Transfer(bolts, paid, w, m)
               /\ events' = Append(events, [nuts |-> n, bolts |-> m,
                                            winner |-> w, loser |-> paid])
    <3>1. PICK n \in Losses(nuts[paid]), m \in Losses(bolts[paid]) :
               /\ nuts' = Transfer(nuts, paid, w, n)
               /\ bolts' = Transfer(bolts, paid, w, m)
               /\ events' = Append(events, [nuts |-> n, bolts |-> m,
                                            winner |-> w, loser |-> paid])
      BY <2>2
    <3>2. nuts[paid] \in Nat /\ bolts[paid] \in Nat
      BY <1>4, <1>0
    <3>3. n \in 0 .. nuts[paid] /\ m \in 0 .. bolts[paid]
      BY <3>2, LossesFacts
    <3>4. [nuts |-> n, bolts |-> m, winner |-> w, loser |-> paid] \in Event
      BY <1>4, <3>2, <3>3 DEF Event
    <3>5. nuts' \in [Botbots -> Nat] /\ bolts' \in [Botbots -> Nat]
      BY <1>4, <1>0, <3>1, <3>3, TransferFacts
    <3>6. CASE paid = l
      <4>1. nuts' = Pay(nuts, l, w, n) /\ bolts' = Pay(bolts, l, w, m)
        <5>1. /\ Transfer(nuts, l, w, n) = Pay(nuts, l, w, n)
              /\ Transfer(bolts, l, w, m) = Pay(bolts, l, w, m)
          BY <1>4, <1>0, <3>3, <3>6, TransferFacts
        <5> QED
          BY <3>1, <3>6, <5>1
      <4> QED
        BY <3>1, <3>3, <3>4, <3>5, <3>6, <4>1
    <3>7. CASE paid = w
      <4>1. nuts' = nuts /\ bolts' = bolts
        <5>1. Transfer(nuts, w, w, n) = nuts /\ Transfer(bolts, w, w, m) = bolts
          BY <1>4, <1>0, <3>3, <3>7, TransferFacts
        <5> QED
          BY <3>1, <3>7, <5>1
      <4>2. nuts' = Pay(nuts, l, w, 0) /\ bolts' = Pay(bolts, l, w, 0)
        BY <1>4, <1>0, <4>1, PayNothing
      <4>3. 0 \in 0 .. nuts[l] /\ 0 \in 0 .. bolts[l]
        BY <1>4, <1>0
      <4> QED
        BY <3>1, <3>4, <3>5, <4>2, <4>3
    <3> QED
      BY <1>4, <3>6, <3>7
  <2> QED
    BY <1>5, <2>1, <2>2 DEF BattleBots, w, paid
<1> QED
  BY <1>4, <1>5, <1>6 DEF Outcome, occupying

\* The dead are botbots.
LEMMA DeadFacts == ASSUME TypeOK PROVE Dead \subseteq Botbots
<1> DEFINE Death == [bot : Botbots, cycle : 0 .. MaxCycles]
<1>1. dead_bots \in Seq(Death)
  BY DEF TypeOK
<1>2. \A i \in 1 .. Len(dead_bots) : dead_bots[i] \in Death
  BY <1>1, ElementOfSeq
<1>3. \A i \in 1 .. Len(dead_bots) : dead_bots[i].bot \in Botbots
  BY <1>2
<1> QED
  BY <1>3 DEF Dead

-----------------------------------------------------------------------------
(* The inductive invariant.                                                *)

LEMMA InitIInv == Init => IInv
<1> SUFFICES ASSUME Init PROVE IInv
  OBVIOUS
<1> USE DEF Init
<1>1. Live = {}
  BY DEF Live
<1>2. TypeOK
  <2>1. live_bots \in [Live -> Cells]
    BY <1>1
  <2>2. dead_bots \in Seq([bot : Botbots, cycle : 0 .. MaxCycles])
    OBVIOUS
  <2>3. events \in Seq([nuts : Nat, bolts : Nat, winner : Botbots, loser : Botbots])
    OBVIOUS
  <2>4. cycles \in 0 .. MaxCycles
    BY BoundAssumption
  <2> QED
    BY <1>1, <2>1, <2>2, <2>3, <2>4 DEF TypeOK
<1>3. CellsAgree /\ PositionsInside /\ PositionsAgree /\ IteratorValid
  BY <1>1 DEF CellsAgree, PositionsInside, PositionsAgree, IteratorValid
<1>4. DeadAreSpent
  BY DEF DeadAreSpent, Dead
<1> QED
  BY <1>2, <1>3, <1>4 DEF IInv

\* The steps that only change the thread's place, a counter or the events.
LEMMA CallsKeepIInv ==
  ASSUME IInv, UNCHANGED <<bot, live_bots, dead_bots, current, nuts, bolts>>,
         events' \in Seq([nuts : Nat, bolts : Nat, winner : Botbots, loser : Botbots]),
         cycles' \in 0 .. MaxCycles, state' \in {"idle", "fill", "move"},
         left' \in Nat, it' \in Botbots \cup {Nobody}, IteratorValid'
  PROVE  IInv'
<1>1. TypeOK'
  BY DEF IInv, TypeOK, Live
<1>2. CellsAgree' /\ PositionsInside' /\ (~FishTank => PositionsAgree')
  BY DEF IInv, CellsAgree, PositionsInside, PositionsAgree, Live
<1>3. DeadAreSpent'
  BY DEF IInv, DeadAreSpent, Dead, Live
<1> QED
  BY <1>1, <1>2, <1>3 DEF IInv

LEMMA FillCallIInv == ASSUME IInv, FillCall PROVE IInv'
<1>1. left' \in Nat
  <2>1. Cardinality(EmptyCells) \in Nat
    BY Sizes, FS_Subset, FS_CardinalityType DEF EmptyCells
  <2> QED
    BY <2>1, Sizes DEF FillCall, Smaller
<1>2. IteratorValid'
  BY DEF FillCall, IInv, IteratorValid
<1> QED
  BY <1>1, <1>2, CallsKeepIInv DEF FillCall, IInv, TypeOK

LEMMA FillReturnIInv == ASSUME IInv, FillReturn PROVE IInv'
<1>1. IteratorValid'
  BY DEF FillReturn, IInv, IteratorValid
<1> QED
  BY <1>1, CallsKeepIInv DEF FillReturn, IInv, TypeOK

LEMMA CycleBeginIInv == ASSUME IInv, CycleBegin PROVE IInv'
<1>1. it' \in Live \cup {Nobody} /\ Live \subseteq Botbots
  BY SuccessorFacts DEF CycleBegin, IInv, TypeOK
<1>2. IteratorValid'
  BY <1>1 DEF CycleBegin, IteratorValid, Live
<1> QED
  BY <1>1, <1>2, CallsKeepIInv DEF CycleBegin, IInv, TypeOK

LEMMA CycleEndIInv == ASSUME IInv, CycleEnd PROVE IInv'
<1>1. IteratorValid'
  BY DEF CycleEnd, IInv, IteratorValid
<1>2. cycles' \in 0 .. MaxCycles
  BY BoundAssumption DEF CycleEnd, Smaller, IInv, TypeOK
<1> QED
  BY <1>1, <1>2, CallsKeepIInv DEF CycleEnd, IInv, TypeOK

LEMMA PrintEventsIInv == ASSUME IInv, PrintEvents PROVE IInv'
<1>1. IteratorValid'
  BY DEF PrintEvents, IInv, IteratorValid, Live
<1>2. events' \in Seq([nuts : Nat, bolts : Nat, winner : Botbots, loser : Botbots])
  BY DEF PrintEvents
<1> QED
  BY <1>1, <1>2, CallsKeepIInv DEF PrintEvents, IInv, TypeOK

LEMMA StutterIInv == ASSUME IInv, UNCHANGED vars PROVE IInv'
<1>1. IteratorValid'
  BY DEF vars, IInv, IteratorValid, Live
<1> QED
  BY <1>1, CallsKeepIInv DEF vars, IInv, TypeOK

\* fill_to_capacity puts a botbot that is not alive on a cell that is empty.
LEMMA FillNextIInv == ASSUME IInv, FillNext PROVE IInv'
<1>1. PICK b \in Botbots \ (Live \cup Dead), cell \in EmptyCells,
           n \in 0 .. NutsLimit - 1, m \in 0 .. BoltsLimit - 1 :
         /\ nuts' = [nuts EXCEPT ![b] = n]
         /\ bolts' = [bolts EXCEPT ![b] = m]
         /\ bot' = [bot EXCEPT ![cell] = b]
         /\ current' = [current EXCEPT ![b] = cell]
         /\ live_bots' = [x \in Live \cup {b} |->
                            IF x = b THEN cell ELSE live_bots[x]]
  BY DEF FillNext
<1>2. /\ left \in Nat /\ left > 0 /\ left' = left - 1
      /\ UNCHANGED <<dead_bots, events, cycles, state, it>>
      /\ state = "fill"
  BY DEF FillNext, IInv, TypeOK
<1>3. TypeOK
  BY DEF IInv
<1>4. cell \in Cells /\ bot[cell] = Nobody /\ b \in Botbots /\ b # Nobody
  BY Sizes DEF EmptyCells
<1>5. Live' = Live \cup {b}
  BY <1>1 DEF Live
<1>6. TypeOK'
  <2>1. bot' \in [Cells -> Botbots \cup {Nobody}]
    BY <1>1, <1>3, <1>4 DEF TypeOK
  <2>2. Live' \subseteq Botbots /\ live_bots' \in [Live' -> Cells]
    BY <1>1, <1>3, <1>4, <1>5 DEF TypeOK
  <2>3. current' \in [Botbots -> Int \X Int]
    BY <1>1, <1>3, <1>4, Sizes DEF TypeOK
  <2>4. n \in Nat /\ m \in Nat
    BY BattleAssumption
  <2>5. nuts' \in [Botbots -> Nat] /\ bolts' \in [Botbots -> Nat]
    BY <1>1, <1>3, <2>4 DEF TypeOK
  <2>6. left' \in Nat
    BY <1>2
  <2> QED
    BY <1>2, <1>3, <2>1, <2>2, <2>3, <2>5, <2>6 DEF TypeOK
<1>7. CellsAgree'
  <2>1. ASSUME NEW x \in Live' PROVE bot'[live_bots'[x]] = x
    <3>1. CASE x = b
      BY <1>1, <1>3, <1>4, <1>5, <3>1 DEF TypeOK
    <3>2. CASE x # b
      <4>1. x \in Live /\ live_bots'[x] = live_bots[x] /\ bot[live_bots[x]] = x
        BY <1>1, <1>5, <2>1, <3>2 DEF IInv, CellsAgree
      <4>2. live_bots[x] \in Cells /\ live_bots[x] # cell
        BY <1>3, <1>4, <4>1, Sizes DEF TypeOK
      <4> QED
        BY <1>1, <1>3, <4>1, <4>2 DEF TypeOK
    <3> QED
      BY <3>1, <3>2
  <2>2. ASSUME NEW c \in Cells, bot'[c] # Nobody
        PROVE  bot'[c] \in Live' /\ live_bots'[bot'[c]] = c
    <3>1. CASE c = cell
      BY <1>1, <1>3, <1>4, <1>5, <3>1 DEF TypeOK
    <3>2. CASE c # cell
      <4>1. bot'[c] = bot[c]
        BY <1>1, <1>3, <3>2 DEF TypeOK
      <4>2. bot[c] \in Live /\ live_bots[bot[c]] = c
        BY <2>2, <4>1 DEF IInv, CellsAgree
      <4> QED
        BY <1>1, <1>5, <4>1, <4>2
    <3> QED
      BY <3>1, <3>2
  <2> QED
    BY <2>1, <2>2 DEF CellsAgree
<1>8. PositionsInside' /\ (~FishTank => PositionsAgree')
  <2>1. ASSUME NEW x \in Live'
        PROVE  /\ current'[x] \in Cells
               /\ ~FishTank => current'[x] = live_bots'[x]
    <3>1. CASE x = b
      BY <1>1, <1>3, <1>4, <1>5, <3>1 DEF TypeOK
    <3>2. CASE x # b
      BY <1>1, <1>3, <1>5, <2>1, <3>2
      DEF TypeOK, IInv, PositionsInside, PositionsAgree
    <3> QED
      BY <3>1, <3>2
  <2> QED
    BY <2>1 DEF PositionsInside, PositionsAgree
<1>9. IteratorValid'
  BY <1>2 DEF IInv, IteratorValid
<1>10. DeadAreSpent'
  <2>1. Dead' = Dead
    BY <1>2 DEF Dead
  <2>2. ASSUME NEW x \in Dead
        PROVE  x \notin Live' /\ nuts'[x] = 0 /\ bolts'[x] = 0
    <3>1. x # b /\ x \notin Live /\ nuts[x] = 0 /\ bolts[x] = 0
      BY DEF IInv, DeadAreSpent
    <3>2. nuts'[x] = nuts[x] /\ bolts'[x] = bolts[x]
      <4>1. DOMAIN nuts = Botbots /\ DOMAIN bolts = Botbots
        BY <1>3 DEF TypeOK
      <4> QED
        BY <1>1, <2>2, <3>1, <4>1, DeadFacts DEF IInv
    <3> QED
      BY <1>5, <3>1, <3>2
  <2> QED
    BY <1>2, <2>1, <2>2 DEF IInv, DeadAreSpent
<1> QED
  BY <1>6, <1>7, <1>8, <1>9, <1>10 DEF IInv

\* Where move_bots is when it turns to the next botbot.
LEMMA TurnFacts ==
  ASSUME IInv, it # Nobody
  PROVE  /\ it \in Live /\ it \in Botbots /\ state = "move"
         /\ live_bots[it] \in Cells /\ bot[live_bots[it]] = it
         /\ Successor(Live, it) \in Live \cup {Nobody}
         /\ Successor(Live, it) \in Botbots \cup {Nobody}
<1>1. it \in Live /\ it \in Botbots /\ state = "move"
  BY DEF IInv, IteratorValid, TypeOK
<1>2. live_bots[it] \in Cells /\ bot[live_bots[it]] = it
  BY <1>1 DEF IInv, TypeOK, CellsAgree
<1>3. Live \subseteq Botbots
  BY DEF IInv, TypeOK
<1>4. Successor(Live, it) \in Live \cup {Nobody}
  BY <1>1, <1>3, SuccessorFacts
<1> QED
  BY <1>1, <1>2, <1>3, <1>4

\* What the steps have in common that leave the botbot on its cell.
LEMMA StayIInv ==
  ASSUME IInv, it # Nobody, NEW here \in Cells,
         ~FishTank => here = live_bots[it],
         current' = [current EXCEPT ![it] = here],
         it' = Successor(Live, it),
         UNCHANGED <<bot, live_bots, dead_bots, nuts, bolts, events, cycles,
                     state, left>>
  PROVE  IInv'
<1>1. TypeOK
  BY DEF IInv
<1>2. Live' = Live
  BY DEF Live
<1>3. current' \in [Botbots -> Int \X Int]
  BY <1>1, Sizes DEF TypeOK
<1>4. TypeOK'
  BY <1>1, <1>2, <1>3, TurnFacts DEF TypeOK
<1>5. CellsAgree'
  BY <1>2 DEF IInv, CellsAgree
<1>6. PositionsInside' /\ (~FishTank => PositionsAgree')
  <2>1. ASSUME NEW x \in Live
        PROVE  /\ current'[x] \in Cells
               /\ ~FishTank => current'[x] = live_bots[x]
    <3>1. x \in Botbots /\ DOMAIN current = Botbots
      BY <1>1 DEF TypeOK
    <3> QED
      BY <3>1 DEF IInv, PositionsInside, PositionsAgree
  <2> QED
    BY <1>2, <2>1 DEF PositionsInside, PositionsAgree
<1>7. IteratorValid'
  BY <1>2, TurnFacts DEF IteratorValid
<1>8. DeadAreSpent'
  BY <1>2 DEF IInv, DeadAreSpent, Dead
<1> QED
  BY <1>4, <1>5, <1>6, <1>7, <1>8 DEF IInv

LEMMA MoveOutIInv ==
  ASSUME IInv, it # Nobody, NEW target, MoveOut(target) PROVE IInv'
BY TurnFacts, StayIInv DEF MoveOut

LEMMA MoveNotIInv ==
  ASSUME IInv, it # Nobody, NEW target, MoveNot(target) PROVE IInv'
<1>1. ~FishTank => target = live_bots[it]
  BY DEF MoveNot, IInv, CellsAgree
<1> QED
  BY <1>1, StayIInv DEF MoveNot

LEMMA MoveFreeIInv ==
  ASSUME IInv, it # Nobody, NEW target, MoveFree(target) PROVE IInv'
<1> DEFINE old == live_bots[it]
<1>1. TypeOK
  BY DEF IInv
<1>2. /\ it \in Live /\ it \in Botbots /\ old \in Cells /\ bot[old] = it
      /\ target \in Cells /\ bot[target] = Nobody /\ target # old
  BY TurnFacts DEF MoveFree
<1>3. /\ bot' = [bot EXCEPT ![target] = it, ![old] = Nobody]
      /\ live_bots' = [live_bots EXCEPT ![it] = target]
      /\ current' = [current EXCEPT ![it] = target]
      /\ it' = Successor(Live, it)
      /\ UNCHANGED <<dead_bots, nuts, bolts, events, cycles, state, left>>
  BY DEF MoveFree
<1> HIDE DEF old
<1>4. Live' = Live
  BY <1>1, <1>2, <1>3 DEF TypeOK, Live
<1>5. TypeOK'
  <2>1. bot' \in [Cells -> Botbots \cup {Nobody}]
    BY <1>1, <1>2, <1>3 DEF TypeOK
  <2>2. live_bots' \in [Live' -> Cells]
    BY <1>1, <1>2, <1>3, <1>4 DEF TypeOK
  <2>3. current' \in [Botbots -> Int \X Int]
    BY <1>1, <1>2, <1>3, Sizes DEF TypeOK
  <2> QED
    BY <1>1, <1>3, <1>4, <2>1, <2>2, <2>3, TurnFacts DEF TypeOK
<1>6. CellsAgree'
  <2>1. ASSUME NEW x \in Live PROVE bot'[live_bots'[x]] = x
    <3>1. CASE x = it
      BY <1>1, <1>2, <1>3, <3>1 DEF TypeOK
    <3>2. CASE x # it
      <4>1. live_bots'[x] = live_bots[x] /\ live_bots[x] \in Cells
        BY <1>1, <1>3, <3>2 DEF TypeOK
      <4>2. bot[live_bots[x]] = x /\ x # Nobody
        BY <1>1, Sizes DEF IInv, CellsAgree, TypeOK
      <4> QED
        BY <1>1, <1>2, <1>3, <3>2, <4>1, <4>2 DEF TypeOK
    <3> QED
      BY <3>1, <3>2
  <2>2. ASSUME NEW c \in Cells, bot'[c] # Nobody
        PROVE  bot'[c] \in Live /\ live_bots'[bot'[c]] = c
    <3>1. CASE c = target
      BY <1>1, <1>2, <1>3, <3>1 DEF TypeOK
    <3>2. CASE c # target
      <4>1. c # old /\ bot'[c] = bot[c]
        BY <1>1, <1>2, <1>3, <2>2, <3>2 DEF TypeOK
      <4>2. bot[c] \in Live /\ live_bots[bot[c]] = c
        BY <2>2, <4>1 DEF IInv, CellsAgree
      <4>3. bot[c] # it
        BY <4>1, <4>2 DEF old
      <4> QED
        BY <1>1, <1>3, <4>1, <4>2, <4>3 DEF TypeOK
    <3> QED
      BY <3>1, <3>2
  <2> QED
    BY <1>4, <2>1, <2>2 DEF CellsAgree
<1>7. PositionsInside' /\ (~FishTank => PositionsAgree')
  <2>1. ASSUME NEW x \in Live
        PROVE  /\ current'[x] \in Cells
               /\ ~FishTank => current'[x] = live_bots'[x]
    <3>1. x \in Botbots /\ DOMAIN current = Botbots /\ DOMAIN live_bots = Live
      BY <1>1 DEF TypeOK
    <3> QED
      BY <1>2, <1>3, <3>1 DEF IInv, PositionsInside, PositionsAgree
  <2> QED
    BY <1>4, <2>1 DEF PositionsInside, PositionsAgree
<1>8. IteratorValid'
  BY <1>3, <1>4, TurnFacts DEF IteratorValid
<1>9. DeadAreSpent'
  BY <1>3, <1>4 DEF IInv, DeadAreSpent, Dead
<1> QED
  BY <1>5, <1>6, <1>7, <1>8, <1>9 DEF IInv

\* Of a botbot that is paid from and one that is paid, the others see nothing.
LEMMA PayFacts ==
  ASSUME NEW purse \in [Botbots -> Nat], NEW from, NEW to, NEW amount,
         NEW b \in Botbots, b # from, b # to
  PROVE  Pay(purse, from, to, amount)[b] = purse[b]
BY DEF Pay

\* Somebody who has just died is added to the dead, or they are the same.
LEMMA DeathFacts ==
  ASSUME IInv, NEW l \in Live, live_bots' \in [Live' -> Cells],
         l \notin Live', Live' \subseteq Live, nuts'[l] = 0, bolts'[l] = 0,
         \A b \in Dead : nuts'[b] = nuts[b] /\ bolts'[b] = bolts[b],
         dead_bots' = Append(dead_bots, [bot |-> l, cycle |-> cycles])
  PROVE  DeadAreSpent' /\ Dead' = Dead \cup {l}
<1> DEFINE Death == [bot : Botbots, cycle : 0 .. MaxCycles]
           d == [bot |-> l, cycle |-> cycles]
           n == Len(dead_bots)
<1>1. dead_bots \in Seq(Death) /\ d \in Death
  BY DEF IInv, TypeOK
<1>2. /\ n \in Nat /\ Len(dead_bots') = n + 1
      /\ \A i \in 1 .. n : dead_bots'[i] = dead_bots[i]
      /\ dead_bots'[n + 1] = d
  BY <1>1
<1> HIDE DEF n
<1>3. \A i \in 1 .. n : dead_bots[i].bot # l
  BY DEF IInv, DeadAreSpent, Dead, n
<1>4. Dead' = Dead \cup {l}
  <2>1. ASSUME NEW x \in Dead' PROVE x \in Dead \cup {l}
    BY <1>2 DEF Dead, n
  <2>2. ASSUME NEW x \in Dead PROVE x \in Dead'
    <3>1. PICK i \in 1 .. n : x = dead_bots[i].bot
      BY DEF Dead, n
    <3>2. i \in 1 .. Len(dead_bots') /\ x = dead_bots'[i].bot
      BY <1>2, <3>1
    <3> QED
      BY <3>2 DEF Dead
  <2>3. l \in Dead'
    <3>1. n + 1 \in 1 .. Len(dead_bots') /\ l = dead_bots'[n + 1].bot
      BY <1>2
    <3> QED
      BY <3>1 DEF Dead
  <2> QED
    BY <2>1, <2>2, <2>3
<1>5. ASSUME NEW i \in 1 .. n + 1, NEW j \in 1 .. n + 1,
             dead_bots'[i].bot = dead_bots'[j].bot
      PROVE  i = j
  <2>1. (i \in 1 .. n \/ i = n + 1) /\ (j \in 1 .. n \/ j = n + 1)
    BY <1>2
  <2>2. CASE i = n + 1 /\ j = n + 1
    BY <2>2
  <2>3. CASE i \in 1 .. n /\ j \in 1 .. n
    BY <1>2, <1>5, <2>3 DEF IInv, DeadAreSpent, n
  <2>4. CASE i = n + 1 /\ j \in 1 .. n
    BY <1>2, <1>3, <1>5, <2>4
  <2>5. CASE i \in 1 .. n /\ j = n + 1
    BY <1>2, <1>3, <1>5, <2>5
  <2> QED
    BY <2>1, <2>2, <2>3, <2>4, <2>5
<1>6. \A x \in Dead' : x \notin Live' /\ nuts'[x] = 0 /\ bolts'[x] = 0
  BY <1>4 DEF IInv, DeadAreSpent
<1> QED
  BY <1>2, <1>4, <1>5, <1>6 DEF DeadAreSpent

LEMMA OutcomeIInv ==
  ASSUME IInv, it # Nobody, NEW target \in Cells,
         bot[target] \notin {Nobody, it}, ~FishTank,
         NEW w \in Botbots, NEW l \in Botbots, Outcome(w, l, target)
  PROVE  IInv'
<1> DEFINE old == live_bots[it]
           other == bot[target]
           next == Successor(Live, it)
<1>1. TypeOK /\ CellsAgree /\ PositionsAgree
  BY DEF IInv
<1>2. /\ it \in Live /\ it \in Botbots /\ old \in Cells /\ bot[old] = it
      /\ state = "move"
  BY TurnFacts
<1>3. /\ other \in Live /\ other \in Botbots /\ other # it
      /\ live_bots[other] = target /\ target # old
  BY <1>1, <1>2 DEF CellsAgree, TypeOK
<1>4. /\ w \in {it, other} /\ l \in {it, other} /\ w # l
      /\ w \in Live /\ l \in Live /\ w # Nobody /\ l # Nobody
  BY <1>2, <1>3, Sizes DEF Outcome
<1>5. /\ nuts' \in [Botbots -> Nat] /\ bolts' \in [Botbots -> Nat]
      /\ UNCHANGED <<cycles, state, left>>
      /\ it' = IF l = next /\ l \notin Live' THEN Successor(Live, next) ELSE next
      /\ Settle(w, l, old, target)
  BY DEF Outcome, Live
<1>6. events' \in Seq(Event)
  <2>1. events \in Seq(Event)
    BY <1>1 DEF TypeOK, Event
  <2>2. events' = events \/ \E e \in Event : events' = Append(events, e)
    BY DEF Outcome
  <2>3. CASE events' = events
    BY <2>1, <2>3
  <2>4. CASE \E e \in Event : events' = Append(events, e)
    BY <2>1, <2>4
  <2> QED
    BY <2>2, <2>3, <2>4
<1>7. \A b \in Dead : nuts'[b] = nuts[b] /\ bolts'[b] = bolts[b]
  <2> SUFFICES ASSUME NEW b \in Dead
               PROVE  nuts'[b] = nuts[b] /\ bolts'[b] = bolts[b]
    OBVIOUS
  <2>1. b \in Botbots /\ b # l /\ b # w
    BY <1>1, <1>4, DeadFacts DEF IInv, DeadAreSpent
  <2>2. nuts \in [Botbots -> Nat] /\ bolts \in [Botbots -> Nat]
    BY <1>1 DEF TypeOK
  <2>3. PICK n \in 0 .. nuts[l], m \in 0 .. bolts[l] :
          nuts' = Pay(nuts, l, w, n) /\ bolts' = Pay(bolts, l, w, m)
    BY DEF Outcome
  <2>4. /\ Pay(nuts, l, w, n)[b] = nuts[b]
        /\ Pay(bolts, l, w, m)[b] = bolts[b]
    BY <2>1, <2>2, PayFacts
  <2> QED
    BY <2>3, <2>4
<1> HIDE DEF old, other, next
\* The loser is left with nothing: its entry is erased.
<1>8. CASE /\ nuts'[l] = 0 /\ bolts'[l] = 0
           /\ bot' = [bot EXCEPT ![old] = Nobody, ![target] = w]
           /\ live_bots' = [b \in Live \ {l} |->
                              IF b = w THEN target ELSE live_bots[b]]
           /\ dead_bots' = Append(dead_bots, [bot |-> l, cycle |-> cycles])
           /\ current' = [current EXCEPT ![it] = target]
  <2>1. Live' = Live \ {l}
    BY <1>8 DEF Live
  <2>2. TypeOK'
    <3>1. bot' \in [Cells -> Botbots \cup {Nobody}]
      BY <1>1, <1>8 DEF TypeOK
    <3>2. Live' \subseteq Botbots /\ live_bots' \in [Live' -> Cells]
      BY <1>1, <1>8, <2>1 DEF TypeOK
    <3>3. current' \in [Botbots -> Int \X Int]
      BY <1>1, <1>8, Sizes DEF TypeOK
    <3>4. dead_bots' \in Seq([bot : Botbots, cycle : 0 .. MaxCycles])
      BY <1>1, <1>8 DEF TypeOK
    <3>5. it' \in Botbots \cup {Nobody}
      <4>1. Live \subseteq Botbots /\ next \in Botbots \cup {Nobody}
        BY <1>1, TurnFacts DEF TypeOK, next
      <4> QED
        BY <1>5, <4>1, SuccessorFacts
    <3> QED
      BY <1>1, <1>5, <1>6, <3>1, <3>2, <3>3, <3>4, <3>5 DEF TypeOK, Event
  <2>3. CellsAgree'
    <3>1. ASSUME NEW x \in Live \ {l} PROVE bot'[live_bots'[x]] = x
      <4>1. CASE x = w
        BY <1>1, <1>8, <4>1 DEF TypeOK
      <4>2. CASE x # w
        <5>1. live_bots'[x] = live_bots[x] /\ live_bots[x] \in Cells
          BY <1>1, <1>8, <4>2 DEF TypeOK
        <5>2. bot[live_bots[x]] = x /\ x \notin {it, other}
          BY <1>1, <1>4, <4>2 DEF CellsAgree
        <5>3. live_bots[x] # old /\ live_bots[x] # target
          BY <1>2, <5>2 DEF other
        <5> QED
          BY <1>1, <1>8, <5>1, <5>2, <5>3 DEF TypeOK
      <4> QED
        BY <4>1, <4>2
    <3>2. ASSUME NEW c \in Cells, bot'[c] # Nobody
          PROVE  bot'[c] \in Live \ {l} /\ live_bots'[bot'[c]] = c
      <4>1. CASE c = target
        BY <1>1, <1>4, <1>8, <4>1 DEF TypeOK
      <4>2. CASE c # target
        <5>1. c # old /\ bot'[c] = bot[c]
          BY <1>1, <1>2, <1>8, <3>2, <4>2 DEF TypeOK
        <5>2. bot[c] \in Live /\ live_bots[bot[c]] = c
          BY <1>1, <3>2, <5>1 DEF CellsAgree
        <5>3. bot[c] # it /\ bot[c] # other
          BY <1>3, <4>2, <5>1, <5>2 DEF old
        <5> QED
          BY <1>4, <1>8, <5>1, <5>2, <5>3
      <4> QED
        BY <4>1, <4>2
    <3> QED
      BY <2>1, <3>1, <3>2 DEF CellsAgree
  <2>4. PositionsInside' /\ PositionsAgree'
    <3>1. ASSUME NEW x \in Live \ {l} PROVE current'[x] = live_bots'[x]
      <4>1. x \in Botbots /\ DOMAIN current = Botbots /\ current[x] = live_bots[x]
        BY <1>1 DEF TypeOK, PositionsAgree
      <4>2. CASE x = it
        BY <1>4, <1>8, <4>1, <4>2
      <4>3. CASE x = other
        BY <1>3, <1>4, <1>8, <4>1, <4>3
      <4>4. CASE x \notin {it, other}
        BY <1>4, <1>8, <4>1, <4>4
      <4> QED
        BY <4>2, <4>3, <4>4
    <3>2. ASSUME NEW x \in Live \ {l} PROVE live_bots'[x] \in Cells
      BY <2>1, <2>2, <3>2 DEF TypeOK
    <3> QED
      BY <2>1, <3>1, <3>2 DEF PositionsInside, PositionsAgree
  <2>5. IteratorValid'
    <3>1. Live \subseteq Botbots /\ next \in Live \cup {Nobody}
      BY <1>1, TurnFacts DEF TypeOK, next
    <3>2. CASE l = next
      <4>1. it' = Successor(Live, next)
        BY <1>5, <2>1, <3>2
      <4>2. next \in Botbots
        BY <1>4, <3>1, <3>2
      <4>3. /\ it' \in Live \cup {Nobody}
            /\ it' # Nobody => it' > next
        BY <3>1, <4>1, <4>2, SuccessorFacts
      <4>4. it' # next
        BY <1>4, <3>2, <4>2, <4>3, BotbotsAssumption
      <4> QED
        BY <1>2, <1>5, <2>1, <3>2, <4>3, <4>4 DEF IteratorValid
    <3>3. CASE l # next
      BY <1>2, <1>5, <2>1, <3>1, <3>3 DEF IteratorValid
    <3> QED
      BY <3>2, <3>3
  <2>6. DeadAreSpent'
    <3>1. live_bots' \in [Live' -> Cells]
      BY <2>2 DEF TypeOK
    <3> QED
      BY <1>4, <1>7, <1>8, <2>1, <3>1, DeathFacts
  <2> QED
    BY <2>2, <2>3, <2>4, <2>5, <2>6 DEF IInv
\* The loser has something left: it gets the cell the attack came from.
<1>9. CASE /\ bot' = [bot EXCEPT ![old] = l, ![target] = w]
           /\ live_bots' = [live_bots EXCEPT ![w] = target, ![l] = old]
           /\ current' = [current EXCEPT ![it] = target, ![l] = old]
           /\ UNCHANGED dead_bots
  <2>1. Live' = Live
    BY <1>1, <1>4, <1>9 DEF Live, TypeOK
  <2>2. TypeOK'
    <3>1. bot' \in [Cells -> Botbots \cup {Nobody}]
      BY <1>1, <1>9 DEF TypeOK
    <3>2. live_bots' \in [Live' -> Cells]
      BY <1>1, <1>2, <1>9, <2>1 DEF TypeOK
    <3>3. current' \in [Botbots -> Int \X Int]
      BY <1>1, <1>2, <1>9, Sizes DEF TypeOK
    <3>4. it' \in Botbots \cup {Nobody}
      BY <1>4, <1>5, <2>1, TurnFacts DEF next
    <3> QED
      BY <1>1, <1>5, <1>6, <1>9, <2>1, <3>1, <3>2, <3>3, <3>4 DEF TypeOK, Event
  <2>3. CellsAgree'
    <3>1. ASSUME NEW x \in Live PROVE bot'[live_bots'[x]] = x
      <4>1. CASE x = w
        BY <1>1, <1>4, <1>9, <4>1 DEF TypeOK
      <4>2. CASE x = l
        BY <1>1, <1>2, <1>3, <1>4, <1>9, <4>2 DEF TypeOK
      <4>3. CASE x # w /\ x # l
        <5>1. live_bots'[x] = live_bots[x] /\ live_bots[x] \in Cells
          BY <1>1, <1>9, <4>3 DEF TypeOK
        <5>2. bot[live_bots[x]] = x /\ x \notin {it, other}
          BY <1>1, <1>4, <4>3 DEF CellsAgree
        <5>3. live_bots[x] # old /\ live_bots[x] # target
          BY <1>2, <5>2 DEF other
        <5> QED
          BY <1>1, <1>9, <5>1, <5>2, <5>3 DEF TypeOK
      <4> QED
        BY <4>1, <4>2, <4>3
    <3>2. ASSUME NEW c \in Cells, bot'[c] # Nobody
          PROVE  bot'[c] \in Live /\ live_bots'[bot'[c]] = c
      <4>1. CASE c = target
        BY <1>1, <1>4, <1>9, <4>1 DEF TypeOK
      <4>2. CASE c = old
        BY <1>1, <1>3, <1>4, <1>9, <4>2 DEF TypeOK
      <4>3. CASE c # target /\ c # old
        <5>1. bot'[c] = bot[c]
          BY <1>1, <1>9, <4>3 DEF TypeOK
        <5>2. bot[c] \in Live /\ live_bots[bot[c]] = c
          BY <1>1, <3>2, <5>1 DEF CellsAgree
        <5>3. bot[c] # it /\ bot[c] # other
          BY <1>3, <4>3, <5>2 DEF old
        <5> QED
          BY <1>1, <1>4, <1>9, <5>1, <5>2, <5>3 DEF TypeOK
      <4> QED
        BY <4>1, <4>2, <4>3
    <3> QED
      BY <2>1, <3>1, <3>2 DEF CellsAgree
  <2>4. PositionsInside' /\ PositionsAgree'
    <3>1. ASSUME NEW x \in Live PROVE current'[x] = live_bots'[x]
      <4>1. /\ x \in Botbots /\ DOMAIN current = Botbots
            /\ DOMAIN live_bots = Live /\ current[x] = live_bots[x]
        BY <1>1 DEF TypeOK, PositionsAgree
      <4>2. CASE x = it
        BY <1>4, <1>9, <4>1, <4>2
      <4>3. CASE x = other
        BY <1>3, <1>4, <1>9, <4>1, <4>3
      <4>4. CASE x \notin {it, other}
        BY <1>4, <1>9, <4>1, <4>4
      <4> QED
        BY <4>2, <4>3, <4>4
    <3>2. ASSUME NEW x \in Live PROVE live_bots'[x] \in Cells
      BY <2>1, <2>2, <3>2 DEF TypeOK
    <3> QED
      BY <2>1, <3>1, <3>2 DEF PositionsInside, PositionsAgree
  <2>5. IteratorValid'
    BY <1>2, <1>4, <1>5, <2>1, TurnFacts DEF IteratorValid, next
  <2>6. DeadAreSpent'
    BY <1>7, <1>9, <2>1 DEF IInv, DeadAreSpent, Dead
  <2> QED
    BY <2>2, <2>3, <2>4, <2>5, <2>6 DEF IInv
<1> QED
  BY <1>5, <1>8, <1>9 DEF Settle

LEMMA FightIInv ==
  ASSUME IInv, it # Nobody, NEW target, Fight(target) PROVE IInv'
<1>1. target \in Cells /\ bot[target] \notin {Nobody, it} /\ ~FishTank
  BY DEF Fight
<1>2. TypeOK /\ it \in Botbots
  BY TurnFacts DEF IInv
<1>3. PICK w, l \in Botbots : Outcome(w, l, target)
  BY <1>1, <1>2, BattleFacts
<1> QED
  BY <1>1, <1>3, OutcomeIInv

LEMMA NextIInv == IInv /\ [Next]_vars => IInv'
<1> SUFFICES ASSUME IInv, [Next]_vars PROVE IInv'
  OBVIOUS
<1>1. CASE FillCall
  BY <1>1, FillCallIInv
<1>2. CASE FillNext
  BY <1>2, FillNextIInv
<1>3. CASE FillReturn
  BY <1>3, FillReturnIInv
<1>4. CASE CycleBegin
  BY <1>4, CycleBeginIInv
<1>5. CASE CycleEnd
  BY <1>5, CycleEndIInv
<1>6. CASE MoveBot
  <2>1. it # Nobody
    BY <1>6 DEF MoveBot
  <2>2. PICK target \in Wishes(it) :
          MoveOut(target) \/ MoveFree(target) \/ MoveNot(target) \/ Fight(target)
    BY <1>6 DEF MoveBot
  <2> QED
    BY <2>1, <2>2, MoveOutIInv, MoveFreeIInv, MoveNotIInv, FightIInv
<1>7. CASE PrintEvents
  BY <1>7, PrintEventsIInv
<1>8. CASE Rest \/ UNCHANGED vars
  BY <1>8, StutterIInv DEF Rest
<1> QED
  BY <1>1, <1>2, <1>3, <1>4, <1>5, <1>6, <1>7, <1>8 DEF Next, Cycle

-----------------------------------------------------------------------------
(* The theorems.                                                           *)

\* The invariant holds in every reachable state, whatever the size of the grid,
\* the number of botbots and the size of their fortunes.
THEOREM Invariance == Spec => []IInv
<1>1. Init => IInv
  BY InitIInv
<1>2. IInv /\ [Next]_vars => IInv'
  BY NextIInv
<1> QED
  BY <1>1, <1>2, PTL DEF Spec

\* The type invariant: in particular no botbot ever has less than no nuts, or
\* bolts, in the ints of botbot.h, whatever its battles take from it.
THEOREM TypeCorrect == Spec => []TypeOK
<1>1. IInv => TypeOK
  BY DEF IInv
<1> QED
  BY <1>1, Invariance, PTL

\* The cells of vgrid and the map live_bots always agree on who stands where.
THEOREM Agreement == Spec => []CellsAgree
<1>1. IInv => CellsAgree
  BY DEF IInv
<1> QED
  BY <1>1, Invariance, PTL

\* move_bots never indexes vgrid outside of the grid, not even for a botbot of
\* a fish tank, whose own coordinates go astray.
THEOREM Inside == Spec => []PositionsInside
<1>1. IInv => PositionsInside
  BY DEF IInv
<1> QED
  BY <1>1, Invariance, PTL

\* Unless the grid is a fish tank, a botbot knows where it is.
THEOREM KnowsItsPlace ==
  ASSUME ~FishTank PROVE Spec => []PositionsAgree
<1>1. IInv => PositionsAgree
  BY DEF IInv
<1> QED
  BY <1>1, Invariance, PTL

\* Whatever move_bots erases from the map it iterates over, its iterator stays
\* at an entry or at the end.
THEOREM IteratorSafe == Spec => []IteratorValid
<1>1. IInv => IteratorValid
  BY DEF IInv
<1> QED
  BY <1>1, Invariance, PTL

\* No botbot dies twice, and the dead are not in the map and own nothing.
THEOREM DeathIsFinal == Spec => []DeadAreSpent
<1>1. IInv => DeadAreSpent
  BY DEF IInv
<1> QED
  BY <1>1, Invariance, PTL

-----------------------------------------------------------------------------
(* The Grid implements the Arena.                                          *)

LEMMA InitArena == Init => View!Init
<1> SUFFICES ASSUME Init PROVE View!Init
  OBVIOUS
<1>1. Dead = {}
  BY DEF Init, Dead
<1> QED
  BY <1>1 DEF Init, View!Init

\* The steps a spectator does not see.
LEMMA UnseenArena ==
  ASSUME UNCHANGED <<live_bots, dead_bots, nuts, bolts>>
  PROVE  UNCHANGED View!arenaVars
BY DEF View!arenaVars, Dead

\* An empty cell is one where nobody is.
LEMMA EmptyFacts ==
  ASSUME IInv, NEW c \in Cells, bot[c] = Nobody PROVE View!Empty(c)
BY Sizes DEF IInv, TypeOK, CellsAgree, View!Empty, View!Living, Live

LEMMA EnterArena == ASSUME IInv, FillNext PROVE View!Next
<1>1. PICK b \in Botbots \ (Live \cup Dead), cell \in EmptyCells,
           n \in 0 .. NutsLimit - 1, m \in 0 .. BoltsLimit - 1 :
         /\ nuts' = [nuts EXCEPT ![b] = n]
         /\ bolts' = [bolts EXCEPT ![b] = m]
         /\ bot' = [bot EXCEPT ![cell] = b]
         /\ current' = [current EXCEPT ![b] = cell]
         /\ live_bots' = [x \in Live \cup {b} |->
                            IF x = b THEN cell ELSE live_bots[x]]
  BY DEF FillNext
<1>2. cell \in Cells /\ View!Empty(cell)
  BY EmptyFacts DEF EmptyCells
<1>3. n \in Nat /\ m \in Nat
  BY BattleAssumption
<1>4. DOMAIN nuts = Botbots /\ DOMAIN bolts = Botbots
  BY DEF IInv, TypeOK
<1>5. nuts'[b] = n /\ bolts'[b] = m
  BY <1>1, <1>4
<1>6. UNCHANGED Dead
  BY DEF FillNext, Dead
<1>7. View!Enter(b, cell)
  BY <1>1, <1>2, <1>3, <1>5, <1>6 DEF View!Enter, View!Living, Live
<1> QED
  BY <1>2, <1>7 DEF View!Next

\* The neighbours of a cell are where decide_movement may send whoever is on it.
LEMMA WishFacts ==
  ASSUME IInv, ~FishTank, it # Nobody, NEW target \in Wishes(it)
  PROVE  /\ View!Adjacent(live_bots[it], target)
         /\ View!Adjacent(target, live_bots[it])
<1>1. current[it] = live_bots[it] /\ live_bots[it] \in Int \X Int
  BY TurnFacts, Sizes DEF IInv, PositionsAgree
<1>2. PICK i \in -1 .. 1, j \in -1 .. 1 :
        target = <<live_bots[it][1] + i, live_bots[it][2] + j>>
  BY <1>1 DEF Wishes
<1>3. /\ target[1] = live_bots[it][1] + i /\ target[2] = live_bots[it][2] + j
      /\ live_bots[it][1] \in Int /\ live_bots[it][2] \in Int
  BY <1>1, <1>2
<1> QED
  BY <1>3 DEF View!Adjacent

LEMMA WalkArena ==
  ASSUME IInv, ~FishTank, it # Nobody, NEW target \in Wishes(it),
         MoveFree(target)
  PROVE  View!Next
<1>1. target \in Cells /\ View!Empty(target)
  BY EmptyFacts DEF MoveFree
<1>2. UNCHANGED Dead
  BY DEF MoveFree, Dead
<1>3. View!Walk(it, target)
  BY <1>1, <1>2, WishFacts DEF MoveFree, View!Walk
<1> QED
  BY <1>1, <1>3, TurnFacts DEF View!Next, View!Living, Live

LEMMA FightArena ==
  ASSUME IInv, IInv', it # Nobody, NEW target \in Wishes(it), Fight(target)
  PROVE  View!Next
<1> DEFINE old == live_bots[it]
           other == bot[target]
<1>1. target \in Cells /\ other \notin {Nobody, it} /\ ~FishTank
  BY DEF Fight
<1>2. TypeOK /\ it \in Botbots /\ it \in Live
  BY TurnFacts DEF IInv
<1>3. PICK w, l \in Botbots : Outcome(w, l, target)
  BY <1>1, <1>2, BattleFacts
<1>4. other \in Live /\ live_bots[other] = target
  BY <1>1 DEF IInv, CellsAgree
<1>5. View!Adjacent(old, target) /\ View!Adjacent(target, old)
  BY <1>1, WishFacts
<1>6. /\ w \in {it, other} /\ l \in {it, other} /\ w # l
      /\ w \in Live /\ l \in Live
      /\ \E n \in 0 .. nuts[l] : nuts' = Pay(nuts, l, w, n)
      /\ \E m \in 0 .. bolts[l] : bolts' = Pay(bolts, l, w, m)
      /\ nuts'[l] \in Nat /\ bolts'[l] \in Nat
      /\ Settle(w, l, old, target)
  BY <1>2, <1>3, <1>4 DEF Outcome
<1> HIDE DEF old, other
<1>7. \/ live_bots[w] = target /\ live_bots[l] = old
      \/ live_bots[w] = old /\ live_bots[l] = target
  BY <1>4, <1>6 DEF old
<1>8. View!Adjacent(live_bots[w], live_bots[l])
  BY <1>5, <1>7
<1>9. target # old
  BY <1>1, TurnFacts DEF old, other
<1>10. \A n : Pay(nuts, l, w, n) = View!Pay(nuts, l, w, n)
  BY DEF Pay, View!Pay
<1>11. \A m : Pay(bolts, l, w, m) = View!Pay(bolts, l, w, m)
  BY DEF Pay, View!Pay
<1>12. /\ \E n \in 0 .. nuts[l] : nuts' = View!Pay(nuts, l, w, n)
       /\ \E m \in 0 .. bolts[l] : bolts' = View!Pay(bolts, l, w, m)
  BY <1>6, <1>10, <1>11
<1>13. /\ target \in {live_bots[w], live_bots[l]}
       /\ old = IF target = live_bots[l] THEN live_bots[w] ELSE live_bots[l]
  BY <1>7, <1>9
<1>14. \/ /\ nuts'[l] = 0 /\ bolts'[l] = 0
          /\ Dead' = Dead \cup {l}
          /\ live_bots' = [x \in Live \ {l} |->
                             IF x = w THEN target ELSE live_bots[x]]
       \/ /\ nuts'[l] > 0 \/ bolts'[l] > 0
          /\ live_bots' = [live_bots EXCEPT ![w] = target, ![l] = old]
          /\ UNCHANGED Dead
  <2>1. CASE /\ nuts'[l] = 0 /\ bolts'[l] = 0
             /\ live_bots' = [b \in Live \ {l} |->
                                IF b = w THEN target ELSE live_bots[b]]
             /\ dead_bots' = Append(dead_bots, [bot |-> l, cycle |-> cycles])
    <3>1. Live' = Live \ {l}
      BY <2>1 DEF Live
    <3>2. live_bots' \in [Live' -> Cells]
      BY DEF IInv, TypeOK
    <3>3. \A b \in Dead : nuts'[b] = 0 /\ nuts[b] = 0 /\ bolts'[b] = 0 /\ bolts[b] = 0
      <4>1. dead_bots \in Seq([bot : Botbots, cycle : 0 .. MaxCycles])
        BY <1>2 DEF TypeOK
      <4>2. Dead \subseteq Dead'
        BY <2>1, <4>1 DEF Dead
      <4> QED
        BY <4>2 DEF IInv, DeadAreSpent
    <3>4. Dead' = Dead \cup {l}
      BY <1>6, <2>1, <3>1, <3>2, <3>3, DeathFacts
    <3> QED
      BY <2>1, <3>4
  <2>2. CASE /\ nuts'[l] # 0 \/ bolts'[l] # 0
             /\ live_bots' = [live_bots EXCEPT ![w] = target, ![l] = old]
             /\ UNCHANGED dead_bots
    <3>1. nuts'[l] > 0 \/ bolts'[l] > 0
      BY <1>6, <2>2
    <3> QED
      BY <2>2, <3>1 DEF Dead
  <2> QED
    BY <1>6, <2>1, <2>2 DEF Settle
<1>15. View!Fight(w, l)
  BY <1>6, <1>8, <1>12, <1>13, <1>14 DEF View!Fight, View!Living, Live
<1> QED
  BY <1>6, <1>15 DEF View!Next, View!Living, Live

LEMMA NextArena ==
  ASSUME ~FishTank, IInv, IInv', [Next]_vars
  PROVE  [View!Next]_View!arenaVars
<1>1. CASE FillNext
  BY <1>1, EnterArena
<1>2. CASE MoveBot
  <2>1. it # Nobody
    BY <1>2 DEF MoveBot
  <2>2. PICK target \in Wishes(it) :
          MoveOut(target) \/ MoveFree(target) \/ MoveNot(target) \/ Fight(target)
    BY <1>2 DEF MoveBot
  <2>3. CASE MoveOut(target) \/ MoveNot(target)
    BY <2>3, UnseenArena DEF MoveOut, MoveNot
  <2>4. CASE MoveFree(target)
    BY <2>1, <2>4, WalkArena
  <2>5. CASE Fight(target)
    BY <2>1, <2>5, FightArena
  <2> QED
    BY <2>2, <2>3, <2>4, <2>5
<1>3. CASE FillCall \/ FillReturn \/ CycleBegin \/ CycleEnd \/ PrintEvents \/ Rest
             \/ UNCHANGED vars
  BY <1>3, UnseenArena
  DEF FillCall, FillReturn, CycleBegin, CycleEnd, PrintEvents, Rest, vars
<1> QED
  BY <1>1, <1>2, <1>3 DEF Next, Cycle

\* Unless it is a fish tank, the grid with its three records of every position,
\* its iterator and its events plays the game that Arena describes.
THEOREM Refinement == ASSUME ~FishTank PROVE Spec => ArenaSpec
<1>1. Init => View!Init
  BY InitArena
<1>2. IInv /\ IInv' /\ [Next]_vars => [View!Next]_View!arenaVars
  BY NextArena
<1> QED
  BY <1>1, <1>2, Invariance, PTL DEF Spec, ArenaSpec, View!Spec

-----------------------------------------------------------------------------
(* The events account for every change of fortune.                         *)

Share(b, winner, loser, amount) ==
  IF b = winner /\ b # loser THEN amount
  ELSE IF b = loser /\ b # winner THEN -amount ELSE 0

LEMMA ShareFacts ==
  ASSUME NEW purse \in [Botbots -> Nat], NEW loser \in Botbots,
         NEW winner \in Botbots, NEW amount \in 0 .. purse[loser],
         NEW b \in Botbots
  PROVE  Transfer(purse, loser, winner, amount)[b]
           = purse[b] + Share(b, winner, loser, amount)
<1>1. purse[b] \in Nat /\ amount \in Nat
  OBVIOUS
<1>2. CASE loser = winner
  BY <1>1, <1>2, TransferFacts DEF Share
<1>3. CASE loser # winner
  <2>1. Transfer(purse, loser, winner, amount) = Pay(purse, loser, winner, amount)
    BY <1>3, TransferFacts
  <2>2. Pay(purse, loser, winner, amount)[b]
          = purse[b] + Share(b, winner, loser, amount)
    <3>1. CASE b = winner
      BY <1>1, <1>3, <3>1 DEF Pay, Share
    <3>2. CASE b = loser
      BY <1>1, <1>3, <3>2 DEF Pay, Share
    <3>3. CASE b # winner /\ b # loser
      BY <1>1, <3>3 DEF Pay, Share
    <3> QED
      BY <3>1, <3>2, <3>3
  <2> QED
    BY <2>1, <2>2
<1> QED
  BY <1>2, <1>3

\* What e says is what happened.
Accounted(e) ==
  \A b \in Botbots : /\ nuts'[b] = nuts[b] + Share(b, e.winner, e.loser, e.nuts)
                     /\ bolts'[b] = bolts[b] + Share(b, e.winner, e.loser, e.bolts)

LEMMA FightBalance ==
  ASSUME IInv, it # Nobody, NEW target, Fight(target)
  PROVE  \/ UNCHANGED <<nuts, bolts, events>>
         \/ \E e \in Event : events' = Append(events, e) /\ Accounted(e)
<1> DEFINE other == bot[target]
<1>1. TypeOK /\ it \in Botbots /\ other \in Botbots
  BY TurnFacts DEF Fight, IInv, TypeOK
<1>2. PICK scoreA \in Scores(other), scoreB \in Scores(it),
           surrender \in 0 .. SURRENDER_MOD - 1 :
         BattleBots(other, it, scoreA, scoreB, surrender)
  BY DEF Fight, MoveBattle
<1> DEFINE w == Winner(other, it, scoreA, scoreB)
           l == Loser(other, it, scoreA, scoreB)
<1>3. w \in Botbots /\ l \in Botbots
  BY <1>1 DEF Winner, Loser
<1>4. CASE \E n \in Losses(nuts[l]), m \in Losses(bolts[l]) :
             /\ nuts' = Transfer(nuts, l, w, n)
             /\ bolts' = Transfer(bolts, l, w, m)
             /\ events' = Append(events, [nuts |-> n, bolts |-> m,
                                          winner |-> w, loser |-> l])
  <2> HIDE DEF w, l, other
  <2>1. PICK n \in Losses(nuts[l]), m \in Losses(bolts[l]) :
             /\ nuts' = Transfer(nuts, l, w, n)
             /\ bolts' = Transfer(bolts, l, w, m)
             /\ events' = Append(events, [nuts |-> n, bolts |-> m,
                                          winner |-> w, loser |-> l])
    BY <1>4
  <2> DEFINE e == [nuts |-> n, bolts |-> m, winner |-> w, loser |-> l]
  <2>2. /\ nuts \in [Botbots -> Nat] /\ bolts \in [Botbots -> Nat]
        /\ nuts[l] \in Nat /\ bolts[l] \in Nat
    BY <1>1, <1>3 DEF TypeOK
  <2>3. n \in 0 .. nuts[l] /\ m \in 0 .. bolts[l]
    BY <2>2, LossesFacts
  <2>4. e \in Event
    BY <1>3, <2>2, <2>3 DEF Event
  <2>5. ASSUME NEW b \in Botbots
        PROVE  /\ nuts'[b] = nuts[b] + Share(b, w, l, n)
               /\ bolts'[b] = bolts[b] + Share(b, w, l, m)
    <3>1. Transfer(nuts, l, w, n)[b] = nuts[b] + Share(b, w, l, n)
      BY <1>3, <2>2, <2>3, ShareFacts
    <3>2. Transfer(bolts, l, w, m)[b] = bolts[b] + Share(b, w, l, m)
      BY <1>3, <2>2, <2>3, ShareFacts
    <3> QED
      BY <2>1, <3>1, <3>2
  <2>6. Accounted(e)
    BY <2>5 DEF Accounted
  <2> QED
    BY <2>1, <2>4, <2>6
<1> QED
  BY <1>2, <1>4 DEF BattleBots

\* A turn of the loop of move_bots changes the purses by what the event says
\* that it appends to the vector, if it appends one, and else not at all.
THEOREM Balance == Spec => EventsBalance
<1> DEFINE Balanced ==
      state = "move" =>
        IF Len(events') > Len(events)
        THEN LET e == events'[Len(events')]
                 Part(b, amount) == IF b = e.winner /\ b # e.loser THEN amount
                                    ELSE IF b = e.loser /\ b # e.winner
                                         THEN -amount ELSE 0
             IN  \A b \in Botbots : /\ nuts'[b] = nuts[b] + Part(b, e.nuts)
                                    /\ bolts'[b] = bolts[b] + Part(b, e.bolts)
        ELSE UNCHANGED <<nuts, bolts>>
<1>1. ASSUME IInv, [Next]_vars PROVE Balanced
  <2>1. events \in Seq(Event)
    BY <1>1 DEF IInv, TypeOK, Event
  <2>2. ~(Len(events) > Len(events))
    BY <2>1
  <2>3. CASE UNCHANGED <<nuts, bolts, events>>
    BY <2>2, <2>3
  <2>4. CASE \E e \in Event : events' = Append(events, e) /\ Accounted(e)
    <3>1. PICK e \in Event : events' = Append(events, e) /\ Accounted(e)
      BY <2>4
    <3>2. Len(events') > Len(events) /\ events'[Len(events')] = e
      BY <2>1, <3>1
    <3> QED
      BY <3>1, <3>2 DEF Accounted, Share
  <2>5. CASE state # "move"
    BY <2>5
  <2>6. state = "move" => \/ UNCHANGED <<nuts, bolts, events>>
                          \/ \E target : it # Nobody /\ Fight(target)
    BY <1>1 DEF Next, vars, Cycle, FillCall, FillNext, FillReturn, CycleBegin,
                CycleEnd, PrintEvents, Rest, MoveBot, MoveOut, MoveFree, MoveNot
  <2> QED
    BY <1>1, <2>3, <2>4, <2>5, <2>6, FightBalance
<1>2. IInv /\ [Next]_vars => [Balanced]_vars
  BY <1>1
<1> QED
  BY <1>2, Invariance, PTL DEF Spec, EventsBalance

-----------------------------------------------------------------------------
(* The sum of the values of a function, which FoldFunction computes by a   *)
(* recursion over the subsets of its domain: it exists, and it does not    *)
(* depend on the order in which the recursion takes the elements.          *)

\* What FoldFunction takes out of a set first.
First(s) == CHOOSE x \in s : TRUE

\* The function that the recursion of FoldFunction is to define, in terms of
\* its own values g.
SumStep(f, S, g) ==
  [s \in S |-> IF s = {} THEN 0 ELSE f[First(s)] + g[s \ {First(s)}]]

\* The sums of a function over each set of S.
Sum(f, S) == CHOOSE g : g = SumStep(f, SUBSET S, g)

LEMMA TotalIsSum ==
  ASSUME NEW f PROVE Total(f) = Sum(f, DOMAIN f)[DOMAIN f]
BY DEF Total, FoldFunction, FoldFunctionOnSet, MapThenFoldSet, Sum, SumStep, First

\* A finite set has one element more than it has without one of them.
LEMMA Without ==
  ASSUME NEW S, IsFiniteSet(S), NEW s \in SUBSET S, NEW x \in s
  PROVE  /\ IsFiniteSet(s) /\ s \ {x} \in SUBSET S
         /\ Cardinality(s) \in Nat \ {0}
         /\ Cardinality(s \ {x}) = Cardinality(s) - 1
<1>1. IsFiniteSet(s)
  BY FS_Subset
<1>2. Cardinality(s) \in Nat /\ s # {}
  BY <1>1, FS_CardinalityType
<1>3. Cardinality(s) # 0
  BY <1>1, <1>2, FS_EmptySet
<1>4. Cardinality(s \ {x}) = Cardinality(s) - 1
  BY <1>1, FS_RemoveElement
<1> QED
  BY <1>1, <1>2, <1>3, <1>4

\* The recursion defines a function.  It does on the sets of at most n elements,
\* for each n: were n the least for which it does not, the function for n - 1
\* could be extended by one turn of the recursion.
LEMMA SumExists ==
  ASSUME NEW f, NEW S, IsFiniteSet(S)
  PROVE  \E g : g = SumStep(f, SUBSET S, g)
<1> DEFINE Small(n) == {s \in SUBSET S : Cardinality(s) <= n}
           Defined(n) == \E g : g = SumStep(f, Small(n), g)
           Bad == {n \in Nat : ~Defined(n)}
<1>1. Bad = {}
  <2> SUFFICES ASSUME Bad # {} PROVE FALSE
    OBVIOUS
  <2>1. PICK n \in Bad : \A m \in Bad : n <= m
    <3>1. Bad \subseteq Nat
      OBVIOUS
    <3> HIDE DEF Bad
    <3> QED
      BY <3>1, Least
  <2>2. \A s \in Small(n) : s # {} => /\ First(s) \in s /\ n # 0
                                      /\ s \ {First(s)} \in Small(n - 1)
    <3> SUFFICES ASSUME NEW s \in Small(n), s # {}
                 PROVE  First(s) \in s /\ n # 0 /\ s \ {First(s)} \in Small(n - 1)
      OBVIOUS
    <3>1. First(s) \in s
      BY DEF First
    <3> QED
      BY <3>1, Without
  <2>3. CASE n = 0
    <3> DEFINE g == [s \in Small(n) |-> 0]
    <3>1. g = SumStep(f, Small(n), g)
      BY <2>2, <2>3 DEF SumStep
    <3> QED
      BY <3>1
  <2>4. CASE n # 0
    <3>1. n - 1 \in Nat /\ ~(n <= n - 1)
      BY <2>4
    <3>2. PICK h : h = SumStep(f, Small(n - 1), h)
      BY <2>1, <3>1
    <3> DEFINE g == SumStep(f, Small(n), h)
    <3>3. \A s \in Small(n - 1) : s \in Small(n) /\ g[s] = h[s]
      <4> SUFFICES ASSUME NEW s \in Small(n - 1) PROVE s \in Small(n) /\ g[s] = h[s]
        OBVIOUS
      <4>1. s \in Small(n)
        BY FS_Subset, FS_CardinalityType
      <4>2. h[s] = SumStep(f, Small(n - 1), h)[s]
        BY <3>2
      <4> QED
        BY <4>1, <4>2 DEF SumStep
    <3>4. g = SumStep(f, Small(n), g)
      BY <2>2, <3>3 DEF SumStep
    <3> HIDE DEF g
    <3> QED
      BY <3>4
  <2> QED
    BY <2>3, <2>4
<1>2. Cardinality(S) \in Nat
  BY FS_CardinalityType
<1>3. Small(Cardinality(S)) = SUBSET S
  BY FS_Subset
<1> QED
  BY <1>1, <1>2, <1>3

\* What the recursion says of the sums.
LEMMA SumOfNone ==
  ASSUME NEW S, IsFiniteSet(S), NEW f \in [S -> Int], NEW g, g = Sum(f, S)
  PROVE  g[{}] = 0
<1>1. g = SumStep(f, SUBSET S, g)
  BY SumExists DEF Sum
<1>2. g[{}] = SumStep(f, SUBSET S, g)[{}] /\ {} \in SUBSET S
  BY <1>1
<1> QED
  BY <1>2 DEF SumStep

LEMMA SumOfSome ==
  ASSUME NEW S, IsFiniteSet(S), NEW f \in [S -> Int], NEW g, g = Sum(f, S),
         NEW s \in SUBSET S, s # {}
  PROVE  \E x \in s : x = First(s) /\ g[s] = f[x] + g[s \ {x}]
<1>1. g = SumStep(f, SUBSET S, g)
  BY SumExists DEF Sum
<1>2. g[s] = SumStep(f, SUBSET S, g)[s]
  BY <1>1
<1>3. g[s] = f[First(s)] + g[s \ {First(s)}]
  BY <1>2 DEF SumStep
<1>4. First(s) \in s
  BY DEF First
<1> QED
  BY <1>3, <1>4

\* Of the subsets of a finite set that have a property, one is such that no
\* smaller one has it.
LEMMA LeastSet ==
  ASSUME NEW S, IsFiniteSet(S), NEW T, T \subseteq SUBSET S, T # {}
  PROVE  \E s \in T : \A t \in T : Cardinality(s) <= Cardinality(t)
<1> DEFINE Numbers == {Cardinality(s) : s \in T}
<1>1. Numbers \subseteq Nat /\ Numbers # {}
  BY FS_Subset, FS_CardinalityType
<1>2. \E x \in Numbers : \A y \in Numbers : x <= y
  <2> HIDE DEF Numbers
  <2> QED
    BY <1>1, Least
<1> QED
  BY <1>2

LEMMA SumType ==
  ASSUME NEW S, IsFiniteSet(S), NEW f \in [S -> Int]
  PROVE  \A s \in SUBSET S : Sum(f, S)[s] \in Int
<1> SUFFICES ASSUME NEW g, g = Sum(f, S) PROVE \A s \in SUBSET S : g[s] \in Int
  OBVIOUS
<1> DEFINE Bad == {s \in SUBSET S : g[s] \notin Int}
<1> SUFFICES ASSUME Bad # {} PROVE FALSE
  OBVIOUS
<1>1. PICK s \in Bad : \A t \in Bad : Cardinality(s) <= Cardinality(t)
  <2>1. Bad \subseteq SUBSET S
    OBVIOUS
  <2> HIDE DEF Bad
  <2> QED
    BY <2>1, LeastSet
<1>2. s \in SUBSET S /\ g[s] \notin Int
  OBVIOUS
<1>3. s # {}
  BY <1>2, SumOfNone
<1>4. PICK x \in s : g[s] = f[x] + g[s \ {x}]
  BY <1>2, <1>3, SumOfSome
<1>6. s \ {x} \in SUBSET S /\ s \ {x} \notin Bad
  <2>1. /\ s \ {x} \in SUBSET S
        /\ Cardinality(s) \in Nat
        /\ Cardinality(s \ {x}) = Cardinality(s) - 1
    BY <1>2, <1>4, Without
  <2> HIDE DEF Bad
  <2> QED
    BY <1>1, <2>1
<1>7. g[s \ {x}] \in Int /\ f[x] \in Int
  BY <1>2, <1>4, <1>6
<1> QED
  BY <1>2, <1>4, <1>7

\* It does not matter which element is taken out first.
LEMMA SumWithout ==
  ASSUME NEW S, IsFiniteSet(S), NEW f \in [S -> Int]
  PROVE  \A s \in SUBSET S : \A y \in s :
           Sum(f, S)[s] = f[y] + Sum(f, S)[s \ {y}]
<1> SUFFICES ASSUME NEW g, g = Sum(f, S)
             PROVE  \A s \in SUBSET S : \A y \in s : g[s] = f[y] + g[s \ {y}]
  OBVIOUS
<1> DEFINE Bad == {s \in SUBSET S : \E y \in s : g[s] # f[y] + g[s \ {y}]}
<1> SUFFICES ASSUME Bad # {} PROVE FALSE
  OBVIOUS
<1>1. PICK s \in Bad : \A t \in Bad : Cardinality(s) <= Cardinality(t)
  <2>1. Bad \subseteq SUBSET S
    OBVIOUS
  <2> HIDE DEF Bad
  <2> QED
    BY <2>1, LeastSet
<1>2. s \in SUBSET S
  OBVIOUS
<1>3. PICK y \in s : g[s] # f[y] + g[s \ {y}]
  OBVIOUS
<1>4. \A t \in SUBSET S : g[t] \in Int
  BY SumType
<1>5. PICK x \in s : g[s] = f[x] + g[s \ {x}]
  BY <1>2, <1>3, SumOfSome
<1>6. \A z \in s : s \ {z} \in SUBSET S /\ s \ {z} \notin Bad
  <2> SUFFICES ASSUME NEW z \in s
               PROVE  s \ {z} \in SUBSET S /\ s \ {z} \notin Bad
    OBVIOUS
  <2>1. /\ s \ {z} \in SUBSET S /\ Cardinality(s) \in Nat
        /\ Cardinality(s \ {z}) = Cardinality(s) - 1
    BY <1>2, Without
  <2> HIDE DEF Bad
  <2> QED
    BY <1>1, <2>1
<1>7. \A z \in s : \A v \in s \ {z} : g[s \ {z}] = f[v] + g[(s \ {z}) \ {v}]
  BY <1>6
<1>8. x # y
  BY <1>3, <1>5
<1> DEFINE r == (s \ {x}) \ {y}
<1>9. g[s \ {x}] = f[y] + g[r] /\ g[s \ {y}] = f[x] + g[r]
  <2>1. (s \ {y}) \ {x} = r
    OBVIOUS
  <2> QED
    BY <1>7, <1>8, <2>1
<1>10. g[r] \in Int /\ f[x] \in Int /\ f[y] \in Int
  BY <1>2, <1>4
<1> HIDE DEF r
<1> HIDE DEF Bad
<1> QED
  BY <1>3, <1>5, <1>9, <1>10

\* Functions that agree on a set have the same sum over it.
LEMMA SumSame ==
  ASSUME NEW S, IsFiniteSet(S), NEW f \in [S -> Int], NEW h \in [S -> Int],
         NEW s \in SUBSET S, \A x \in s : f[x] = h[x]
  PROVE  Sum(f, S)[s] = Sum(h, S)[s]
<1> SUFFICES ASSUME NEW g, g = Sum(f, S), NEW k, k = Sum(h, S)
             PROVE  g[s] = k[s]
  OBVIOUS
<1> DEFINE Bad == {t \in SUBSET s : g[t] # k[t]}
<1> SUFFICES ASSUME Bad # {} PROVE FALSE
  OBVIOUS
<1>1. PICK t \in Bad : \A u \in Bad : Cardinality(t) <= Cardinality(u)
  <2>1. Bad \subseteq SUBSET S
    OBVIOUS
  <2> HIDE DEF Bad
  <2> QED
    BY <2>1, LeastSet
<1>2. t \in SUBSET S /\ t \in SUBSET s /\ g[t] # k[t]
  OBVIOUS
<1>3. t # {}
  BY <1>2, SumOfNone
<1>4. PICK x \in t : x = First(t) /\ g[t] = f[x] + g[t \ {x}]
  BY <1>2, <1>3, SumOfSome
<1>5. \E y \in t : y = First(t) /\ k[t] = h[y] + k[t \ {y}]
  BY <1>2, <1>3, SumOfSome
<1>6. k[t] = h[x] + k[t \ {x}]
  BY <1>4, <1>5
<1>7. t \ {x} \in SUBSET s /\ t \ {x} \notin Bad
  <2>1. /\ t \ {x} \in SUBSET S
        /\ Cardinality(t) \in Nat
        /\ Cardinality(t \ {x}) = Cardinality(t) - 1
    BY <1>2, <1>4, Without
  <2>2. t \ {x} \in SUBSET s
    BY <1>2
  <2> HIDE DEF Bad
  <2> QED
    BY <1>1, <2>1, <2>2
<1>8. g[t \ {x}] = k[t \ {x}] /\ f[x] = h[x]
  BY <1>2, <1>4, <1>7
<1> QED
  BY <1>2, <1>4, <1>6, <1>8

\* Whatever is transferred from one botbot to another, the total is the same.
LEMMA TransferKeepsTotal ==
  ASSUME NEW S, IsFiniteSet(S), NEW f \in [S -> Int],
         NEW l \in S, NEW w \in S, NEW a \in Int
  PROVE  Total(Transfer(f, l, w, a)) = Total(f)
<1> DEFINE h == Transfer(f, l, w, a)
           rest == (S \ {l}) \ {w}
<1>1. h \in [S -> Int]
  BY DEF Transfer
<1>2. DOMAIN h = S /\ DOMAIN f = S
  BY <1>1
<1>3. CASE l = w
  <2>1. \A x \in S : f[x] = h[x]
    BY <1>3 DEF Transfer
  <2>2. Sum(f, S)[S] = Sum(h, S)[S]
    BY <1>1, <2>1, SumSame
  <2> HIDE DEF h
  <2>3. Total(h) = Total(f)
    BY <1>2, <2>2, TotalIsSum
  <2> QED
    BY <2>3 DEF h
<1>4. CASE l # w
  <2>1. /\ h[l] = f[l] - a /\ h[w] = f[w] + a
        /\ \A x \in rest : f[x] = h[x]
    BY <1>4 DEF Transfer
  <2>2. rest \in SUBSET S /\ S \ {l} \in SUBSET S /\ S \in SUBSET S
    OBVIOUS
  <2>3. w \in S \ {l}
    BY <1>4
  <2> HIDE DEF h, rest
  <2>4. \A k \in {f, h} : /\ Sum(k, S)[S] = k[l] + Sum(k, S)[S \ {l}]
                          /\ Sum(k, S)[S \ {l}] = k[w] + Sum(k, S)[rest]
    <3> SUFFICES ASSUME NEW k \in [S -> Int]
                 PROVE  /\ Sum(k, S)[S] = k[l] + Sum(k, S)[S \ {l}]
                        /\ Sum(k, S)[S \ {l}] = k[w] + Sum(k, S)[rest]
      BY <1>1
    <3>1. \A s \in SUBSET S : \A y \in s :
            Sum(k, S)[s] = k[y] + Sum(k, S)[s \ {y}]
      BY SumWithout
    <3>2. Sum(k, S)[S \ {l}] = k[w] + Sum(k, S)[(S \ {l}) \ {w}]
      BY <2>2, <2>3, <3>1
    <3>3. Sum(k, S)[S] = k[l] + Sum(k, S)[S \ {l}]
      BY <2>2, <3>1
    <3> QED
      BY <3>2, <3>3 DEF rest
  <2>6. Sum(f, S)[rest] = Sum(h, S)[rest]
    BY <1>1, <2>1, <2>2, SumSame
  <2>7. Sum(f, S)[rest] \in Int /\ f[l] \in Int /\ f[w] \in Int
    BY <2>2, SumType
  <2>8. Sum(f, S)[S] = Sum(h, S)[S]
    BY <2>1, <2>4, <2>6, <2>7
  <2>9. Total(h) = Total(f)
    BY <1>2, <2>8, TotalIsSum
  <2> QED
    BY <2>9 DEF h
<1> QED
  BY <1>3, <1>4

\* A battle transfers nuts and bolts from its loser to its winner.
LEMMA FightTransfers ==
  ASSUME IInv, it # Nobody, NEW target, Fight(target)
  PROVE  \/ UNCHANGED <<nuts, bolts>>
         \/ \E l, w \in Botbots, n, m \in Nat : /\ nuts' = Transfer(nuts, l, w, n)
                                                /\ bolts' = Transfer(bolts, l, w, m)
<1> DEFINE other == bot[target]
<1>1. TypeOK /\ it \in Botbots /\ other \in Botbots
  BY TurnFacts DEF Fight, IInv, TypeOK
<1>2. PICK scoreA \in Scores(other), scoreB \in Scores(it),
           surrender \in 0 .. SURRENDER_MOD - 1 :
         BattleBots(other, it, scoreA, scoreB, surrender)
  BY DEF Fight, MoveBattle
<1> DEFINE w == Winner(other, it, scoreA, scoreB)
           l == Loser(other, it, scoreA, scoreB)
<1>3. w \in Botbots /\ l \in Botbots
  BY <1>1 DEF Winner, Loser
<1>4. nuts[l] \in Nat /\ bolts[l] \in Nat
  BY <1>1, <1>3 DEF TypeOK
<1>5. Losses(nuts[l]) \subseteq Nat /\ Losses(bolts[l]) \subseteq Nat
  BY <1>4, LossesFacts
<1>6. \/ UNCHANGED <<nuts, bolts>>
      \/ \E n \in Losses(nuts[l]), m \in Losses(bolts[l]) :
           nuts' = Transfer(nuts, l, w, n) /\ bolts' = Transfer(bolts, l, w, m)
  BY <1>2 DEF BattleBots
<1> HIDE DEF w, l
<1> QED
  BY <1>3, <1>5, <1>6

\* Outside of fill_to_capacity the botbots hold the same number of nuts and of
\* bolts after every step, however many botbots there are.
THEOREM Conservation == Spec => WealthConserved
<1> DEFINE Conserved == state # "fill" => /\ Total(nuts') = Total(nuts)
                                          /\ Total(bolts') = Total(bolts)
<1>1. ASSUME IInv, [Next]_vars PROVE Conserved
  <2>1. /\ nuts \in [Botbots -> Int] /\ bolts \in [Botbots -> Int]
        /\ IsFiniteSet(Botbots)
    BY <1>1, BotbotsAssumption DEF IInv, TypeOK
  <2>2. CASE UNCHANGED <<nuts, bolts>>
    BY <2>2
  <2>3. CASE \E l, w \in Botbots, n, m \in Nat :
               nuts' = Transfer(nuts, l, w, n) /\ bolts' = Transfer(bolts, l, w, m)
    <3>1. PICK l \in Botbots, w \in Botbots, n \in Nat, m \in Nat :
            nuts' = Transfer(nuts, l, w, n) /\ bolts' = Transfer(bolts, l, w, m)
      BY <2>3
    <3>2. /\ Total(Transfer(nuts, l, w, n)) = Total(nuts)
          /\ Total(Transfer(bolts, l, w, m)) = Total(bolts)
      BY <2>1, TransferKeepsTotal
    <3> QED
      BY <3>1, <3>2
  <2>4. CASE state = "fill"
    BY <2>4
  <2>5. state # "fill" => \/ UNCHANGED <<nuts, bolts>>
                          \/ \E target : it # Nobody /\ Fight(target)
    BY <1>1 DEF Next, vars, Cycle, FillCall, FillNext, FillReturn, CycleBegin,
                CycleEnd, PrintEvents, Rest, MoveBot, MoveOut, MoveFree, MoveNot
  <2> QED
    BY <1>1, <2>2, <2>3, <2>4, <2>5, FightTransfers
<1>2. IInv /\ [Next]_vars => [Conserved]_vars
  BY <1>1
<1> QED
  BY <1>2, Invariance, PTL DEF Spec, WealthConserved
=============================================================================
