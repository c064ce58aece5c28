-------------------------- MODULE TournamentProofs --------------------------
(***************************************************************************)
(* Proofs that BracketState, and the bracket script with its kills and     *)
(* resumed runs, hold single eliminations.                                 *)
(***************************************************************************)
EXTENDS Tournament, FiniteSetTheorems, TLAPS

-----------------------------------------------------------------------------
(* The grid of the series of a bracket *)

Rounds == CASE Size = 8 -> 3 [] Size = 4 -> 2 [] Size = 2 -> 1 [] Size = 0 -> 0

Grid ==
  CASE Size = 8 -> {<<0, 0>>, <<0, 1>>, <<0, 2>>, <<0, 3>>, <<1, 0>>, <<1, 1>>, <<2, 0>>}
    [] Size = 4 -> {<<0, 0>>, <<0, 1>>, <<1, 0>>}
    [] Size = 2 -> {<<0, 0>>}
    [] Size = 0 -> {}

Final == <<Rounds - 1, 0>>
Slots == {"high", "low"}

\* Where the winner of a series goes on.
Up(s)   == <<s[1] + 1, s[2] \div 2>>
Side(s) == IF s[2] % 2 = 0 THEN "high" ELSE "low"
Rank(slot) == IF slot = "high" THEN 0 ELSE 1

SizeOK == Size \in {0, 2, 4, 8}

LEMMA GridPairs ==
  ASSUME SizeOK, NEW s \in Grid
  PROVE  /\ s = <<s[1], s[2]>> /\ s[1] \in 0..2 /\ s[2] \in 0..3 /\ s[1] < Rounds
         /\ Rounds \in 1..3 /\ Final \in Grid
  BY DEF SizeOK, Grid, Rounds, Final

LEMMA GridUp ==
  ASSUME SizeOK, NEW s \in Grid, s # Final
  PROVE  /\ Up(s) \in Grid /\ Up(s)[1] = s[1] + 1 /\ Up(s)[1] > 0
         /\ Parent(Up(s), Side(s)) = s /\ Side(s) \in Slots
  BY DEF SizeOK, Grid, Rounds, Final, Up, Side, Parent, Slots

LEMMA GridDown ==
  ASSUME SizeOK, NEW s \in Grid, s[1] > 0, NEW slot \in Slots
  PROVE  /\ Parent(s, slot) \in Grid /\ Parent(s, slot) # Final
         /\ Parent(s, slot)[1] = s[1] - 1
         /\ Up(Parent(s, slot)) = s /\ Side(Parent(s, slot)) = slot
  BY DEF SizeOK, Grid, Rounds, Final, Up, Side, Parent, Slots

-----------------------------------------------------------------------------
(* A bracket of either kind, as the grid shows it *)

Slot(s, slot) ==
  IF entry = "script" THEN file.rounds[s][slot] ELSE bracket.rounds[s[1]][s[2]][slot]

Done == IF entry = "script" THEN {s \in Series : file.rounds[s].done} ELSE Completed(bracket)

Champ == IF entry = "script" THEN file.champion
         ELSE IF bracket = NoBracket THEN None ELSE Champion(bracket)

GridTypes ==
  /\ SizeOK
  /\ \A s \in Grid, slot \in Slots : Slot(s, slot) \in 0..Size
  /\ Done \subseteq Grid /\ Champ \in 0..Size
  /\ Wins \in [1..Size -> Nat] /\ Beaten \subseteq 1..Size

\* A slot is filled by the series that feeds it, and only filled ones are played.
Fed ==
  /\ \A s \in Grid, slot \in Slots :
       Slot(s, slot) # None <=> s[1] = 0 \/ Parent(s, slot) \in Done
  /\ \A s \in Done, slot \in Slots : Slot(s, slot) # None
  /\ Champ # None <=> Final \in Done

\* Who comes to a slot comes from the block of places that it is over.
Placed ==
  \A s \in Grid, slot \in Slots :
    Slot(s, slot) # None => Place[Slot(s, slot)] \div 2^s[1] = 2 * s[2] + Rank(slot)

\* Who is to play has won a series in each round before, lost none, and is to
\* play there alone.
Standing ==
  \A s \in Grid \ Done, slot \in Slots :
    Slot(s, slot) # None =>
      /\ Wins[Slot(s, slot)] = s[1] /\ Slot(s, slot) \notin Beaten
      /\ \A t \in Grid \ Done, other \in Slots :
           Slot(t, other) = Slot(s, slot) => t = s /\ other = slot

\* Whoever has lost none is to play, or is the champion.
Accounted ==
  \A e \in 1..Size \ Beaten :
    e = Champ \/ \E s \in Grid \ Done, slot \in Slots : Slot(s, slot) = e

GridOK == GridTypes /\ Fed /\ Placed /\ Standing /\ Accounted

\* The series s is recorded, won from that slot.
Recorded(s, slot, other) ==
  /\ s \in Grid \ Done /\ slot \in Slots /\ other \in Slots /\ slot # other
  /\ Slot(s, slot) # None /\ Slot(s, other) # None
  /\ Size' = Size /\ Place' = Place
  /\ Done' = Done \cup {s}
  /\ \A t \in Grid, x \in Slots :
       Slot(t, x)' = IF s # Final /\ t = Up(s) /\ x = Side(s) THEN Slot(s, slot)
                     ELSE Slot(t, x)
  /\ Wins' = [Wins EXCEPT ![Slot(s, slot)] = @ + 1]
  /\ Beaten' = Beaten \cup {Slot(s, other)}
  /\ Champ' = IF s = Final THEN Slot(s, slot) ELSE Champ

\* Nobody stands where another stands.
LEMMA PlacesDiffer ==
  ASSUME SizeOK
  PROVE  /\ Place \in [1..Size -> 0..Size - 1]
         /\ \A e, f \in 1..Size : Place[e] = Place[f] => e = f
<1>1. CASE entry = "script"
  <2>1. Size = 8 /\ Place = <<0, 2, 4, 6, 7, 5, 3, 1>>  BY <1>1 DEF Size, Place
  <2> QED  BY <2>1
<1>2. CASE entry # "script" /\ Size = 8
  <2>1. Place = <<0, 6, 4, 2, 3, 5, 7, 1>>  BY <1>2 DEF Place
  <2> QED  BY <2>1, <1>2
<1>3. CASE entry # "script" /\ Size = 4
  <2>1. Place = <<0, 2, 3, 1>>  BY <1>3 DEF Place
  <2> QED  BY <2>1, <1>3
<1>4. CASE entry # "script" /\ Size = 2
  <2>1. Place = <<0, 1>>  BY <1>4 DEF Place
  <2> QED  BY <2>1, <1>4
<1>5. CASE entry # "script" /\ Size = 0
  <2>1. Place = <<>>  BY <1>5 DEF Place
  <2>2. 1..Size = {} /\ DOMAIN <<>> = {}  BY <1>5
  <2> QED  BY <2>1, <2>2
<1> QED  BY <1>1, <1>2, <1>3, <1>4, <1>5 DEF SizeOK

LEMMA PlaceNat ==
  ASSUME SizeOK
  PROVE  \A e \in 1..Size : Place[e] \in 0..7 /\ Place[e] \in 0..(Size - 1)
<1>1. Size \in {0, 2, 4, 8}  BY DEF SizeOK
<1>2. Place \in [1..Size -> 0..Size - 1]  BY PlacesDiffer
<1>3. ASSUME NEW e \in 1..Size
      PROVE  Place[e] \in 0..7 /\ Place[e] \in 0..(Size - 1)
  <2>1. Place[e] \in 0..(Size - 1)  BY <1>2
  <2> QED  BY <2>1, <1>1
<1> QED  BY <1>3

\* Blocks of places halve as the rounds go.
LEMMA Halves ==
  ASSUME NEW n \in 0..7, NEW k \in 0..2, NEW p \in 0..3, NEW b \in 0..1,
         n \div 2^k = 2 * p + b
  PROVE  n \div 2^(k + 1) = p
<1>1. CASE k = 0
  <2>1. 2^k = 1 /\ 2^(k + 1) = 2  BY <1>1
  <2> QED  BY <2>1
<1>2. CASE k = 1
  <2>1. 2^k = 2 /\ 2^(k + 1) = 4  BY <1>2
  <2> QED  BY <2>1
<1>3. CASE k = 2
  <2>1. 2^k = 4 /\ 2^(k + 1) = 8  BY <1>3
  <2> QED  BY <2>1
<1> QED  BY <1>1, <1>2, <1>3

\* Two that meet are the last of their block.
LEMMA SameBlock ==
  ASSUME GridTypes, Placed, NEW s \in Grid, NEW slot \in Slots, Slot(s, slot) # None
  PROVE  Place[Slot(s, slot)] \div 2^(s[1] + 1) = s[2]
<1>1. Slot(s, slot) \in 1..Size  BY DEF GridTypes, None, SizeOK
<1>2. Place[Slot(s, slot)] \in 0..7  BY <1>1, PlaceNat DEF GridTypes
<1>3. s[1] \in 0..2 /\ s[2] \in 0..3  BY GridPairs DEF GridTypes
<1>4. Rank(slot) \in 0..1  BY DEF Rank
<1>5. Place[Slot(s, slot)] \div 2^s[1] = 2 * s[2] + Rank(slot)  BY DEF Placed
<1> QED  BY <1>2, <1>3, <1>4, <1>5, Halves

LEMMA SlotsDiffer ==
  ASSUME GridTypes, Placed, NEW s \in Grid, Slot(s, "high") # None
  PROVE  Slot(s, "high") # Slot(s, "low")
<1>1. s[2] \in 0..3  BY GridPairs DEF GridTypes
<1> SUFFICES ASSUME Slot(s, "high") = Slot(s, "low") PROVE FALSE
  OBVIOUS
<1>2. /\ Place[Slot(s, "high")] \div 2^s[1] = 2 * s[2] + Rank("high")
      /\ Place[Slot(s, "low")] \div 2^s[1] = 2 * s[2] + Rank("low")
  BY DEF Placed, Slots
<1>3. 2 * s[2] + Rank("high") = 2 * s[2] + Rank("low")  BY <1>2
<1> QED  BY <1>1, <1>3 DEF Rank

-----------------------------------------------------------------------------
(* What is open in a bracket *)

\* A series is played after those that feed it.
LEMMA BelowDone ==
  ASSUME GridTypes, Fed, NEW s \in Grid, s # Final, Up(s) \in Done
  PROVE  s \in Done
  BY GridUp DEF GridTypes, Fed

\* The final is the last.
LEMMA FinalIsLast ==
  ASSUME GridTypes, Fed, NEW s \in Grid,
         \A slot \in Slots : Slot(Final, slot) # None
  PROVE  s = Final \/ s \in Done
<1> SUFFICES ASSUME s # Final PROVE s \in Done
  OBVIOUS
<1>1. \A t \in Grid : t # Final /\ Up(t) = Final => t \in Done
  BY GridUp, GridPairs DEF GridTypes, Fed
<1>2. \/ Up(s) = Final
      \/ Up(s) # Final /\ Up(Up(s)) = Final
  BY DEF GridTypes, SizeOK, Grid, Final, Rounds, Up
<1>3. Up(s) \in Grid  BY GridUp DEF GridTypes
<1> QED  BY <1>1, <1>2, <1>3, BelowDone

\* Below a series that is open there is someone to play.
LEMMA SomeoneWaits ==
  ASSUME GridTypes, Fed, NEW s \in Grid \ Done
  PROVE  \E t \in Grid \ Done, slot \in Slots :
           Slot(t, slot) # None /\ (t = s \/ t[1] < s[1])
<1> DEFINE Waits(u) == \E t \in Grid \ Done, slot \in Slots :
                         Slot(t, slot) # None /\ (t = u \/ t[1] < u[1])
<1>0. "high" \in Slots  BY DEF Slots
<1>1. \A u \in Grid \ Done : u[1] = 0 => Waits(u)
  BY <1>0 DEF Fed
<1>2. \A u \in Grid \ Done : u[1] > 0 =>
        Waits(u) \/ /\ Parent(u, "high") \in Grid \ Done
                    /\ Parent(u, "high")[1] = u[1] - 1
  BY <1>0, GridDown DEF Fed, GridTypes
<1>3. \A u, v \in Grid \ Done : u[1] < v[1] /\ Waits(u) => Waits(v)
  BY GridPairs DEF GridTypes
<1>4. \A u \in Grid : u[1] \in 0..2  BY GridPairs DEF GridTypes
<1> HIDE DEF Waits
<1>5. \A u \in Grid \ Done : u[1] = 1 => Waits(u)
  BY <1>1, <1>2, <1>3, <1>4
<1>6. \A u \in Grid \ Done : u[1] = 2 => Waits(u)
  BY <1>5, <1>2, <1>3, <1>4
<1>7. Waits(s)  BY <1>1, <1>4, <1>5, <1>6
<1> QED  BY <1>7 DEF Waits

-----------------------------------------------------------------------------
(* A recorded series is a step of the elimination *)

\* The bracket stays a bracket, and the step is one that Elimination allows.
LEMMA RecordedIsPlay ==
  ASSUME GridOK, NEW s, NEW slot, NEW other, Recorded(s, slot, other)
  PROVE  /\ GridOK'
         /\ {Slot(s, slot), Slot(s, other)} \subseteq 1..Size
         /\ Slot(s, slot) # Slot(s, other)
         /\ {Slot(s, slot), Slot(s, other)} \cap Beaten = {}
         /\ Wins[Slot(s, slot)] = Wins[Slot(s, other)]
         /\ Place[Slot(s, slot)] \div 2^(Wins[Slot(s, slot)] + 1)
              = Place[Slot(s, other)] \div 2^(Wins[Slot(s, other)] + 1)
         /\ Champ' = IF (1..Size) \ Beaten' = {Slot(s, slot)} THEN Slot(s, slot) ELSE None
<1> DEFINE w == Slot(s, slot)
           l == Slot(s, other)
           New(t, x) == s # Final /\ t = Up(s) /\ x = Side(s)
<1>1. /\ s \in Grid /\ s \notin Done /\ slot \in Slots /\ other \in Slots /\ slot # other
      /\ w # None /\ l # None
  BY DEF Recorded
<1>2. /\ Size' = Size /\ Place' = Place /\ Done' = Done \cup {s}
      /\ \A t \in Grid, x \in Slots : Slot(t, x)' = IF New(t, x) THEN w ELSE Slot(t, x)
      /\ Wins' = [Wins EXCEPT ![w] = @ + 1]
      /\ Beaten' = Beaten \cup {l}
      /\ Champ' = IF s = Final THEN w ELSE Champ
  BY DEF Recorded
<1>3. Grid' = Grid /\ Final' = Final /\ SizeOK' /\ SizeOK
  BY <1>2 DEF Grid, Final, Rounds, SizeOK, GridOK, GridTypes
<1>4. GridTypes /\ Fed /\ Placed /\ Standing /\ Accounted
  BY DEF GridOK
<1>5. w \in 1..Size /\ l \in 1..Size
  BY <1>1, <1>4 DEF GridTypes, None, SizeOK
<1>6. w # l
  <2>1. Slot(s, "high") # None /\ Slot(s, "low") # None
    BY <1>1 DEF Slots
  <2>2. Slot(s, "high") # Slot(s, "low")
    BY <2>1, <1>1, <1>4, SlotsDiffer
  <2> QED  BY <2>2, <1>1 DEF Slots
<1>7. /\ Wins[w] = s[1] /\ w \notin Beaten /\ Wins[l] = s[1] /\ l \notin Beaten
      /\ \A t \in Grid \ Done, x \in Slots :
           /\ Slot(t, x) = w => t = s /\ x = slot
           /\ Slot(t, x) = l => t = s /\ x = other
  BY <1>1, <1>4 DEF Standing
<1>8. Place[w] \div 2^(s[1] + 1) = s[2] /\ Place[l] \div 2^(s[1] + 1) = s[2]
  BY <1>1, <1>4, SameBlock
<1>9. /\ s[1] \in 0..2 /\ s[2] \in 0..3
      /\ s # Final => /\ Up(s) \in Grid /\ Up(s)[1] = s[1] + 1 /\ Up(s)[1] > 0
                      /\ Parent(Up(s), Side(s)) = s /\ Side(s) \in Slots
                      /\ Up(s)[2] = s[2] \div 2
  BY <1>1, <1>3, GridPairs, GridUp DEF Up
<1>10. s # Final => /\ Up(s) \notin Done /\ Up(s) # s
                    /\ Slot(Up(s), Side(s)) = None
  BY <1>9, <1>1, <1>4, GridPairs DEF Fed
<1> DEFINE AllBelow == \A t \in Grid : t = Final \/ t \in Done
<1>11. s = Final => AllBelow
  <2>1. s = Final => \A x \in Slots : Slot(Final, x) # None
    BY <1>1 DEF Slots
  <2> QED  BY <2>1, <1>4, FinalIsLast
<1>12. Champ = None /\ Final \notin Done
  <2>1. Final \notin Done
    <3> SUFFICES ASSUME Final \in Done PROVE FALSE
      OBVIOUS
    <3>1. \A x \in Slots : Slot(Final, x) # None
      BY <1>4 DEF Fed
    <3> QED  BY <3>1, <1>1, <1>4, FinalIsLast
  <2> QED  BY <2>1, <1>4 DEF Fed
<1>13. GridTypes'
  <2>1. \A t \in Grid, x \in Slots : Slot(t, x)' \in 0..Size
    BY <1>2, <1>4, <1>5 DEF GridTypes
  <2>2. Done' \subseteq Grid  BY <1>1, <1>2, <1>4 DEF GridTypes
  <2>3. Champ' \in 0..Size  BY <1>2, <1>4, <1>5 DEF GridTypes
  <2>4. Wins' \in [1..Size -> Nat]
    <3>1. Wins \in [1..Size -> Nat]  BY <1>4 DEF GridTypes
    <3>2. Wins[w] + 1 \in Nat  BY <3>1, <1>5
    <3> QED  BY <3>1, <3>2, <1>2
  <2>5. Beaten' \subseteq 1..Size  BY <1>2, <1>4, <1>5 DEF GridTypes
  <2> QED  BY <2>1, <2>2, <2>3, <2>4, <2>5, <1>2, <1>3 DEF GridTypes
<1>14. Fed'
  <2>1. ASSUME NEW t \in Grid, NEW x \in Slots
        PROVE  Slot(t, x)' # None <=> t[1] = 0 \/ Parent(t, x) \in Done'
    <3>1. Slot(t, x) # None <=> t[1] = 0 \/ Parent(t, x) \in Done
      BY <1>4 DEF Fed
    <3>2. CASE New(t, x)
      BY <3>2, <1>1, <1>2, <1>9
    <3>3. CASE ~New(t, x)
      <4>1. t[1] \in 0..2  BY <1>3, GridPairs
      <4>2. t[1] > 0 => Parent(t, x) # s
        BY <1>3, <3>3, GridDown
      <4> QED  BY <4>1, <4>2, <3>1, <3>3, <1>2
    <3> QED  BY <3>2, <3>3
  <2>2. \A t \in Done', x \in Slots : Slot(t, x)' # None
    <3>1. \A x \in Slots : Slot(s, x) # None  BY <1>1 DEF Slots
    <3>2. \A t \in Done' : t \in Grid  BY <1>1, <1>2, <1>4 DEF GridTypes
    <3> QED  BY <3>1, <3>2, <1>1, <1>2, <1>4 DEF Fed
  <2>3. Champ' # None <=> Final \in Done'
    BY <1>1, <1>2, <1>12
  <2> QED  BY <2>1, <2>2, <2>3, <1>3 DEF Fed
<1>15. Placed'
  <2>1. ASSUME NEW t \in Grid, NEW x \in Slots, Slot(t, x)' # None
        PROVE  Place[Slot(t, x)'] \div 2^t[1] = 2 * t[2] + Rank(x)
    <3>1. CASE New(t, x)
      <4>1. Slot(t, x)' = w /\ t[1] = s[1] + 1 /\ t[2] = s[2] \div 2 /\ x = Side(s)
        BY <3>1, <1>2, <1>9
      <4>2. s[2] = 2 * (s[2] \div 2) + Rank(Side(s))
        BY <1>9 DEF Rank, Side
      <4> QED  BY <4>1, <4>2, <1>8
    <3>2. CASE ~New(t, x)
      BY <3>2, <2>1, <1>2, <1>4 DEF Placed
    <3> QED  BY <3>1, <3>2
  <2> QED  BY <2>1, <1>2, <1>3 DEF Placed
<1>16. Standing'
  <2>1. ASSUME NEW t \in Grid \ Done', NEW x \in Slots, Slot(t, x)' # None
        PROVE  /\ Wins'[Slot(t, x)'] = t[1] /\ Slot(t, x)' \notin Beaten'
               /\ \A u \in Grid \ Done', y \in Slots :
                    Slot(u, y)' = Slot(t, x)' => u = t /\ y = x
    <3>0. t \in Grid \ Done /\ t # s /\ Grid \ Done' = (Grid \ Done) \ {s}
      BY <1>2
    <3>00. Wins \in [1..Size -> Nat]  BY <1>4 DEF GridTypes
    <3>1. CASE New(t, x)
      <4>1. Slot(t, x)' = w  BY <3>1, <1>2
      <4>2. Wins'[w] = s[1] + 1  BY <1>2, <1>5, <1>7, <3>00
      <4>3. w \notin Beaten'  BY <1>2, <1>6, <1>7
      <4>4. \A u \in Grid \ Done', y \in Slots : Slot(u, y)' = w => u = t /\ y = x
        BY <3>0, <3>1, <1>2, <1>7
      <4> QED  BY <4>1, <4>2, <4>3, <4>4, <3>1, <1>9
    <3>2. CASE ~New(t, x)
      <4> DEFINE e == Slot(t, x)
      <4>1. Slot(t, x)' = e /\ e # None  BY <3>2, <2>1, <1>2
      <4>2. e \in 1..Size  BY <4>1, <1>4 DEF GridTypes, None, SizeOK
      <4>3. e # w /\ e # l  BY <3>0, <1>7
      <4>4. /\ Wins[e] = t[1] /\ e \notin Beaten
            /\ \A u \in Grid \ Done, y \in Slots : Slot(u, y) = e => u = t /\ y = x
        BY <3>0, <4>1, <1>4 DEF Standing
      <4>5. Wins'[e] = t[1]  BY <4>2, <4>3, <4>4, <1>2, <3>00
      <4>6. e \notin Beaten'  BY <4>3, <4>4, <1>2
      <4>7. \A u \in Grid \ Done', y \in Slots : Slot(u, y)' = e => u = t /\ y = x
        BY <4>3, <4>4, <3>0, <1>2
      <4> QED  BY <4>1, <4>5, <4>6, <4>7
    <3> QED  BY <3>1, <3>2
  <2> QED  BY <2>1, <1>3 DEF Standing
<1>17. Accounted'
  <2>1. ASSUME NEW e \in (1..Size) \ Beaten'
        PROVE  e = Champ' \/ \E t \in Grid \ Done', x \in Slots : Slot(t, x)' = e
    <3>1. e \notin Beaten /\ e # l /\ e # None
      BY <1>2 DEF None
    <3>2. PICK t \in Grid \ Done, x \in Slots : Slot(t, x) = e
      BY <3>1, <1>4, <1>12 DEF Accounted
    <3>3. CASE t # s
      <4>1. Slot(t, x)' = e  BY <3>1, <3>2, <1>2, <1>10
      <4>2. t \in Grid \ Done'  BY <3>3, <1>2
      <4> QED  BY <4>1, <4>2
    <3>4. CASE t = s
      <4>1. e = w  BY <3>1, <3>2, <3>4, <1>1 DEF Slots
      <4>2. CASE s = Final  BY <4>1, <4>2, <1>2
      <4>3. CASE s # Final
        <5>1. Up(s) \in Grid \ Done'  BY <4>3, <1>2, <1>9, <1>10
        <5>2. Slot(Up(s), Side(s))' = e  BY <4>1, <4>3, <1>2, <1>9
        <5> QED  BY <5>1, <5>2, <4>3, <1>9
      <4> QED  BY <4>2, <4>3
    <3> QED  BY <3>3, <3>4
  <2> QED  BY <2>1, <1>2, <1>3 DEF Accounted
<1>18. Champ' = IF (1..Size) \ Beaten' = {w} THEN w ELSE None
  <2>1. w \in (1..Size) \ Beaten'
    BY <1>2, <1>5, <1>6, <1>7
  <2>2. CASE s = Final
    <3>1. \A e \in (1..Size) \ Beaten' : e = Champ'
      BY <2>2, <1>2, <1>3, <1>11, <1>17 DEF Accounted
    <3>2. Champ' = w  BY <2>2, <1>2
    <3> QED  BY <3>1, <3>2, <2>1
  <2>3. CASE s # Final
    <3>1. \E f \in (1..Size) \ Beaten' : f # w
      <4> DEFINE y == IF Side(s) = "high" THEN "low" ELSE "high"
                 t == Parent(Up(s), y)
      <4>1. y \in Slots /\ y # Side(s)  BY DEF Slots
      <4>2. /\ t \in Grid /\ t # s /\ t[1] = s[1]
        BY <4>1, <2>3, <1>3, <1>9, GridDown
      <4>3. \E u \in Grid \ Done, x \in Slots : Slot(u, x) # None /\ u # s
        <5>1. CASE t \in Done
          <6>1. Slot(Up(s), y) # None
            BY <5>1, <4>1, <2>3, <1>4, <1>9 DEF Fed
          <6> QED  BY <6>1, <4>1, <2>3, <1>9, <1>10
        <5>2. CASE t \notin Done
          <6>1. PICK u \in Grid \ Done, x \in Slots :
                  Slot(u, x) # None /\ (u = t \/ u[1] < t[1])
            BY <5>2, <4>2, <1>4, SomeoneWaits
          <6>2. u # s  BY <6>1, <4>2, <1>9
          <6> QED  BY <6>1, <6>2
        <5> QED  BY <5>1, <5>2
      <4>4. PICK u \in Grid \ Done, x \in Slots : Slot(u, x) # None /\ u # s
        BY <4>3
      <4>5. Slot(u, x) # w /\ Slot(u, x) # l /\ Slot(u, x) \notin Beaten
        BY <4>4, <1>4, <1>7 DEF Standing
      <4>6. Slot(u, x) \in 1..Size
        BY <4>4, <1>4 DEF GridTypes, None, SizeOK
      <4> QED  BY <4>5, <4>6, <1>2
    <3>2. Champ' = None  BY <2>3, <1>2, <1>12
    <3> QED  BY <3>1, <3>2
  <2> QED  BY <2>2, <2>3
<1>19. GridOK'
  BY <1>13, <1>14, <1>15, <1>16, <1>17 DEF GridOK
<1> QED  BY <1>5, <1>6, <1>7, <1>8, <1>18, <1>19

\* Nothing is lost: a recorded series is a step of the elimination.
LEMMA PlaysOn ==
  ASSUME GridOK, NEW s, NEW slot, NEW other, Recorded(s, slot, other), UNCHANGED entry,
         ~(~file.whole /\ script \in {"killed", "done"}),
         ~(~file.whole /\ script \in {"killed", "done"})'
  PROVE  Bracket!Play
<1> DEFINE w == Slot(s, slot)
           l == Slot(s, other)
<1>1. /\ {w, l} \subseteq 1..Size /\ w # l /\ {w, l} \cap Beaten = {}
      /\ Wins[w] = Wins[l]
      /\ Place[w] \div 2^(Wins[w] + 1) = Place[l] \div 2^(Wins[l] + 1)
      /\ Champ' = IF (1..Size) \ Beaten' = {w} THEN w ELSE None
  BY RecordedIsPlay
<1>2. /\ Size' = Size /\ Place' = Place
      /\ Wins' = [Wins EXCEPT ![w] = @ + 1] /\ Beaten' = Beaten \cup {l}
  BY DEF Recorded
<1> HIDE DEF w, l
<1>3. Bracket!Meet(w, l)
  BY <1>1 DEF Bracket!Meet, Bracket!Block
<1>4. w \in 1..Size /\ l \in 1..Size  BY <1>1
<1> QED  BY <1>1, <1>2, <1>3, <1>4 DEF Bracket!Play, Champ

-----------------------------------------------------------------------------
(* The script *)

Rounds8 == [Series -> [high : 0..8, low : 0..8,
                       wins : (0..BestOf) \X (0..BestOf), done : BOOLEAN]]
Files == [rounds : Rounds8, champion : 0..8, whole : BOOLEAN]

\* The file is not whole while a series is saved; a game is played of a ready
\* series, and a side has not won more games than are over.
ScriptOK ==
  /\ ScriptTypeOK
  /\ script \in {"idle", "pass", "series", "playing"} => file.whole
  /\ script = "saving" => ~file.whole
  /\ script \in {"series", "playing", "saving"} => queue # {}
  /\ queue \subseteq Ready
  /\ score[1] <= game /\ score[2] <= game
  /\ script = "playing" => game < BestOf

LEMMA SeriesIs ==
  Series = {<<0, 0>>, <<0, 1>>, <<0, 2>>, <<0, 3>>, <<1, 0>>, <<1, 1>>, <<2, 0>>}
  BY DEF Series, ToSet, Order

LEMMA ScriptGrid ==
  ASSUME entry = "script"
  PROVE  Size = 8 /\ SizeOK /\ Grid = Series /\ Final = <<2, 0>>
  BY SeriesIs DEF Size, SizeOK, Grid, Final, Rounds

\* Among open series there is a first.
LEMMA FirstExists ==
  ASSUME NEW open, open \subseteq Series, open # {}
  PROVE  \E s \in open : \A t \in open : s = t \/ Before(s, t)
<1>1. CASE <<0, 0>> \in open  BY <1>1, SeriesIs DEF Before
<1>2. CASE <<0, 0>> \notin open /\ <<0, 1>> \in open  BY <1>2, SeriesIs DEF Before
<1>3. CASE <<0, 0>> \notin open /\ <<0, 1>> \notin open /\ <<0, 2>> \in open
  BY <1>3, SeriesIs DEF Before
<1>4. CASE <<0, 0>> \notin open /\ <<0, 1>> \notin open /\ <<0, 2>> \notin open
           /\ <<0, 3>> \in open
  BY <1>4, SeriesIs DEF Before
<1>5. CASE /\ <<0, 0>> \notin open /\ <<0, 1>> \notin open
           /\ <<0, 2>> \notin open /\ <<0, 3>> \notin open
  <2>1. CASE <<1, 0>> \in open  BY <2>1, <1>5, SeriesIs DEF Before
  <2>2. CASE <<1, 0>> \notin open /\ <<1, 1>> \in open
    BY <2>2, <1>5, SeriesIs DEF Before
  <2>3. CASE <<1, 0>> \notin open /\ <<1, 1>> \notin open
    BY <2>3, <1>5, SeriesIs DEF Before
  <2> QED  BY <2>1, <2>2, <2>3
<1> QED  BY <1>1, <1>2, <1>3, <1>4, <1>5

LEMMA CurrentIsFirst ==
  ASSUME queue \subseteq Series, queue # {}
  PROVE  Current \in queue
  BY FirstExists DEF Current

\* What a saved series leaves in the file.
LEMMA SavedSlots ==
  ASSUME ScriptOK, Saved, NEW s \in Series, s = Current,
         NEW w \in 0..8,
         w = IF score[1] >= WinsNeeded THEN file.rounds[s].high ELSE file.rounds[s].low
  PROVE  /\ file' \in Files /\ file'.whole = TRUE
         /\ file'.champion = IF s = <<2, 0>> THEN w ELSE file.champion
         /\ \A t \in Series : file'.rounds[t].done = (t = s \/ file.rounds[t].done)
         /\ \A t \in Series :
              /\ file'.rounds[t].high = IF s # <<2, 0>> /\ t = Up(s) /\ Side(s) = "high"
                                        THEN w ELSE file.rounds[t].high
              /\ file'.rounds[t].low = IF s # <<2, 0>> /\ t = Up(s) /\ Side(s) = "low"
                                       THEN w ELSE file.rounds[t].low
<1> DEFINE r == file.rounds
           slot == IF s[2] % 2 = 0 THEN "high" ELSE "low"
           d1 == [r EXCEPT ![s].done = TRUE]
           done == [d1 EXCEPT ![s].wins = score]
           all == [done EXCEPT ![Up(s)][slot] = w]
<1>0. r \in Rounds8 /\ file.champion \in 0..8 /\ score \in (0..BestOf) \X (0..BestOf)
  BY DEF ScriptOK, ScriptTypeOK, Rounds8
<1>1. /\ done \in Rounds8
      /\ \A t \in Series : done[t].done = (t = s \/ r[t].done)
      /\ \A t \in Series : done[t].high = r[t].high /\ done[t].low = r[t].low
  BY <1>0 DEF Rounds8
<1>2. /\ file'.rounds = IF s[1] = 2 THEN done ELSE all
      /\ file'.champion = IF s[1] = 2 THEN w ELSE file.champion
      /\ file'.whole = TRUE
      /\ file'.rounds \in Rounds8 => file' \in Files
  <2>1. file' = [rounds   |-> IF s[1] = 2 THEN done ELSE all,
                 champion |-> IF s[1] = 2 THEN w ELSE file.champion,
                 whole    |-> TRUE]
    BY DEF Saved, Advanced, Up, SeriesWinner
  <2> HIDE DEF done, all
  <2> QED  BY <2>1, <1>0 DEF Files
<1>3. s[1] = 2 <=> s = <<2, 0>>  BY SeriesIs
<1>4. s # <<2, 0>> => Up(s) \in Series  BY SeriesIs DEF Up
<1>5. Side(s) = slot  BY DEF Side
<1> HIDE DEF done
<1> DEFINE New(t, x) == s # <<2, 0>> /\ t = Up(s) /\ x = Side(s)
           Kept(t) == /\ file'.rounds[t].high = IF New(t, "high") THEN w ELSE r[t].high
                      /\ file'.rounds[t].low = IF New(t, "low") THEN w ELSE r[t].low
<1>6. CASE s = <<2, 0>>
  <2>1. file'.rounds = done  BY <1>2, <1>3, <1>6
  <2>2. \A t \in Series : Kept(t)  BY <1>1, <1>6, <2>1
  <2>3. /\ file' \in Files /\ file'.whole = TRUE
        /\ file'.champion = IF s = <<2, 0>> THEN w ELSE file.champion
    BY <1>1, <1>2, <1>3, <1>6, <2>1
  <2>4. \A t \in Series : file'.rounds[t].done = (t = s \/ r[t].done)
    BY <1>1, <2>1
  <2> QED  BY <2>2, <2>3, <2>4
<1>7. CASE s # <<2, 0>>
  <2>1. CASE slot = "high"
    <3> DEFINE a == [done EXCEPT ![Up(s)].high = w]
    <3>1. file'.rounds = a  BY <1>2, <1>3, <1>7, <2>1
    <3>2. a \in Rounds8  BY <1>1, <1>4, <1>7 DEF Rounds8
    <3>3. /\ \A t \in Series : a[t].done = done[t].done /\ a[t].low = done[t].low
          /\ \A t \in Series : a[t].high = IF t = Up(s) THEN w ELSE done[t].high
      BY <1>1, <1>4, <1>7 DEF Rounds8
    <3> HIDE DEF a
    <3>4. \A t \in Series : file'.rounds[t].done = (t = s \/ r[t].done)
      BY <1>1, <3>1, <3>3
    <3>5. /\ file' \in Files /\ file'.whole = TRUE
          /\ file'.champion = IF s = <<2, 0>> THEN w ELSE file.champion
      BY <1>2, <1>3, <1>7, <3>1, <3>2
    <3>6. \A t \in Series : Kept(t)
      BY <1>1, <1>5, <1>7, <2>1, <3>1, <3>3
    <3> QED  BY <3>4, <3>5, <3>6
  <2>2. CASE slot = "low"
    <3> DEFINE a == [done EXCEPT ![Up(s)].low = w]
    <3>1. file'.rounds = a  BY <1>2, <1>3, <1>7, <2>2
    <3>2. a \in Rounds8  BY <1>1, <1>4, <1>7 DEF Rounds8
    <3>3. /\ \A t \in Series : a[t].done = done[t].done /\ a[t].high = done[t].high
          /\ \A t \in Series : a[t].low = IF t = Up(s) THEN w ELSE done[t].low
      BY <1>1, <1>4, <1>7 DEF Rounds8
    <3> HIDE DEF a
    <3>4. \A t \in Series : file'.rounds[t].done = (t = s \/ r[t].done)
      BY <1>1, <3>1, <3>3
    <3>5. /\ file' \in Files /\ file'.whole = TRUE
          /\ file'.champion = IF s = <<2, 0>> THEN w ELSE file.champion
      BY <1>2, <1>3, <1>7, <3>1, <3>2
    <3>6. \A t \in Series : Kept(t)
      BY <1>1, <1>5, <1>7, <2>2, <3>1, <3>3
    <3> QED  BY <3>4, <3>5, <3>6
  <2> QED  BY <2>1, <2>2
<1> QED  BY <1>6, <1>7

\* Who went on is who stands in the next slot.
LEMMA WentOnUp ==
  ASSUME entry = "script", NEW s \in Series
  PROVE  WentOn(s) = IF s = Final THEN Champ ELSE Slot(Up(s), Side(s))
<1>1. s[1] = 2 <=> s = <<2, 0>>  BY SeriesIs
<1> QED  BY <1>1, ScriptGrid DEF WentOn, Champ, Slot, Up, Side

LEMMA SeriesFinite == IsFiniteSet(Series)
<1>0. 0 \in Int /\ 2 \in Int /\ 3 \in Int  OBVIOUS
<1>1. IsFiniteSet(0..2) /\ IsFiniteSet(0..3)  BY <1>0, FS_Interval
<1>2. IsFiniteSet((0..2) \X (0..3))  BY <1>1, FS_Product
<1>3. Series \subseteq (0..2) \X (0..3)  BY SeriesIs
<1> QED  BY <1>2, <1>3, FS_Subset

\* A series that is saved is recorded, for the side with enough wins or p2.
LEMMA SavedIsRecorded ==
  ASSUME entry = "script", UNCHANGED entry, GridOK, ScriptOK, Saved,
         NEW s, s = Current
  PROVE  \E slot, other :
           /\ Recorded(s, slot, other)
           /\ slot = IF score[1] >= WinsNeeded THEN "high" ELSE "low"
           /\ WentOn(s)' = Slot(s, slot)
           /\ \A t \in Series : t # s => WentOn(t)' = WentOn(t)
           /\ \A t \in Done \cup {s}, x \in Slots : file'.rounds[t][x] = file.rounds[t][x]
<1> DEFINE slot == IF score[1] >= WinsNeeded THEN "high" ELSE "low"
           other == IF score[1] >= WinsNeeded THEN "low" ELSE "high"
           w == Slot(s, slot)
           l == Slot(s, other)
           New(t, x) == s # Final /\ t = Up(s) /\ x = Side(s)
<1>1. entry = "script" /\ entry' = "script"  OBVIOUS
<1>2. /\ Size = 8 /\ Size' = 8 /\ SizeOK /\ Grid = Series /\ Grid' = Series
      /\ Final = <<2, 0>> /\ Final' = <<2, 0>> /\ Place' = Place
  BY <1>1, ScriptGrid DEF Size, Place, Grid, Final, Rounds
<1>3. file.rounds \in Rounds8 /\ file.champion \in 0..8
      /\ score \in (0..BestOf) \X (0..BestOf)
  BY DEF ScriptOK, ScriptTypeOK, Rounds8
<1>4. s \in Ready
  <2>1. queue # {} /\ queue \subseteq Ready /\ queue \subseteq Series
    BY DEF ScriptOK, Saved, ScriptTypeOK
  <2> QED  BY <2>1, CurrentIsFirst
<1>5. /\ s \in Series /\ ~file.rounds[s].done
      /\ file.rounds[s].high # None /\ file.rounds[s].low # None
  BY <1>4 DEF Ready
<1>6. slot \in Slots /\ other \in Slots /\ slot # other  BY DEF Slots
<1>7. w = IF score[1] >= WinsNeeded THEN file.rounds[s].high ELSE file.rounds[s].low
  BY <1>1 DEF Slot
<1>8. /\ s \in Grid \ Done /\ w # None /\ l # None
  BY <1>1, <1>2, <1>5 DEF Done, Slot
<1>9. w \in 0..8 /\ l \in 0..8
  BY <1>2, <1>6, <1>8 DEF GridOK, GridTypes
<1> HIDE DEF slot, other
<1> HIDE DEF w, l
<1>10. /\ file'.champion = IF s = Final THEN w ELSE file.champion
       /\ \A t \in Series : file'.rounds[t].done = (t = s \/ file.rounds[t].done)
       /\ \A t \in Series, x \in Slots :
            file'.rounds[t][x] = IF New(t, x) THEN w ELSE file.rounds[t][x]
  <2>0. PICK v : v = w  OBVIOUS
  <2>1. s \in Series /\ s = Current /\ ScriptOK /\ Saved  BY <1>5
  <2>2. /\ v \in 0..8
        /\ v = IF score[1] >= WinsNeeded THEN file.rounds[s].high ELSE file.rounds[s].low
    BY <2>0, <1>7, <1>9
  <2>3. /\ file'.champion = IF s = <<2, 0>> THEN v ELSE file.champion
        /\ \A t \in Series : file'.rounds[t].done = (t = s \/ file.rounds[t].done)
    BY <2>1, <2>2, SavedSlots
  <2>4. \A t \in Series :
          /\ file'.rounds[t].high = IF s # <<2, 0>> /\ t = Up(s) /\ Side(s) = "high"
                                    THEN v ELSE file.rounds[t].high
          /\ file'.rounds[t].low = IF s # <<2, 0>> /\ t = Up(s) /\ Side(s) = "low"
                                   THEN v ELSE file.rounds[t].low
    BY <2>1, <2>2, SavedSlots
  <2>5. \A t \in Series, x \in Slots :
          file'.rounds[t][x] = IF New(t, x) THEN w ELSE file.rounds[t][x]
    BY <2>0, <2>4, <1>2 DEF Slots
  <2> QED  BY <2>0, <2>3, <2>5, <1>2
<1>12. Done' = Done \cup {s}
  BY <1>1, <1>5, <1>10 DEF Done
<1>13. \A t \in Grid, x \in Slots : Slot(t, x)' = IF New(t, x) THEN w ELSE Slot(t, x)
  BY <1>1, <1>2, <1>10 DEF Slot
<1>14. Champ' = IF s = Final THEN w ELSE Champ
  BY <1>1, <1>10 DEF Champ
<1>15. /\ WentOn(s)' = w /\ WentOn(s) = None
       /\ \A t \in Series : t # s => WentOn(t)' = WentOn(t)
  <2>1. \A t \in Series : /\ t # Final => Up(t) \in Series /\ Side(t) \in Slots
                          /\ t # Final => Parent(Up(t), Side(t)) = t /\ Up(t)[1] > 0
    BY <1>2, GridUp
  <2>2. \A t \in Series : WentOn(t) = IF t = Final THEN Champ ELSE Slot(Up(t), Side(t))
    BY <1>1, WentOnUp
  <2>3. \A t \in Series : WentOn(t)' = IF t = Final THEN Champ' ELSE Slot(Up(t), Side(t))'
    <3>1. ASSUME NEW t \in Series
          PROVE  WentOn(t)' = IF t = Final THEN Champ' ELSE Slot(Up(t), Side(t))'
      <4>1. t[1] = 2 <=> t = <<2, 0>>  BY SeriesIs
      <4> QED  BY <4>1, <1>1, <1>2 DEF WentOn, Champ, Slot, Up, Side
    <3> QED  BY <3>1
  <2>4. WentOn(s)' = w  BY <2>1, <2>3, <1>2, <1>5, <1>13, <1>14
  <2>5. ASSUME NEW t \in Series, t # s
        PROVE  WentOn(t)' = WentOn(t)
    <3>1. CASE t = Final
      BY <3>1, <2>2, <2>3, <2>5, <1>14
    <3>2. CASE t # Final
      <4>1. ~New(Up(t), Side(t))  BY <3>2, <2>1, <2>5, <1>5
      <4>2. Slot(Up(t), Side(t))' = Slot(Up(t), Side(t))
        BY <4>1, <3>2, <2>1, <1>2, <1>13
      <4> QED  BY <4>2, <3>2, <2>2, <2>3
    <3> QED  BY <3>1, <3>2
  <2>6. WentOn(s) = None
    BY <2>1, <2>2, <1>2, <1>5, <1>8 DEF GridOK, Fed
  <2> QED  BY <2>4, <2>5, <2>6
<1>16. Wins' = [Wins EXCEPT ![w] = @ + 1]
  <2> DEFINE of(e) == {t \in Series : WentOn(t) = e}
             new(e) == {t \in Series : WentOn(t)' = e}
  <2>1. Wins = [e \in 1..8 |-> Cardinality(of(e))]
    BY <1>1, <1>2 DEF Wins
  <2>2. Wins' = [e \in 1..8 |-> Cardinality(new(e))]
    BY <1>1, <1>2 DEF Wins
  <2>3. new(w) = of(w) \cup {s} /\ s \notin of(w)
    BY <1>5, <1>8, <1>15
  <2>4. \A e \in 1..8 : e # w => new(e) = of(e)
    BY <1>5, <1>15 DEF None
  <2>5. IsFiniteSet(of(w))  BY SeriesFinite, FS_Subset
  <2> HIDE DEF of, new
  <2>6. Cardinality(new(w)) = Cardinality(of(w)) + 1
    BY <2>3, <2>5, FS_AddElement
  <2> QED  BY <2>1, <2>2, <2>4, <2>6
<1>17. \A t \in Series, x \in Slots :
         t \in Done \/ t = s => file'.rounds[t][x] = file.rounds[t][x]
  <2>1. s # Final => /\ Up(s) # s /\ Up(s) \notin Done
    <3>1. s # Final => /\ Up(s)[1] = s[1] + 1 /\ Up(s)[1] > 0 /\ s[1] \in 0..2
                       /\ Parent(Up(s), Side(s)) = s /\ Side(s) \in Slots /\ Up(s) \in Grid
      BY <1>2, <1>5, GridUp, GridPairs
    <3> QED  BY <3>1, <1>8 DEF GridOK, Fed
  <2> QED  BY <2>1, <1>10
<1>18. Beaten' = Beaten \cup {l}
  <2> DEFINE lost(t) == {file.rounds[t].high, file.rounds[t].low} \ {WentOn(t)}
             lost1(t) == {file'.rounds[t].high, file'.rounds[t].low} \ {WentOn(t)'}
  <2>1. Beaten = UNION {lost(t) : t \in {u \in Series : file.rounds[u].done}}
    BY <1>1 DEF Beaten
  <2>2. Beaten' = UNION {lost1(t) : t \in {u \in Series : file'.rounds[u].done}}
    BY <1>1 DEF Beaten
  <2>4. \A t \in Series : t # s /\ file.rounds[t].done => lost1(t) = lost(t)
    <3>1. ASSUME NEW t \in Series, t # s, file.rounds[t].done
          PROVE  lost1(t) = lost(t)
      <4>1. t \in Done  BY <3>1, <1>1 DEF Done
      <4>2. file'.rounds[t].high = file.rounds[t].high /\ file'.rounds[t].low = file.rounds[t].low
        BY <4>1, <1>17 DEF Slots
      <4>3. WentOn(t)' = WentOn(t)  BY <3>1, <1>15
      <4> QED  BY <4>2, <4>3
    <3> QED  BY <3>1
  <2>5. lost1(s) = {l}
    <3>1. file'.rounds[s].high = file.rounds[s].high /\ file'.rounds[s].low = file.rounds[s].low
      BY <1>17, <1>5 DEF Slots
    <3>2. {file.rounds[s].high, file.rounds[s].low} = {w, l}
      BY <1>1 DEF w, l, slot, other, Slot
    <3>3. w # l
      <4>1. Slot(s, "high") # Slot(s, "low")
        BY <1>1, <1>2, <1>5, SlotsDiffer DEF GridOK, Slot
      <4> QED  BY <4>1 DEF w, l, slot, other
    <3>4. WentOn(s)' = w  BY <1>15
    <3> QED  BY <3>1, <3>2, <3>3, <3>4
  <2> HIDE DEF lost, lost1
  <2> DEFINE U == {u \in Series : file.rounds[u].done}
  <2>6. {u \in Series : file'.rounds[u].done} = U \cup {s}
    BY <1>5, <1>10
  <2>7. s \notin U /\ \A t \in U : lost1(t) = lost(t)
    BY <1>5, <2>4
  <2>8. Beaten' = UNION {lost1(t) : t \in U \cup {s}} /\ Beaten = UNION {lost(t) : t \in U}
    BY <2>1, <2>2, <2>6
  <2> HIDE DEF U
  <2>9. \A e : e \in Beaten' <=> e \in Beaten \/ e = l
    BY <2>5, <2>7, <2>8
  <2> QED  BY <2>9
<1>19. Recorded(s, slot, other)
  BY <1>2, <1>6, <1>8, <1>12, <1>13, <1>14, <1>16, <1>18 DEF Recorded, w, l
<1>20. slot = IF score[1] >= WinsNeeded THEN "high" ELSE "low"  BY DEF slot
<1>21. WentOn(s)' = Slot(s, slot) /\ \A t \in Series : t # s => WentOn(t)' = WentOn(t)
  BY <1>15 DEF w
<1>22. \A t \in Done \cup {s}, x \in Slots : file'.rounds[t][x] = file.rounds[t][x]
  BY <1>5, <1>17, <1>1 DEF Done
<1> QED  BY <1>19, <1>20, <1>21, <1>22

\* A step that leaves the rounds and the champion leaves the bracket.
LEMMA SameFileSameBracket ==
  ASSUME entry = "script", UNCHANGED entry, GridOK,
         file'.rounds = file.rounds, file'.champion = file.champion
  PROVE  /\ GridOK' /\ Ready' = Ready
         /\ Size' = Size /\ Place' = Place /\ Wins' = Wins /\ Beaten' = Beaten
<1>1. entry = "script" /\ entry' = "script"  OBVIOUS
<1>2. /\ Size' = Size /\ Place' = Place /\ SizeOK' = SizeOK /\ Grid' = Grid /\ Final' = Final
      /\ Champ' = Champ
  BY <1>1 DEF Size, Place, SizeOK, Grid, Final, Rounds, Champ
<1>3. Done' = Done /\ Ready' = Ready  BY <1>1 DEF Done, Ready
<1>4. \A s, x : Slot(s, x)' = Slot(s, x)  BY <1>1 DEF Slot
<1>5. \A s : WentOn(s)' = WentOn(s)  BY DEF WentOn
<1>6. Wins' = Wins
  <2>1. \A e : {s \in Series : WentOn(s)' = e} = {s \in Series : WentOn(s) = e}
    BY <1>5
  <2> QED  BY <2>1, <1>1, <1>2 DEF Wins
<1>7. Beaten' = Beaten  BY <1>1, <1>5 DEF Beaten
<1>8. GridTypes'  BY <1>2, <1>3, <1>4, <1>6, <1>7 DEF GridOK, GridTypes
<1>9. Fed' /\ Placed'  BY <1>2, <1>3, <1>4 DEF GridOK, Fed, Placed
<1>10. Standing'  BY <1>2, <1>3, <1>4, <1>6, <1>7 DEF GridOK, Standing
<1>11. Accounted'  BY <1>2, <1>3, <1>4, <1>7 DEF GridOK, Accounted
<1> QED  BY <1>2, <1>3, <1>6, <1>7, <1>8, <1>9, <1>10, <1>11 DEF GridOK

LEMMA CurrentInQueue ==
  ASSUME ScriptOK, script \in {"series", "playing", "saving"}
  PROVE  Current \in queue /\ Current \in Series
<1>1. queue # {} /\ queue \subseteq Series  BY DEF ScriptOK, ScriptTypeOK
<1> QED  BY <1>1, CurrentIsFirst

LEMMA ScriptKeepsOK ==
  ASSUME entry = "script", UNCHANGED entry, GridOK, ScriptOK, ScriptNext
  PROVE  ScriptOK'
<1>1. /\ file \in Files
      /\ script \in {"idle", "pass", "series", "playing", "saving", "killed", "done"}
      /\ queue \subseteq Series
      /\ score \in (0..BestOf) \X (0..BestOf) /\ game \in 0..BestOf
      /\ logs \in [Series -> [Games -> LogStates]]
      /\ odd \in 0..MaxOdd
      /\ BestOf \in Nat \ {0} /\ MaxOdd \in Nat
  BY ScriptAssumption DEF ScriptOK, ScriptTypeOK, Files, Rounds8
<1>2. <<0, 0>> \in (0..BestOf) \X (0..BestOf) /\ 0 \in 0..BestOf /\ <<0, 0>>[1] = 0 /\ <<0, 0>>[2] = 0
  BY <1>1
<1>3. file' = file \/ file' = [file EXCEPT !.whole = FALSE] => Ready' = Ready
  BY <1>1 DEF Ready, Files
<1>4. CASE Start
  BY <1>1, <1>3, <1>4 DEF Start, ScriptOK, ScriptTypeOK, Files, Rounds8
<1>5. CASE ReadPass
  BY <1>1, <1>2, <1>3, <1>5 DEF ReadPass, ScriptOK, ScriptTypeOK, Files, Rounds8, Ready
<1>6. CASE GameStarts
  <2>1. game < BestOf  BY <1>1, <1>6 DEF GameStarts, Over
  <2>2. logs' \in [Series -> [Games -> LogStates]]
    <3>1. Current \in Series  BY <1>6, CurrentInQueue DEF GameStarts
    <3>2. game + 1 \in Games  BY <1>1, <2>1 DEF Games
    <3>3. <<"unlinked">> \in LogStates  BY DEF LogStates
    <3> QED  BY <1>1, <1>6, <3>1, <3>2, <3>3 DEF GameStarts
  <2> QED  BY <1>1, <1>3, <1>6, <2>1, <2>2 DEF GameStarts, ScriptOK, ScriptTypeOK, Files, Rounds8
<1>7. CASE GameEnds
  <2>1. PICK result \in Results, seen \in BOOLEAN :
          /\ odd' = IF seen /\ result = <<"completed", "p1">> THEN odd ELSE odd + 1
          /\ odd' <= MaxOdd
          /\ score' = <<score[1] + Points(result)[1], score[2] + Points(result)[2]>>
          /\ logs' = [logs EXCEPT ![Current][game + 1] =
                                    IF seen THEN result ELSE <<"unlinked">>]
    BY <1>7 DEF GameEnds
  <2>2. /\ script = "playing" /\ script' = "series" /\ game' = game + 1
        /\ game < BestOf /\ UNCHANGED <<file, queue>>
        /\ score[1] <= game /\ score[2] <= game
    BY <1>7 DEF GameEnds, ScriptOK
  <2>3. Points(result)[1] \in 0..1 /\ Points(result)[2] \in 0..1
    BY DEF Points
  <2>4. /\ score' \in (0..BestOf) \X (0..BestOf)
        /\ score'[1] <= game' /\ score'[2] <= game' /\ game' \in 0..BestOf
    <3>1. /\ score[1] \in 0..BestOf /\ score[2] \in 0..BestOf
          /\ score' = <<score[1] + Points(result)[1], score[2] + Points(result)[2]>>
          /\ BestOf \in Nat /\ game \in 0..BestOf
      BY <1>1, <2>1
    <3> QED  BY <3>1, <2>2, <2>3
  <2>5. logs' \in [Series -> [Games -> LogStates]]
    <3>1. Current \in Series  BY <2>2, CurrentInQueue
    <3>2. game + 1 \in Games  BY <1>1, <2>2 DEF Games
    <3>3. (IF seen THEN result ELSE <<"unlinked">>) \in LogStates  BY DEF LogStates
    <3> QED  BY <1>1, <2>1, <3>1, <3>2, <3>3
  <2>6. odd' \in 0..MaxOdd  BY <1>1, <2>1
  <2>7. Ready' = Ready  BY <1>3, <2>2
  <2> QED  BY <1>1, <2>2, <2>4, <2>5, <2>6, <2>7 DEF ScriptOK, ScriptTypeOK, Files, Rounds8
<1>8. CASE SeriesEnds
  <2>1. /\ file'.rounds = file.rounds /\ file'.champion = file.champion
        /\ file'.whole = FALSE /\ file' \in Files /\ script' = "saving" /\ script = "series"
        /\ UNCHANGED <<queue, score, game, logs, odd>> /\ Ready' = Ready
    BY <1>1, <1>3, <1>8 DEF SeriesEnds, Files
  <2> QED  BY <1>1, <2>1 DEF ScriptOK, ScriptTypeOK, Files, Rounds8
<1>9. CASE Saved
  <2>1. PICK s : s = Current  OBVIOUS
  <2>2. s \in queue /\ s \in Series /\ s \in Ready
    BY <1>9, <2>1, CurrentInQueue DEF Saved, ScriptOK
  <2>3. PICK w : w = IF score[1] >= WinsNeeded THEN file.rounds[s].high ELSE file.rounds[s].low
    OBVIOUS
  <2>4. w \in 0..8 /\ w # None  BY <1>1, <2>2, <2>3 DEF Files, Rounds8, Ready
  <2>5. /\ file' \in Files /\ file'.whole = TRUE
        /\ file'.champion = IF s = <<2, 0>> THEN w ELSE file.champion
        /\ \A t \in Series : file'.rounds[t].done = (t = s \/ file.rounds[t].done)
        /\ \A t \in Series :
             /\ file'.rounds[t].high \in {w, file.rounds[t].high}
             /\ file'.rounds[t].low \in {w, file.rounds[t].low}
    <3>1. ScriptOK /\ Saved  BY <1>9
    <3>2. file' \in Files /\ file'.whole = TRUE
      BY <3>1, <2>1, <2>2, <2>3, <2>4, SavedSlots
    <3>3. file'.champion = IF s = <<2, 0>> THEN w ELSE file.champion
      BY <3>1, <2>1, <2>2, <2>3, <2>4, SavedSlots
    <3>4. \A t \in Series : file'.rounds[t].done = (t = s \/ file.rounds[t].done)
      BY <3>1, <2>1, <2>2, <2>3, <2>4, SavedSlots
    <3>5. \A t \in Series :
             /\ file'.rounds[t].high \in {w, file.rounds[t].high}
             /\ file'.rounds[t].low \in {w, file.rounds[t].low}
      <4>1. \A t \in Series :
              /\ file'.rounds[t].high = IF s # <<2, 0>> /\ t = Up(s) /\ Side(s) = "high"
                                        THEN w ELSE file.rounds[t].high
              /\ file'.rounds[t].low = IF s # <<2, 0>> /\ t = Up(s) /\ Side(s) = "low"
                                       THEN w ELSE file.rounds[t].low
        BY <3>1, <2>1, <2>2, <2>3, <2>4, SavedSlots
      <4> QED  BY <4>1
    <3> QED  BY <3>2, <3>3, <3>4, <3>5
  <2>6. Ready \ {s} \subseteq Ready'
    BY <2>4, <2>5 DEF Ready
  <2>7. /\ script = "saving" /\ queue' = queue \ {s}
        /\ script' = IF queue' = {} THEN "pass" ELSE "series"
        /\ score' = <<0, 0>> /\ game' = 0 /\ UNCHANGED <<logs, odd>>
    BY <1>9, <2>1 DEF Saved
  <2> QED  BY <1>1, <1>2, <2>4, <2>5, <2>6, <2>7 DEF ScriptOK, ScriptTypeOK, Files, Rounds8
<1>10. CASE Kill
  BY <1>1, <1>2, <1>3, <1>10 DEF Kill, ScriptOK, ScriptTypeOK, Files, Rounds8
<1>11. CASE Resume
  BY <1>1, <1>3, <1>11 DEF Resume, ScriptOK, ScriptTypeOK, Files, Rounds8
<1> QED  BY <1>4, <1>5, <1>6, <1>7, <1>8, <1>9, <1>10, <1>11 DEF ScriptNext

LEMMA ScriptStep ==
  ASSUME entry = "script", UNCHANGED entry, GridOK, ScriptOK, ScriptNext
  PROVE  GridOK' /\ (Bracket!Next \/ UNCHANGED Bracket!vars)
<1> DEFINE Lost == ~file.whole /\ script \in {"killed", "done"}
<1>0. /\ file \in [rounds : Rounds8, champion : 0..8, whole : BOOLEAN]
      /\ script \in {"idle", "pass", "series", "playing"} => file.whole
  BY DEF ScriptOK, ScriptTypeOK, Rounds8
<1>1. CASE Saved
  <2>1. PICK s : s = Current  OBVIOUS
  <2>2. PICK slot, other : Recorded(s, slot, other)
    BY <1>1, <2>1, SavedIsRecorded
  <2>3. script = "saving" /\ script' \in {"pass", "series"}  BY <1>1 DEF Saved
  <2>4. ~Lost /\ ~Lost'  BY <2>3
  <2>5. GridOK'  BY <2>2, RecordedIsPlay
  <2>6. Bracket!Play  BY <2>2, <2>4, PlaysOn
  <2> QED  BY <2>5, <2>6 DEF Bracket!Next
<1>2. CASE ~Saved
  <2>1. file'.rounds = file.rounds /\ file'.champion = file.champion
    BY <1>0, <1>2 DEF ScriptNext, Start, ReadPass, GameStarts, GameEnds, SeriesEnds, Kill, Resume
  <2>2. /\ GridOK'
        /\ Size' = Size /\ Place' = Place /\ Wins' = Wins /\ Beaten' = Beaten
    BY <2>1, SameFileSameBracket
  <2>3. CASE Kill /\ script = "saving"
    <3>1. ~Lost /\ Lost'  BY <2>3 DEF Kill, ScriptOK
    <3>2. Lost' = TRUE  BY <3>1
    <3>3. Bracket!Lose
      BY <2>1, <2>2, <3>1, <3>2 DEF Bracket!Lose
    <3> QED  BY <2>2, <3>3 DEF Bracket!Next
  <2>4. CASE ~(Kill /\ script = "saving")
    <3>1. Lost' = Lost
      BY <1>0, <1>2, <2>4 DEF ScriptNext, Start, ReadPass, GameStarts, GameEnds, SeriesEnds,
                              Kill, Resume
    <3>2. UNCHANGED Bracket!vars
      BY <2>1, <2>2, <3>1 DEF Bracket!vars
    <3> QED  BY <2>2, <3>2
  <2> QED  BY <2>3, <2>4
<1> QED  BY <1>1, <1>2

-----------------------------------------------------------------------------
(* How a bracket opens *)

\* The first round is seeded by the places, and the rest is open.
Opened ==
  /\ SizeOK /\ Done = {} /\ Champ = None /\ Beaten = {}
  /\ Wins = [e \in 1..Size |-> 0]
  /\ \A s \in Grid, slot \in Slots :
       IF s[1] = 0
       THEN Slot(s, slot) \in 1..Size /\ Place[Slot(s, slot)] = 2 * s[2] + Rank(slot)
       ELSE Slot(s, slot) = None
  /\ \A e \in 1..Size : \E s \in Grid, slot \in Slots : Slot(s, slot) = e

LEMMA OpenedIsOK ==
  ASSUME Opened
  PROVE  GridOK
<1>1. \A s \in Grid : s = <<s[1], s[2]>> /\ s[1] \in 0..2 /\ s[2] \in 0..3
  BY GridPairs DEF Opened
<1>2. Size \in Nat  BY DEF Opened, SizeOK
<1>3. \A slot \in Slots : Rank(slot) \in 0..1  BY DEF Rank
<1>4. \A x, y \in Slots : Rank(x) = Rank(y) => x = y  BY DEF Rank, Slots
<1>5. GridTypes  BY <1>2 DEF Opened, GridTypes, None
<1>6. Fed
  <2>1. \A s \in Grid, slot \in Slots : Slot(s, slot) # None <=> s[1] = 0
    BY <1>2 DEF Opened, None
  <2>2. Done = {} /\ Champ = None  BY DEF Opened
  <2> QED  BY <2>1, <2>2 DEF Fed
<1>7. Placed
  <2>1. ASSUME NEW s \in Grid, NEW slot \in Slots, Slot(s, slot) # None
        PROVE  Place[Slot(s, slot)] \div 2^s[1] = 2 * s[2] + Rank(slot)
    <3>1. s[1] = 0 /\ Place[Slot(s, slot)] = 2 * s[2] + Rank(slot)
      BY <2>1 DEF Opened
    <3>2. 2^s[1] = 1  BY <3>1
    <3> QED  BY <3>1, <3>2, <1>1, <1>3
  <2> QED  BY <2>1 DEF Placed
<1>8. Standing
  <2>1. ASSUME NEW s \in Grid, NEW slot \in Slots, Slot(s, slot) # None
        PROVE  /\ Wins[Slot(s, slot)] = s[1] /\ Slot(s, slot) \notin Beaten
               /\ \A t \in Grid, other \in Slots :
                    Slot(t, other) = Slot(s, slot) => t = s /\ other = slot
    <3>1. /\ s[1] = 0 /\ Slot(s, slot) \in 1..Size
          /\ Place[Slot(s, slot)] = 2 * s[2] + Rank(slot)
      BY <2>1 DEF Opened
    <3>2. ASSUME NEW t \in Grid, NEW other \in Slots, Slot(t, other) = Slot(s, slot)
          PROVE  t = s /\ other = slot
      <4>1. t[1] = 0 /\ Place[Slot(t, other)] = 2 * t[2] + Rank(other)
        BY <2>1, <3>2 DEF Opened
      <4>2. 2 * t[2] + Rank(other) = 2 * s[2] + Rank(slot)
        BY <4>1, <3>1, <3>2
      <4>3. t[2] = s[2] /\ Rank(other) = Rank(slot)
        BY <4>2, <1>1, <1>3
      <4> QED  BY <4>1, <4>3, <3>1, <1>1, <1>4
    <3> QED  BY <3>1, <3>2 DEF Opened
  <2> QED  BY <2>1 DEF Standing
<1>9. Accounted  BY DEF Opened, Accounted
<1> QED  BY <1>5, <1>6, <1>7, <1>8, <1>9 DEF GridOK

LEMMA OpenedIsInit ==
  ASSUME Opened, ~(~file.whole /\ script \in {"killed", "done"})
  PROVE  Bracket!Init
<1>1. Size \in {0, 2, 4, 8}  BY DEF Opened, SizeOK
<1>2. Cardinality(1..Size) = Size
  <2>1. 1 \in Int /\ Size \in Int  BY <1>1
  <2>2. Cardinality(1..Size) = IF 1 > Size THEN 0 ELSE Size - 1 + 1
    BY <2>1, FS_Interval
  <2> QED  BY <2>2, <1>1
<1>3. /\ Place \in [1..Size -> 0..Size - 1]
      /\ \A e, f \in 1..Size : Place[e] = Place[f] => e = f
  BY PlacesDiffer DEF Opened
<1>4. 1..Size \subseteq 1..8  BY <1>1
<1>5. Wins = [e \in 1..Size |-> 0] /\ Beaten = {} /\ Champ = None
  BY DEF Opened
<1>6. (~file.whole /\ script \in {"killed", "done"}) = FALSE
  OBVIOUS
<1>7. Place \in [1..Size -> 0..Bracket!Cardinality(1..Size) - 1]
  <2>1. Bracket!Cardinality(1..Size) = Cardinality(1..Size)
    BY DEF Bracket!Cardinality, Cardinality, Bracket!IsFiniteSet, IsFiniteSet
  <2> QED  BY <2>1, <1>2, <1>3
<1> QED  BY <1>3, <1>4, <1>5, <1>6, <1>7 DEF Bracket!Init, Champ

LEMMA ScriptOpens ==
  ASSUME entry = "script", ScriptInit
  PROVE  Opened
<1>1. /\ Size = 8 /\ SizeOK /\ Grid = Series /\ Final = <<2, 0>>
      /\ Place = <<0, 2, 4, 6, 7, 5, 3, 1>>
  BY ScriptGrid DEF Place
<1>2. /\ file.champion = None
      /\ \A s \in Series : file.rounds[s] = IF s[1] = 0 THEN NewSeries(s[2] + 1, 8 - s[2])
                                            ELSE NewSeries(None, None)
  BY DEF ScriptInit, NewFile
<1>3. \A s \in Series : /\ ~file.rounds[s].done
                        /\ file.rounds[s].high = IF s[1] = 0 THEN s[2] + 1 ELSE None
                        /\ file.rounds[s].low = IF s[1] = 0 THEN 8 - s[2] ELSE None
  <2>2. ASSUME NEW s \in Series
        PROVE  /\ file.rounds[s].done = FALSE
               /\ file.rounds[s].high = IF s[1] = 0 THEN s[2] + 1 ELSE None
               /\ file.rounds[s].low = IF s[1] = 0 THEN 8 - s[2] ELSE None
    <3>1. CASE s[1] = 0
      <4>1. file.rounds[s] = [high |-> s[2] + 1, low |-> 8 - s[2],
                              wins |-> <<0, 0>>, done |-> FALSE]
        BY <3>1, <1>2 DEF NewSeries
      <4> QED  BY <4>1, <3>1
    <3>2. CASE s[1] # 0
      <4>1. file.rounds[s] = [high |-> None, low |-> None, wins |-> <<0, 0>>, done |-> FALSE]
        BY <3>2, <1>2 DEF NewSeries
      <4> QED  BY <4>1, <3>2
    <3> QED  BY <3>1, <3>2
  <2> QED  BY <2>2
<1>4. Done = {} /\ Champ = None /\ Beaten = {}
  BY <1>2, <1>3 DEF Done, Champ, Beaten
<1>5. \A s \in Grid : /\ Slot(s, "high") = IF s[1] = 0 THEN s[2] + 1 ELSE None
                      /\ Slot(s, "low") = IF s[1] = 0 THEN 8 - s[2] ELSE None
  BY <1>1, <1>3 DEF Slot
<1>6. Wins = [e \in 1..Size |-> 0]
  <2>1. \A s \in Series : s # Final => Up(s) \in Series /\ Side(s) \in Slots /\ Up(s)[1] > 0
    BY <1>1, GridUp
  <2>2. \A s \in Series : WentOn(s) = IF s = Final THEN Champ ELSE Slot(Up(s), Side(s))
    BY WentOnUp
  <2>3. \A s \in Series : WentOn(s) = None
    BY <2>1, <2>2, <1>1, <1>4, <1>5 DEF Slots
  <2>4. \A e \in 1..Size : {s \in Series : WentOn(s) = e} = {}
    BY <2>3, <1>1 DEF None
  <2> QED  BY <2>4, FS_EmptySet DEF Wins
<1>7. \A s \in Grid, slot \in Slots :
       IF s[1] = 0
       THEN Slot(s, slot) \in 1..Size /\ Place[Slot(s, slot)] = 2 * s[2] + Rank(slot)
       ELSE Slot(s, slot) = None
  <2>1. ASSUME NEW p \in 0..3
        PROVE  Place[p + 1] = 2 * p /\ Place[8 - p] = 2 * p + 1
    BY <1>1
  <2>2. \A s \in Grid : s[2] \in 0..3  BY <1>1, GridPairs
  <2> QED  BY <2>1, <2>2, <1>1, <1>5 DEF Slots, Rank
<1>8. ASSUME NEW e \in 1..Size
      PROVE  \E s \in Grid, slot \in Slots : Slot(s, slot) = e
  <2>1. CASE e \in 1..4
    <3>1. <<0, e - 1>> \in Grid  BY <2>1, <1>1, SeriesIs
    <3>2. Slot(<<0, e - 1>>, "high") = e  BY <3>1, <2>1, <1>5
    <3> QED  BY <3>1, <3>2 DEF Slots
  <2>2. CASE e \in 5..8
    <3>1. <<0, 8 - e>> \in Grid  BY <2>2, <1>1, SeriesIs
    <3>2. Slot(<<0, 8 - e>>, "low") = e  BY <3>1, <2>2, <1>5
    <3> QED  BY <3>1, <3>2 DEF Slots
  <2> QED  BY <2>1, <2>2, <1>1
<1> QED  BY <1>1, <1>4, <1>6, <1>7, <1>8 DEF Opened

-----------------------------------------------------------------------------
(* BracketState *)

Pairs == [high : 0..8, low : 0..8]
Recordings == [at : (0..2) \X (0..3), winner : 1..8, loser : 1..8]

\* How many rounds n entrants play, and the last position of each.
RoundsOf(n) == CASE n = 8 -> 3 [] n = 4 -> 2 [] n = 2 -> 1
LastOf(n, r) == ((n \div 2) \div 2^r) - 1

IsRounds(rounds, n) ==
  /\ rounds = [r \in 0..RoundsOf(n) - 1 |-> rounds[r]]
  /\ \A r \in 0..RoundsOf(n) - 1 : rounds[r] \in [0..LastOf(n, r) -> Pairs]

\* The driver plays an open series that both sides have come to.
StateOK ==
  /\ StateTypeOK
  /\ bracket = NoBracket => matchup = NoMatchup
  /\ bracket # NoBracket =>
       /\ bracket = [rounds |-> bracket.rounds, results |-> bracket.results]
       /\ bracket.results \in Seq(Recordings)
       /\ \E n \in {2, 4, 8} : IsRounds(bracket.rounds, n)
  /\ matchup # NoMatchup =>
       /\ matchup.at \in Grid \ Done
       /\ matchup.high = Slot(matchup.at, "high") /\ matchup.high # None
       /\ matchup.low = Slot(matchup.at, "low") /\ matchup.low # None

LEMMA LastOfIs ==
  /\ LastOf(8, 0) = 3 /\ LastOf(8, 1) = 1 /\ LastOf(8, 2) = 0
  /\ LastOf(4, 0) = 1 /\ LastOf(4, 1) = 0 /\ LastOf(2, 0) = 0
<1>1. \A n \in {8}, r \in {0} : ((n \div 2) \div 2^r) - 1 = 3
  <2>1. \A r \in {0} : 2^r = 1  OBVIOUS
  <2> QED  BY <2>1
<1>2. \A n \in {8}, r \in {1} : ((n \div 2) \div 2^r) - 1 = 1
  <2>1. \A r \in {1} : 2^r = 2  OBVIOUS
  <2> QED  BY <2>1
<1>3. \A n \in {8}, r \in {2} : ((n \div 2) \div 2^r) - 1 = 0
  <2>1. \A r \in {2} : 2^r = 4  OBVIOUS
  <2> QED  BY <2>1
<1>4. \A n \in {4}, r \in {0} : ((n \div 2) \div 2^r) - 1 = 1
  <2>1. \A r \in {0} : 2^r = 1  OBVIOUS
  <2> QED  BY <2>1
<1>5. \A n \in {4}, r \in {1} : ((n \div 2) \div 2^r) - 1 = 0
  <2>1. \A r \in {1} : 2^r = 2  OBVIOUS
  <2> QED  BY <2>1
<1>6. \A n \in {2}, r \in {0} : ((n \div 2) \div 2^r) - 1 = 0
  <2>1. \A r \in {0} : 2^r = 1  OBVIOUS
  <2> QED  BY <2>1
<1> QED  BY <1>1, <1>2, <1>3, <1>4, <1>5, <1>6 DEF LastOf

\* The rounds of a bracket are those of the grid.
LEMMA RoundsShape ==
  ASSUME entry = "state", bracket # NoBracket, NEW n \in {2, 4, 8},
         IsRounds(bracket.rounds, n)
  PROVE  /\ Size = n /\ SizeOK /\ Rounds = RoundsOf(n)
         /\ Grid = SeriesOf(bracket.rounds)
         /\ DOMAIN bracket.rounds = 0..Rounds - 1
         /\ Cardinality(DOMAIN bracket.rounds) = Rounds
         /\ \A s \in Grid : /\ s[1] \in 0..Rounds - 1 /\ s[2] \in 0..LastOf(n, s[1])
                            /\ bracket.rounds[s[1]][s[2]] \in Pairs
         /\ Slots = {"high", "low"}
<1> DEFINE R == bracket.rounds
<1>1. DOMAIN R = 0..RoundsOf(n) - 1  BY DEF IsRounds
<1>2. RoundsOf(n) \in 1..3  BY DEF RoundsOf
<1>3. \A r \in 0..RoundsOf(n) - 1 : DOMAIN R[r] = 0..LastOf(n, r) /\ R[r] \in [0..LastOf(n, r) -> Pairs]
  BY DEF IsRounds
<1>4. Size = n
  <2>1. DOMAIN R[0] = 0..LastOf(n, 0)  BY <1>2, <1>3
  <2>2. LastOf(n, 0) \in Int /\ LastOf(n, 0) >= 0 /\ 2 * (LastOf(n, 0) + 1) = n
    BY LastOfIs
  <2>3. 0 \in Int  OBVIOUS
  <2>4. Cardinality(0..LastOf(n, 0)) = LastOf(n, 0) + 1
    BY <2>2, <2>3, FS_Interval
  <2> QED  BY <2>1, <2>2, <2>4 DEF Size
<1>5. SizeOK /\ Rounds = RoundsOf(n)
  BY <1>4 DEF SizeOK, Rounds, RoundsOf
<1>6. Grid = SeriesOf(R)
  <2>1. CASE n = 8
    <3>1. DOMAIN R = {0, 1, 2} /\ DOMAIN R[0] = {0, 1, 2, 3} /\ DOMAIN R[1] = {0, 1} /\ DOMAIN R[2] = {0}
      BY <2>1, <1>1, <1>3, LastOfIs DEF RoundsOf
    <3>2. Grid = {<<0, 0>>, <<0, 1>>, <<0, 2>>, <<0, 3>>, <<1, 0>>, <<1, 1>>, <<2, 0>>}
      BY <2>1, <1>4 DEF Grid
    <3> HIDE DEF R
    <3> QED  BY <3>1, <3>2 DEF SeriesOf
  <2>2. CASE n = 4
    <3>1. DOMAIN R = {0, 1} /\ DOMAIN R[0] = {0, 1} /\ DOMAIN R[1] = {0}
      BY <2>2, <1>1, <1>3, LastOfIs DEF RoundsOf
    <3>2. Grid = {<<0, 0>>, <<0, 1>>, <<1, 0>>}
      BY <2>2, <1>4 DEF Grid
    <3> HIDE DEF R
    <3> QED  BY <3>1, <3>2 DEF SeriesOf
  <2>3. CASE n = 2
    <3>1. DOMAIN R = {0} /\ DOMAIN R[0] = {0}
      BY <2>3, <1>1, <1>3, LastOfIs DEF RoundsOf
    <3>2. Grid = {<<0, 0>>}
      BY <2>3, <1>4 DEF Grid
    <3> HIDE DEF R
    <3> QED  BY <3>1, <3>2 DEF SeriesOf
  <2> QED  BY <2>1, <2>2, <2>3
<1>7. Cardinality(DOMAIN R) = Rounds
  <2>1. 0 \in Int /\ Rounds - 1 \in Int /\ Rounds \in 1..3  BY <1>2, <1>5
  <2>2. Cardinality(0..Rounds - 1) = IF 0 > Rounds - 1 THEN 0 ELSE Rounds - 1 - 0 + 1
    BY <2>1, FS_Interval
  <2> QED  BY <2>1, <2>2, <1>1, <1>5
<1>8. \A s \in Grid : /\ s[1] \in 0..Rounds - 1 /\ s[2] \in 0..LastOf(n, s[1])
                      /\ R[s[1]][s[2]] \in Pairs
  <2>1. \A s \in Grid : s[1] \in DOMAIN R /\ s[2] \in DOMAIN R[s[1]]
    BY <1>6 DEF SeriesOf
  <2> QED  BY <2>1, <1>1, <1>3, <1>5
<1> QED  BY <1>1, <1>4, <1>5, <1>6, <1>7, <1>8 DEF Slots

\* What a recorded result leaves in the rounds.
LEMMA ResultSlots ==
  ASSUME entry = "state", bracket # NoBracket, NEW n \in {2, 4, 8},
         IsRounds(bracket.rounds, n), NEW s \in Grid, NEW w \in 0..8, NEW l,
         bracket' = RecordResult(bracket, [at |-> s, winner |-> w, loser |-> l])
  PROVE  /\ bracket' = [rounds |-> bracket'.rounds, results |-> bracket'.results]
         /\ bracket'.results = Append(bracket.results, [at |-> s, winner |-> w, loser |-> l])
         /\ IsRounds(bracket'.rounds, n)
         /\ \A t \in Grid :
              /\ bracket'.rounds[t[1]][t[2]].high =
                   IF s # Final /\ t = Up(s) /\ Side(s) = "high" THEN w
                   ELSE bracket.rounds[t[1]][t[2]].high
              /\ bracket'.rounds[t[1]][t[2]].low =
                   IF s # Final /\ t = Up(s) /\ Side(s) = "low" THEN w
                   ELSE bracket.rounds[t[1]][t[2]].low
<1> DEFINE R == bracket.rounds
           slot == IF s[2] % 2 = 0 THEN "high" ELSE "low"
           a == s[1] + 1
           b == s[2] \div 2
           New(t, x) == s # Final /\ t = Up(s) /\ x = Side(s)
           Kept(t) == /\ bracket'.rounds[t[1]][t[2]].high =
                           IF New(t, "high") THEN w ELSE R[t[1]][t[2]].high
                      /\ bracket'.rounds[t[1]][t[2]].low =
                           IF New(t, "low") THEN w ELSE R[t[1]][t[2]].low
<1>1. /\ SizeOK /\ Rounds = RoundsOf(n) /\ DOMAIN R = 0..Rounds - 1 /\ Rounds \in 1..3
      /\ \A t \in Grid : /\ t[1] \in 0..Rounds - 1 /\ t[2] \in 0..LastOf(n, t[1])
                         /\ R[t[1]][t[2]] \in Pairs
      /\ \A t \in Grid : t = <<t[1], t[2]>> /\ t[1] \in 0..2 /\ t[2] \in 0..3
  BY RoundsShape, GridPairs
<1>2. /\ bracket' = [rounds  |-> AdvanceWinner(R, [at |-> s, winner |-> w, loser |-> l]),
                     results |-> Append(bracket.results, [at |-> s, winner |-> w, loser |-> l])]
  BY DEF RecordResult
<1>3. bracket'.rounds = IF a \notin DOMAIN R THEN R ELSE [R EXCEPT ![a][b][slot] = w]
  BY <1>2 DEF AdvanceWinner
<1>4. s = Final <=> a \notin DOMAIN R
  <2>1. s # Final => Up(s) \in Grid /\ Up(s)[1] = a  BY <1>1, GridUp
  <2>2. Final[1] = Rounds - 1  BY DEF Final
  <2> QED  BY <2>1, <2>2, <1>1
<1>5. Side(s) = slot  BY DEF Side
<1>6. s # Final => /\ Up(s) \in Grid /\ Up(s) = <<a, b>> /\ a \in 0..Rounds - 1
                   /\ b \in 0..LastOf(n, a)
  <2>1. s # Final => Up(s) \in Grid  BY <1>1, GridUp
  <2>2. Up(s)[1] = a /\ Up(s)[2] = b  BY DEF Up
  <2> QED  BY <2>1, <2>2, <1>1 DEF Up
<1>7. /\ bracket' = [rounds |-> bracket'.rounds, results |-> bracket'.results]
      /\ bracket'.results = Append(bracket.results, [at |-> s, winner |-> w, loser |-> l])
  BY <1>2
<1>8. CASE s = Final
  <2>1. bracket'.rounds = R  BY <1>3, <1>4, <1>8
  <2>2. IsRounds(bracket'.rounds, n)  BY <2>1 DEF IsRounds
  <2>3. \A t \in Grid : Kept(t)  BY <2>1, <1>8
  <2> QED  BY <2>2, <2>3, <1>7
<1>9. CASE s # Final
  <2>0. /\ a \in DOMAIN R /\ a \in 0..RoundsOf(n) - 1 /\ b \in 0..LastOf(n, a)
        /\ R[a] \in [0..LastOf(n, a) -> Pairs] /\ R[a][b] \in Pairs
        /\ R = [r \in 0..RoundsOf(n) - 1 |-> R[r]]
        /\ \A r \in 0..RoundsOf(n) - 1 : R[r] \in [0..LastOf(n, r) -> Pairs]
    BY <1>1, <1>6, <1>9 DEF IsRounds
  <2>1. \A t \in Grid : /\ t[1] \in 0..RoundsOf(n) - 1 /\ t[2] \in 0..LastOf(n, t[1])
                        /\ t = Up(s) <=> t[1] = a /\ t[2] = b
    BY <1>1, <1>6, <1>9
  <2> HIDE DEF R, a, b
  <2>2. CASE slot = "high"
    <3> DEFINE cell == [R[a][b] EXCEPT !.high = w]
               row  == [R[a] EXCEPT ![b] = cell]
               all  == [R EXCEPT ![a] = row]
    <3>1. bracket'.rounds = all  BY <1>3, <1>4, <1>9, <2>2
    <3>2. cell \in Pairs /\ cell.high = w /\ cell.low = R[a][b].low
      BY <2>0 DEF Pairs
    <3> HIDE DEF cell
    <3>3. /\ row \in [0..LastOf(n, a) -> Pairs]
          /\ \A p \in 0..LastOf(n, a) : row[p] = IF p = b THEN cell ELSE R[a][p]
      BY <2>0, <3>2
    <3> HIDE DEF row
    <3>4. \A r \in 0..RoundsOf(n) - 1 : all[r] = IF r = a THEN row ELSE R[r]
      BY <2>0
    <3>5. all = [r \in 0..RoundsOf(n) - 1 |-> all[r]]
      BY <2>0
    <3> HIDE DEF all
    <3>6. IsRounds(bracket'.rounds, n)
      BY <3>1, <3>3, <3>4, <3>5, <2>0 DEF IsRounds
    <3>7. \A t \in Grid : Kept(t)
      <4>1. ASSUME NEW t \in Grid  PROVE Kept(t)
        <5>1. t[1] \in 0..RoundsOf(n) - 1 /\ t[2] \in 0..LastOf(n, t[1])
          BY <2>1
        <5>2. bracket'.rounds[t[1]][t[2]] = IF t = Up(s) THEN cell ELSE R[t[1]][t[2]]
          BY <5>1, <2>1, <3>1, <3>3, <3>4
        <5> QED  BY <5>2, <2>1, <3>2, <2>2, <1>5, <1>9
      <4> QED  BY <4>1
    <3> QED  BY <3>6, <3>7, <1>7 DEF R
  <2>3. CASE slot = "low"
    <3> DEFINE cell == [R[a][b] EXCEPT !.low = w]
               row  == [R[a] EXCEPT ![b] = cell]
               all  == [R EXCEPT ![a] = row]
    <3>1. bracket'.rounds = all  BY <1>3, <1>4, <1>9, <2>3
    <3>2. cell \in Pairs /\ cell.low = w /\ cell.high = R[a][b].high
      BY <2>0 DEF Pairs
    <3> HIDE DEF cell
    <3>3. /\ row \in [0..LastOf(n, a) -> Pairs]
          /\ \A p \in 0..LastOf(n, a) : row[p] = IF p = b THEN cell ELSE R[a][p]
      BY <2>0, <3>2
    <3> HIDE DEF row
    <3>4. \A r \in 0..RoundsOf(n) - 1 : all[r] = IF r = a THEN row ELSE R[r]
      BY <2>0
    <3>5. all = [r \in 0..RoundsOf(n) - 1 |-> all[r]]
      BY <2>0
    <3> HIDE DEF all
    <3>6. IsRounds(bracket'.rounds, n)
      BY <3>1, <3>3, <3>4, <3>5, <2>0 DEF IsRounds
    <3>7. \A t \in Grid : Kept(t)
      <4>1. ASSUME NEW t \in Grid  PROVE Kept(t)
        <5>1. t[1] \in 0..RoundsOf(n) - 1 /\ t[2] \in 0..LastOf(n, t[1])
          BY <2>1
        <5>2. bracket'.rounds[t[1]][t[2]] = IF t = Up(s) THEN cell ELSE R[t[1]][t[2]]
          BY <5>1, <2>1, <3>1, <3>3, <3>4
        <5> QED  BY <5>2, <2>1, <3>2, <2>3, <1>5, <1>9
      <4> QED  BY <4>1
    <3> QED  BY <3>6, <3>7, <1>7 DEF R
  <2> QED  BY <2>2, <2>3
<1> QED  BY <1>8, <1>9

\* While a series is open, the final is, and there is no champion.
LEMMA OpenNotOver ==
  ASSUME GridTypes, Fed, NEW s \in Grid \ Done
  PROVE  Final \notin Done /\ Champ = None
<1>1. Final \notin Done
  <2> SUFFICES ASSUME Final \in Done PROVE FALSE
    OBVIOUS
  <2>1. \A x \in Slots : Slot(Final, x) # None  BY DEF Fed
  <2>2. s = Final \/ s \in Done  BY <2>1, FinalIsLast
  <2> QED  BY <2>2
<1> QED  BY <1>1 DEF Fed

\* A result that is recorded is one of an open series.
LEMMA RecordSeriesIsRecorded ==
  ASSUME entry = "state", UNCHANGED entry, GridOK, StateOK, RecordSeries
  PROVE  /\ \E s, slot, other : Recorded(s, slot, other)
         /\ StateOK'
<1> DEFINE R == bracket.rounds
<1>1. PICK winner \in {matchup.high, matchup.low} :
        bracket' = RecordResult(bracket,
                     [at |-> matchup.at, winner |-> winner,
                      loser |-> IF winner = matchup.high THEN matchup.low ELSE matchup.high])
  BY DEF RecordSeries
<1>2. matchup # NoMatchup /\ matchup' = NoMatchup /\ bracket # NoBracket
  BY DEF RecordSeries, StateOK
<1>3. PICK n \in {2, 4, 8} : IsRounds(R, n)
  BY <1>2 DEF StateOK
<1>4. PICK s, slot, other, w, l :
        /\ s = matchup.at /\ w = winner
        /\ l = IF winner = matchup.high THEN matchup.low ELSE matchup.high
        /\ slot = IF winner = matchup.high THEN "high" ELSE "low"
        /\ other = IF winner = matchup.high THEN "low" ELSE "high"
  OBVIOUS
<1>5. /\ s \in Grid /\ s \notin Done /\ slot \in Slots /\ other \in Slots /\ slot # other
      /\ w = Slot(s, slot) /\ w # None /\ l = Slot(s, other) /\ l # None
  BY <1>2, <1>4 DEF StateOK, Slots
<1>6. bracket' = RecordResult(bracket, [at |-> s, winner |-> w, loser |-> l])
  BY <1>1, <1>4
<1> DEFINE result == [at |-> s, winner |-> w, loser |-> l]
           New(t, x) == s # Final /\ t = Up(s) /\ x = Side(s)
<1>7. GridTypes /\ Fed  BY DEF GridOK
<1>8. w \in 1..8 /\ l \in 1..8 /\ w \in 1..Size /\ l \in 1..Size /\ w \in 0..8
  <2>1. Size \in {0, 2, 4, 8}  BY <1>7 DEF GridTypes, SizeOK
  <2>2. w \in 0..Size /\ l \in 0..Size  BY <1>5, <1>7 DEF GridTypes
  <2>3. w # 0 /\ l # 0  BY <1>5 DEF None
  <2> QED  BY <2>1, <2>2, <2>3
<1>8a. /\ bracket' = [rounds |-> bracket'.rounds, results |-> bracket'.results]
      /\ bracket'.results = Append(bracket.results, [at |-> s, winner |-> w, loser |-> l])
      /\ IsRounds(bracket'.rounds, n)
      /\ \A t \in Grid :
           /\ bracket'.rounds[t[1]][t[2]].high =
                IF s # Final /\ t = Up(s) /\ Side(s) = "high" THEN w
                ELSE bracket.rounds[t[1]][t[2]].high
           /\ bracket'.rounds[t[1]][t[2]].low =
                IF s # Final /\ t = Up(s) /\ Side(s) = "low" THEN w
                ELSE bracket.rounds[t[1]][t[2]].low
  <2>1. entry = "state" /\ bracket # NoBracket /\ n \in {2, 4, 8}
        /\ IsRounds(bracket.rounds, n) /\ s \in Grid /\ w \in 0..8
    BY <1>2, <1>3, <1>5, <1>8
  <2> HIDE DEF result, New, R
  <2> QED  BY <2>1, <1>6, ResultSlots, Zenon
<1>9. /\ bracket' = [rounds |-> bracket'.rounds, results |-> bracket'.results]
      /\ bracket'.results = Append(bracket.results, result)
      /\ IsRounds(bracket'.rounds, n)
  BY <1>8a
<1>10. \A t \in Grid :
         /\ bracket'.rounds[t[1]][t[2]].high =
              IF New(t, "high") THEN w ELSE R[t[1]][t[2]].high
         /\ bracket'.rounds[t[1]][t[2]].low =
              IF New(t, "low") THEN w ELSE R[t[1]][t[2]].low
  BY <1>8a
<1>11. bracket' # NoBracket
  <2>1. 0 \in DOMAIN bracket'.rounds
    BY <1>9 DEF IsRounds, RoundsOf
  <2>2. DOMAIN NoBracket.rounds = {}  BY DEF NoBracket
  <2> QED  BY <2>1, <2>2
<1>12. /\ Size = n /\ Size' = n /\ SizeOK /\ Rounds = RoundsOf(n)
       /\ Cardinality(DOMAIN bracket.rounds) = Rounds
       /\ Cardinality(DOMAIN bracket'.rounds) = RoundsOf(n)
  <2>1. /\ Size = n /\ SizeOK /\ Rounds = RoundsOf(n)
        /\ Cardinality(DOMAIN bracket.rounds) = Rounds
    BY <1>2, <1>3, RoundsShape
  <2>2. /\ DOMAIN bracket'.rounds = DOMAIN bracket.rounds
        /\ DOMAIN bracket'.rounds[0] = DOMAIN bracket.rounds[0]
    <3>1. 0 \in 0..RoundsOf(n) - 1  BY DEF RoundsOf
    <3>2. /\ DOMAIN bracket.rounds = 0..RoundsOf(n) - 1
          /\ DOMAIN bracket.rounds[0] = 0..LastOf(n, 0)
      BY <3>1, <1>3 DEF IsRounds
    <3>3. /\ DOMAIN bracket'.rounds = 0..RoundsOf(n) - 1
          /\ DOMAIN bracket'.rounds[0] = 0..LastOf(n, 0)
      BY <3>1, <1>9 DEF IsRounds
    <3> QED  BY <3>2, <3>3
  <2>3. Size' = Size
    BY <2>2, <1>2, <1>11 DEF Size
  <2> QED  BY <2>1, <2>2, <2>3
<1>13. /\ Place' = Place /\ Grid' = Grid /\ Final' = Final /\ SizeOK'
  BY <1>12 DEF Place, Grid, Final, Rounds, SizeOK
<1>14. /\ bracket.results \in Seq(Recordings) /\ result \in Recordings
       /\ s = <<s[1], s[2]>> /\ s[1] \in 0..2 /\ s[2] \in 0..3
  <2>1. s = <<s[1], s[2]>> /\ s[1] \in 0..2 /\ s[2] \in 0..3
    BY <1>5, <1>12, GridPairs
  <2> QED  BY <2>1, <1>2, <1>8 DEF StateOK, Recordings
<1> DEFINE m == Len(bracket.results)
<1>15. /\ m \in Nat /\ DOMAIN bracket.results = 1..m
       /\ bracket'.results \in Seq(Recordings)
       /\ DOMAIN bracket'.results = (1..m) \cup {m + 1} /\ m + 1 \notin 1..m
       /\ \A i \in 1..m : bracket'.results[i] = bracket.results[i]
       /\ bracket'.results[m + 1] = result
  BY <1>9, <1>14
<1> HIDE DEF m
<1>16. Done' = Done \cup {s}
  <2>1. Done = {bracket.results[i].at : i \in 1..m}
    BY <1>15 DEF Done, Completed
  <2>2. Done' = {bracket'.results[i].at : i \in (1..m) \cup {m + 1}}
    BY <1>15 DEF Done, Completed
  <2>3. result.at = s  OBVIOUS
  <2> HIDE DEF result
  <2>4. \A t : t \in Done' <=> t \in Done \/ t = s
    BY <2>1, <2>2, <2>3, <1>15
  <2> QED  BY <2>4
<1>17. \A t \in Grid, x \in Slots : Slot(t, x)' = IF New(t, x) THEN w ELSE Slot(t, x)
  BY <1>10 DEF Slot, Slots
<1>18. Champ' = IF s = Final THEN w ELSE Champ
  <2> DEFINE of == {i \in 1..m : bracket.results[i].at = Final}
             new == {i \in (1..m) \cup {m + 1} : bracket'.results[i].at = Final}
  <2>1. Final \notin Done /\ Champ = None  BY <1>5, <1>7, OpenNotOver
  <2>2. of = {}  BY <2>1, <1>15 DEF Done, Completed
  <2>3. new = IF s = Final THEN {m + 1} ELSE {}
    BY <2>2, <1>15
  <2>4. Champ' = Champion(bracket')
    BY <1>11 DEF Champ
  <2>5. <<Cardinality(DOMAIN bracket'.rounds) - 1, 0>> = Final
    BY <1>12 DEF Final
  <2>6. Champion(bracket') = IF new = {} THEN TBD ELSE bracket'.results[Min(new)].winner
    BY <2>5, <1>15 DEF Champion
  <2> HIDE DEF new
  <2>7. CASE s = Final
    <3>1. Min(new) = m + 1
      BY <2>3, <2>7, <1>15 DEF Min
    <3> QED  BY <3>1, <2>3, <2>4, <2>6, <2>7, <1>15
  <2>8. CASE s # Final
    BY <2>1, <2>3, <2>4, <2>6, <2>8 DEF TBD, None
  <2> QED  BY <2>7, <2>8
<1>19. Wins' = [Wins EXCEPT ![w] = @ + 1]
  <2> DEFINE of(e) == {i \in 1..m : bracket.results[i].winner = e}
             new(e) == {i \in (1..m) \cup {m + 1} : bracket'.results[i].winner = e}
  <2>1. Wins = [e \in 1..n |-> Cardinality(of(e))]
    BY <1>12, <1>15 DEF Wins
  <2>2. Wins' = [e \in 1..n |-> Cardinality(new(e))]
    BY <1>12, <1>15 DEF Wins
  <2>3. result.winner = w  OBVIOUS
  <2>4. new(w) = of(w) \cup {m + 1} /\ m + 1 \notin of(w)
    BY <2>3, <1>15
  <2>5. \A e : e # w => new(e) = of(e)
    BY <2>3, <1>15
  <2>6. IsFiniteSet(of(w))
    <3>1. 1 \in Int /\ m \in Int  BY <1>15
    <3>2. IsFiniteSet(1..m)  BY <3>1, FS_Interval
    <3> QED  BY <3>2, FS_Subset
  <2> HIDE DEF of, new
  <2>7. Cardinality(new(w)) = Cardinality(of(w)) + 1
    BY <2>4, <2>6, FS_AddElement
  <2> QED  BY <2>1, <2>2, <2>5, <2>7
<1>20. Beaten' = Beaten \cup {l}
  <2>1. Beaten = {bracket.results[i].loser : i \in 1..m}
    BY <1>15 DEF Beaten
  <2>2. Beaten' = {bracket'.results[i].loser : i \in (1..m) \cup {m + 1}}
    BY <1>15 DEF Beaten
  <2>3. result.loser = l  OBVIOUS
  <2> HIDE DEF result
  <2>4. \A t : t \in Beaten' <=> t \in Beaten \/ t = l
    BY <2>1, <2>2, <2>3, <1>15
  <2> QED  BY <2>4
<1>21. Recorded(s, slot, other)
  BY <1>5, <1>12, <1>13, <1>16, <1>17, <1>18, <1>19, <1>20 DEF Recorded
<1>22. StateOK'
  <2>1. \A i \in DOMAIN bracket'.results :
          bracket'.results[i] \in [at : (0..2) \X (0..3), winner : 1..8, loser : 1..8]
    <3>1. \A i \in DOMAIN bracket'.results : bracket'.results[i] \in Recordings
      BY <1>15
    <3> QED  BY <3>1 DEF Recordings
  <2>2. \A r \in DOMAIN bracket'.rounds : \A p \in DOMAIN bracket'.rounds[r] :
          bracket'.rounds[r][p] \in [high : 0..8, low : 0..8]
    BY <1>9 DEF IsRounds, Pairs
  <2>3. matchup' \in [at : (0..2) \X (0..3), high : 0..8, low : 0..8]
    BY <1>2 DEF NoMatchup, TBD
  <2> QED  BY <2>1, <2>2, <2>3, <1>2, <1>9, <1>11, <1>15 DEF StateOK, StateTypeOK
<1> QED  BY <1>21, <1>22

\* What the bracket is does not depend on the matchup.
LEMMA SameBracket ==
  ASSUME entry = "state", UNCHANGED <<entry, bracket>>, GridOK
  PROVE  /\ GridOK' /\ Grid' = Grid /\ Done' = Done
         /\ \A s, x : Slot(s, x)' = Slot(s, x)
         /\ Size' = Size /\ Place' = Place /\ Wins' = Wins /\ Beaten' = Beaten
<1>1. entry = "state" /\ entry' = "state" /\ bracket' = bracket  OBVIOUS
<1>2. Size' = Size  BY <1>1 DEF Size
<1>3. /\ Place' = Place /\ SizeOK' = SizeOK /\ Grid' = Grid /\ Final' = Final
  BY <1>1, <1>2 DEF Place, SizeOK, Grid, Final, Rounds
<1>4. Done' = Done /\ Champ' = Champ
  BY <1>1 DEF Done, Champ, Completed, Champion
<1>5. \A s, x : Slot(s, x)' = Slot(s, x)  BY <1>1 DEF Slot
<1>6. Wins' = Wins /\ Beaten' = Beaten
  BY <1>1, <1>2 DEF Wins, Beaten
<1>8. GridTypes'  BY <1>2, <1>3, <1>4, <1>5, <1>6 DEF GridOK, GridTypes
<1>9. Fed' /\ Placed'  BY <1>3, <1>4, <1>5 DEF GridOK, Fed, Placed
<1>10. Standing'  BY <1>3, <1>4, <1>5, <1>6 DEF GridOK, Standing
<1>11. Accounted'  BY <1>2, <1>3, <1>4, <1>5, <1>6 DEF GridOK, Accounted
<1> QED  BY <1>2, <1>3, <1>4, <1>5, <1>6, <1>8, <1>9, <1>10, <1>11 DEF GridOK

\* The next series is one both sides have come to.
LEMMA TakeSeriesKeepsOK ==
  ASSUME entry = "state", UNCHANGED entry, GridOK, StateOK, TakeSeries
  PROVE  StateOK'
<1> DEFINE open == SeriesOf(bracket.rounds) \ Completed(bracket)
           first(s) == \A t \in open : s[1] < t[1] \/ (s[1] = t[1] /\ s[2] <= t[2])
<1>1. /\ bracket # NoBracket /\ bracket' = bracket
      /\ NextSeries(bracket) # NoMatchup /\ matchup' = NextSeries(bracket)
  BY DEF TakeSeries
<1>2. PICK n \in {2, 4, 8} : IsRounds(bracket.rounds, n)
  BY <1>1 DEF StateOK
<1>3. /\ SizeOK /\ Grid = SeriesOf(bracket.rounds)
      /\ \A s \in Grid : bracket.rounds[s[1]][s[2]] \in Pairs
  BY <1>1, <1>2, RoundsShape
<1>4. open = Grid \ Done  BY <1>3 DEF Done
<1>5. NextSeries(bracket) = IF open = {} THEN NoMatchup
                            ELSE Matchup(bracket, CHOOSE s \in open : first(s))
  BY DEF NextSeries
<1>6. open # {}  BY <1>1, <1>5
<1>7. /\ Grid \subseteq Series
      /\ \A s \in Grid : s = <<s[1], s[2]>> /\ s[1] \in 0..2 /\ s[2] \in 0..3
  BY <1>3, SeriesIs, GridPairs DEF SizeOK, Grid
<1>8. \E s \in open : first(s)
  <2>1. open \subseteq Series  BY <1>4, <1>7
  <2>2. PICK s \in open : \A t \in open : s = t \/ Before(s, t)
    BY <2>1, <1>6, FirstExists
  <2>3. \A t \in open : t[1] \in 0..2 /\ t[2] \in 0..3
    BY <2>2, <1>4, <1>7
  <2>4. first(s)
    <3>1. ASSUME NEW t \in open
          PROVE  s[1] < t[1] \/ (s[1] = t[1] /\ s[2] <= t[2])
      <4>1. s[2] \in 0..3 /\ t[2] \in 0..3  BY <2>2, <2>3
      <4>2. CASE s = t  BY <4>1, <4>2
      <4>3. CASE s # t  BY <4>1, <4>3, <2>2 DEF Before
      <4> QED  BY <4>2, <4>3
    <3> QED  BY <3>1
  <2> QED  BY <2>2, <2>4
<1>9. PICK s \in open : first(s) /\ matchup' = Matchup(bracket, s)
  BY <1>1, <1>5, <1>6, <1>8
<1>10. /\ matchup'.at = s /\ matchup'.high = Slot(s, "high") /\ matchup'.low = Slot(s, "low")
       /\ matchup' \in [at : (0..2) \X (0..3), high : 0..8, low : 0..8]
  <2>1. s \in Grid  BY <1>4, <1>9
  <2>2. matchup' = [at |-> s, high |-> Slot(s, "high"), low |-> Slot(s, "low")]
    BY <1>9 DEF Matchup, Slot
  <2>3. s \in (0..2) \X (0..3) /\ bracket.rounds[s[1]][s[2]] \in Pairs
    BY <2>1, <1>3, <1>7
  <2>4. Slot(s, "high") \in 0..8 /\ Slot(s, "low") \in 0..8
    BY <2>3 DEF Slot, Pairs
  <2> QED  BY <2>2, <2>3, <2>4
<1>11. \A slot \in Slots : Slot(s, slot) # None
  <2>1. Fed  BY DEF GridOK
  <2>2. s \in Grid /\ s[1] \in 0..2  BY <1>4, <1>7, <1>9
  <2>3. ASSUME NEW slot \in Slots  PROVE s[1] = 0 \/ Parent(s, slot) \in Done
    <3> SUFFICES ASSUME s[1] > 0, Parent(s, slot) \notin Done  PROVE FALSE
      BY <2>2
    <3>1. Parent(s, slot) \in Grid /\ Parent(s, slot)[1] = s[1] - 1
      BY <2>2, <1>3, GridDown
    <3>2. Parent(s, slot) \in open  BY <3>1, <1>4
    <3> QED  BY <3>1, <3>2, <2>2, <1>9
  <2> QED  BY <2>1, <2>2, <2>3 DEF Fed
<1>12. /\ Grid' = Grid /\ Done' = Done /\ \A t, x : Slot(t, x)' = Slot(t, x)
  BY <1>1, SameBracket
<1>13. /\ matchup'.at \in Grid' \ Done'
       /\ matchup'.high # None /\ matchup'.low # None
  BY <1>4, <1>9, <1>10, <1>11, <1>12 DEF Slots
<1>14. (/\ matchup.high = Slot(matchup.at, "high")
        /\ matchup.low = Slot(matchup.at, "low"))'
  <2>1. /\ matchup'.high = bracket'.rounds[s[1]][s[2]].high
        /\ matchup'.low = bracket'.rounds[s[1]][s[2]].low
    BY <1>1, <1>10 DEF Slot
  <2>2. entry' = "state"  OBVIOUS
  <2> QED  BY <2>1, <2>2, <1>10 DEF Slot
<1>15. StateTypeOK'
  BY <1>1, <1>10 DEF StateOK, StateTypeOK
<1> QED  BY <1>1, <1>2, <1>13, <1>14, <1>15 DEF StateOK

\* A recorded result is played; asking for the next series is not seen.
LEMMA StateStep ==
  ASSUME entry = "state", UNCHANGED <<entry, scriptVars>>, GridOK, StateOK, StateNext,
         ~(~file.whole /\ script \in {"killed", "done"})
  PROVE  GridOK' /\ StateOK' /\ (Bracket!Next \/ UNCHANGED Bracket!vars)
<1>0. ~(~file.whole /\ script \in {"killed", "done"})'  BY DEF scriptVars
<1>1. CASE RecordSeries
  <2>1. PICK s, slot, other : Recorded(s, slot, other)
    BY <1>1, RecordSeriesIsRecorded
  <2>2. StateOK'  BY <1>1, RecordSeriesIsRecorded
  <2>3. GridOK'  BY <2>1, RecordedIsPlay
  <2>4. Bracket!Play  BY <2>1, <1>0, PlaysOn
  <2> QED  BY <2>2, <2>3, <2>4 DEF Bracket!Next
<1>2. CASE TakeSeries
  <2>1. UNCHANGED bracket  BY <1>2 DEF TakeSeries
  <2>2. /\ GridOK' /\ Size' = Size /\ Place' = Place /\ Wins' = Wins /\ Beaten' = Beaten
    BY <2>1, SameBracket
  <2>3. StateOK'  BY <1>2, TakeSeriesKeepsOK
  <2>4. UNCHANGED <<file, script>>  BY DEF scriptVars
  <2>5. UNCHANGED Bracket!vars
    BY <2>1, <2>2, <2>4 DEF Bracket!vars, Champion
  <2> QED  BY <2>2, <2>3, <2>5
<1> QED  BY <1>1, <1>2 DEF StateNext

\* The brackets that are built, and the one that is refused.
LEMMA StateOpens ==
  ASSUME entry = "state", StateInit
  PROVE  Opened /\ StateOK
<1>0. matchup = NoMatchup  BY DEF StateInit
<1>1. NoMatchup \in [at : (0..2) \X (0..3), high : 0..8, low : 0..8]
  BY DEF NoMatchup, TBD
<1>2. NoBracket.results = <<>> /\ NoBracket.rounds = <<>> /\ DOMAIN <<>> = {}
  BY DEF NoBracket
<1>3. CASE bracket = NoBracket
  <2>1. Size = 0 /\ SizeOK /\ Grid = {} /\ 1..Size = {}
    BY <1>3 DEF Size, SizeOK, Grid
  <2>2. Done = {} /\ Champ = None /\ Beaten = {}
    BY <1>2, <1>3 DEF Done, Completed, Champ, Beaten
  <2>3. Wins = [e \in 1..Size |-> 0]  BY <2>1 DEF Wins
  <2>4. Opened  BY <2>1, <2>2, <2>3 DEF Opened
  <2>5. StateOK  BY <1>0, <1>1, <1>2, <1>3 DEF StateOK, StateTypeOK
  <2> QED  BY <2>4, <2>5
<1>4. ASSUME bracket # NoBracket
      PROVE  Opened /\ StateOK
  <2>1. PICK n \in {2, 4, 8} : bracket = BuildBracket(n)
    BY <1>4 DEF StateInit, Supported
  <2> DEFINE half == n \div 2
             pair(i) == [high |-> i + 1, low |-> n - i]
             R == bracket.rounds
  <2>2. RoundCount(n) = RoundsOf(n)
    <3>1. \A k \in {1} : 2^k = 2  OBVIOUS
    <3>2. \A k \in {2} : 2^k = 4  OBVIOUS
    <3>3. \A k \in {3} : 2^k = 8
      OBVIOUS
    <3>4. 1..3 = {1, 2, 3}  OBVIOUS
    <3>5. \A k \in 1..3 : 2^k = n <=> k = RoundsOf(n)
      <4>1. ASSUME NEW k \in {1, 2, 3}  PROVE 2^k = n <=> k = RoundsOf(n)
        <5>1. CASE k = 1
          <6>1. 2^k = 2  BY <3>1, <5>1
          <6> QED  BY <6>1, <5>1 DEF RoundsOf
        <5>2. CASE k = 2
          <6>1. 2^k = 4  BY <3>2, <5>2
          <6> QED  BY <6>1, <5>2 DEF RoundsOf
        <5>3. CASE k = 3
          <6>1. 2^k = 8  BY <3>3, <5>3
          <6> QED  BY <6>1, <5>3 DEF RoundsOf
        <5> QED  BY <5>1, <5>2, <5>3
      <4> QED  BY <4>1, <3>4
    <3>6. RoundsOf(n) \in 1..3  BY DEF RoundsOf
    <3> QED  BY <3>5, <3>6 DEF RoundCount
  <2>3. /\ bracket = [rounds |-> R, results |-> <<>>]
        /\ R = [r \in 0..RoundsOf(n) - 1 |->
                  [p \in 0..LastOf(n, r) |->
                     IF r = 0 THEN pair(BracketOrder(half, p))
                              ELSE [high |-> TBD, low |-> TBD]]]
    BY <2>1, <2>2 DEF BuildBracket, LastOf
  <2>4. \A p \in 0..LastOf(n, 0) : BracketOrder(half, p) \in 0..LastOf(n, 0) /\ LastOf(n, 0) = half - 1
    BY LastOfIs DEF BracketOrder
  <2>5. /\ R = [r \in 0..RoundsOf(n) - 1 |-> R[r]]
        /\ \A r \in 0..RoundsOf(n) - 1 :
             R[r] = [p \in 0..LastOf(n, r) |->
                       IF r = 0 THEN pair(BracketOrder(half, p))
                                ELSE [high |-> TBD, low |-> TBD]]
    BY <2>3
  <2>6. IsRounds(R, n)
    <3>1. \A p \in 0..LastOf(n, 0) : pair(BracketOrder(half, p)) \in Pairs
      BY <2>4 DEF Pairs
    <3>2. [high |-> TBD, low |-> TBD] \in Pairs  BY DEF Pairs, TBD
    <3> HIDE DEF pair, R
    <3> QED  BY <2>5, <3>1, <3>2 DEF IsRounds
  <2>7. /\ Size = n /\ SizeOK /\ Rounds = RoundsOf(n)
        /\ \A s \in Grid : s[1] \in 0..Rounds - 1 /\ s[2] \in 0..LastOf(n, s[1])
    BY <1>4, <2>6, RoundsShape
  <2>8. ASSUME NEW s \in Grid
        PROVE  /\ Slot(s, "high") = IF s[1] = 0 THEN BracketOrder(half, s[2]) + 1 ELSE None
               /\ Slot(s, "low") = IF s[1] = 0 THEN n - BracketOrder(half, s[2]) ELSE None
    <3>1. R[s[1]][s[2]] = IF s[1] = 0 THEN pair(BracketOrder(half, s[2]))
                          ELSE [high |-> TBD, low |-> TBD]
      <4>1. s[1] \in 0..RoundsOf(n) - 1 /\ s[2] \in 0..LastOf(n, s[1])  BY <2>7
      <4>2. R[s[1]] = [p \in 0..LastOf(n, s[1]) |->
                         IF s[1] = 0 THEN pair(BracketOrder(half, p))
                                     ELSE [high |-> TBD, low |-> TBD]]
        BY <4>1, <2>5
      <4> HIDE DEF R, pair
      <4> QED  BY <4>1, <4>2
    <3>2. CASE s[1] = 0
      <4>1. R[s[1]][s[2]] = pair(BracketOrder(half, s[2]))  BY <3>1, <3>2
      <4> QED  BY <4>1, <3>2 DEF Slot
    <3>3. CASE s[1] # 0
      <4>1. R[s[1]][s[2]] = [high |-> TBD, low |-> TBD]  BY <3>1, <3>3
      <4> QED  BY <4>1, <3>3 DEF Slot, TBD, None
    <3> QED  BY <3>2, <3>3
  <2>9. Done = {} /\ Champ = None /\ Beaten = {} /\ Wins = [e \in 1..Size |-> 0]
    <3>1. bracket.results = <<>> /\ DOMAIN bracket.results = {}
      BY <2>3
    <3>2. Done = {} /\ Beaten = {}  BY <3>1 DEF Done, Beaten, Completed
    <3>3. Champ = None  BY <3>1, <1>4 DEF Champ, Champion, TBD, None
    <3>4. \A e : {i \in DOMAIN bracket.results : bracket.results[i].winner = e} = {}
      BY <3>1
    <3>5. Wins = [e \in 1..Size |-> 0]  BY <3>4, FS_EmptySet DEF Wins
    <3> QED  BY <3>2, <3>3, <3>5
  <2>10. \A s \in Grid, slot \in Slots :
           IF s[1] = 0
           THEN Slot(s, slot) \in 1..Size /\ Place[Slot(s, slot)] = 2 * s[2] + Rank(slot)
           ELSE Slot(s, slot) = None
    <3>1. ASSUME NEW p \in 0..LastOf(n, 0)
          PROVE  /\ BracketOrder(half, p) + 1 \in 1..n /\ n - BracketOrder(half, p) \in 1..n
                 /\ Place[BracketOrder(half, p) + 1] = 2 * p
                 /\ Place[n - BracketOrder(half, p)] = 2 * p + 1
      <4>1. CASE n = 8
        <5>1. Place = <<0, 6, 4, 2, 3, 5, 7, 1>>  BY <2>7, <4>1 DEF Place
        <5>2. p \in 0..3 /\ half = 4  BY <4>1, LastOfIs
        <5>3. BracketOrder(half, p) = (4 - p) % 4  BY <5>2 DEF BracketOrder
        <5>4. p \in {0, 1, 2, 3}  BY <5>2
        <5> QED  BY <5>1, <5>3, <5>4, <4>1
      <4>2. CASE n = 4
        <5>1. Place = <<0, 2, 3, 1>>  BY <2>7, <4>2 DEF Place
        <5>2. p \in 0..1 /\ half = 2  BY <4>2, LastOfIs
        <5>3. BracketOrder(half, p) = p  BY <5>2 DEF BracketOrder
        <5>4. p \in {0, 1}  BY <5>2
        <5> QED  BY <5>1, <5>3, <5>4, <4>2
      <4>3. CASE n = 2
        <5>1. Place = <<0, 1>>  BY <2>7, <4>3 DEF Place
        <5>2. p \in 0..0 /\ half = 1  BY <4>3, LastOfIs
        <5>3. BracketOrder(half, p) = p  BY <5>2 DEF BracketOrder
        <5>4. p = 0  BY <5>2
        <5> QED  BY <5>1, <5>3, <5>4, <4>3
      <4> QED  BY <4>1, <4>2, <4>3
    <3>2. ASSUME NEW s \in Grid, NEW slot \in Slots
          PROVE  IF s[1] = 0
                 THEN Slot(s, slot) \in 1..Size /\ Place[Slot(s, slot)] = 2 * s[2] + Rank(slot)
                 ELSE Slot(s, slot) = None
      <4>1. CASE s[1] # 0  BY <4>1, <2>8 DEF Slots
      <4>2. CASE s[1] = 0
        <5>1. s[2] \in 0..LastOf(n, 0)  BY <4>2, <2>7
        <5>2. CASE slot = "high"
          <6>1. Slot(s, slot) = BracketOrder(half, s[2]) + 1 /\ Rank(slot) = 0
            BY <5>2, <4>2, <2>8 DEF Rank
          <6>2. s[2] \in Int  BY <5>1
          <6> QED  BY <6>1, <6>2, <5>1, <3>1, <4>2, <2>7
        <5>3. CASE slot = "low"
          <6>1. Slot(s, slot) = n - BracketOrder(half, s[2]) /\ Rank(slot) = 1
            BY <5>3, <4>2, <2>8 DEF Rank
          <6> QED  BY <6>1, <5>1, <3>1, <4>2, <2>7
        <5> QED  BY <5>2, <5>3 DEF Slots
      <4> QED  BY <4>1, <4>2
    <3> QED  BY <3>2
  <2>11. ASSUME NEW e \in 1..Size
         PROVE  \E s \in Grid, slot \in Slots : Slot(s, slot) = e
    <3> DEFINE q == IF e <= half THEN e - 1 ELSE n - e
               p == BracketOrder(half, q)
    <3>1. p \in 0..LastOf(n, 0) /\ BracketOrder(half, p) = q /\ q \in 0..LastOf(n, 0)
      BY <2>7, LastOfIs DEF BracketOrder
    <3>2. <<0, p>> \in Grid
      <4>1. LastOf(n, 0) = half - 1  BY LastOfIs
      <4> QED  BY <4>1, <3>1, <2>7 DEF Grid
    <3>3. /\ Slot(<<0, p>>, "high") = q + 1 /\ Slot(<<0, p>>, "low") = n - q
      BY <3>1, <3>2, <2>8
    <3>4. e = q + 1 \/ e = n - q  BY <2>7
    <3> QED  BY <3>2, <3>3, <3>4 DEF Slots
  <2>12. Opened  BY <2>7, <2>9, <2>10, <2>11 DEF Opened
  <2>13. StateOK
    <3>1. bracket.results = <<>> /\ <<>> \in Seq(Recordings) /\ DOMAIN <<>> = {}  BY <2>3
    <3>2. \A r \in DOMAIN R : \A p \in DOMAIN R[r] : R[r][p] \in [high : 0..8, low : 0..8]
      BY <2>6 DEF IsRounds, Pairs
    <3> QED  BY <3>1, <3>2, <2>3, <2>6, <1>0, <1>1, <1>4 DEF StateOK, StateTypeOK
  <2> QED  BY <2>12, <2>13
<1> QED  BY <1>3, <1>4

-----------------------------------------------------------------------------
(* The tournament *)

\* What is not used stays as it was; the bracket that is used is sound.
IInv ==
  /\ entry \in {"league", "state", "script"}
  /\ IF entry = "script" THEN GridOK /\ ScriptOK ELSE ScriptInit
  /\ IF entry = "state" THEN GridOK /\ StateOK
     ELSE bracket = NoBracket /\ matchup = NoMatchup

LEMMA ScriptInitOK ==
  ASSUME ScriptInit
  PROVE  ScriptOK
<1>1. /\ BestOf \in Nat \ {0} /\ MaxOdd \in Nat  BY ScriptAssumption
<1>2. file \in Files
  <2>1. NewFile.rounds \in Rounds8
    <3>1. ASSUME NEW s \in Series
          PROVE  /\ NewSeries(s[2] + 1, 8 - s[2]) \in
                      [high : 0..8, low : 0..8, wins : (0..BestOf) \X (0..BestOf), done : BOOLEAN]
                 /\ NewSeries(None, None) \in
                      [high : 0..8, low : 0..8, wins : (0..BestOf) \X (0..BestOf), done : BOOLEAN]
      <4>1. s[2] \in 0..3  BY SeriesIs
      <4>2. <<0, 0>> \in (0..BestOf) \X (0..BestOf)  BY <1>1
      <4>3. None \in 0..8 /\ s[2] + 1 \in 0..8 /\ 8 - s[2] \in 0..8  BY <4>1 DEF None
      <4> QED  BY <4>2, <4>3 DEF NewSeries
    <3> QED  BY <3>1 DEF NewFile, Rounds8
  <2>2. None \in 0..8  BY DEF None
  <2> QED  BY <2>1, <2>2 DEF ScriptInit, Files, NewFile
<1>3. <<0, 0>> \in (0..BestOf) \X (0..BestOf) /\ 0 \in 0..BestOf /\ 0 \in 0..MaxOdd
  BY <1>1
<1>4. logs \in [Series -> [Games -> LogStates]]
  BY DEF ScriptInit, LogStates
<1>5. ScriptTypeOK
  BY <1>2, <1>3, <1>4 DEF ScriptInit, ScriptTypeOK, Files, Rounds8
<1> QED  BY <1>5 DEF ScriptInit, ScriptOK, NewFile

LEMMA InitIInv == Init => IInv /\ Bracket!Init
<1> SUFFICES ASSUME Init PROVE IInv /\ Bracket!Init
  OBVIOUS
<1>1. ScriptInit /\ entry \in {"league", "state", "script"}  BY DEF Init
<1>2. ~(~file.whole /\ script \in {"killed", "done"})  BY <1>1 DEF ScriptInit
<1>3. CASE entry = "script"
  <2>1. Opened  BY <1>1, <1>3, ScriptOpens
  <2>2. GridOK /\ Bracket!Init  BY <2>1, <1>2, OpenedIsOK, OpenedIsInit
  <2>3. bracket = NoBracket /\ matchup = NoMatchup  BY <1>3 DEF Init
  <2> QED  BY <2>2, <2>3, <1>1, <1>3, ScriptInitOK DEF IInv
<1>4. CASE entry = "state"
  <2>1. Opened /\ StateOK  BY <1>4, StateOpens DEF Init
  <2>2. GridOK /\ Bracket!Init  BY <2>1, <1>2, OpenedIsOK, OpenedIsInit
  <2> QED  BY <2>1, <2>2, <1>1, <1>4 DEF IInv
<1>5. CASE entry = "league"
  <2>1. bracket = NoBracket /\ matchup = NoMatchup  BY <1>5 DEF Init
  <2>2. /\ Size = 0 /\ SizeOK /\ Grid = {} /\ 1..Size = {}
    BY <1>5 DEF Size, SizeOK, Grid
  <2>3. NoBracket.results = <<>> /\ DOMAIN <<>> = {}  BY DEF NoBracket
  <2>4. Done = {} /\ Champ = None /\ Beaten = {}
    BY <1>5, <2>1, <2>3 DEF Done, Completed, Champ, Beaten
  <2>5. Wins = [e \in 1..Size |-> 0]  BY <2>2 DEF Wins
  <2>6. Opened  BY <2>2, <2>4, <2>5 DEF Opened
  <2> QED  BY <2>1, <2>6, <1>1, <1>2, <1>5, OpenedIsInit DEF IInv
<1> QED  BY <1>1, <1>3, <1>4, <1>5

\* In a league there is no bracket.
LEMMA LeagueStutters ==
  ASSUME entry = "league", UNCHANGED <<entry, stateVars, scriptVars>>
  PROVE  UNCHANGED Bracket!vars
<1>1. entry' = entry /\ bracket' = bracket /\ file' = file /\ script' = script
  BY DEF stateVars, scriptVars
<1>2. Size' = Size  BY <1>1 DEF Size
<1>3. Place' = Place /\ Wins' = Wins /\ Beaten' = Beaten
  BY <1>1, <1>2 DEF Place, Wins, Beaten
<1> QED  BY <1>1, <1>2, <1>3 DEF Bracket!vars, Champion

LEMMA NextIInv ==
  IInv /\ [Next]_vars => IInv' /\ [Bracket!Next]_(Bracket!vars)
<1> SUFFICES ASSUME IInv, [Next]_vars PROVE IInv' /\ [Bracket!Next]_(Bracket!vars)
  OBVIOUS
<1>1. CASE entry = "script" /\ ScriptNext /\ UNCHANGED <<entry, stateVars>>
  <2>1. GridOK /\ ScriptOK /\ bracket = NoBracket /\ matchup = NoMatchup
    BY <1>1 DEF IInv
  <2>2. GridOK' /\ ScriptOK' /\ (Bracket!Next \/ UNCHANGED Bracket!vars)
    BY <2>1, <1>1, ScriptStep, ScriptKeepsOK
  <2> QED  BY <2>1, <2>2, <1>1 DEF IInv, stateVars
<1>2. CASE entry = "state" /\ StateNext /\ UNCHANGED <<entry, scriptVars>>
  <2>1. GridOK /\ StateOK /\ ScriptInit  BY <1>2 DEF IInv
  <2>2. ~(~file.whole /\ script \in {"killed", "done"})  BY <2>1 DEF ScriptInit
  <2>3. GridOK' /\ StateOK' /\ (Bracket!Next \/ UNCHANGED Bracket!vars)
    BY <2>1, <2>2, <1>2, StateStep
  <2>4. ScriptInit'  BY <2>1, <1>2 DEF ScriptInit, scriptVars
  <2> QED  BY <2>3, <2>4, <1>2 DEF IInv
<1>3. CASE entry = "league" /\ UNCHANGED <<entry, stateVars, scriptVars>>
  <2>1. UNCHANGED Bracket!vars  BY <1>3, LeagueStutters
  <2>2. ScriptInit'  BY <1>3 DEF IInv, ScriptInit, scriptVars
  <2>3. (bracket = NoBracket /\ matchup = NoMatchup)'  BY <1>3 DEF IInv, stateVars
  <2> QED  BY <2>1, <2>2, <2>3, <1>3 DEF IInv
<1>4. CASE UNCHANGED vars /\ entry = "script"
  <2>1. /\ GridOK /\ ScriptOK /\ UNCHANGED <<entry, bracket, matchup, file, script>>
        /\ UNCHANGED scriptVars
    BY <1>4 DEF IInv, vars, stateVars, scriptVars
  <2>2. /\ GridOK' /\ Ready' = Ready
        /\ Size' = Size /\ Place' = Place /\ Wins' = Wins /\ Beaten' = Beaten
    BY <2>1, <1>4, SameFileSameBracket
  <2>3. ScriptOK'  BY <2>1, <2>2 DEF ScriptOK, ScriptTypeOK, scriptVars
  <2>4. UNCHANGED Bracket!vars  BY <2>1, <2>2, <1>4 DEF Bracket!vars
  <2> QED  BY <2>1, <2>2, <2>3, <2>4, <1>4 DEF IInv
<1>5. CASE UNCHANGED vars /\ entry = "state"
  <2>1. /\ GridOK /\ StateOK /\ ScriptInit /\ UNCHANGED <<entry, bracket, matchup, file, script>>
        /\ UNCHANGED scriptVars
    BY <1>5 DEF IInv, vars, stateVars, scriptVars
  <2>2. /\ GridOK' /\ Size' = Size /\ Place' = Place /\ Wins' = Wins /\ Beaten' = Beaten
        /\ Grid' = Grid /\ Done' = Done /\ \A s, x : Slot(s, x)' = Slot(s, x)
    BY <2>1, <1>5, SameBracket
  <2>3. StateOK'
    <3>1. (/\ matchup.high = Slot(matchup.at, "high")
           /\ matchup.low = Slot(matchup.at, "low")) =>
          (/\ matchup.high = Slot(matchup.at, "high")
           /\ matchup.low = Slot(matchup.at, "low"))'
      BY <2>1 DEF Slot
    <3> QED  BY <3>1, <2>1, <2>2 DEF StateOK, StateTypeOK
  <2>4. UNCHANGED Bracket!vars  BY <2>1, <2>2 DEF Bracket!vars, Champion
  <2>5. ScriptInit'  BY <2>1 DEF ScriptInit, scriptVars
  <2> QED  BY <2>1, <2>2, <2>3, <2>4, <2>5, <1>5 DEF IInv
<1>6. CASE UNCHANGED vars /\ entry = "league"
  BY <1>3, <1>6 DEF vars
<1> QED
  BY <1>1, <1>2, <1>3, <1>4, <1>5, <1>6
     DEF Next, IInv, vars, LeagueIdle, StateIdle, ScriptIdle

\* The entry that was chosen keeps its own state in order, and its bracket, if
\* it has one, is a grid in which every entrant is accounted for.
THEOREM Invariance == Spec => []IInv
<1>1. Init => IInv  BY InitIInv
<1>2. IInv /\ [Next]_vars => IInv'  BY NextIInv
<1> QED  BY <1>1, <1>2, PTL DEF Spec

\* BracketState and the script with its kills and resumed runs hold a single
\* elimination, each with its own draw (run_tournament.sh's python blocks,
\* bracket.py): two that meet have won as often, lost never and are the last
\* of their block; who loses is out; the champion is the one who is left.
THEOREM BracketsAreEliminations ==
  Spec => Bracket!Init /\ [][Bracket!Next]_(Bracket!vars)
<1>1. Init => Bracket!Init  BY InitIInv
<1>2. IInv /\ [Next]_vars => [Bracket!Next]_(Bracket!vars)  BY NextIInv
<1> QED  BY <1>1, <1>2, Invariance, PTL DEF Spec

\* The file, the script's counters and its logs, BracketState and what it
\* hands out have their types, for every length of a series.
THEOREM BracketTypes == Spec => [](StateTypeOK /\ ScriptTypeOK)
<1>1. IInv => StateTypeOK /\ ScriptTypeOK
  <2>1. IInv => ScriptTypeOK
    BY ScriptInitOK DEF IInv, ScriptOK
  <2>2. IInv => StateTypeOK
    <3>1. bracket = NoBracket /\ matchup = NoMatchup => StateTypeOK
      BY DEF StateTypeOK, NoBracket, NoMatchup, TBD
    <3> QED  BY <3>1 DEF IInv, StateOK
  <2> QED  BY <2>1, <2>2
<1> QED  BY <1>1, Invariance, PTL
=============================================================================
