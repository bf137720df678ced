-------------------------- MODULE DiscussionProofs --------------------------
(***************************************************************************)
(* The reserve of the controller, the time to conclude and the fairness of *)
(* the floor, for any number of panelists, any briefs and any answers.     *)
(* The plan is carried as arithmetic on how many turns of each type there  *)
(* are: each step adds one turn, and the stage is a function of the counts.*)
(***************************************************************************)
EXTENDS Discussion, FiniteSetTheorems, TLAPS

Turn == [by : Speaker, type : TurnTypes]

-----------------------------------------------------------------------------
(* Counting turns.                                                         *)

LEMMA PositionsFinite ==
  ASSUME turns \in Seq(Turn), NEW I \in SUBSET DOMAIN turns
  PROVE  IsFiniteSet(I) /\ Cardinality(I) \in Nat
<1>1. DOMAIN turns = 1..Len(turns) /\ Len(turns) \in Nat
  OBVIOUS
<1>2. IsFiniteSet(1..Len(turns))
  BY <1>1, FS_Interval
<1>3. IsFiniteSet(I)
  BY <1>1, <1>2, FS_Subset
<1> QED
  BY <1>3, FS_CardinalityType

LEMMA CountIsNat ==
  ASSUME turns \in Seq(Turn), NEW types
  PROVE  Count(types) \in Nat
<1>1. Positions(types) \in SUBSET DOMAIN turns
  BY DEF Positions
<1> QED
  BY <1>1, PositionsFinite DEF Count

(* One turn more counts once, for the sets its type is in.                 *)
LEMMA CountAppended ==
  ASSUME turns \in Seq(Turn), NEW t \in Turn, turns' = Append(turns, t), NEW types
  PROVE  Count(types)' = Count(types) + (IF t.type \in types THEN 1 ELSE 0)
<1> DEFINE n == Len(turns) + 1
<1>1. /\ Len(turns) \in Nat /\ DOMAIN turns = 1..Len(turns) /\ DOMAIN turns' = 1..n
      /\ turns'[n] = t /\ \A i \in DOMAIN turns : turns'[i] = turns[i]
  OBVIOUS
<1>2. Positions(types) \in SUBSET DOMAIN turns /\ n \notin Positions(types)
  BY <1>1 DEF Positions
<1>3. IsFiniteSet(Positions(types)) /\ Cardinality(Positions(types)) \in Nat
  BY <1>2, PositionsFinite
<1>4. CASE t.type \in types
  <2>1. Positions(types)' = Positions(types) \cup {n}
    BY <1>1, <1>4 DEF Positions
  <2> QED
    BY <1>2, <1>3, <1>4, <2>1, FS_AddElement DEF Count
<1>5. CASE t.type \notin types
  <2>1. Positions(types)' = Positions(types)
    BY <1>1, <1>5 DEF Positions
  <2> QED
    BY <1>3, <1>5, <2>1 DEF Count
<1> QED
  BY <1>4, <1>5

\* How often p took a turn of this type.
Times(p, type) == Cardinality({i \in Positions({type}) : turns[i].by = p})

LEMMA TimesAppended ==
  ASSUME turns \in Seq(Turn), NEW t \in Turn, turns' = Append(turns, t), NEW p, NEW type
  PROVE  /\ Times(p, type) \in Nat
         /\ Times(p, type)' = Times(p, type) + (IF t = [by |-> p, type |-> type] THEN 1 ELSE 0)
<1> DEFINE n == Len(turns) + 1
           I == {i \in Positions({type}) : turns[i].by = p}
<1>1. /\ Len(turns) \in Nat /\ DOMAIN turns = 1..Len(turns) /\ DOMAIN turns' = 1..n
      /\ turns'[n] = t /\ \A i \in DOMAIN turns : turns'[i] = turns[i]
  OBVIOUS
<1>2. I \in SUBSET DOMAIN turns /\ n \notin I
  BY <1>1 DEF Positions
<1>3. IsFiniteSet(I) /\ Cardinality(I) \in Nat
  BY <1>2, PositionsFinite
<1>4. t = [by |-> p, type |-> type] <=> t.by = p /\ t.type = type
  BY DEF Turn
<1>5. CASE t.by = p /\ t.type = type
  <2>1. I' = I \cup {n}
    BY <1>1, <1>5 DEF Positions
  <2> HIDE DEF I
  <2>2. Cardinality(I') = Cardinality(I) + 1
    BY <1>2, <1>3, <2>1, FS_AddElement
  <2>3. Times(p, type) = Cardinality(I) /\ Times(p, type)' = Cardinality(I')
    BY DEF Times, I
  <2> QED
    BY <1>3, <1>4, <1>5, <2>2, <2>3
<1>6. CASE ~(t.by = p /\ t.type = type)
  <2>1. I' = I
    BY <1>1, <1>6 DEF Positions
  <2>2. Times(p, type) = Cardinality(I) /\ Times(p, type)' = Cardinality(I')
    BY DEF Times
  <2> HIDE DEF I
  <2> QED
    BY <1>3, <1>4, <1>6, <2>1, <2>2
<1> QED
  BY <1>5, <1>6

LEMMA NothingCounted ==
  ASSUME turns = <<>>
  PROVE  /\ \A types : Count(types) = 0
         /\ \A p, type : Times(p, type) = 0
         /\ ClosingSpeakers = {}
<1>1. \A types : Positions(types) = {}
  BY DEF Positions
<1> QED
  BY <1>1, FS_EmptySet DEF Count, Times, ClosingSpeakers

-----------------------------------------------------------------------------
(* The plan as arithmetic.                                                 *)

Opened == Spoken("opening_position")
Asked == Spoken("question")
Closed == Spoken("closing_statement")
Summed == Spoken("host_synthesis")
Cross == RequiredCrossExaminations

\* How far the discussion can be: each kind of turn waits for the one before it.
InOrder ==
  /\ Opened <= N /\ Asked <= 2 /\ Closed <= N /\ Summed <= 1
  /\ CrossExaminations <= Cross /\ Rebuttals <= N + CrossExaminations
  /\ turns = <<>> => Opened = 0
  /\ Asked > 0 => Opened = N
  /\ Rebuttals > 0 => Asked > 0
  /\ Asked = 2 => Rebuttals = N + CrossExaminations
  /\ CrossExaminations > 0 => Asked = 2
  /\ Closed > 0 => Asked = 2 /\ CrossExaminations = Cross
  /\ Summed > 0 => Closed = N

\* Every turn is of a kind that is counted.
Counted ==
  Len(turns) = (IF turns = <<>> THEN 0 ELSE 1) + Opened + Asked + Rebuttals + Closed + Summed

\* Who has had the floor.
Heard ==
  /\ ClosingSpeakers \subseteq Panelist /\ Cardinality(ClosingSpeakers) = Closed
  /\ \A p \in Panelist :
       /\ Times(p, "opening_position") = IF p <= Opened THEN 1 ELSE 0
       /\ Times(p, "closing_statement") = IF p \in ClosingSpeakers THEN 1 ELSE 0

\* The time: what is used leaves a second for every turn still to come.
InTime ==
  /\ turns = <<>> => used = 0
  /\ Roomy /\ turns # <<>> => used + (FullLength - Len(turns)) * Second <= brief.maximum
  /\ Roomy /\ status = "transcript_review" => Len(turns) = FullLength

Busy == engine # "none" => status = "discussing"

IInv == TypeOK /\ InOrder /\ Counted /\ Heard /\ InTime /\ Busy

-----------------------------------------------------------------------------
LEMMA CountsAreNat ==
  ASSUME TypeOK
  PROVE  /\ Opened \in Nat /\ Asked \in Nat /\ Closed \in Nat /\ Summed \in Nat
         /\ Rebuttals \in Nat /\ CrossExaminations \in Nat /\ Cross \in {0, 2}
         /\ N \in Nat \ {0} /\ Host \notin Panelist /\ FullLength \in Nat
         /\ Len(turns) \in Nat /\ (Len(turns) = 0 <=> turns = <<>>)
<1>1. turns \in Seq(Turn)
  BY DEF TypeOK, Turn
<1>2. \A types : Count(types) \in Nat
  BY <1>1, CountIsNat
<1>3. Cross \in {0, 2}
  BY DEF Cross, RequiredCrossExaminations
<1>4. N \in Nat \ {0} /\ Host \notin Panelist
  BY PanelAssumption DEF PanelAssumption, Panelist
<1>5. FullLength \in Nat
  BY <1>3, <1>4 DEF FullLength, Cross
<1> QED
  BY <1>1, <1>2, <1>3, <1>4, <1>5
     DEF Opened, Asked, Closed, Summed, Rebuttals, CrossExaminations, Spoken

\* Closing statements are missing exactly while fewer than N were made.
LEMMA ClosersMissing ==
  ASSUME IInv
  PROVE  Panelist \ ClosingSpeakers # {} <=> Closed < N
<1>1. N \in Nat /\ Closed \in Nat
  BY CountsAreNat DEF IInv
<1>2. IsFiniteSet(Panelist) /\ Cardinality(Panelist) = N
  BY <1>1, FS_Interval DEF Panelist
<1>3. ClosingSpeakers \in SUBSET Panelist /\ Cardinality(ClosingSpeakers) = Closed
  BY DEF IInv, Heard
<1>4. Cardinality(ClosingSpeakers) <= N
      /\ (Cardinality(ClosingSpeakers) = N => ClosingSpeakers = Panelist)
  BY <1>2, <1>3, FS_Subset
<1> QED
  BY <1>1, <1>2, <1>3, <1>4

\* What the stage says of the counts.
StageSays(stage) ==
  /\ stage = "opening" => turns = <<>>
  /\ stage = "positions" => turns # <<>> /\ Opened < N /\ Asked = 0
  /\ stage = "main question" => turns # <<>> /\ Opened = N /\ Asked = 0
  /\ stage = "main discussion" =>
       turns # <<>> /\ Asked = 1 /\ CrossExaminations = 0 /\ Rebuttals < N
  /\ stage = "focused challenge" =>
       turns # <<>> /\ Asked = 1 /\ CrossExaminations = 0 /\ Rebuttals = N
  /\ stage = "cross examination" =>
       turns # <<>> /\ Asked = 2 /\ CrossExaminations < Cross
  /\ stage = "closing statements" =>
       turns # <<>> /\ Asked = 2 /\ CrossExaminations = Cross /\ Closed < N
  /\ stage = "host synthesis" =>
       turns # <<>> /\ Asked = 2 /\ CrossExaminations = Cross /\ Closed = N /\ Summed = 0
  /\ stage = "over" =>
       turns # <<>> /\ Asked = 2 /\ CrossExaminations = Cross /\ Closed = N /\ Summed = 1

Stages == {"opening", "positions", "main question", "main discussion", "focused challenge",
           "cross examination", "closing statements", "host synthesis", "over"}

LEMMA StageIsRight ==
  ASSUME IInv
  PROVE  Stage \in Stages /\ StageSays(Stage)
<1>1. /\ Opened \in Nat /\ Asked \in Nat /\ Closed \in Nat /\ Summed \in Nat
      /\ Rebuttals \in Nat /\ CrossExaminations \in Nat /\ Cross \in {0, 2}
      /\ N \in Nat \ {0}
  BY CountsAreNat DEF IInv
<1>2. Panelist \ ClosingSpeakers # {} <=> Closed < N
  BY ClosersMissing
<1>3. InOrder
  BY DEF IInv
<1>4. Stage =
        IF turns = <<>> THEN "opening"
        ELSE IF Opened < N THEN "positions"
        ELSE IF Asked = 0 THEN "main question"
        ELSE IF Rebuttals < N THEN "main discussion"
        ELSE IF Asked = 1 THEN "focused challenge"
        ELSE IF CrossExaminations < Cross THEN "cross examination"
        ELSE IF Closed < N THEN "closing statements"
        ELSE IF Summed = 0 THEN "host synthesis"
        ELSE "over"
  BY <1>2 DEF Stage, Opened, Asked, Closed, Summed, Cross
<1>6. CASE turns = <<>>
  <2>1. Stage = "opening"
    BY <1>4, <1>6
  <2>2. turns = <<>>
    BY <1>1, <1>3, <1>6 DEF InOrder
  <2> QED
    BY <2>1, <2>2 DEF StageSays, Stages
<1>7. CASE ~(turns = <<>>) /\ Opened < N
  <2>1. Stage = "positions"
    BY <1>4, <1>7
  <2>2. turns # <<>> /\ Opened < N /\ Asked = 0
    BY <1>1, <1>3, <1>7 DEF InOrder
  <2> QED
    BY <2>1, <2>2 DEF StageSays, Stages
<1>8. CASE ~(turns = <<>>) /\ ~(Opened < N) /\ Asked = 0
  <2>1. Stage = "main question"
    BY <1>4, <1>8
  <2>2. turns # <<>> /\ Opened = N /\ Asked = 0
    BY <1>1, <1>3, <1>8 DEF InOrder
  <2> QED
    BY <2>1, <2>2 DEF StageSays, Stages
<1>9. CASE ~(turns = <<>>) /\ ~(Opened < N) /\ ~(Asked = 0) /\ Rebuttals < N
  <2>1. Stage = "main discussion"
    BY <1>4, <1>9
  <2>2. turns # <<>> /\ Asked = 1 /\ CrossExaminations = 0 /\ Rebuttals < N
    BY <1>1, <1>3, <1>9 DEF InOrder
  <2> QED
    BY <2>1, <2>2 DEF StageSays, Stages
<1>10. CASE ~(turns = <<>>) /\ ~(Opened < N) /\ ~(Asked = 0) /\ ~(Rebuttals < N) /\ Asked = 1
  <2>1. Stage = "focused challenge"
    BY <1>4, <1>10
  <2>2. turns # <<>> /\ Asked = 1 /\ CrossExaminations = 0 /\ Rebuttals = N
    BY <1>1, <1>3, <1>10 DEF InOrder
  <2> QED
    BY <2>1, <2>2 DEF StageSays, Stages
<1>11. CASE ~(turns = <<>>) /\ ~(Opened < N) /\ ~(Asked = 0) /\ ~(Rebuttals < N) /\ ~(Asked = 1) /\ CrossExaminations < Cross
  <2>1. Stage = "cross examination"
    BY <1>4, <1>11
  <2>2. turns # <<>> /\ Asked = 2 /\ CrossExaminations < Cross
    BY <1>1, <1>3, <1>11 DEF InOrder
  <2> QED
    BY <2>1, <2>2 DEF StageSays, Stages
<1>12. CASE ~(turns = <<>>) /\ ~(Opened < N) /\ ~(Asked = 0) /\ ~(Rebuttals < N) /\ ~(Asked = 1) /\ ~(CrossExaminations < Cross) /\ Closed < N
  <2>1. Stage = "closing statements"
    BY <1>4, <1>12
  <2>2. turns # <<>> /\ Asked = 2 /\ CrossExaminations = Cross /\ Closed < N
    BY <1>1, <1>3, <1>12 DEF InOrder
  <2> QED
    BY <2>1, <2>2 DEF StageSays, Stages
<1>13. CASE ~(turns = <<>>) /\ ~(Opened < N) /\ ~(Asked = 0) /\ ~(Rebuttals < N) /\ ~(Asked = 1) /\ ~(CrossExaminations < Cross) /\ ~(Closed < N) /\ Summed = 0
  <2>1. Stage = "host synthesis"
    BY <1>4, <1>13
  <2>2. turns # <<>> /\ Asked = 2 /\ CrossExaminations = Cross /\ Closed = N /\ Summed = 0
    BY <1>1, <1>3, <1>13 DEF InOrder
  <2> QED
    BY <2>1, <2>2 DEF StageSays, Stages
<1>14. CASE ~(turns = <<>>) /\ ~(Opened < N) /\ ~(Asked = 0) /\ ~(Rebuttals < N) /\ ~(Asked = 1) /\ ~(CrossExaminations < Cross) /\ ~(Closed < N) /\ ~(Summed = 0)
  <2>1. Stage = "over"
    BY <1>4, <1>14
  <2>2. turns # <<>> /\ Asked = 2 /\ CrossExaminations = Cross /\ Closed = N /\ Summed = 1
    BY <1>1, <1>3, <1>14 DEF InOrder
  <2> QED
    BY <2>1, <2>2 DEF StageSays, Stages
<1> QED
  BY <1>6, <1>7, <1>8, <1>9, <1>10, <1>11, <1>12, <1>13, <1>14

-----------------------------------------------------------------------------
(* The controller's next turn.                                             *)

HostStages == {"opening", "main question", "focused challenge", "host synthesis"}

LEMMA WhoIsNext ==
  ASSUME IInv, Stage # "over"
  PROVE  /\ NextSpeakers(Stage) \subseteq Speaker /\ NextType(Stage) \in TurnTypes
         /\ NextSpeakers(Stage) = {Host} <=> Stage \in HostStages
         /\ Stage \notin HostStages => NextSpeakers(Stage) \subseteq Panelist
<1>1. Opened \in Nat /\ Closed \in Nat /\ N \in Nat \ {0} /\ Host \notin Panelist
  BY CountsAreNat DEF IInv
<1>2. Stage \in Stages /\ StageSays(Stage)
  BY StageIsRight
<1>3. NextType(Stage) \in TurnTypes
  BY <1>2 DEF Stages, NextType, TurnTypes, OpeningType
<1>4. CASE Stage \in HostStages
  BY <1>3, <1>4 DEF HostStages, NextSpeakers, Speaker
<1>5. CASE Stage = "positions"
  <2>1. NextSpeakers(Stage) = {Opened + 1} /\ Opened + 1 \in Panelist
    BY <1>1, <1>2, <1>5 DEF NextSpeakers, StageSays, Opened, Panelist
  <2> QED
    BY <1>1, <1>3, <1>5, <2>1 DEF HostStages, Speaker
<1>6. CASE Stage \in {"main discussion", "cross examination"}
  <2>1. NextSpeakers(Stage) = Panelist
    BY <1>6 DEF NextSpeakers
  <2>2. 1 \in Panelist
    BY <1>1 DEF Panelist
  <2> QED
    BY <1>1, <1>3, <1>6, <2>1, <2>2 DEF HostStages, Speaker
<1>7. CASE Stage = "closing statements"
  <2>1. NextSpeakers(Stage) = Panelist \ ClosingSpeakers
    BY <1>7 DEF NextSpeakers
  <2>2. Panelist \ ClosingSpeakers # {}
    BY <1>2, <1>7, ClosersMissing DEF StageSays
  <2> QED
    BY <1>1, <1>3, <1>7, <2>1, <2>2 DEF HostStages, Speaker
<1> QED
  BY <1>2, <1>4, <1>5, <1>6, <1>7 DEF Stages, HostStages

\* The turns there are, the next one and the reserve make up the whole plan.
LEMMA ReserveIsRight ==
  ASSUME IInv, Stage # "over"
  PROVE  Reserved(Stage) \in Nat /\ Len(turns) + 1 + Reserved(Stage) = FullLength
<1> DEFINE more == IF NextSpeakers(Stage) = {Host} THEN 0 ELSE 1
<1>1. /\ Opened \in Nat /\ Asked \in Nat /\ Closed \in Nat /\ Summed \in Nat
      /\ Rebuttals \in Nat /\ CrossExaminations \in Nat /\ Cross \in Nat
      /\ N \in Nat \ {0} /\ (Len(turns) = 0 <=> turns = <<>>)
  BY CountsAreNat DEF IInv
<1>2. Stage \in Stages /\ StageSays(Stage)
  BY StageIsRight
<1>3. more = IF Stage \in HostStages THEN 0 ELSE 1
  BY WhoIsNext
<1>4. InOrder /\ Counted
  BY DEF IInv
<1>5. FullLength = 1 + N + 1 + N + 1 + Cross + N + 1
  BY DEF FullLength, Cross
<1>6. Reserved(Stage) =
        LET opened   == Opened + more
            asked    == Asked + (1 - more)
            rebutted == Rebuttals + more
            closed   == Closed + more
            crossed  == CrossExaminations + (IF Stage = "cross examination" THEN 1 ELSE 0)
        IN CASE Stage \in {"opening", "positions"} ->
                  AtLeast0(N - opened) + 1 + N + 1 + Cross + N + 1
             [] Stage = "main question" -> N + 1 + Cross + N + 1
             [] Stage = "main discussion" ->
                  AtLeast0(N - rebutted) + (IF asked < 2 THEN 1 ELSE 0)
                    + AtLeast0(Cross - crossed) + N + 1
             [] Stage = "focused challenge" -> Cross + N + 1
             [] Stage = "cross examination" -> AtLeast0(Cross - crossed) + N + 1
             [] Stage = "closing statements" ->
                  IF Closed < N THEN AtLeast0(N - closed) + 1 ELSE AtLeast0(1 - Summed)
             [] Stage \in {"host synthesis", "over"} -> 0
  BY DEF Reserved, Opened, Asked, Closed, Summed, Cross
<1> HIDE DEF more
<1>7. CASE Stage = "opening"
  <2>1. turns = <<>> /\ Opened = 0 /\ more = 0
    BY <1>2, <1>3, <1>4, <1>7 DEF StageSays, HostStages, InOrder
  <2>2. Len(turns) = 0
    BY <1>1, <2>1
  <2>3. Reserved(Stage) = AtLeast0(N - 0) + 1 + N + 1 + Cross + N + 1
    BY <1>1, <1>6, <1>7, <2>1
  <2> QED
    BY <1>1, <1>5, <2>2, <2>3 DEF AtLeast0
<1>8. CASE Stage = "positions"
  <2>1. turns # <<>> /\ Opened < N /\ Asked = 0 /\ more = 1
    BY <1>2, <1>3, <1>8 DEF StageSays, HostStages
  <2>2. Rebuttals = 0 /\ Closed = 0 /\ Summed = 0
    BY <1>1, <1>4, <2>1 DEF InOrder
  <2>3. Len(turns) = 1 + Opened
    BY <1>1, <1>4, <2>1, <2>2 DEF Counted
  <2>4. Reserved(Stage) = AtLeast0(N - (Opened + 1)) + 1 + N + 1 + Cross + N + 1
    BY <1>6, <1>8, <2>1
  <2> QED
    BY <1>1, <1>5, <2>1, <2>3, <2>4 DEF AtLeast0
<1>9. CASE Stage = "main question"
  <2>1. turns # <<>> /\ Opened = N /\ Asked = 0
    BY <1>2, <1>9 DEF StageSays
  <2>2. Rebuttals = 0 /\ Closed = 0 /\ Summed = 0
    BY <1>1, <1>4, <2>1 DEF InOrder
  <2>3. Len(turns) = 1 + N
    BY <1>1, <1>4, <2>1, <2>2 DEF Counted
  <2>4. Reserved(Stage) = N + 1 + Cross + N + 1
    BY <1>6, <1>9
  <2> QED
    BY <1>1, <1>5, <2>3, <2>4
<1>10. CASE Stage = "main discussion"
  <2>1. turns # <<>> /\ Asked = 1 /\ CrossExaminations = 0 /\ Rebuttals < N /\ more = 1
    BY <1>2, <1>3, <1>10 DEF StageSays, HostStages
  <2>2. Opened = N /\ Closed = 0 /\ Summed = 0
    BY <1>1, <1>4, <2>1 DEF InOrder
  <2>3. Len(turns) = 1 + N + 1 + Rebuttals
    BY <1>1, <1>4, <2>1, <2>2 DEF Counted
  <2>4. Reserved(Stage) = AtLeast0(N - (Rebuttals + 1)) + 1 + AtLeast0(Cross - 0) + N + 1
    <3>1. 1 + (1 - 1) < 2 /\ 0 + 0 = 0
      OBVIOUS
    <3>2. Stage # "cross examination"
      BY <1>10
    <3> QED
      BY <1>1, <1>6, <1>10, <2>1, <3>1, <3>2
  <2> QED
    BY <1>1, <1>5, <2>1, <2>3, <2>4 DEF AtLeast0
<1>11. CASE Stage = "focused challenge"
  <2>1. turns # <<>> /\ Asked = 1 /\ CrossExaminations = 0 /\ Rebuttals = N
    BY <1>2, <1>11 DEF StageSays
  <2>2. Opened = N /\ Closed = 0 /\ Summed = 0
    BY <1>1, <1>4, <2>1 DEF InOrder
  <2>3. Len(turns) = 1 + N + 1 + N
    BY <1>1, <1>4, <2>1, <2>2 DEF Counted
  <2>4. Reserved(Stage) = Cross + N + 1
    BY <1>6, <1>11
  <2> QED
    BY <1>1, <1>5, <2>3, <2>4
<1>12. CASE Stage = "cross examination"
  <2>1. turns # <<>> /\ Asked = 2 /\ CrossExaminations < Cross
    BY <1>2, <1>12 DEF StageSays
  <2>2. Opened = N /\ Closed = 0 /\ Summed = 0 /\ Rebuttals = N + CrossExaminations
    BY <1>1, <1>4, <2>1 DEF InOrder
  <2>3. Len(turns) = 1 + N + 2 + N + CrossExaminations
    BY <1>1, <1>4, <2>1, <2>2 DEF Counted
  <2>4. Reserved(Stage) = AtLeast0(Cross - (CrossExaminations + 1)) + N + 1
    BY <1>6, <1>12
  <2> QED
    BY <1>1, <1>5, <2>1, <2>3, <2>4 DEF AtLeast0
<1>13. CASE Stage = "closing statements"
  <2>1. /\ turns # <<>> /\ Asked = 2 /\ CrossExaminations = Cross /\ Closed < N /\ more = 1
    BY <1>2, <1>3, <1>13 DEF StageSays, HostStages
  <2>2. Opened = N /\ Summed = 0 /\ Rebuttals = N + Cross
    BY <1>1, <1>4, <2>1 DEF InOrder
  <2>3. Len(turns) = 1 + N + 2 + N + Cross + Closed
    BY <1>1, <1>4, <2>1, <2>2 DEF Counted
  <2>4. Reserved(Stage) = AtLeast0(N - (Closed + 1)) + 1
    BY <1>6, <1>13, <2>1
  <2> QED
    BY <1>1, <1>5, <2>1, <2>3, <2>4 DEF AtLeast0
<1>14. CASE Stage = "host synthesis"
  <2>1. /\ turns # <<>> /\ Asked = 2 /\ CrossExaminations = Cross
        /\ Closed = N /\ Summed = 0
    BY <1>2, <1>14 DEF StageSays
  <2>2. Opened = N /\ Rebuttals = N + Cross
    BY <1>1, <1>4, <2>1 DEF InOrder
  <2>3. Len(turns) = 1 + N + 2 + N + Cross + N
    BY <1>1, <1>4, <2>1, <2>2 DEF Counted
  <2>4. Reserved(Stage) = 0
    BY <1>6, <1>14
  <2> QED
    BY <1>1, <1>5, <2>3, <2>4
<1> QED
  BY <1>2, <1>7, <1>8, <1>9, <1>10, <1>11, <1>12, <1>13, <1>14 DEF Stages

-----------------------------------------------------------------------------
(* One turn more.                                                          *)

\* The controller's next turn is appended.
Appends(by) == turns' = Append(turns, [by |-> by, type |-> NextType(Stage)])

One(condition) == IF condition THEN 1 ELSE 0

LEMMA CountsAfter ==
  ASSUME IInv, Stage # "over", NEW by \in NextSpeakers(Stage), Appends(by), brief' = brief
  PROVE  /\ turns' \in Seq(Turn) /\ turns' # <<>> /\ Len(turns') = Len(turns) + 1
         /\ Opened' = Opened + One(NextType(Stage) = "opening_position")
         /\ Asked' = Asked + One(NextType(Stage) = "question")
         /\ Closed' = Closed + One(NextType(Stage) = "closing_statement")
         /\ Summed' = Summed + One(NextType(Stage) = "host_synthesis")
         /\ Rebuttals' = Rebuttals + One(NextType(Stage) \in {"rebuttal", "clarification"})
         /\ CrossExaminations' = CrossExaminations + One(NextType(Stage) = "clarification")
         /\ Cross' = Cross /\ FullLength' = FullLength
<1> DEFINE t == [by |-> by, type |-> NextType(Stage)]
<1>1. turns \in Seq(Turn)
  BY DEF IInv, TypeOK, Turn
<1>2. t \in Turn /\ t.type = NextType(Stage)
  BY WhoIsNext DEF Turn
<1>3. turns' = Append(turns, t)
  BY DEF Appends
<1> HIDE DEF t
<1>4. turns' \in Seq(Turn) /\ turns' # <<>> /\ Len(turns') = Len(turns) + 1
  BY <1>1, <1>2, <1>3
<1>5. ASSUME NEW types PROVE Count(types)' = Count(types) + One(t.type \in types)
  BY <1>1, <1>2, <1>3, CountAppended DEF One
<1>6. ASSUME NEW type PROVE Spoken(type)' = Spoken(type) + One(t.type = type)
  <2>1. Count({type})' = Count({type}) + One(t.type \in {type})
    BY <1>5
  <2> QED
    BY <2>1 DEF Spoken, One
<1>7. Cross' = Cross /\ FullLength' = FullLength
  BY DEF Cross, FullLength, RequiredCrossExaminations
<1> QED
  BY <1>2, <1>4, <1>5, <1>6, <1>7
     DEF Opened, Asked, Closed, Summed, Rebuttals, CrossExaminations

LEMMA InOrderAfter ==
  ASSUME IInv, Stage # "over", NEW by \in NextSpeakers(Stage), Appends(by), brief' = brief
  PROVE  InOrder' /\ Counted'
<1>1. /\ Opened \in Nat /\ Asked \in Nat /\ Closed \in Nat /\ Summed \in Nat
      /\ Rebuttals \in Nat /\ CrossExaminations \in Nat /\ Cross \in {0, 2}
      /\ N \in Nat \ {0} /\ Len(turns) \in Nat /\ (Len(turns) = 0 <=> turns = <<>>)
  BY CountsAreNat DEF IInv
<1>2. Stage \in Stages /\ StageSays(Stage)
  BY StageIsRight
<1>3. InOrder /\ Counted
  BY DEF IInv
<1>4. /\ turns' # <<>> /\ Len(turns') = Len(turns) + 1
      /\ Opened' = Opened + One(NextType(Stage) = "opening_position")
      /\ Asked' = Asked + One(NextType(Stage) = "question")
      /\ Closed' = Closed + One(NextType(Stage) = "closing_statement")
      /\ Summed' = Summed + One(NextType(Stage) = "host_synthesis")
      /\ Rebuttals' = Rebuttals + One(NextType(Stage) \in {"rebuttal", "clarification"})
      /\ CrossExaminations' = CrossExaminations + One(NextType(Stage) = "clarification")
      /\ Cross' = Cross
  BY CountsAfter
<1>5. CASE Stage = "opening"
  <2>1. turns = <<>> /\ NextType(Stage) \in {"post_primer_bridge", "host_opening"}
    BY <1>2, <1>5 DEF StageSays, NextType, OpeningType
  <2>2. /\ Opened = 0 /\ Asked = 0 /\ Closed = 0 /\ Summed = 0
        /\ Rebuttals = 0 /\ CrossExaminations = 0 /\ Len(turns) = 0
    BY <2>1, NothingCounted
       DEF Opened, Asked, Closed, Summed, Rebuttals, CrossExaminations, Spoken
  <2>3. /\ Opened' = 0 /\ Asked' = 0 /\ Closed' = 0 /\ Summed' = 0
        /\ Rebuttals' = 0 /\ CrossExaminations' = 0
    BY <1>4, <2>1, <2>2 DEF One
  <2> QED
    BY <1>1, <1>4, <2>2, <2>3 DEF InOrder, Counted
<1>6. CASE Stage = "positions"
  <2>1. NextType(Stage) = "opening_position"
    BY <1>6 DEF NextType
  <2>2. turns # <<>> /\ Opened < N /\ Asked = 0
    BY <1>2, <1>6 DEF StageSays
  <2>3. /\ Opened' = Opened + 1 /\ Asked' = Asked /\ Closed' = Closed /\ Summed' = Summed
        /\ Rebuttals' = Rebuttals /\ CrossExaminations' = CrossExaminations
    BY <1>1, <1>4, <2>1 DEF One
  <2>4. Rebuttals = 0 /\ CrossExaminations = 0 /\ Closed = 0 /\ Summed = 0
    BY <1>1, <1>3, <2>2 DEF InOrder
  <2> QED
    BY <1>1, <1>3, <1>4, <2>2, <2>3, <2>4 DEF InOrder, Counted
<1>7. CASE Stage \in {"main question", "focused challenge"}
  <2>1. NextType(Stage) = "question"
    BY <1>7 DEF NextType
  <2>2. /\ turns # <<>> /\ Opened = N /\ CrossExaminations = 0 /\ Closed = 0 /\ Summed = 0
        /\ Asked \in {0, 1} /\ (Asked = 1 => Rebuttals = N) /\ (Asked = 0 => Rebuttals = 0)
    <3>1. CASE Stage = "main question"
      <4>1. turns # <<>> /\ Opened = N /\ Asked = 0
        BY <1>2, <3>1 DEF StageSays
      <4> QED
        BY <1>1, <1>3, <4>1 DEF InOrder
    <3>2. CASE Stage = "focused challenge"
      <4>1. turns # <<>> /\ Asked = 1 /\ CrossExaminations = 0 /\ Rebuttals = N
        BY <1>2, <3>2 DEF StageSays
      <4> QED
        BY <1>1, <1>3, <4>1 DEF InOrder
    <3> QED
      BY <1>7, <3>1, <3>2
  <2>3. /\ Opened' = Opened /\ Asked' = Asked + 1 /\ Closed' = Closed /\ Summed' = Summed
        /\ Rebuttals' = Rebuttals /\ CrossExaminations' = CrossExaminations
    BY <1>1, <1>4, <2>1 DEF One
  <2> QED
    BY <1>1, <1>3, <1>4, <2>2, <2>3 DEF InOrder, Counted
<1>8. CASE Stage = "main discussion"
  <2>1. NextType(Stage) = "rebuttal"
    BY <1>8 DEF NextType
  <2>2. turns # <<>> /\ Asked = 1 /\ CrossExaminations = 0 /\ Rebuttals < N
    BY <1>2, <1>8 DEF StageSays
  <2>3. /\ Opened' = Opened /\ Asked' = Asked /\ Closed' = Closed /\ Summed' = Summed
        /\ Rebuttals' = Rebuttals + 1 /\ CrossExaminations' = CrossExaminations
    BY <1>1, <1>4, <2>1 DEF One
  <2>4. Opened = N /\ Closed = 0 /\ Summed = 0
    BY <1>1, <1>3, <2>2 DEF InOrder
  <2> QED
    BY <1>1, <1>3, <1>4, <2>2, <2>3, <2>4 DEF InOrder, Counted
<1>9. CASE Stage = "cross examination"
  <2>1. NextType(Stage) = "clarification"
    BY <1>9 DEF NextType
  <2>2. turns # <<>> /\ Asked = 2 /\ CrossExaminations < Cross
    BY <1>2, <1>9 DEF StageSays
  <2>3. /\ Opened' = Opened /\ Asked' = Asked /\ Closed' = Closed /\ Summed' = Summed
        /\ Rebuttals' = Rebuttals + 1 /\ CrossExaminations' = CrossExaminations + 1
    BY <1>1, <1>4, <2>1 DEF One
  <2>4. Opened = N /\ Closed = 0 /\ Summed = 0 /\ Rebuttals = N + CrossExaminations
    BY <1>1, <1>3, <2>2 DEF InOrder
  <2> QED
    BY <1>1, <1>3, <1>4, <2>2, <2>3, <2>4 DEF InOrder, Counted
<1>10. CASE Stage = "closing statements"
  <2>1. NextType(Stage) = "closing_statement"
    BY <1>10 DEF NextType
  <2>2. turns # <<>> /\ Asked = 2 /\ CrossExaminations = Cross /\ Closed < N
    BY <1>2, <1>10 DEF StageSays
  <2>3. /\ Opened' = Opened /\ Asked' = Asked /\ Closed' = Closed + 1 /\ Summed' = Summed
        /\ Rebuttals' = Rebuttals /\ CrossExaminations' = CrossExaminations
    BY <1>1, <1>4, <2>1 DEF One
  <2>4. Opened = N /\ Summed = 0 /\ Rebuttals = N + CrossExaminations
    BY <1>1, <1>3, <2>2 DEF InOrder
  <2> QED
    BY <1>1, <1>3, <1>4, <2>2, <2>3, <2>4 DEF InOrder, Counted
<1>11. CASE Stage = "host synthesis"
  <2>1. NextType(Stage) = "host_synthesis"
    BY <1>11 DEF NextType
  <2>2. turns # <<>> /\ Asked = 2 /\ CrossExaminations = Cross /\ Closed = N /\ Summed = 0
    BY <1>2, <1>11 DEF StageSays
  <2>3. /\ Opened' = Opened /\ Asked' = Asked /\ Closed' = Closed /\ Summed' = Summed + 1
        /\ Rebuttals' = Rebuttals /\ CrossExaminations' = CrossExaminations
    BY <1>1, <1>4, <2>1 DEF One
  <2>4. Opened = N /\ Rebuttals = N + CrossExaminations
    BY <1>1, <1>3, <2>2 DEF InOrder
  <2> QED
    BY <1>1, <1>3, <1>4, <2>2, <2>3, <2>4 DEF InOrder, Counted
<1> QED
  BY <1>2, <1>5, <1>6, <1>7, <1>8, <1>9, <1>10, <1>11 DEF Stages

LEMMA HeardAfter ==
  ASSUME IInv, Stage # "over", NEW by \in NextSpeakers(Stage), Appends(by), brief' = brief
  PROVE  Heard'
<1> DEFINE t == [by |-> by, type |-> NextType(Stage)]
<1>1. turns \in Seq(Turn) /\ t \in Turn /\ turns' = Append(turns, t)
  BY WhoIsNext DEF IInv, TypeOK, Turn, Appends
<1>2. Heard
  BY DEF IInv
<1>3. Opened \in Nat /\ Closed \in Nat /\ N \in Nat \ {0} /\ Host \notin Panelist
  BY CountsAreNat DEF IInv
<1>4. Stage \in Stages /\ StageSays(Stage)
  BY StageIsRight
<1>5. /\ Opened' = Opened + One(NextType(Stage) = "opening_position")
      /\ Closed' = Closed + One(NextType(Stage) = "closing_statement")
  BY CountsAfter
<1>6. ASSUME NEW p, NEW type
      PROVE  /\ Times(p, type) \in Nat
             /\ Times(p, type)' =
                  Times(p, type) + One(p = by /\ type = NextType(Stage))
  <2>1. t = [by |-> p, type |-> type] <=> p = by /\ type = NextType(Stage)
    OBVIOUS
  <2> HIDE DEF t
  <2> QED
    BY <1>1, <2>1, TimesAppended DEF One
<1>7. ClosingSpeakers' =
        ClosingSpeakers \cup (IF NextType(Stage) = "closing_statement" THEN {by} ELSE {})
  <2> DEFINE n == Len(turns) + 1
  <2>1. /\ Len(turns) \in Nat /\ DOMAIN turns = 1..Len(turns) /\ DOMAIN turns' = 1..n
        /\ turns'[n] = t /\ \A i \in DOMAIN turns : turns'[i] = turns[i]
    BY <1>1
  <2>2. t.by = by /\ t.type = NextType(Stage)
    OBVIOUS
  <2> HIDE DEF t
  <2> QED
    BY <2>1, <2>2 DEF ClosingSpeakers, Positions
<1>8. CASE Stage = "positions"
  <2>1. NextType(Stage) = "opening_position" /\ by = Opened + 1
    BY <1>8 DEF NextType, NextSpeakers, Opened
  <2>2. Opened' = Opened + 1 /\ Closed' = Closed /\ ClosingSpeakers' = ClosingSpeakers
    BY <1>3, <1>5, <1>7, <2>1 DEF One
  <2>3. ASSUME NEW p \in Panelist
        PROVE  /\ Times(p, "opening_position")' = IF p <= Opened' THEN 1 ELSE 0
               /\ Times(p, "closing_statement")' = Times(p, "closing_statement")
    <3>1. p \in Nat /\ Times(p, "opening_position") = IF p <= Opened THEN 1 ELSE 0
      BY <1>2, <1>3 DEF Heard, Panelist
    <3>2. /\ Times(p, "opening_position")' = Times(p, "opening_position") + One(p = by)
          /\ Times(p, "closing_statement")' = Times(p, "closing_statement")
      BY <1>6, <2>1 DEF One
    <3> QED
      BY <1>3, <2>1, <2>2, <3>1, <3>2 DEF One
  <2> QED
    BY <1>2, <2>2, <2>3 DEF Heard, Panelist
<1>9. CASE Stage = "closing statements"
  <2>1. NextType(Stage) = "closing_statement" /\ by \in Panelist \ ClosingSpeakers
    BY <1>9 DEF NextType, NextSpeakers
  <2>2. Opened' = Opened /\ Closed' = Closed + 1 /\ ClosingSpeakers' = ClosingSpeakers \cup {by}
    BY <1>3, <1>5, <1>7, <2>1 DEF One
  <2>3. IsFiniteSet(ClosingSpeakers)
    <3>1. IsFiniteSet(Panelist)
      BY <1>3, FS_Interval DEF Panelist
    <3> QED
      BY <1>2, <3>1, FS_Subset DEF Heard
  <2>4. Cardinality(ClosingSpeakers') = Closed'
    BY <1>2, <1>3, <2>1, <2>2, <2>3, FS_AddElement DEF Heard
  <2>5. ASSUME NEW p \in Panelist
        PROVE  /\ Times(p, "opening_position")' = Times(p, "opening_position")
               /\ Times(p, "closing_statement")' = IF p \in ClosingSpeakers' THEN 1 ELSE 0
    <3>1. Times(p, "closing_statement") = IF p \in ClosingSpeakers THEN 1 ELSE 0
      BY <1>2 DEF Heard
    <3>2. /\ Times(p, "closing_statement")' = Times(p, "closing_statement") + One(p = by)
          /\ Times(p, "opening_position")' = Times(p, "opening_position")
      BY <1>6, <2>1 DEF One
    <3> QED
      BY <2>1, <2>2, <3>1, <3>2 DEF One
  <2> QED
    BY <1>2, <2>1, <2>2, <2>4, <2>5 DEF Heard, Panelist
<1>10. CASE Stage \notin {"positions", "closing statements"}
  <2>1. NextType(Stage) \notin {"opening_position", "closing_statement"}
    BY <1>4, <1>10 DEF NextType, Stages, OpeningType
  <2>2. Opened' = Opened /\ Closed' = Closed /\ ClosingSpeakers' = ClosingSpeakers
    BY <1>3, <1>5, <1>7, <2>1 DEF One
  <2>3. ASSUME NEW p
        PROVE  /\ Times(p, "opening_position")' = Times(p, "opening_position")
               /\ Times(p, "closing_statement")' = Times(p, "closing_statement")
    BY <1>6, <2>1 DEF One
  <2> QED
    BY <1>2, <2>2, <2>3 DEF Heard, Panelist
<1> QED
  BY <1>8, <1>9, <1>10

-----------------------------------------------------------------------------
(* Dividing the time that is left.                                         *)

\* A turn that takes its share leaves the others a second each.
LEMMA ShareLeavesTheRest ==
  ASSUME NEW S \in Nat \ {0}, NEW n \in Nat \ {0}, NEW R \in Nat, n * S <= R,
         NEW w \in Nat, w <= Greatest(S, R \div n)
  PROVE  w + (n - 1) * S <= R
<1> DEFINE q == R \div n
<1>1. q \in Nat /\ n * q <= R
  OBVIOUS
<1>2. (n - 1) * S = n * S - S /\ n * S \in Nat /\ (n - 1) * S \in Nat
  OBVIOUS
<1> HIDE DEF q
<1>3. CASE w <= S
  BY <1>2, <1>3
<1>4. CASE w > S
  <2>1. w <= q /\ S <= q
    BY <1>1, <1>4 DEF Greatest, q
  <2>2. (n - 1) * S <= (n - 1) * q
    <3> DEFINE m == n - 1
               d == q - S
    <3>1. m \in Nat /\ d \in Nat /\ q = S + d
      BY <1>1, <2>1
    <3> HIDE DEF m, d
    <3>2. m * q = m * S + m * d /\ m * d \in Nat /\ m * S \in Nat
      BY <3>1
    <3>3. m * S <= m * q
      BY <3>2
    <3> QED
      BY <3>3 DEF m
  <2>3. (n - 1) * q = n * q - q /\ n * q \in Nat /\ (n - 1) * q \in Nat
    BY <1>1
  <2> QED
    BY <1>1, <1>2, <2>1, <2>2, <2>3
<1> QED
  BY <1>3, <1>4

-----------------------------------------------------------------------------
(* The steps.                                                              *)

\* What a turn may take is a whole number of words.
LEMMA LimitIsNat ==
  ASSUME IInv, Stage # "over"
  PROVE  /\ Remaining \in Nat /\ Limit(Stage) \in Nat
         /\ brief.maximum \in Nat /\ brief.bridge \in Nat /\ Second \in Nat \ {0}
         /\ NextType(Stage) # "post_primer_bridge"
              => Limit(Stage) <= Greatest(Second, Remaining \div (Reserved(Stage) + 1))
         /\ NextType(Stage) = "post_primer_bridge" => Limit(Stage) <= Greatest(brief.bridge, Second)
<1>1. /\ brief.maximum \in Nat /\ brief.monologue \in Nat /\ brief.bridge \in Nat
      /\ Second \in Nat \ {0} /\ used \in Nat
  BY BriefAssumption, SecondAssumption DEF IInv, TypeOK
<1>2. Remaining \in Nat
  BY <1>1 DEF Remaining, AtLeast0
<1>3. Reserved(Stage) \in Nat
  BY ReserveIsRight
<1> DEFINE share == Remaining \div (Reserved(Stage) + 1)
<1>4. share \in Nat
  BY <1>2, <1>3
<1>5. Allowance(Stage) = IF NextType(Stage) = "post_primer_bridge"
                         THEN Least(brief.monologue, Least(Remaining, brief.bridge))
                         ELSE Least(brief.monologue, share)
  BY DEF Allowance
<1> HIDE DEF share
<1>6. /\ Allowance(Stage) \in Nat
      /\ NextType(Stage) # "post_primer_bridge" => Allowance(Stage) <= share
      /\ NextType(Stage) = "post_primer_bridge" => Allowance(Stage) <= brief.bridge
  BY <1>1, <1>2, <1>4, <1>5 DEF Least
<1>7. /\ Limit(Stage) \in Nat
      /\ NextType(Stage) # "post_primer_bridge" => Limit(Stage) <= Greatest(Second, share)
      /\ NextType(Stage) = "post_primer_bridge" => Limit(Stage) <= Greatest(brief.bridge, Second)
  BY <1>1, <1>4, <1>6 DEF Limit, Greatest, Least
<1> QED
  BY <1>1, <1>2, <1>7 DEF share

\* A turn that is spoken leaves its second to every turn still to come.
LEMMA TimeAfter ==
  ASSUME IInv, Stage # "over", NEW by \in NextSpeakers(Stage), Appends(by),
         NEW words \in 0..Limit(Stage), used' = used + words,
         brief' = brief, status' = "discussing"
  PROVE  InTime'
<1>1. /\ Remaining \in Nat /\ Limit(Stage) \in Nat
      /\ brief.maximum \in Nat /\ brief.bridge \in Nat /\ Second \in Nat \ {0}
      /\ NextType(Stage) # "post_primer_bridge"
           => Limit(Stage) <= Greatest(Second, Remaining \div (Reserved(Stage) + 1))
      /\ NextType(Stage) = "post_primer_bridge" => Limit(Stage) <= Greatest(brief.bridge, Second)
  BY LimitIsNat
<1>2. Reserved(Stage) \in Nat /\ Len(turns) + 1 + Reserved(Stage) = FullLength
  BY ReserveIsRight
<1>3. /\ turns' # <<>> /\ Len(turns') = Len(turns) + 1 /\ FullLength' = FullLength
      /\ Len(turns) \in Nat /\ FullLength \in Nat /\ (Len(turns) = 0 <=> turns = <<>>)
  BY CountsAfter, CountsAreNat DEF IInv
<1>4. used \in Nat /\ words \in Nat /\ words <= Limit(Stage)
  BY <1>1 DEF IInv, TypeOK
<1>5. FullLength' - Len(turns') = Reserved(Stage)
  BY <1>2, <1>3
<1>6. Roomy' <=> Roomy
  BY <1>3 DEF Roomy
<1>7. SUFFICES ASSUME Roomy
               PROVE  used + words + Reserved(Stage) * Second <= brief.maximum
  BY <1>3, <1>5, <1>6 DEF InTime
<1>8. brief.maximum >= Greatest(brief.bridge, Second) + (FullLength - 1) * Second
  BY <1>7 DEF Roomy
<1>9. CASE NextType(Stage) = "post_primer_bridge"
  <2>1. Stage = "opening" /\ turns = <<>>
    BY <1>9, StageIsRight DEF NextType, OpeningType, Stages, StageSays
  <2>2. used = 0 /\ Reserved(Stage) = FullLength - 1
    BY <1>2, <1>3, <2>1 DEF IInv, InTime
  <2>3. words <= Greatest(brief.bridge, Second) /\ Greatest(brief.bridge, Second) \in Nat
    BY <1>1, <1>4, <1>9 DEF Greatest
  <2>4. (FullLength - 1) * Second \in Nat
    BY <1>1, <1>2, <2>2
  <2> QED
    BY <1>1, <1>4, <1>8, <2>2, <2>3, <2>4
<1>10. CASE NextType(Stage) # "post_primer_bridge"
  <2> DEFINE n == Reserved(Stage) + 1
  <2>1. n \in Nat \ {0} /\ n = FullLength - Len(turns) /\ n * Second \in Nat
        /\ n * Second = Second + (n - 1) * Second /\ (n - 1) * Second \in Nat
    <3>1. n \in Nat \ {0} /\ n = FullLength - Len(turns)
      BY <1>2, <1>3
    <3> HIDE DEF n
    <3>2. n * Second \in Nat /\ n * Second = Second + (n - 1) * Second /\ (n - 1) * Second \in Nat
      BY <1>1, <3>1
    <3> QED
      BY <3>1, <3>2
  <2>2. used + n * Second <= brief.maximum
    <3>1. CASE turns # <<>>
      BY <1>7, <2>1, <3>1 DEF IInv, InTime
    <3>2. CASE turns = <<>>
      <4>1. used = 0 /\ n - 1 = FullLength - 1
        BY <1>3, <2>1, <3>2 DEF IInv, InTime
      <4>2. Greatest(brief.bridge, Second) >= Second /\ Greatest(brief.bridge, Second) \in Nat
        BY <1>1 DEF Greatest
      <4>3. brief.maximum >= Greatest(brief.bridge, Second) + (n - 1) * Second
        BY <1>8, <4>1
      <4> HIDE DEF n
      <4> QED
        BY <1>1, <2>1, <4>1, <4>2, <4>3
    <3> QED
      BY <3>1, <3>2
  <2>3. Remaining = brief.maximum - used
    BY <1>1, <1>4, <2>1, <2>2 DEF Remaining, AtLeast0
  <2>4. words <= Greatest(Second, Remaining \div n)
    <3> DEFINE G == Greatest(Second, Remaining \div n)
    <3>1. G \in Int
      BY <1>1, <2>1 DEF Greatest
    <3>2. Limit(Stage) <= G
      BY <1>1, <1>10
    <3> HIDE DEF G
    <3>3. words <= G
      BY <1>1, <1>4, <3>1, <3>2
    <3> QED
      BY <3>3 DEF G
  <2>5. n * Second <= Remaining
    BY <1>1, <1>4, <2>1, <2>2, <2>3
  <2> HIDE DEF n
  <2>6. words + (n - 1) * Second <= Remaining
    BY <1>1, <1>4, <2>1, <2>4, <2>5, ShareLeavesTheRest
  <2>7. used + words + (n - 1) * Second <= brief.maximum
    <3> DEFINE rest == (n - 1) * Second
    <3>1. rest \in Nat /\ words + rest <= brief.maximum - used
      BY <2>1, <2>3, <2>6
    <3> HIDE DEF rest
    <3>2. used + words + rest <= brief.maximum
      BY <1>1, <1>4, <3>1
    <3> QED
      BY <3>2 DEF rest
  <2>8. n - 1 = Reserved(Stage)
    BY <1>2 DEF n
  <2> QED
    BY <2>7, <2>8
<1> QED
  BY <1>9, <1>10

LEMMA SpeakKeeps ==
  ASSUME IInv, Speak
  PROVE  IInv'
<1>1. PICK by \in NextSpeakers(Stage), words \in 0..Limit(Stage) :
        Appends(by) /\ used' = used + words
  BY DEF Speak, Appends
<1>2. /\ Stage # "over" /\ engine # "none"
      /\ brief' = brief /\ status' = status /\ engine' = engine /\ runs' = runs
  BY DEF Speak, Over
<1>3. status = "discussing"
  BY <1>2 DEF IInv, Busy
<1>4. TypeOK'
  <2>1. turns' \in Seq(Turn)
    BY <1>1, <1>2, CountsAfter
  <2>2. used' \in Nat
    BY <1>1, <1>2, LimitIsNat DEF IInv, TypeOK
  <2> QED
    BY <1>2, <2>1, <2>2 DEF IInv, TypeOK, Turn
<1>5. InOrder' /\ Counted' /\ Heard'
  BY <1>1, <1>2, InOrderAfter, HeardAfter
<1>6. InTime'
  BY <1>1, <1>2, <1>3, TimeAfter
<1>7. Busy'
  BY <1>2, <1>3 DEF Busy
<1> QED
  BY <1>4, <1>5, <1>6, <1>7 DEF IInv

\* The invariant holds of an episode none of whose turns are spoken.
Unspoken == TypeOK /\ turns = <<>> /\ used = 0 /\ status # "transcript_review" /\ Busy

LEMMA NothingSpoken == Unspoken => IInv
<1> SUFFICES ASSUME Unspoken PROVE IInv
  OBVIOUS
<1> USE DEF Unspoken
<1>1. /\ \A types : Count(types) = 0
      /\ \A p, type : Times(p, type) = 0
      /\ ClosingSpeakers = {}
  BY NothingCounted
<1>2. /\ Opened = 0 /\ Asked = 0 /\ Closed = 0 /\ Summed = 0
      /\ Rebuttals = 0 /\ CrossExaminations = 0 /\ Cross \in {0, 2}
      /\ N \in Nat \ {0} /\ Len(turns) = 0
  BY <1>1, CountsAreNat
     DEF Opened, Asked, Closed, Summed, Rebuttals, CrossExaminations, Spoken
<1>3. InOrder /\ Counted
  BY <1>2 DEF InOrder, Counted
<1>4. Heard
  <2>1. \A p \in Panelist : ~(p <= Opened)
    BY <1>2 DEF Panelist
  <2> QED
    BY <1>1, <1>2, <2>1, FS_EmptySet DEF Heard
<1>5. InTime
  BY DEF InTime
<1> QED
  BY <1>3, <1>4, <1>5 DEF IInv

LEMMA NewSessionKeeps ==
  ASSUME IInv, NEW who \in {"api", "worker"}, NewSession(who)
  PROVE  IInv'
<1>1. /\ turns' = <<>> /\ used' = 0 /\ status' = "discussing" /\ engine' = who
      /\ runs' = runs + 1 /\ runs < MaxRuns /\ brief' = brief
  BY DEF NewSession
<1>2. TypeOK' /\ Busy'
  BY <1>1, MaxRunsAssumption DEF IInv, TypeOK, Busy
<1>3. Unspoken'
  BY <1>1, <1>2 DEF Unspoken
<1>4. Unspoken' => IInv'
  BY NothingSpoken, PTL
<1> QED
  BY <1>3, <1>4

\* A step that adds no turn, to a status the turns allow.
LEMMA TurnsStay ==
  ASSUME IInv, UNCHANGED <<brief, turns, used, runs>>, TypeOK', Busy',
         Roomy /\ status' = "transcript_review" => Len(turns) = FullLength
  PROVE  IInv'
<1>1. InOrder' /\ Counted'
  BY DEF IInv, InOrder, Counted, Opened, Asked, Closed, Summed, Rebuttals, CrossExaminations,
         Spoken, Count, Positions, Cross, RequiredCrossExaminations
<1>2. Heard'
  <2>1. Opened' = Opened /\ Closed' = Closed /\ ClosingSpeakers' = ClosingSpeakers
    BY DEF Opened, Closed, ClosingSpeakers, Spoken, Count, Positions
  <2>2. ASSUME NEW p, NEW type PROVE Times(p, type)' = Times(p, type)
    BY DEF Times, Positions
  <2> QED
    BY <2>1, <2>2 DEF IInv, Heard, Panelist
<1>3. InTime'
  <2>1. FullLength' = FullLength
    BY DEF FullLength, RequiredCrossExaminations
  <2>2. Roomy' <=> Roomy
    BY <2>1 DEF Roomy
  <2> QED
    BY <2>1, <2>2 DEF IInv, InTime
<1> QED
  BY <1>1, <1>2, <1>3 DEF IInv

\* The loop of a roomy discussion ends with the whole plan spoken.
LEMMA OverIsWhole ==
  ASSUME IInv, Roomy, Over
  PROVE  Len(turns) = FullLength
<1>1. /\ Opened \in Nat /\ Asked \in Nat /\ Closed \in Nat /\ Summed \in Nat
      /\ Rebuttals \in Nat /\ CrossExaminations \in Nat /\ Cross \in {0, 2}
      /\ N \in Nat \ {0} /\ Len(turns) \in Nat /\ (Len(turns) = 0 <=> turns = <<>>)
  BY CountsAreNat DEF IInv
<1>2. InOrder /\ Counted /\ InTime
  BY DEF IInv
<1>3. CASE Stage = "over"
  <2>1. turns # <<>> /\ Asked = 2 /\ CrossExaminations = Cross /\ Closed = N /\ Summed = 1
    BY <1>3, StageIsRight DEF StageSays
  <2>2. Opened = N /\ Rebuttals = N + Cross
    BY <1>1, <1>2, <2>1 DEF InOrder
  <2>3. Len(turns) = 1 + N + 2 + (N + Cross) + N + 1
    BY <1>2, <2>1, <2>2 DEF Counted
  <2>4. FullLength = 1 + N + 1 + N + 1 + Cross + N + 1
    BY DEF FullLength, Cross
  <2> QED
    BY <1>1, <2>3, <2>4
<1>4. CASE Stage # "over"
  <2>1. Reserved(Stage) \in Nat /\ Len(turns) + 1 + Reserved(Stage) = FullLength
    BY <1>4, ReserveIsRight
  <2>2. used \in Nat /\ brief.maximum \in Nat \ {0} /\ Second \in Nat \ {0}
    BY BriefAssumption, SecondAssumption DEF IInv, TypeOK
  <2>3. used < brief.maximum
    <3>1. CASE turns = <<>>
      BY <1>2, <2>2, <3>1 DEF InTime
    <3>2. CASE turns # <<>>
      <4> DEFINE n == FullLength - Len(turns)
                 left == n * Second
      <4>1. used + left <= brief.maximum
        BY <1>2, <3>2 DEF InTime
      <4>2. n = 1 + Reserved(Stage)
        BY <1>1, <2>1
      <4>3. left = Second + Reserved(Stage) * Second /\ Reserved(Stage) * Second \in Nat
        <5> HIDE DEF n
        <5> QED
          BY <2>1, <2>2, <4>2
      <4> HIDE DEF left
      <4> QED
        BY <2>2, <4>1, <4>3
    <3> QED
      BY <3>1, <3>2
  <2>4. Remaining # 0
    BY <2>2, <2>3 DEF Remaining, AtLeast0
  <2> QED
    BY <1>4, <2>4 DEF Over
<1> QED
  BY <1>3, <1>4

LEMMA StepKeeps ==
  ASSUME IInv, [Next]_vars
  PROVE  IInv'
<1>1. CASE Produce
  BY <1>1, NewSessionKeeps DEF Produce
<1>2. CASE WorkerStarts
  BY <1>2, NewSessionKeeps DEF WorkerStarts
<1>3. CASE Speak
  BY <1>3, SpeakKeeps
<1>4. CASE Conclude
  <2>1. /\ Over /\ status' = "transcript_review" /\ engine' = "none"
        /\ UNCHANGED <<brief, turns, used, runs>>
    BY <1>4 DEF Conclude
  <2>2. TypeOK' /\ Busy'
    BY <2>1 DEF IInv, TypeOK, Busy
  <2>3. Roomy => Len(turns) = FullLength
    BY <2>1, OverIsWhole
  <2> QED
    BY <2>1, <2>2, <2>3, TurnsStay
<1>5. CASE Fail
  <2>1. status' # "transcript_review" /\ engine' = "none"
        /\ UNCHANGED <<brief, turns, used, runs>> /\ status' \in {"discussing", "failed"}
    BY <1>5 DEF Fail, IInv, Busy
  <2> QED
    BY <2>1, TurnsStay DEF IInv, TypeOK, Busy
<1>6. CASE Retry
  <2>1. /\ status' = "discussing" /\ engine' = engine
        /\ UNCHANGED <<brief, turns, used, runs>>
    BY <1>6 DEF Retry
  <2> QED
    BY <2>1, TurnsStay DEF IInv, TypeOK, Busy
<1>7. CASE UNCHANGED vars
  <2>1. /\ status' = status /\ engine' = engine
        /\ UNCHANGED <<brief, turns, used, runs>>
    BY <1>7 DEF vars
  <2>2. TypeOK' /\ Busy'
    BY <2>1 DEF IInv, TypeOK, Busy
  <2>3. Roomy /\ status' = "transcript_review" => Len(turns) = FullLength
    BY <2>1 DEF IInv, InTime
  <2> QED
    BY <2>1, <2>2, <2>3, TurnsStay
<1> QED
  BY <1>1, <1>2, <1>3, <1>4, <1>5, <1>6, <1>7 DEF Next

LEMMA InitInvariant == Init => IInv
<1> SUFFICES ASSUME Init PROVE IInv
  OBVIOUS
<1>1. TypeOK
  <2>1. <<>> \in Seq([by : Speaker, type : TurnTypes]) /\ 0 \in 0..MaxRuns
    BY MaxRunsAssumption
  <2> QED
    BY <2>1 DEF Init, TypeOK
<1>2. Unspoken
  BY <1>1 DEF Init, Unspoken, Busy
<1> QED
  BY <1>2, NothingSpoken

-----------------------------------------------------------------------------
(* What the discussion promises.                                           *)

\* The inductive invariant: the turns follow the plan, each is counted once,
\* and the time left holds a second for every turn still to come.
THEOREM DiscussionInvariant == Spec => []IInv
<1>1. Init => IInv
  BY InitInvariant
<1>2. IInv /\ [Next]_vars => IInv'
  BY StepKeeps
<1> QED
  BY <1>1, <1>2, PTL DEF Spec

\* The controller's reserve and its plan agree at every turn, for any panel.
THEOREM ReserveAgreesWithPlan == Spec => []ReservationExact
<1>1. IInv => ReservationExact
  BY ReserveIsRight DEF ReservationExact
<1> QED
  BY <1>1, DiscussionInvariant, PTL

\* However long the models speak, a roomy discussion stays within its maximum
\* and ends with the host's synthesis only.
THEOREM DiscussionFitsItsTime == Spec => []TimeToConclude
<1>1. IInv => TimeToConclude
  BY DEF IInv, InTime, TimeToConclude
<1> QED
  BY <1>1, DiscussionInvariant, PTL

\* Who is summed up has been heard: once at the opening, once at the close.
THEOREM SynthesisHeardEverybody == Spec => []EverybodyHeard
<1>1. ASSUME IInv, Summed > 0, NEW p \in Panelist
      PROVE  Times(p, "opening_position") = 1 /\ Times(p, "closing_statement") = 1
  <2>1. /\ Opened \in Nat /\ Asked \in Nat /\ Closed \in Nat /\ N \in Nat \ {0}
        /\ Closed = N /\ Opened = N
    BY <1>1, CountsAreNat DEF IInv, InOrder
  <2>2. p <= Opened /\ p \in ClosingSpeakers
    BY <1>1, <2>1, ClosersMissing DEF Panelist
  <2> QED
    BY <1>1, <2>2 DEF IInv, Heard
<1>2. IInv => EverybodyHeard
  BY <1>1 DEF EverybodyHeard, Summed, Times
<1> QED
  BY <1>2, DiscussionInvariant, PTL

=============================================================================
