------------------------- MODULE TurnBaseEngineProofs ------------------------
(***************************************************************************)
(* Proofs about TurnBaseEngine for every number of players and every table *)
(* of rounds that satisfies the assumptions of the module.                 *)
(***************************************************************************)
EXTENDS TurnBaseEngine, SequenceTheorems, TLAPS

\* Between two reports no flag of a round or of a turn is set, and the flag of a
\* phase is set if the phase is not the one last reported; before the first report
\* of a game all are set.
FlagsFit ==
  isInit =>
    IF info = NoTurn THEN isNew = AllFlags
    ELSE /\ info.round = curRound /\ info.player = curPlayer
         /\ ~ isNew.round /\ ~ isNew.turn
         /\ info.phase # curPhase => isNew.phase

IInv == TypeOK /\ InRange /\ FlagsFit

\* A round of the table has at least one phase.
LEMMA RoundsAreTyped ==
  \A r \in Round : Rounds[r].isGlob \in BOOLEAN /\ Rounds[r].phases \in Nat \ {0}
<1> DEFINE S == [isGlob : BOOLEAN, phases : Nat \ {0}]
<1>1. Rounds \in Seq(S)
  BY EngineAssumption
<1> HIDE DEF S
<1>2. \A r \in Round : Rounds[r] \in S
  BY <1>1, ElementOfSeq DEF Round
<1> QED
  BY <1>2 DEF S

\* The first round exists.
LEMMA OneIsARound == Len(Rounds) \in Nat /\ 1 \in Round
<1> DEFINE S == [isGlob : BOOLEAN, phases : Nat \ {0}]
<1>2. Rounds \in Seq(S) /\ Rounds # <<>>
  BY EngineAssumption
<1> HIDE DEF S
<1>1. Len(Rounds) \in Nat \ {0}
  BY <1>2, EmptySeq
<1> QED
  BY <1>1 DEF Round

\* Before the first game the indices point to the beginning.
LEMMA InitIInv == Init => IInv
<1> SUFFICES ASSUME Init PROVE IInv
  OBVIOUS
<1>0. Size \in Nat \ {0}
  BY EngineAssumption
<1>1. TypeOK
  <2>1. isInit \in BOOLEAN /\ late \in BOOLEAN
    BY DEF Init
  <2>2. curRound \in Round /\ curPhase \in Nat \ {0} /\ curPlayer \in Player
    BY <1>0, OneIsARound DEF Init, Player
  <2>3. isNew \in Flags /\ info \in TurnInfo
    BY DEF Init, NoFlags, Flags, NoTurn, TurnInfo
  <2> QED
    BY <2>1, <2>2, <2>3 DEF TypeOK, Init
<1>2. InRange
  BY OneIsARound, RoundsAreTyped DEF Init, InRange, PhasesOf
<1> QED
  BY <1>1, <1>2 DEF IInv, Init, FlagsFit

\* A report is well typed when the place it reports is.
LEMMA ReportTyped ==
  ASSUME TypeOK, NEW place \in Place, NEW flags \in Flags,
         place.player \in Player, Report(place, flags)
  PROVE  info' \in TurnInfo /\ isNew' \in Flags /\ lap' \subseteq Player
BY DEF Report, InfoOf, LapWith, TypeOK, Place, TurnInfo, Flags, NoFlags

\* After a report of the place where the engine is, the flags fit.
LEMMA ReportFits ==
  ASSUME NEW place, NEW flags, Report(place, flags), curPlayer' \in Player,
         place.round = curRound', place.player = curPlayer', place.phase = curPhase'
  PROVE  FlagsFit'
<1>1. info' # NoTurn
  BY EngineAssumption DEF Report, InfoOf, NoTurn, Player
<1> QED
  BY <1>1 DEF FlagsFit, Report, InfoOf, NoFlags

\* Every operation of the engine keeps its indices inside the tables and flags
\* what it changes; NextRound relies on PhasesAssumption.
LEMMA StepIInv == IInv /\ [Next]_vars => IInv'
<1> SUFFICES ASSUME IInv, [Next]_vars PROVE IInv'
  OBVIOUS
<1>0. Size \in Nat \ {0} /\ Len(Rounds) \in Nat
  BY EngineAssumption, OneIsARound
<1>a. /\ TypeOK /\ InRange /\ FlagsFit
      /\ curRound \in 1 .. Len(Rounds) /\ curPlayer \in 1 .. Size
      /\ curPhase \in Nat \ {0} /\ curPhase <= Rounds[curRound].phases
      /\ Rounds[curRound].phases \in Nat \ {0}
  BY RoundsAreTyped DEF IInv, TypeOK, InRange, Round, Player, PhasesOf
<1>b. Current \in Place /\ isNew \in Flags
  BY <1>0, <1>a DEF Current, Place, TypeOK
<1>1. ASSUME NEW first \in Player, Config(first)
      PROVE  IInv'
  <2>1. TypeOK'
    <3>1. isInit' \in BOOLEAN /\ late' \in BOOLEAN
      BY <1>1 DEF Config
    <3>2. (curRound \in Round /\ curPhase \in Nat \ {0} /\ curPlayer \in Player)'
      BY <1>1, OneIsARound DEF Config, Round, Player
    <3>3. (isNew \in Flags /\ info \in TurnInfo)'
      BY <1>1 DEF Config, AllFlags, NoFlags, Flags, NoTurn, TurnInfo
    <3> QED
      BY <1>1, <3>1, <3>2, <3>3 DEF TypeOK, Config
  <2>2. InRange'
    BY <1>1, OneIsARound, RoundsAreTyped DEF Config, InRange, PhasesOf
  <2>3. FlagsFit'
    BY <1>1 DEF Config, FlagsFit
  <2> QED
    BY <2>1, <2>2, <2>3 DEF IInv
<1>2. CASE LoopStays
  <2>1. Report(Current, isNew) /\ Current.player = curPlayer
    BY <1>2 DEF LoopStays, Current
  <2>2. TypeOK'
    BY <1>2, <1>a, <1>b, <2>1, ReportTyped DEF LoopStays, TypeOK, Player
  <2>3. InRange' /\ FlagsFit'
    BY <1>2, <1>a, <2>1, ReportFits DEF LoopStays, InRange, PhasesOf, Current, Player
  <2> QED
    BY <2>2, <2>3 DEF IInv
<1>3. CASE LoopNextPhase
  <2> DEFINE place == [round |-> curRound, player |-> curPlayer, phase |-> curPhase + 1]
             flags == [isNew EXCEPT !.phase = TRUE]
  <2>1. /\ place \in Place /\ flags \in Flags /\ place.player \in Player
        /\ [Current EXCEPT !.phase = curPhase + 1] = place
    <3>1. place \in Place /\ place.player \in Player
      BY <1>0, <1>a DEF Place, Player
    <3>2. flags \in Flags
      BY <1>b DEF Flags
    <3>3. [Current EXCEPT !.phase = curPhase + 1] = place
      BY DEF Current
    <3> QED
      BY <3>1, <3>2, <3>3
  <2>2. Report(place, flags)
    BY <1>3, <2>1 DEF LoopNextPhase
  <2>3. TypeOK'
    <3>1. info' \in TurnInfo /\ isNew' \in Flags /\ lap' \subseteq Player
      BY <1>a, <2>1, <2>2, ReportTyped
    <3>2. curPhase' \in Nat \ {0}
      BY <1>3, <1>a DEF LoopNextPhase
    <3>3. isInit' \in BOOLEAN /\ late' \in BOOLEAN
      BY <1>3, <1>a DEF LoopNextPhase, TypeOK
    <3> QED
      BY <1>3, <1>a, <3>1, <3>2, <3>3 DEF LoopNextPhase, TypeOK
  <2>4. InRange'
    BY <1>3, <1>a DEF LoopNextPhase, HasNextPhase, InRange, PhasesOf
  <2>5. FlagsFit'
    BY <1>3, <1>a, <2>2, ReportFits DEF LoopNextPhase, Player
  <2> QED
    BY <2>3, <2>4, <2>5 DEF IInv
<1>4. CASE LoopNextRound
  <2> DEFINE place == [round |-> curRound + 1, player |-> curPlayer, phase |-> curPhase]
  <2>1. curRound \in 1 .. Len(Rounds) - 1 /\ curRound + 1 \in Round
    BY <1>0, <1>4, <1>a DEF LoopNextRound, HasNextRound, Round
  <2>2. Rounds[curRound].phases <= Rounds[curRound + 1].phases
    BY <1>4, <2>1, PhasesAssumption DEF LoopNextRound, IsGlob
  <2>3. Rounds[curRound + 1].phases \in Nat
    BY <2>1, RoundsAreTyped
  <2>4. /\ place \in Place /\ AllFlags \in Flags /\ place.player \in Player
        /\ [Current EXCEPT !.round = curRound + 1] = place
    BY <1>0, <1>a, <1>b DEF Place, Flags, AllFlags, Player, Current
  <2>5. Report(place, AllFlags)
    BY <1>4, <2>4 DEF LoopNextRound
  <2>6. TypeOK'
    BY <1>4, <1>a, <2>1, <2>4, <2>5, ReportTyped DEF LoopNextRound, TypeOK
  <2>7. InRange'
    BY <1>4, <1>a, <2>2, <2>3 DEF LoopNextRound, InRange, PhasesOf
  <2>8. FlagsFit'
    BY <1>4, <1>a, <2>5, ReportFits DEF LoopNextRound, Player
  <2> QED
    BY <2>6, <2>7, <2>8 DEF IInv
<1>5. CASE LoopNextPlayer
  <2> DEFINE place == [round |-> curRound, player |-> NextPlayer, phase |-> 1]
             flags == [isNew EXCEPT !.turn = TRUE, !.phase = TRUE]
  <2>1. NextPlayer \in 1 .. Size
    BY <1>0, <1>a DEF NextPlayer
  <2>2. place \in Place /\ flags \in Flags /\ place.player \in Player
    <3>1. place \in Place /\ place.player \in Player
      BY <1>0, <1>a, <2>1 DEF Place, Player
    <3>2. flags \in Flags
      BY <1>b DEF Flags
    <3> QED
      BY <3>1, <3>2
  <2>3. Report(place, flags)
    BY <1>5, <2>2 DEF LoopNextPlayer
  <2>4. TypeOK'
    <3>1. info' \in TurnInfo /\ isNew' \in Flags /\ lap' \subseteq Player
      BY <1>a, <2>2, <2>3, ReportTyped
    <3>2. curPlayer' \in Player /\ curPhase' \in Nat \ {0}
      BY <1>5, <1>a, <2>1 DEF LoopNextPlayer, Player
    <3>3. isInit' \in BOOLEAN /\ late' \in BOOLEAN
      BY <1>5, <1>a DEF LoopNextPlayer, TypeOK
    <3> QED
      BY <1>5, <1>a, <3>1, <3>2, <3>3 DEF LoopNextPlayer, TypeOK
  <2>5. InRange'
    BY <1>5, <1>a DEF LoopNextPlayer, InRange, PhasesOf
  <2>6. FlagsFit'
    BY <1>5, <2>1, <2>3, ReportFits DEF LoopNextPlayer, Player
  <2> QED
    BY <2>4, <2>5, <2>6 DEF IInv
<1>6. CASE Stay
  <2>1. isNew' \in Flags /\ isNew'.phase /\ isNew'.turn = isNew.turn /\ isNew'.round = isNew.round
    BY <1>6, <1>b DEF Stay, Flags
  <2>2. TypeOK'
    <3>1. curPhase' \in Nat \ {0}
      BY <1>6, <1>a DEF Stay
    <3>2. isInit' \in BOOLEAN /\ late' \in BOOLEAN
      BY <1>6, <1>a DEF Stay, TypeOK
    <3> QED
      BY <1>6, <1>a, <2>1, <3>1, <3>2 DEF Stay, TypeOK
  <2>3. InRange'
    BY <1>6, <1>a DEF Stay, HasNextPhase, InRange, PhasesOf
  <2>4. FlagsFit'
    BY <1>6, <1>a, <2>1 DEF Stay, MyTurn, NoTurn, FlagsFit
  <2> QED
    BY <2>2, <2>3, <2>4 DEF IInv
<1>7. CASE Hit
  <2>1. isNew' \in Flags /\ isNew'.phase /\ isNew'.turn = isNew.turn /\ isNew'.round = isNew.round
    BY <1>7, <1>b DEF Hit, Flags
  <2>2. TypeOK'
    BY <1>7, <1>a, <2>1 DEF Hit, TypeOK
  <2>3. InRange' /\ FlagsFit'
    BY <1>7, <1>a, <2>1 DEF Hit, MyTurn, NoTurn, InRange, PhasesOf, FlagsFit
  <2> QED
    BY <2>2, <2>3 DEF IInv
<1>8. CASE TimePasses
  BY <1>8, <1>a DEF TimePasses, IInv, TypeOK, InRange, PhasesOf, FlagsFit
<1>9. CASE UNCHANGED vars
  BY <1>9, <1>a DEF vars, IInv, TypeOK, InRange, PhasesOf, FlagsFit
<1> QED
  BY <1>1, <1>2, <1>3, <1>4, <1>5, <1>6, <1>7, <1>8, <1>9 DEF Next, Loop

\* Setting the flag of a phase, or of a turn and a phase, leaves the others.
LEMMA FlagSet ==
  ASSUME NEW f \in Flags
  PROVE  /\ [f EXCEPT !.phase = TRUE].round = f.round
         /\ [f EXCEPT !.phase = TRUE].turn = f.turn
         /\ [f EXCEPT !.phase = TRUE].phase
         /\ [f EXCEPT !.turn = TRUE, !.phase = TRUE].round = f.round
         /\ [f EXCEPT !.turn = TRUE, !.phase = TRUE].turn
         /\ [f EXCEPT !.turn = TRUE, !.phase = TRUE].phase
BY DEF Flags

LEMMA AllStaySet ==
  /\ [AllFlags EXCEPT !.phase = TRUE] = AllFlags
  /\ [AllFlags EXCEPT !.turn = TRUE, !.phase = TRUE] = AllFlags
<1>1. \A f \in Flags : (f.round /\ f.turn /\ f.phase) => f = AllFlags
  BY DEF Flags, AllFlags
<1>2. AllFlags \in Flags /\ AllFlags.round /\ AllFlags.turn /\ AllFlags.phase
  BY DEF Flags, AllFlags
<1>3. /\ [AllFlags EXCEPT !.phase = TRUE] \in Flags
      /\ [AllFlags EXCEPT !.turn = TRUE, !.phase = TRUE] \in Flags
  BY <1>2 DEF Flags
<1> QED
  BY <1>1, <1>2, <1>3, FlagSet

\* Loop announces what it moved, and what was flagged since its last report.
LEMMA LoopAnnounces == ASSUME IInv, Loop PROVE Announces
<1>0. /\ isInit /\ FlagsFit /\ isNew \in Flags
      /\ curRound \in 1 .. Len(Rounds) /\ curPlayer \in 1 .. Size
      /\ Size \in Nat \ {0} /\ Len(Rounds) \in Nat
  BY EngineAssumption, OneIsARound
     DEF IInv, TypeOK, Round, Player, Loop, LoopStays, LoopNextPhase, LoopNextRound, LoopNextPlayer
<1> USE DEF Report, InfoOf, Current
<1>1. CASE LoopStays
  <2>1. /\ info'.round = curRound /\ info'.player = curPlayer /\ info'.phase = curPhase
        /\ info'.isNew = isNew
    BY <1>1 DEF LoopStays
  <2> QED
    BY <1>0, <2>1 DEF FlagsFit, Announces, TurnMoved, PlaceMoved
<1>2. CASE LoopNextPhase
  <2>1. /\ late /\ info'.round = curRound /\ info'.player = curPlayer
        /\ info'.isNew = [isNew EXCEPT !.phase = TRUE]
    BY <1>2 DEF LoopNextPhase
  <2>2. /\ info'.isNew.round = isNew.round /\ info'.isNew.turn = isNew.turn /\ info'.isNew.phase
        /\ isNew = AllFlags => info'.isNew = AllFlags
    BY <1>0, <2>1, FlagSet, AllStaySet
  <2> QED
    BY <1>0, <2>1, <2>2 DEF FlagsFit, Announces, TurnMoved, PlaceMoved
<1>3. CASE LoopNextRound
  <2>1. late /\ info'.round = curRound + 1 /\ info'.isNew = AllFlags
    BY <1>3 DEF LoopNextRound
  <2> QED
    BY <1>0, <2>1 DEF FlagsFit, Announces, TurnMoved, PlaceMoved, AllFlags
<1>4. CASE LoopNextPlayer
  <2>1. /\ late /\ info'.round = curRound /\ info'.player = NextPlayer
        /\ info'.isNew = [isNew EXCEPT !.turn = TRUE, !.phase = TRUE]
    BY <1>4 DEF LoopNextPlayer
  <2>2. /\ info'.isNew.round = isNew.round /\ info'.isNew.turn /\ info'.isNew.phase
        /\ isNew = AllFlags => info'.isNew = AllFlags
    BY <1>0, <2>1, FlagSet, AllStaySet
  <2>3. NextPlayer = curPlayer => Size = 1
    BY <1>0 DEF NextPlayer
  <2> QED
    BY <1>0, <2>1, <2>2, <2>3 DEF FlagsFit, Announces, TurnMoved, PlaceMoved
<1> QED
  BY <1>1, <1>2, <1>3, <1>4 DEF Loop

-----------------------------------------------------------------------------
(***************************************************************************)
(* Laps.  In a round that is played player by player, those who had a turn *)
(* in the current lap sit side by side, from the one who began it to the   *)
(* current player.                                                         *)
(***************************************************************************)
Arc(first, last) == IF first <= last THEN first .. last ELSE (first .. Size) \cup (1 .. last)

LapStarted == /\ info.player = curPlayer /\ ~ isNew.turn
              /\ \E first \in Player : lap = Arc(first, curPlayer)

LapIsArc ==
  /\ ~ isInit \/ IsGlob => lap = {}
  /\ ~ isInit => info = NoTurn
  /\ lap = {} \/ LapStarted
  /\ isInit /\ lap = {} => IsGlob \/ isNew.turn

\* The next player has not had a turn in this lap unless everybody had one.
LEMMA ArcGrows ==
  ASSUME NEW first \in Player, NEW last \in Player,
         NEW next, next = IF last < Size THEN last + 1 ELSE 1
  PROVE  /\ next \in Player
         /\ Arc(first, last) = Player \/ next \notin Arc(first, last)
         /\ Arc(first, last) # Player =>
              Arc(first, last) \cup {next} = Arc(first, next)
         /\ Arc(next, next) = {next}
         /\ Arc(first, last) # {}
<1>0. Size \in Nat \ {0} /\ first \in 1 .. Size /\ last \in 1 .. Size
  BY EngineAssumption DEF Player
<1>1. next \in 1 .. Size
  BY <1>0
<1>2. Arc(next, next) = {next} /\ last \in Arc(first, last)
  BY <1>0, <1>1 DEF Arc
<1>3. CASE next = first
  <2>1. Arc(first, last) = 1 .. Size
    <3>1. CASE last < Size
      <4>1. first = last + 1 /\ ~ (first <= last)
        BY <1>0, <1>3, <3>1
      <4>2. ((last + 1) .. Size) \cup (1 .. last) = 1 .. Size
        BY <1>0, <3>1
      <4> QED
        BY <4>1, <4>2 DEF Arc
    <3>2. CASE last = Size
      BY <1>0, <1>3, <3>2 DEF Arc
    <3> QED
      BY <1>0, <3>1, <3>2
  <2> QED
    BY <1>1, <1>2, <2>1 DEF Player
<1>4. CASE next # first
  <2>1. next \notin Arc(first, last)
    BY <1>0, <1>1, <1>4 DEF Arc
  <2>2. Arc(first, last) \cup {next} = Arc(first, next)
    <3>1. CASE last < Size /\ first <= last
      BY <1>0, <1>4, <3>1 DEF Arc
    <3>2. CASE last < Size /\ ~ (first <= last)
      BY <1>0, <1>4, <3>2 DEF Arc
    <3>3. CASE last = Size
      BY <1>0, <1>4, <3>3 DEF Arc
    <3> QED
      BY <1>0, <3>1, <3>2, <3>3
  <2> QED
    BY <1>1, <1>2, <2>1, <2>2 DEF Player
<1> QED
  BY <1>3, <1>4

\* What Loop reports, with the player and the round it leaves.
LEMMA LoopReports ==
  ASSUME IInv, Loop
  PROVE  /\ isInit /\ isInit' /\ info'.player = curPlayer' /\ info'.round = curRound'
         /\ ~ isNew'.turn
         /\ \/ /\ curPlayer' = curPlayer /\ curRound' = curRound
               /\ lap' = IF ~ isNew.turn \/ IsGlob THEN lap
                         ELSE IF lap = Player THEN {curPlayer'} ELSE lap \cup {curPlayer'}
            \/ /\ IsGlob /\ curPlayer' = curPlayer
               /\ lap' = IF Rounds[curRound'].isGlob THEN lap
                         ELSE IF lap = Player THEN {curPlayer'} ELSE lap \cup {curPlayer'}
            \/ /\ ~ IsGlob /\ curPlayer' = NextPlayer /\ curRound' = curRound
               /\ lap' = IF lap = Player THEN {curPlayer'} ELSE lap \cup {curPlayer'}
<1>0. isNew \in Flags
  BY DEF IInv, TypeOK
<1> USE DEF Report, InfoOf, LapWith, NoFlags, Current, IsGlob, AllFlags
<1>1. CASE LoopStays
  BY <1>1 DEF LoopStays
<1>2. CASE LoopNextPhase
  BY <1>0, <1>2 DEF LoopNextPhase, Flags
<1>3. CASE LoopNextRound
  BY <1>3 DEF LoopNextRound
<1>4. CASE LoopNextPlayer
  BY <1>0, <1>4 DEF LoopNextPlayer, Flags
<1> QED
  BY <1>1, <1>2, <1>3, <1>4 DEF Loop

\* Loop keeps the laps, and gives no second turn before everybody had one.
LEMMA LoopIsFair ==
  ASSUME IInv, LapIsArc, Loop
  PROVE  /\ LapIsArc'
         /\ info'.player # info.player => lap = Player \/ info'.player \notin lap
<1>0. /\ curPlayer \in Player /\ IInv' /\ curPlayer' \in Player
      /\ isInit /\ isInit' /\ info'.player = curPlayer' /\ ~ isNew'.turn
  <2>1. IInv'
    BY StepIInv DEF Next
  <2> QED
    BY <2>1, LoopReports DEF IInv, TypeOK
<1>a. Arc(curPlayer', curPlayer') = {curPlayer'} /\ {} # Player
  BY <1>0, EngineAssumption DEF Arc, Player
<1>1. CASE lap = {} /\ lap' = {}
  BY <1>0, <1>1, LoopReports DEF LapIsArc, IsGlob
<1>2. CASE lap = {} /\ lap' = {curPlayer'}
  BY <1>0, <1>a, <1>2, LoopReports DEF LapIsArc, LapStarted, IsGlob
<1>3. CASE LapStarted
  <2>1. ~ IsGlob /\ ~ isNew.turn /\ info.player = curPlayer
    <3>1. PICK first \in Player : lap = Arc(first, curPlayer)
      BY <1>3 DEF LapStarted
    <3>2. lap # {}
      BY <1>0, <3>1, ArcGrows
    <3> QED
      BY <1>3, <3>2 DEF LapIsArc, LapStarted
  <2>2. CASE curPlayer' = curPlayer /\ curRound' = curRound /\ lap' = lap
    BY <1>0, <1>3, <2>1, <2>2 DEF LapIsArc, LapStarted, IsGlob
  <2>3. CASE /\ curPlayer' = NextPlayer /\ curRound' = curRound
             /\ lap' = IF lap = Player THEN {curPlayer'} ELSE lap \cup {curPlayer'}
    <3>1. PICK first \in Player : lap = Arc(first, curPlayer)
      BY <1>3 DEF LapStarted
    <3>2. /\ lap = Player \/ curPlayer' \notin lap
          /\ lap # Player => lap \cup {curPlayer'} = Arc(first, curPlayer')
      BY <1>0, <2>3, <3>1, ArcGrows DEF NextPlayer
    <3>3. LapStarted'
      BY <1>0, <1>a, <2>3, <3>2 DEF LapStarted
    <3> QED
      BY <1>0, <2>1, <2>3, <3>2, <3>3 DEF LapIsArc, IsGlob
  <2> QED
    BY <2>1, <2>2, <2>3, LoopReports
<1>4. lap = {} => lap' = {} \/ lap' = {curPlayer'}
  BY <1>a, LoopReports
<1> QED
  BY <1>1, <1>2, <1>3, <1>4 DEF LapIsArc

\* The operations between two Loops report nothing and change no lap, or start a
\* new game.
LEMMA OthersAreFair ==
  ASSUME IInv, LapIsArc,
         \/ \E first \in Player : Config(first)
         \/ Stay \/ Hit \/ TimePasses \/ UNCHANGED vars
  PROVE  /\ LapIsArc'
         /\ info'.round = info.round /\ info'.player # info.player => lap = Player \/ info'.player \notin lap
<1>0. isNew \in Flags
  BY DEF IInv, TypeOK
<1>1. ASSUME NEW first \in Player, Config(first)
      PROVE  LapIsArc' /\ info'.player \notin lap
  <2>1. lap' = {} /\ isInit' /\ isNew'.turn
    BY <1>1 DEF Config, AllFlags
  <2>2. info'.player = 0 /\ 0 \notin Player /\ lap \subseteq Player
    BY <1>1, EngineAssumption DEF Config, NoTurn, Player, IInv, TypeOK
  <2> QED
    BY <2>1, <2>2 DEF LapIsArc
<1>2. CASE Stay \/ Hit
  <2>1. /\ UNCHANGED <<isInit, curRound, curPlayer, info, lap>> /\ isNew'.turn = isNew.turn
    BY <1>0, <1>2 DEF Stay, Hit, Flags
  <2> QED
    BY <2>1 DEF LapIsArc, LapStarted, IsGlob
<1>3. CASE TimePasses \/ UNCHANGED vars
  <2>1. UNCHANGED <<isInit, curRound, curPlayer, info, lap, isNew>>
    BY <1>3 DEF TimePasses, vars
  <2> QED
    BY <2>1 DEF LapIsArc, LapStarted, IsGlob
<1> QED
  BY <1>1, <1>2, <1>3

-----------------------------------------------------------------------------
(***************************************************************************)
(* The theorems.                                                           *)
(***************************************************************************)

\* Rounds, phases, players and flags keep their types.
THEOREM TypeCorrect == Spec => []TypeOK
<1>1. IInv => TypeOK
  BY DEF IInv
<1> QED
  BY InitIInv, StepIInv, <1>1, PTL DEF Spec

\* Loop never indexes the phases of a round out of range, although NextRound
\* keeps the phase.
THEOREM IndicesInRange == Spec => []InRange
<1>1. IInv => InRange
  BY DEF IInv
<1> QED
  BY InitIInv, StepIInv, <1>1, PTL DEF Spec

\* The flags of the TurnInfos announce each change of round, turn and phase of a
\* game when it is reported first, and never again.
THEOREM ChangesToldOnce == Spec => ChangesAnnounced
<1> DEFINE Told == Loop => Announces
<1>1. IInv /\ [Next]_vars => [Told]_vars
  BY LoopAnnounces
<1>2. Spec => [][Told]_vars
  BY InitIInv, StepIInv, <1>1, PTL DEF Spec
<1> QED
  BY <1>2 DEF ChangesAnnounced

\* Nobody has a second turn before everybody had one, whether or not time goes on.
LEMMA LapsFairWithoutTime == Init /\ [][Next]_vars => LapsAreFair
<1> DEFINE Fair == info'.round = info.round /\ info'.player # info.player =>
                     lap = Player \/ info'.player \notin lap
<1>1. Init => LapIsArc
  BY DEF Init, LapIsArc
<1>2. IInv /\ LapIsArc /\ [Next]_vars => LapIsArc' /\ [Fair]_vars
  BY LoopIsFair, OthersAreFair DEF Next
<1>3. Init /\ [][Next]_vars => [][Fair]_vars
  BY InitIInv, StepIInv, <1>1, <1>2, PTL
<1> QED
  BY <1>3 DEF LapsAreFair

\* Nobody has a second turn before everybody had one.
THEOREM LapsFair == Spec => LapsAreFair
BY LapsFairWithoutTime, PTL DEF Spec

-----------------------------------------------------------------------------
(***************************************************************************)
(* Why everyone gets a turn: the part of the argument that is not about    *)
(* fairness.                                                               *)
(***************************************************************************)
InLastRound == isInit /\ curRound = Len(Rounds) /\ ~ IsGlob

\* How far the turn of a player is away, in players and in phases.
PlayersUntil(p) == IF curPlayer <= p THEN p - curPlayer ELSE p - curPlayer + Size
PhasesUntil(p)  == PlayersUntil(p) * PhasesOf(curRound) + (PhasesOf(curRound) - curPhase)

\* In the last round nothing takes the turn of a player who waits farther away; a
\* timeout brings it nearer; and who gets the countdown started anew pays with a
\* phase or with the one card that a player may draw.
TurnsComeNearer ==
  [][\A p \in Player \ {curPlayer} :
       InLastRound /\ (Loop \/ Stay \/ Hit \/ TimePasses) =>
         /\ PhasesUntil(p)' <= PhasesUntil(p)
         /\ Loop /\ late => PhasesUntil(p)' < PhasesUntil(p)
         /\ late /\ ~ late' => PhasesUntil(p)' < PhasesUntil(p) \/ drawn' \ drawn # {}]_vars

\* The distance in phases is a number.
LEMMA DistanceTyped ==
  ASSUME IInv, NEW p \in Player
  PROVE  /\ Size \in Nat \ {0} /\ PhasesOf(curRound) \in Nat \ {0}
         /\ p \in 1 .. Size /\ curPlayer \in 1 .. Size
         /\ curPhase \in Nat \ {0} /\ curPhase <= PhasesOf(curRound)
         /\ PlayersUntil(p) \in Nat
         /\ PhasesUntil(p) \in Int
<1>1. /\ Size \in Nat \ {0} /\ PhasesOf(curRound) \in Nat \ {0}
      /\ p \in 1 .. Size /\ curPlayer \in 1 .. Size
      /\ curPhase \in Nat \ {0} /\ curPhase <= PhasesOf(curRound)
  BY EngineAssumption, RoundsAreTyped DEF IInv, TypeOK, InRange, PhasesOf, Player
<1>2. PlayersUntil(p) \in Nat
  BY <1>1 DEF PlayersUntil
<1>3. PlayersUntil(p) * PhasesOf(curRound) \in Int
  BY <1>1, <1>2
<1> QED
  BY <1>1, <1>2, <1>3 DEF PhasesUntil

\* The next player is one player nearer to everybody else.
LEMMA NextIsNearer ==
  ASSUME IInv, NEW p \in Player \ {curPlayer}, LoopNextPlayer
  PROVE  PhasesUntil(p)' < PhasesUntil(p) /\ PhasesUntil(p)' <= PhasesUntil(p)
<1> DEFINE k == PhasesOf(curRound)
           d == PlayersUntil(p)
<1>1. /\ curPlayer' = NextPlayer /\ curPhase' = 1 /\ curRound' = curRound
  BY DEF LoopNextPlayer
<1>2. PlayersUntil(p)' = d - 1
  BY <1>1, DistanceTyped DEF PlayersUntil, NextPlayer
<1>3. k \in Nat \ {0} /\ d \in Nat /\ curPhase \in Nat \ {0} /\ curPhase <= k
  BY DistanceTyped
<1>4. PhasesUntil(p)' = (d - 1) * k + (k - 1)
  BY <1>1, <1>2 DEF PhasesUntil, PhasesOf
<1>5. PhasesUntil(p) = d * k + (k - curPhase)
  BY DEF PhasesUntil
<1> HIDE DEF k, d
<1>6. \A a \in Nat, b \in Nat \ {0} : (a - 1) * b = a * b - b /\ a * b \in Nat
  OBVIOUS
<1>7. (d - 1) * k = d * k - k /\ d * k \in Nat
  BY <1>3, <1>6
<1> QED
  BY <1>3, <1>4, <1>5, <1>7

\* In the last round no waiting player loses ground: what remains of
\* EveryoneGetsATurn is that ticks and time go on.
THEOREM WaitingEnds == Spec => TurnsComeNearer
<1> DEFINE Nearer(p) ==
             InLastRound /\ (Loop \/ Stay \/ Hit \/ TimePasses) =>
               /\ PhasesUntil(p)' <= PhasesUntil(p)
               /\ Loop /\ late => PhasesUntil(p)' < PhasesUntil(p)
               /\ late /\ ~ late' => PhasesUntil(p)' < PhasesUntil(p) \/ drawn' \ drawn # {}
<1>1. ASSUME IInv, NEW p \in Player \ {curPlayer}, InLastRound,
             Loop \/ Stay \/ Hit \/ TimePasses
      PROVE  /\ PhasesUntil(p)' <= PhasesUntil(p)
             /\ Loop /\ late => PhasesUntil(p)' < PhasesUntil(p)
             /\ late /\ ~ late' => PhasesUntil(p)' < PhasesUntil(p) \/ drawn' \ drawn # {}
  <2> DEFINE Less == PhasesUntil(p)' < PhasesUntil(p) /\ PhasesUntil(p)' <= PhasesUntil(p)
  <2>0. PhasesUntil(p) \in Int
    BY <1>1, DistanceTyped
  <2>1. ASSUME LoopNextPlayer PROVE Less
    BY <1>1, <2>1, NextIsNearer
  <2>2. ASSUME LoopNextPhase \/ Stay PROVE Less
    <3>1. /\ curPhase' = curPhase + 1 /\ UNCHANGED <<curRound, curPlayer>>
      BY <2>2 DEF LoopNextPhase, Stay
    <3>2. PlayersUntil(p)' = PlayersUntil(p) /\ PhasesOf(curRound)' = PhasesOf(curRound)
      BY <3>1 DEF PlayersUntil, PhasesOf
    <3>3. /\ PhasesUntil(p)' = PlayersUntil(p) * PhasesOf(curRound)
                                 + (PhasesOf(curRound) - (curPhase + 1))
          /\ PhasesUntil(p) = PlayersUntil(p) * PhasesOf(curRound)
                                + (PhasesOf(curRound) - curPhase)
      BY <3>1, <3>2 DEF PhasesUntil
    <3>4. PlayersUntil(p) \in Nat /\ PhasesOf(curRound) \in Nat /\ curPhase \in Nat
      BY <1>1, DistanceTyped
    <3>5. PlayersUntil(p) * PhasesOf(curRound) \in Int
      BY <3>4
    <3> QED
      BY <3>3, <3>4, <3>5
  <2>3. ASSUME LoopStays \/ Hit \/ TimePasses
        PROVE  /\ PhasesUntil(p)' = PhasesUntil(p)
               /\ LoopStays => ~ late
               /\ late /\ ~ late' => drawn' \ drawn # {}
    <3>1. UNCHANGED <<curRound, curPlayer, curPhase>>
      BY <2>3 DEF LoopStays, Hit, TimePasses
    <3>2. PhasesUntil(p)' = PhasesUntil(p)
      BY <3>1 DEF PhasesUntil, PlayersUntil, PhasesOf
    <3>3. LoopStays => ~ late
      BY <1>1 DEF LoopStays, InLastRound
    <3>4. late /\ ~ late' => drawn' \ drawn # {}
      BY <2>3, <3>3 DEF LoopStays, Hit, TimePasses
    <3> QED
      BY <3>2, <3>3, <3>4
  <2>4. ~ LoopNextRound
    BY <1>1 DEF LoopNextRound, InLastRound
  <2>5. Loop => LoopStays \/ LoopNextPhase \/ LoopNextPlayer
    BY <2>4 DEF Loop
  <2>6. Loop /\ late => Less
    BY <2>1, <2>2, <2>3, <2>5
  <2>7. Less \/ (/\ PhasesUntil(p)' = PhasesUntil(p)
                 /\ late /\ ~ late' => drawn' \ drawn # {})
    BY <1>1, <2>1, <2>2, <2>3, <2>5
  <2>8. PhasesUntil(p)' <= PhasesUntil(p)
    BY <2>0, <2>7
  <2> QED
    BY <2>6, <2>7, <2>8
<1>2. IInv /\ [Next]_vars => [\A p \in Player \ {curPlayer} : Nearer(p)]_vars
  BY <1>1
<1>3. Spec => [][\A p \in Player \ {curPlayer} : Nearer(p)]_vars
  BY InitIInv, StepIInv, <1>2, PTL DEF Spec
<1> QED
  BY <1>3 DEF TurnsComeNearer
=============================================================================
