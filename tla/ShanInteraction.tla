--------------------------- MODULE ShanInteraction ---------------------------
(***************************************************************************)
(* ShanMatch with the messages that players send, and a history variable   *)
(* that remembers how many games in a row each seated user has begun       *)
(* without sending one since.  It relates the kick of the preparing state  *)
(* to what players really did.                                             *)
(***************************************************************************)
EXTENDS ShanMatch

VARIABLE silentGames  \* history: games begun since the user's last message

allVars == <<vars, silentGames>>

InteractInit == Init /\ silentGames = [u \in User |-> 0]

\* A game that begins counts for everyone seated; who has no seat starts afresh.
Counts(before) ==
  silentGames' = [u \in User |->
    IF u \notin presences' THEN 0
    ELSE IF phase = "Preparing" /\ phase' = "Play" THEN before[u] + 1
    ELSE before[u]]

\* The Process handlers that hand the messages of a tick to
\* ProcessMessageFromUser: not the idle state's, nor the play state's once the
\* game has ended.
HandlesMessages == Tick /\ phase # "Idle" /\ (phase = "Play" => ~ finished)

\* A tick that has nothing to do but handle messages.
Waits == (phase # "Play" => ~ expired) /\ UNCHANGED vars

\* A tick with messages of some senders.  Nothing in ProcessMessageFromUser
\* touches the seats or PresencesNoInteract, whatever the messages say.
ProcessMessageFromUser(senders) ==
  /\ HandlesMessages
  /\ senders \subseteq OwnersOf(Joined)
  /\ MatchLoop \/ Waits
  /\ Counts([u \in User |-> IF u \in senders THEN 0 ELSE silentGames[u]])

\* Any other step of the match, a tick without messages among them.
MatchStep == Next /\ Counts(silentGames)

InteractNext ==
  \/ MatchStep
  \/ \E senders \in SUBSET User : ProcessMessageFromUser(senders)

InteractSpec == InteractInit /\ [][InteractNext]_allVars

\* preparing.go:27 "remove all user not interact 2 game conti": entering the
\* preparing state removes only users who sent nothing for KickAfter games.
\* (PresencesNoInteract is reset only when a user joins, so it removes all.)
KicksOnlyTheSilent ==
  [][phase = "Matching" /\ phase' = "Preparing" =>
       \A u \in presences \ presences' : u \in leaving \/ silentGames[u] >= KickAfter]_allVars
=============================================================================
