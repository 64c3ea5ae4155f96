# A TLA+ model of the Shan game server

This directory specifies the Shan card game module of this repository: an
authoritative match for a Nakama server, written in Go. It holds TLA+ modules
translated from the code, TLC configurations that check them on small
instances, and proofs, checked by TLAPS, of what holds for every instance.

    tlc -config match.cfg MCShanMatch              # check one run
    tlapm ShanMatchProofs.tla                      # check one proof module

`PROJECT.json` lists the runs, the lines of code that each definition stands
for, a mutation of the code for every property that shows the property can
fail, the hazards of the code and what was found.

## 1. The system

| part | code | state | operations |
|---|---|---|---|
| match handler | `api/` | the match state (below) | `MatchInit`, `MatchJoinAttempt`, `MatchJoin`, `MatchLeave`, `MatchLoop` |
| state machine | `usecase/state_machine` | the state, a queue of triggers | Idle, Matching, Preparing, Play, Reward, Finish: `Enter`, `Process`, `Exit` |
| seats | `entity/base_state.go`, `usecase/processor/base_processor.go` | `Presences`, `PlayingPresences`, `LeavePresences`, `PresencesNoInteract`, `JoinsInProgress`, countdown | join, leave, pending leave, apply leaves, kick |
| game processor | `usecase/processor/processor.go` | through the match state | `ProcessNewGame`, `ProcessTurnbase`, `ProcessMessageFromUser`, `ProcessFinishGame` |
| turn engine | `usecase/processor/turnbase_engine.go` | round, phase, player, flags, countdown | `Config`, `Loop`, `NextPhase`, `RePhase` |
| game engine, deck | `usecase/engine`, `entity/deck.go` | the cards and how many are dealt | `NewGame`, `Shuffle`, `Deal` |
| hands | `entity/hand.go` | cards | `Eval`, `Compare`, rates, drawing |
| table accounting | `entity/match_state.go` | chips, bets, hands, dealer | players taken in, bets, dealing, drawing, payment, end of round |
| wallets, profiles | `entity/wallet.go`, `entity/profile.go` | in the host | read, update |
| users table | `cgbdb/user.go` | in the database: the match a user plays in | `UpdateUsersPlayingInMatch` |
| plumbing | `main.go`, `pkg/` | none | registration, logging, context |

**How they interact.** The host calls the handlers of one match one at a time,
so there is no data race inside a match. Two things happen outside: sessions
(an accepted attempt is followed by a join, or it is lost; a user may have
several sessions) and wall-clock time. `MatchLoop` fires `TriggerProcess`; a
`Process` handler may fire a trigger that changes the state. The state machine
queues triggers: one fired inside a handler runs when the handler has returned,
and if the handler returned an error it stays queued until the next tick. The
states call the processor, which calls the turn engine, the game engine and the
methods of the match state. Two stores outside the match follow it: the join and
leave handlers write into the users table which match a user plays in, and bets and
settlements are paid from and into wallets that the host keeps. Both kinds of
calls may fail, and the code only logs it.

**What is hard.** The order of attempts, joins and leaves around a game that is
running; leaves that take effect only after the game; an exit that is queued
over a tick; countdowns that are polled; the turn engine that is moved by time
and by messages in one tick; hands that are sorted in place while they are
evaluated again and again; and five maps of one round that must agree when the
next operation reads them, because the code ends the program when they do not.

**What makes each part correct.**

- *Seats*: there is a seat for everyone admitted; reservations come back; nobody
  leaves the table before the settlement; every seat belongs to someone, or is
  about to be freed; a seat is lost for a cause only.
- *State machine*: a queued trigger is run in a state that permits it; an empty
  table closes; an occupied table gets to a game.
- *Turn engine*: indices in range; each change announced once, when it is first
  reported; turns fair, and never held up by one player.
- *Game processor*: after the bets everybody has one turn and no bet moves; messages
  are taken from the player in turn; a settlement pays exactly or not at all; a game
  ends, whoever answers or does not.
- *Users table*: the rows mirror the seats, but for writes that failed.
- *Deck*: a card is dealt once in a game; shuffling loses none.
- *Hands*: the order of the cards changes neither the type of a hand nor its rate;
  comparing two hands again gives the same result; of two hands of two cards not both
  are better.
- *Accounting*: maps agree; the deck suffices; no negative chips; what was won
  arrives.

## 2. The modules

| module | models | proofs |
|---|---|---|
| `ShanMatch` | match handler, state machine, seats | `ShanMatchProofs` |
| `SeatAdmission` | abstract: invite, sit down, stand up, never more than the seats | implemented by `ShanMatch` |
| `ShanInteraction` | `ShanMatch` with the messages of players and a history of silent games | `ShanInteractionProofs` |
| `UsersPlaying` | `ShanMatch` with the rows of the users table | `UsersPlayingProofs` |
| `TurnBaseEngine` | the turn engine | `TurnBaseEngineProofs` |
| `ShanGame` | the game processor on the turn engine, bets, results, wallets | `ShanGameProofs` |
| `GameOfTurns` | abstract: bets, then one turn for everybody, then the end | implemented by `ShanGame` |
| `Deck` | deck and game engine | `DeckProofs` |
| `CardShoe` | abstract: cards left are drawn at random and never twice | implemented by `Deck` |
| `ShanHand` | the value of a hand, as operators | |
| `ShanShowdown` | two hands that draw and are compared repeatedly | `ShanShowdownProofs` (and of `ShanHand`) |
| `ShanRound` | rounds of `MatchState` with the server as dealer | `ShanRoundProofs` |
| `MC...` | the instances for TLC | |

### ShanMatch

One action per handler. `RejoinAttempt` and `NewAttempt` are the two accepting
paths of `MatchJoinAttempt`; the rejecting returns change nothing, so they are
stutters, and a wallet that is too small is the environment's choice not to let
the attempt happen. `MatchJoin(batch)` and `MatchLeave(batch)` take any set of
sessions, as the host delivers them. `session` is the host's view and external
to the code. The countdown is one bit, `expired`: whether the time set up by
the last `SetUpCountDown` has passed; `TimePasses` sets it.

One tick is one action: `Process`, the trigger it fires, `Exit` and `Enter`. The
exception is `IdleTimeout`, whose `Process` returns an error: the trigger stays
in the queue (`exitQueued`) and `RunQueuedExit` is the next tick.

`ProcessNewGame` panics in the program as it is, in every game, because `ToPb`
returns hands without cards and `notifyInitialDealCard` reads the first card of
one (`processor.go:474`). So everything after the entry to Play is out of reach
of the shipped program: it has `DealOutcomes = {"panicked"}`. The processor is an
interface, though, and the state machine and the seats do not depend on it; with
`"running"` among the outcomes the match has an injected processor whose new game may
return, and shows what the seat handlers do during games. Each run says which
outcomes it takes; the run `match` takes both.

### TurnBaseEngine

`Loop` is four actions: nothing is over, next phase, next round, next player.
`late` stands for a countdown that is negative when rounded. `Stay` and `Hit` are
what `ProcessMessageFromUser` does to the engine; `Hit` needs `allowAction`, which
the processor never sets, and is kept because the engine offers it. The history
variable `lap` remembers who had a turn in the current lap.

`info` is the last `TurnInfo` that `Loop` returned: the place and the three flags, as
the processor gets them. The flags of the engine (`isNew`) are set by `Config`, by `Stay`
and `Hit` between two ticks and by `Loop` itself, which hands them over and clears them.
The processor knows of the engine only what they say: a flag that is lost leaves a
turn unannounced, so that the messages of the player before are still taken, and one that stays set
announces a turn again, so that the game may end after a round of turns that was
none. `ChangesAnnounced` compares each `TurnInfo` with the one before it, in both directions.

The engine assumes at least one player, and that a round that follows a global
one has at least as many phases (`PhasesAssumption`): `NextRound` does not reset
the phase. The rounds that `ProcessNewGame` configures have one phase each.

### UsersPlaying

Each handler of `ShanMatch` is taken together with the one `UPDATE` it sends: the
join marks the users that were not on `LeavePresences`, a leave that is applied at
once and the leaves that are applied on entry to Matching or Preparing clear the
mark. `UpdateUsersPlayingInMatch` changes all rows of its list or, when it fails,
none; `unsure` is a history variable, the users whose last write failed. A leave
during a game clears nothing, even if the user does not play and loses the seat at
once. Rows are written by one match only.

### ShanGame

`ProcessTurnbase` is a call of `Loop` (`TurnBaseEngine`, which this module extends) and
what its `TurnInfo` asks for: `BetTick` in the betting round, `TurnsOpen` and
`TurnTick` in the round of turns, `DealerDraws` when everybody had a turn,
`GameFinishes` and `CalcPanics` when the dealer has SHAN. `IsNewRound`, `IsNewTurn`
and `IsNewPhase` are the flags of the `TurnInfo` that `Loop` returns. `Bet` is a bet message, `FinishGame` is
`ProcessFinishGame` with the arithmetic of `calcRewardForUserPlaying`, and
`WalletsUpdate` is the host: all changes or none, and none that would make a wallet
negative.

*How far this is the shipped program.* `ProcessNewGame` clears the bets before it looks
for who has bet, and then panics on the dealer's first card: in the program as it is, no
game gets beyond it, and the action `ProcessNewGame` says so. The other methods are
public methods of a processor that works on the state it is given. `SetTable` is a
caller that sets up the state with the exported operations of `MatchState` and
`Config`, the way `ProcessNewGame` is written to leave it. It is marked external in the
map, and everything said about later steps of a game is said of tables set up so.
With that, every method is modelled as it is, panics included: the betting round
announces a turn and panics if no game before it made the map `visited`; the dealer
draws below 17 while a hand has at most 9 points, so that after the last turn the
dealer always draws, and the message about it panics; the rate of a player
divides by chips that may be 0; a wallet that cannot be read is dereferenced. So a
game is settled only when the dealer has SHAN at the start of the turns.

Cards are abstracted to the verdict of each player, the rates and whether the dealer has
SHAN. Verdicts are free, ties included, although two SHAN hands never tie: a tie is
the only result that pays anything (the violated run `reward` shows why), and without
it the settlement would be vacuous. `STAY` changes nothing in a round of one phase, and
`HIT` needs `allowAction`, which nothing sets.

### Deck, ShanHand, ShanShowdown

`Shuffle` is one step for each turn of its loop, so that the proof that it
permutes the cards is an invariant. `held` is all that was dealt, in order.

`ShanHand` follows `hand.go` to the letter where it surprises: points from ten on
count their tens digit, the highest card of a hand is the first that is not a
two, and three cards of one suit make `Eval` panic.

### ShanRound

The operations of `MatchState` in the order in which `TestMatchState_MatchLoop`
calls them; nothing else plays whole rounds. The hands are abstracted to their
verdict against the dealer and their rate, chosen freely in `Settle`; what the
cards allow is the subject of `ShanShowdown`. A stage `Stopped` is the program
ended by `log.Fatal`. A player can never become the dealer: `SetInfoForDealer`
accepts one only if `playerIsDealer` is set already and nothing else sets it
(`match_state.go:933`, against the comments at 954), so the dealer is the server.
Amounts are computed with integer division as in the code; fees are
computed in floating point there and agree with the integer result for the
percentages of `GetTiLeTienHo_User` up to three million chips, which was tried out.

## 3. What the runs check

| run | instance | checks |
|---|---|---|
| `match` | 4 sessions of 3 users (one on two devices), 2 seats, lost joins, a new game panics or is played | `TypeOK`, `GuestsFit`, `JoinsCoverPending`, `QueuedExitIsHandled`, `PlayersStaySeated`, `CountersBounded`, `AdmissionSpec`, `EmptyTableCloses`, `OccupiedTablePlays`, `SeatLostForCause` |
| `match_game` | 3 sessions of 3 users, reliable joins, games are played, updates of the table may fail | `NoStrandedJoins`, `PendingOnlyInGame`, `SeatsAreOwned`, `PresentAreNotLeaving`, `SeatedAreMarked`, `LeaversAreRemoved`, `MarksAreCleared` |
| `match_closed` | as `match_game`, new game panics | *violated*: `ClosedOnlyWhenEmpty` |
| `match_kick` | 2 users, messages with any tick | *violated*: `KicksOnlyTheSilent` |
| `turns` | 3 players, 3 rounds, 1 or 2 phases | `TypeOK`, `InRange`, `ChangesAnnounced`, `LapsAreFair`, `EveryoneGetsATurn` |
| `deck` | 5 cards, dealt one or two at a time | `TypeOK`, `NothingDealtTwice`, `DeckIsWhole`, `ShoeSpec` |
| `hands` | 9 cards, 2 hands | `TypeOK`, `EvalIgnoresOrder`, `TwoCardDuelIsZeroSum`, `ResultIsStable` |
| `hand_flush` | the same | *violated*: `StraightFlushesAreFound` |
| `round` | 3 players, 20 cards, amounts scaled by 1000 | `TypeOK`, `DeckSuffices`, `PlayersHoldHands`, `PlayersAreSeated`, `NobodyOwes` |
| `round_money` | the same | *violated*: `MoneyComesBack` |
| `game` | 2 players, wallets of 4 and 3, bets from 4 to 13 | `GameTypeOK`, `TurnIsCurrent`, `TurnsSpec`, `SettlementIsExact`, `GameEnds` |
| `reward` | the same | *violated*: `WinnersArePaid` |

Deadlock is not checked where the system may stop: a match that has ended or
panicked, a showdown or a game that has panicked, a round that ended the program.
`deck` and `turns` check it.

**Bounds.** Two seats and three users make a table that can be full, with one
user refused; a fourth session gives one user a second device (`match`). A password
only restricts who attempts to join: no passing run sets one, and the theorems cover
both cases. `match_game` has one session for each user, which `NoStrandedJoins` and `PresentAreNotLeaving` need.
`JoinBound` stops attempts when `JoinsInProgress` is 4, twice the seats, which a
leak can reach.
`KickAfter` is 2 as in the code. The engine needs three players to tell a lap
from a swap, and two phases to tell a timeout from a message. Five cards are
enough for every kind of overlap of two deals with the end of the deck. The nine
cards of `hands` give hands of every type, ties of points and of highest ranks.
In `round` one player has just enough chips, one more, one too few; the smallest
and a large percentage make bets above and below the least bet; 20 cards are the
least that the assumption on the deck admits for three players. In `game` two players
tell the one in turn from the next; chips are counted in units of the least bet, so
that a bet message of 4 is above a wallet of 3 and below ten times the least bet
with some bets and above it with others; fees of 5 and 20 percent are those of a
player without and with a VIP level. `Limit` bounds the bets and, when a
new table is set up, the wallets: a settlement may go beyond it, so that nothing is cut
off while a game is on.

**Fairness.** The host calls `MatchLoop` at its tick rate while the match lives, and
time passes: weak fairness of `MatchLoop` and of `TimePasses`, as wholes. Nothing
is assumed about users or sessions. In the engine, `Loop` is called on each tick
while a game is played, and time passes; in `ShanGame` the same holds of `PlayProcess`,
which is the whole of the tick, and of time. A message of a player is never fair, so
that `GameEnds` says that a game ends although nobody answers. No liveness is
claimed for deck, hands and rounds, which are sequential.

**What the violated runs show.**

- `match_closed`: the idle timeout queues `TriggerExit` and returns an error, and the
  match does not look at the seats again. A user who joins before the next tick is
  thrown out of a match that closes (`idle.go:44-47`).
- `match_kick`: the counter behind "remove all user not interact 2 game conti"
  (`preparing.go:27`) is never reset by a message, so everybody is removed after
  two games.
- `hand_flush`: a straight flush panics instead of being reported (`hand.go:139-140`).
- `round_money`: the comments at `match_state.go:306-307` and `310` say that money goes
  back from playing to presence at the end of a round; no such move exists, and the
  next round overwrites what was won or lost.
- `reward`: the comments at `match_state.go:422-424` give a winner the win times the rate
  less a fee of 5 percent; the code divides the percentage by 100 as an integer first, and
  every win is 0 (`match_state.go:430`).

## 4. What is proved

TLAPS checks the theorems below for every value of the constants that the
assumptions admit (any number of users, seats, cards, rounds).

**ShanMatchProofs** (from `MatchAssumption`). The inductive invariant is the
conjunction of the properties the runs check, none of which is inductive alone:
`GuestsFit` needs `JoinsCoverPending`, because `MatchJoinAttempt` compares seats
and `JoinsInProgress` with the table, and that says something about the users on
their way only if the counter never falls below them; it holds for a user with
several sessions because a set of sessions has no more owners than members.
`PlayersStaySeated` needs `PendingOnlyInGame` at the moment a game begins, and
`CountersBounded` needs the kick on entry to Preparing. Theorems: `TypeCorrect`,
`Capacity`, `JoinsCovered`, `Players`, `Pending`, `Counters`, `QueuedExit`, the action
property `SeatLoss`, and `ImplementsAdmission`: every step of the match is a step of
`SeatAdmission` or a stutter. Three more theorems have the hypotheses that the
properties need, and show that no other is needed: `Present` (one session for each
user), `SeatsOwned` (no join is lost), `NothingStranded` (both). The last one rests on
`Present`: `MatchJoin` gives a reservation back exactly when the user is not on
`LeavePresences`.

The liveness properties of the match rest on arguments of two kinds: that ticks and
time go on, which is fairness and left to TLC, and that a tick makes progress and
nothing undoes it, which is proved as action properties with the same invariant.
`EmptyTablesSink` counts the ticks that an empty table is away from its end,
`OccupiedTablesAdvance` those that an occupied one is away from its next game (where
one player is enough, as `entity.MinPresences` says), and `LeaversInTime` shows that a
pending leaver outlasts only the change from Play to Reward. `JoinsReset` is the general form of
what run `match_kick` finds: a join sets the counter of games back, and nothing else.

**ShanInteractionProofs** (from the same). `InteractionIsMatch`: the match with messages is
a match, so `SafeWithMessages` carries its safety over. `SilenceCounted` is the half of
"remove all user not interact 2 game conti" that the code does keep: the counter starts
with the silence of a user and never falls behind it, except when the user joins
again while still seated. So everybody who is silent for two games, and does not
come back from another connection meanwhile, is removed, together with everybody else.

**UsersPlayingProofs** (from the same). `TableIsMatch`: every behaviour of the match
with the table is one of the match, so that the theorems above hold of it, and the
invariant of the match can be used for the table. `SeatedMarked` is then inductive:
the handlers write the rows of exactly the users who get or lose a seat
(`LoopClearsLeavers` for the ticks), and those who come back from `LeavePresences` have
kept theirs. `MarksCleared` is an action property: each step that takes a seat either
clears the row or is one of the two exceptions.

**TurnBaseEngineProofs** (from `EngineAssumption` and `PhasesAssumption`).
`TypeCorrect` and `IndicesInRange` are inductive with a third conjunct, `FlagsFit`:
`NextRound` keeps the phase, so the step that changes the round needs
`PhasesAssumption`. `FlagsFit` says which flags wait for the next report: all of them before the
first one of a game, later at most that of the phase, and that one whenever the phase is
not the one last reported. `ChangesToldOnce` follows for each way through `Loop`: what it
finds flagged and what it flags itself is what has changed since the last report. `LapsFair` is harder. Its invariant `LapIsArc` says that the
players of the current lap are an arc of the circle of players that ends at the one
reported last, and that the current player is that one or the next; the arc grows
by one at its end, and the next player is in the arc only if it is the whole
circle. `WaitingEnds` is the safe half of `EveryoneGetsATurn`: the distance of a waiting
player, in players and phases, never grows in the last round, shrinks with each
timeout, and a countdown is started anew only for a phase or for a card, of which a
player draws one.

**ShanGameProofs** (from `GameAssumption`, and through it those of the engine). The
invariant `GInv` adds to the engine's own how the variables fit together: while a game
is on, either nothing was reported yet and all flags wait, or the last report agrees
with the indices and no flag waits (`EngineInGame`); during the turns betting is closed,
the map `visited` is there, and the players in it are those from the first to the
current one (`TurnsInOrder`). `TurnCurrent` is a part of it. `ImplementsTurns` follows
because the next player is never in `visited` unless everybody is. `SettlementExact`
is arithmetic: the balance before is added and taken away again, whatever it was
read to be. `GameIsEngine` maps every step of a game to one of the engine, which makes
`GameLapsFair` a corollary of the engine's theorem. `TimeoutsEnd` counts the timeouts
that a game has left: no step of a game makes them more, and every tick after a timeout
makes them fewer, because neither of the two rounds is a global last one. So a game of n
players survives at most n + 1 timeouts. `WinsAreWorthless` is the general form of what
run `reward` finds: with any fees of up to 20 percent, the highest there are, only a tie pays.

**DeckProofs** (from `DeckAssumption`). The strengthening: the array is injective, what
is held is the prefix of the array up to `Dealt`, and nothing is dealt while the
deck is shuffled. `DealsAreDistinct` follows from the prefix; `DecksAreWhole` from
injectivity on a finite set; `ImplementsShoe` maps the cards behind the index to
the shoe.

**ShanRoundProofs** (from `RoundAssumption`). The strengthening ties the stages
together: who plays is seated and has ten times the least bet in `Presences`;
until the settlement `PlayingPresences` holds the same chips; after betting the
bets are those of the players and the server, none above the player's chips;
while cards can still be drawn two are left. `Solvency` follows because a loser
pays the dealer's price only when the chips suffice for it and the own bet
otherwise; `DeckNeverRunsOut` because a round starts with at most 1 + 3n cards dealt
and uses at most 2n + 4, for n players. Two more theorems say what these invariants mean for
the money. `RoundsForgetMoney`, the general form of what run `round_money` finds: the
chips in `Presences` are never written, so that every round, the tenth as the first, is
played with the chips brought to the table. `PoorestStay`: the test at the end of a round
for players below the least bet never finds one, so that only leavers are removed.

**ShanShowdownProofs** (from `ShowdownAssumption`: any set of cards). The points, the type and the rate of a
hand do not depend on the order of its cards: the points are a fold, which is unrolled for two and for three cards, the
only lengths a hand has; a reordering is then a permutation of two or three terms, and
every other operator of a hand is shown to be a function of such terms or of sets. The
invariant is the type, that the two hands share no card, and that the recorded result
is the one that the present hands give (`ShowdownInv`); the sorting in `Eval` is a
reordering and keeps it, from which `ResultStable` follows. `OrderIgnored` and `ZeroSum`
need only the type and that no card is in both hands. Theorems about all hands say what
other modules take for granted, or how far the code is from its comments:

- `DealerAlwaysDraws` (used by `DealerDraws` of `ShanGame`), `RatesOfHands` (the rates of
  `ShanGame` and `ShanRound`) and `ShanNeverTies`.
- `FlushesPanic`: exactly the hands of one suit that are no triple, not J Q K, and do not
  have six points, panic in `Eval`. `StraightFlushesPanic`, the general form of run
  `hand_flush`: hence no straight flush is ever reported.
- `TriplesOfFacesLose`: the comment at `hand.go:170` orders triples AAA > KKK > QQQ > ... >
  222, but a triple is compared by its points, and tens and faces have none: a player's
  triple of them loses to every triple of the dealer.

**Only model-checked.** Every safety invariant and every action property of the passing
runs is proved. What stays with TLC is liveness under fairness, which TLAPS cannot prove:
`EmptyTableCloses`, `OccupiedTablePlays`, `LeaversAreRemoved`, `EveryoneGetsATurn` and
`GameEnds`. Their safe halves are the theorems `EmptyTablesSink`, `OccupiedTablesAdvance`,
`LeaversInTime`, `WaitingEnds` and `TimeoutsEnd`; what is not proved is that the handlers
they count are called and enabled. The violated runs are counterexamples and have no
proof. Induction over data is out of reach of the installed provers: the facts about
the points of a hand are proved for two and three cards by unrolling, not for
sequences of any length.

## 5. Not modelled

Notifications to clients and their wording; the storage behind wallets and
profiles, whose reads and writes are outcomes; logging, registration and the
context that carries the arguments.

`ShanGame` has a fixed set of players: it is not composed with the seats, because the
shipped program never has a game during which a seat could change. What leaves do to
seats during a game is in `ShanMatch`, with an injected processor.

A player as dealer: `playerIsDealer` is set by `SetInfoForDealer` only when it is set
already (`match_state.go:933`), so that those branches are unreachable. Branches of
`GetTiLeTienHo_User` for banks above its limits are left out: the share of the bet it
computes is 0 unless a bet is more than a hundred times the chips. `SplitHand`,
`DoubleBet` and other methods that nothing calls are left out.

Other matches: the rows of the users table are written by one match.

Some of what the code does is outside every property because no part of the
repository promises otherwise: a lost join reserves a seat for good, a user with two
sessions can strand a reservation, users who are kicked stay connected, a bet message
adds the whole wallet to the bet while the wallet pays the chips of the message, and a
game that ends with SHAN leaves betting open.

## 6. What could follow

1. `ShanRound` with a player as dealer (`POT`), should the code make one reachable.
2. `ShanGame` on the seats of `ShanMatch`, should `ProcessNewGame` get past its first
   message: `DealOutcomes` would be replaced by it.
3. `ZeroSum` for three cards: which of the longer hands of two players compare the same way
   in both directions.
