# Models of the bot, its matches and its games

TLA+ models of the parts of this repository in which threads, processes and
callbacks meet: the directory of matches in the bot, the life of a match, the game
subprocess behind it, the stage framework every game is written against, and the
subprocess that keeps the defaults of a game; and of parts that run by themselves: the task
queue, votes, alerts, scores, the record of matches, the options, and the rules of some of
the games. TLC checks them on small
instances; TLAPS proves the most important facts for all sizes.

Run one check with `tlc -config threads.cfg MCMatchManager.tla` (the table below has
the module of each configuration), and the proofs with `tlapm` on the eight
modules whose names end in `Proofs`.

## The system

A message from a chat service arrives on some thread of the host
(`bot_core/bot_core.cc`). A command that starts with `#` is a *meta command*
(`bot_core/message_handlers.cc`); everything else goes to the match its sender is in.

| component | state | operations | talks to |
|---|---|---|---|
| `MatchManager` (`bot_core/match/match_manager.*`) | three indices user/group/mid to match under `mutex_`, `next_mid_`, queue of the unbind worker | create, bind, unbind, look up, deferred unbind | `Match` through `shared_ptr` |
| `Match` (`match.*`) | phase (`MatchLobby` or `MatchRunning`) and users under `data_`, atomic `state_`, the terminator | join, leave, start, request, settings, help, interrupt, terminate, timeout | manager (unbind), subprocess (IPC while holding `data_`), timers |
| `MatchLobby`, `MatchRunning` | host, options; players, `is_over_`, votes, timers | what the commands do in either phase | subprocess |
| `MatchChildClient`, `Subprocess` | pipe and process | one request at a time, frames pushed before its result, `Cancel` (SIGTERM) | game subprocess |
| `Timer`, `MatchTimerFactory` | a thread for each timer, one "is over" flag per timer, retired timers | start, stop, fire | `Match`, from their own threads |
| `ChildGameSession`, `IpcMatchEnv` (`match_process/`) | main stage, player slots, deduction flag | start, execute, leave, timeout, the routine of the computers | bot (frames), stages |
| stage framework (`game_framework/stage*`) | nest of compound stages around one atomic stage | begin, handle, check out, terminate | the game's callbacks, `StageUtility` |
| `PlayerReadyMasker` | per player: ready, active state; two flags | set and clear, "nobody needs to be waited for" | `StageUtility` |
| `GameConfigClient` (`bot_core/game_config_client.*`) | the process and its last use under `mutex_`, a watchdog thread | nine requests with one retry each, idle shutdown, destructor | the process, from every thread that serves a command |
| `ChildConfigSession` (`match_process/`) | log of applied options, default formality | serve requests one by one | the game's code |
| `SerialTaskQueue` (`utility/`) | queue, stop flag, worker thread | post, stop, destructor | tasks of its callers |
| interrupt votes, alerts (`match_running.cc`) | who wants to interrupt; the tasks of a timer | vote, leave, hook; build, run | players, subprocess |
| `score_calculation` | - | scores of a match | - |
| `db_manager` | SQLite file | record a match, profile, erase one's record, honors, rankings | SQLite, from every thread that ends a match or asks |
| options (`bot_ctx.cc`, `game_handle.h`) | options in force, cached limits of each game, JSON tree, file | set, save, load at the start | commands of admins, new matches |
| games (`games/`), their helpers (`game_util/`) | whatever their rules need | callbacks of the stage framework | framework, players |
| command reading (`utility/msg_checker.h`, `extend_option.h`, the tables of commands) | the place of the next word | read a message with one format after another | bot, stages, options |
| frames (`ipc_frame.cc`, `subprocess.cc`) | two pipes | write and read a frame | the two processes |
| messages (`msg_sender.*`, `msg_fragment_ipc.cc`, the handlers of `match_child_client.cc`) | guards with fragments, one picture file per thread | write, send, collect, render | games, pipe, chat program |
| images, tools | - | - | - |

What is hard here:

* `data_` is held while the bot waits for a game that may hang or die, so `Match::Terminate`
  first signals the process without the lock and only then takes `data_`.
* A thread holds a `shared_ptr` between looking a match up and calling it. Meanwhile the
  match can begin, end, be unbound, and be succeeded by another with the same group and users.
* Unbinding takes several critical sections, and the timer's comes from a worker thread later.
* A timer thread must not destroy its own match; a timeout that waits for `data_` may be stale
  when it gets it.
* A change of a default is sent again when the process that got it is lost, perhaps after it had
  made the change; the watchdog destroys a process outside of the mutex that guards it. The
  watchdog is compiled out of the repository's tests (`TEST_BOT`).
* The two processes keep two copies of the players' states.
* A game's callback can hook, eliminate, clear and set ready anybody and restart the timer,
  and the framework decides from what is left whether the stage goes on. Stages can be over as
  soon as they begin, in chains, at any depth.

The list `hazards` of `PROJECT.json` has each of these at its line with the properties that
guard it.

## Modules

| module | what it is |
|---|---|
| `MatchManager` | the bot: directory, matches, request threads, timer threads, unbind worker, subprocess as seen from outside |
| `MatchLife` | what the bot promises about one match; `MatchManager` is shown to implement it |
| `MCMatchManager` | symmetry for the runs of `MatchManager` |
| `MatchManagerProofs` | proofs about `MatchManager` |
| `PlayerReadyMasker` | the masker, one operator per method, on a record |
| `GameSession` | one game from start to game over: subprocess, stages, masker, the running phase of the bot and its timer threads |
| `GameSessionProofs` | proofs about `GameSession` |
| `GameConfigClient` | the defaults of one game: client, configuration process, watchdog, commands that change defaults |
| `GameConfigClientProofs` | proofs about `GameConfigClient` |
| `SerialTaskQueue` | the queue on which the bot can run deferred work |
| `SerialExecution` | what a serial queue promises; `SerialTaskQueue` is shown to implement it |
| `InterruptVote` | votes to interrupt against leaves, hooks and eliminations |
| `MatchTimer` | the alerts of a timer and the thread that runs them |
| `MatchRunningProofs` | proofs about `InterruptVote`, `MatchTimer`, `Frames` and `SerialTaskQueue` |
| `ScoreCalculation` | zero-sum scores, top scores and ranks of a recorded match |
| `BetPool` | how the pots of a betting game are divided |
| `BiddingPoker` | the game of that name, with the bidding manager |
| `CrowdScoring`, `CrowdQuestions`, `CrowdLaterQuestions`, `CrowdOldQuestions`, `Crowd` | the questions of the game "crowd" as functions of the table |
| `CrowdGame` | the rounds of that game |
| `CrowdTable` | each of its questions once, for every choice of the players |
| `CrowdTests` | what the game's own tests expect of the questions |
| `GameProofs` | proofs about `BiddingPoker`, `CrowdGame`, `BetPool` and `HpKiller` |
| `Records` | the record of matches and players, transaction by transaction |
| `BotOptions` | options, cached limits, configuration tree and file |
| `StorageProofs` | proofs about `Records`, `ScoreCalculation` and `BotOptions` |
| `CountingLemmas` | numbers, finite sets and sums, for the proofs |
| `LoveLetter` | the game "love_letter" |
| `Holdem` | the game "holdem_poker" |
| `MCHoldem` | hold'em alone, for the run `overflow` |
| `CardGameProofs` | proofs about `Holdem` and `LoveLetter` |
| `HpKiller` | the game "hp_killer" |
| `HpKillerTests` | the games that its own tests play, and four small ones |
| `MsgChecker` | checkers of words: what they read, and what formats stand for |
| `Commands` | the tables of commands and options and who gets a message |
| `Frames` | the bytes of requests and replies |
| `Messages` | what a game says and what people see of it |
| `MCParts` | the parts that run by themselves, side by side in one run |

The two parts meet at `data_`: `MatchManager` lets a request to the subprocess have any
outcome the subprocess can give it, `GameSession` is what happens inside those requests. `GameConfigClient` stands apart: the bot
asks it for limits and defaults when a match is made, and what it answers is a choice in
`MatchManager`.

### MatchManager

One step is one critical section of `mutex_` or `data_`, or one lock-free access in between.
A request that holds `data_` during IPC is split into `Enter...` (takes the lock, sends),
`PushStart`/`PushGameOver` (a frame with state arrives), and `Reply` or `Eof` (releases it);
Help in a lobby holds `data_` too while it asks the configuration process (`EnterHelp`, `HelpAnswered`);
`NewMatch` holds `mutex_` over `BeginCreate` and `Create`/`CreateFails`, while the subprocess
is started. `pc` says where a thread is and `task` what it is doing and the match it holds a
pointer to. The code's early returns are disjuncts of the same action (`NoEffect`,
`RefusedWhileRunning`) or actions of their own (`CreateRefused`, `UndoJoin`). The loop that
unbinds all users of a match is one step: each user is unbound once and its iterations touch
different entries. Each match has one timer thread, named by the match; it may fire at any
moment of a running match, which covers every schedule. Options, texts, scores, votes,
elimination and hooking are choices here. A changed option sends everybody but the host away: `leave_when_config_changed_`
is true for every user (`match_common.h:91`) and nothing clears it.

`MatchLife` has three variables per match: its life, its roster, and who quit. The refinement
maps phase and `is_over_` to the life, `users_` to the roster and `presence_` to quit.

### GameSession

Under `data_` the two processes run one request at a time, and every frame the subprocess
pushes is applied before anything else happens to the match, so `slot` (subprocess) and
`mirror` (bot) change in one step. Only timer threads run beside that: `Fire` is the thread
that finds its flag unset and then waits for `data_`, `Timeout` is that thread with the lock,
reading the flag again.

`stages` is the nest: its depth, whether its innermost stage is atomic, the outermost stage
that is over and the number of atomic stages begun. `pc` and `call` say where the subprocess
is: in a callback of the game (`GameCall` makes any call of `StageUtility` there, `Return...`
ends it with any code of the return type), in `AtomicStage::Handle_`, on the way back through
the compound stages (`Checkout`, `ReturnSubStage`, `GameOver`), or in the loop of `Routine`.
The rules of the games are thereby external: any order of calls and any codes. Two
restrictions are taken from the games in `games/`: they start and stop timers only in
callbacks of atomic stages, and the commands of compound stages do not touch the masker. A
stage may restart its timer whenever it likes, also one that has fired and waits for `data_`. Not in the model: votes
to interrupt, messages and alerts (no state), a start refused by the game, and a subprocess
that dies (that is `MatchManager`'s).

### GameConfigClient

All nine methods of the client are one loop around different messages: lock `mutex_`, then at
most twice ensure a process, write, read; a failure gives the process up (`Lost`), a process
that cannot be started ends the call (`StartFails`), and two queries ask again without giving
it up (`AskAgain`). A thread is one `pc` through that loop with its request, attempt and
result, then `Save` for the commands that write the bot's configuration. Requests are of three
kinds: those that set an option, those that set the formality, and all that only read. An
option text is one of `Texts`, of which the game accepts `Valid`; all of them set the same
option, so that a later one replaces an earlier. `inbox` and `outbox` are the pipes. `Serve` is
one turn of `RunLoop`; its reply may come out garbled, since the game's code runs in the
process whose standard output the frames use. A process that died is noticed by the next write
or read only: `Subprocess::Ok` tells that it was started. The watchdog is `Watch` (under the
mutex) and `DestroyIdle` (outside); `GrowIdle` lets the five minutes pass at any moment.
`Destruct`, `WatchEnds` and `Shutdown` are the destructor; it starts when no call is under way,
as the bot is released after its last request (external). A `Procs` value may be used again once
its process is reaped. `acked` is history: the option calls the held process has answered yes.
Frames above the size limit, and the cached player limits, are left out.

### SerialTaskQueue

What happens under `mutex_` is one step, the `notify_one` after the unlock another, so that a
wake-up can meet a worker that is not asleep yet. A running task may post too. The destructor
starts when no other call is under way: that is the owner's duty (and the bot, which never calls
`PostCleanup` at this commit, keeps it). `Stop` leaves what waits in the queue to be run; the comments say otherwise (`StopBreaksPending`). `SerialExecution` has three variables: what was
accepted, what is done, and whether the queue is closed; what has run is always a prefix of what
was accepted.

### InterruptVote, MatchTimer, ScoreCalculation, BetPool

`InterruptVote` has the electorate of `UserInterrupt`: users who have not left and whose player is
not hooked. Nobody counts again when a leave or a hook makes the rest unanimous, and taking a
vote back counts too, so it can end the match. `quiet` tells whether the last change was a vote.
`MatchTimer` is `BuildGameTimerTasks`, the loop as the sequence of its turns, each with sum and alert, in the
arithmetic of the code's unsigned type, and the thread of `Timer`. `ScoreCalculation` keeps the
width of the sums (`IntBound` is half the range of the `int` with which `std::accumulate`
starts): past it the sum wraps in the model as in the code and the scores are nonsense, so `Fits`, which is part of the properties and not of
the actions, asks that the sums of the match fit. That is the numeric edge of the module and what the properties do not promise. The level
scores themselves are exponentials in floating point and left out; their ranks are here.
`BetPool` divides the pots that the smallest stakes make.

### BiddingPoker

One item after another is sold by rounds of bids, then players discard, and what they discard is sold.
`step` says whether the innermost stage begins, waits for requests, is over, or is left;
`masker` is the framework's. A bot (computer) may bid up to a quarter of its coins. Which deck is the better
is any order without ties (`Better`), since the scores only look at the order. `Bid` covers a
bid of 0, which is the code's way to pass.

### Crowd

Scores are counted in units of 1/120 (`U`), so that the halves, thirds, quarters, fifths and
tenths of the questions come out whole; what divides by a number of players is rounded towards
zero at that scale. A question `Qn` gives every player's points from the table `v`: the players with score,
last score and choice, the number of players for each option, the highest, lowest and middle
score, and `chance`, the draws of the question. `Endless` is the result of a division by 0.
`CrowdGame` is the sequence of rounds with the special rules, `CrowdTable` asks each question
once of two fixed tables with all choices. The questions agree with the compiled C++ on every choice of five tables
with four to seven players, except question 86, which pays an unassigned variable
(`gap`) when two people stand nearest. `CrowdTests` has the 350 tests of `games/crowd/unittest.cc` that
play one round, each as a question, the choices and the points to expect; `CrowdTable` plays
them too, and `AsTested` says that the model has the scores that the tests ask of the code.

### Records, BotOptions

A method of `db_manager.cc` opens the database anew and runs one transaction; a thread is at
one of its statements. What SQLite does is external and modelled from its use: with the
rollback journal and no busy timeout, whoever would have to wait fails, and `ExecuteTransaction`
turns that into `false`. `seen` of a row is the number of matches its level score was
calculated from. `ended` is history: the births ended by the users themselves. `Fail` covers every other exception
too; the text of the statements is left out, their effect is `WithMatch`, `Reborn`, `WithHonor`.

In `BotOptions` the critical sections of the option lock, of the tree's lock and each atomic
store are a step, opening the file (which empties it) and writing it are two, and a crash may
come anywhere. `LoseConfigProcess` is the loss of the configuration process, for being idle or by its death: the one started
in its place has the defaults the game was built with, while the cached limits and the tree stay (`forgotten`). One option of the bot, one of the game and the formality stand for all; the limits that
follow from an option of the game are its value. `crossed` and `unsaved` are history and mark
where the code makes no promise: two commands changed the limits at once or a match was made
with a preset, and the file could not be written.

### LoveLetter, Holdem

In `LoveLetter` the state of a round is a record and each function of the code an operator that
returns the record it leaves; a handler puts it back and then does what `AtomicStage::Handle_`
does. A player's `left` is the field of that name, set only when he leaves alive, `absent` are
those who left the match. `disturbed` is history: a leave may lose cards (see below), so the
place of each card is asked for only before the first leave. Two guards are two cards: a card is its
kind and a number, so that a swap or a discard of the wrong one shows.
`Holdem` is the betting: everybody bets in secret at the same time, who is behind follows. Cards are as
strong as they are, so their strength is drawn when the pots are opened; which raises and bets
are accepted is the code's condition, for computers too. A raise or bet may be any number up to
`IntMax`, which stands for `INT32_MAX`; the chips of all are far fewer. `RaiseOverflows` is a raise whose offset
is no `int32_t`: it wraps, is consumed, and the game is `"spoilt"`, where the model stops, since all sums after it may
overflow too. `ChipsFit` says that nothing else can.

### HpKiller

A role is a record with the fields of `RoleBase` and what its class adds; one operator says which
action a role accepts, one what the role is afterwards. The settlement is a function of all roles: first the sums that an action adds up
token by token, then curses, then what the guard throws back, then who dies, what the dead
leave behind, and whether a side has lost. `hunt` is the game: its roles and options,
and either the lines of one of the 108 tests of `unittest.cc`, each with the answer it expects, or what may be said. Left out
are the disabled tests and those that play a game of random roles.

### MsgChecker, Commands

A checker is a record with its kind and `Check` reads with it, a word after the other, as the
classes do: a refused word is consumed, a repeated checker goes back to where the refusal began,
an optional one with nothing left gives its default. `HandleRequest` tries the commands in
their order. Against this stands a definition without a reader: a message has a format if it
can be cut into pieces, one for each checker, that each stand for what their checker means
(`Cuts`, `StandsFor`, `Denotes`). The tables are those of the users' and administrators' commands,
five commands of one game with the nested checkers, and four options. Words are members of a
small set; how a message is split at its blanks and how formats are printed is left out, but the
examples that are printed are there word by word.

### Frames

`host` is a call of the bot, `child` the loop of the session, and the pipes are sequences of
bytes with room for `Room`. In the run a byte has two values and a header two bytes, so that a payload may be
too long (`MaxPayload`) and still have a length. Each write and read moves any part of what it
can. `Die` is a crash as well as the signal of `Cancel` and `Close`: what is in the pipe can
still be read, then there is an end of file. After a call that failed the client may be used again.

### Messages

`Say` is the destruction of a guard in the subprocess, whatever guards are open beside it: the
fragments become one frame, with neighbouring texts joined. The session says everything before the
bot reads, since it never looks at the bot meanwhile. `TakeFrame` sends a post off at once and puts a reply
into the guard of the request, which `EndOfCall` sends when the result has come or the
subprocess has died; `ToHost` turns a player into his number and a mention. `Render` draws one picture
at a time into the file of the thread and `Handle` gives a message to the chat program, which
shows what the file has then, so that of several pictures in a message all look like the last; `shown` and `said` are history. Players stay, and a directory for
pictures is set (without one, drawings are left out).

## Runs

| run | module | bounds | shows |
|---|---|---|---|
| `threads` | `MCMatchManager` | 2 users, 1 group, 2 request threads, 1 match, all commands and timers | `TypeOK`, `Lifecycle`, `LivesAsPromised` |
| `timers` | `MCMatchManager` | 2 users, 1 group, 1 thread, timers, 2 matches | `ListedMatchOwnsGroup` |
| `liveness` | `MCMatchManager` | 1 user, 1 group, 2 threads, timers, 1 match | `TerminateReturns`, `OverMatchUnlisted` |
| `session` | `GameSession` | 2 users and 1 computer, depth 2, 2 atomic stages, 1 timer | `TypeOK`, `NobodyLeftWaiting`, `SidesAgree`, `CommandFindsPlayerActive` |
| `config` | `GameConfigClient` | 2 threads, 2 processes, 2 calls, 2 losses, 1 accepted and 1 refused text | `TypeOK`, `OneInFlight`, `TakenIsQuiet`, `AnswersMatchLog`, `OneLossHidden`, `CallReturns`, `IdleGoes`, `ClosesDown` |
| `queue` | `SerialTaskQueue` | 3 tasks, 2 stopping threads | `TypeOK`, `WakeupComes`, `NothingLeftBehind`, `RunsInSeries`, `FutureAnswered`, `DestructorReturns` |
| `parts` | `MCParts` | below | `InterruptedWhenUnanimous`, `AlertsTellTheTruth`, `RecordsAddUp`, `OptionsAgree`, `EveryCardOnce`, `ScoresAreFair`, `LaterRoundsAreForTheBest`, `TableIsFair`, `SaidIsHeard`, `PayloadsArrive`, `GameEnds`, `ChoicesAreLegal`, `PartTypesOK` |
| `one_per_user`, `gaming_match`, `permanent`, `config_restart`, `overflow` | | the smallest in which it happens | a disagreement of the code with its documentation, comments or tests, see below |

Why the bounds are enough. Locks, phases and pointers are per match, so what two threads can do
to one match is all there in `threads` (three would only repeat roles). Mixing up two matches needs a
predecessor and a successor for the same group and user: `timers` has both, with
one group so that they must collide. `MaxPlayer = 0` is the code's "no limit". In `session`,
two users are the least for which somebody else can still be waited for when one leaves, one
computer is the least for the routine to do anything, and two stages are the least for what one
stage leaves behind (a hook, a set flag, a timer) to meet the next. In `config`, two losses are
what it takes to use up both attempts of a call, two processes are the least for one to be taken
away while the next starts, and two calls the least for one to meet what another left behind. Deadlock
checking is off for `GameSession`, where the game ends, and for `GameConfigClient`, where
nothing is left to do after the destructor.

In `queue`, three tasks let one run, one wait and one be posted, and the second stopper is the
least for a call of `Stop` that finds the flag set. `parts` has one initial state per part and no
step of one part touches another: three voters (somebody else can still be asked when one leaves); every duration up to
200 s with first alert 10, so chains of up to four alerts; four users with scores from
-7 to 40 and sums past the bound 128 as well as under it; four stakes of up to three coins and
two strengths of hands; bidding poker with two players and a computer, 4 coins, three cards of
which two are one lot, two bidding rounds and one round of discarding; crowd with four players,
two of them computers, a question with two and one with more options, two rounds, the special
rules that read what a round leaves behind (3, 4, 9); and its questions at a table with two
leaders, one below zero and one who has just won a lot, and at one with six beginners; two
threads on the record, two users, two matches, one erased record and one honor; two admins and
two values of every option; love letter with three players, the first to one point, and four
decks of seven cards in which every kind occurs; hold'em with two players and a computer, three
chips each and raises and bets of up to 12, which is `IntMax`, two rounds with base bets of 1 and 2, which makes side pots, remainders and
eliminations happen; hp killer with the roles of every test, in which all lines are played as
they stand, and with four games of five or six players with 15 points, in which one or two are heard in each of up to
four rounds, one leaves and every round may time out: each has another of the things that turn
a verdict round (ghost and traitor, twins, good nights, an agent); for the commands, every first word with up to two of nine other words, and
with a third that is a place or a number, every example, and options likewise; for the frames,
two requests with empty, short and too long payloads, up to one frame before each result, and pipes that
hold less than a frame; for the messages, two matches on two threads, one in a group with up to two messages of
up to two fragments per request, posts, replies and a private one, mentions and pictures in any
mixture, the other in private, with a picture, an empty text or nothing.

Some properties of `parts` say the same of several parts, each in its own terms:

| property | in | says |
|---|---|---|
| `TableIsFair` | `BetPool` (`PotsAreTheLevels`), `BiddingPoker` (`ScoresShareOutAll`), `CrowdTable` (`ScoresStayFinite`, `AlikeIsTreatedAlike`, `AsTested`), `LoveLetter` (`EveryLetterOnce`, `HandsAreRight`), `Holdem` (`ChipsFit`, `ChipsArePaidOut`, `StakesAreLevel`), `HpKiller` (`TheActiveCanAct`, `VerdictsStand`, `HuntAsTested`) | bets, coins and chips are shared out to the last one; each card is in one place; points are numbers, the same for the same; who is asked is the one the rules mean and has what he needs; a verdict is one that was not refused before; and all is as the games' tests expect |
| `SaidIsHeard` | `Commands` (`FormatsAreKept`, `ExamplesAreRead`), `Messages` (`EverybodyReadsAll`) | the first command with the format of a message gets it, with the arguments it says; everybody reads what was said to him, each message with the last of its own pictures |
| `GameEnds` | `BiddingPoker`, `LoveLetter`, `Holdem`, `HpKiller` | the game ends although nobody plays |

Fairness (`FairSpec` of `MatchManager`, for `liveness`): a thread that can run goes on, and a
thread waiting for a mutex gets it if it is released again and again (strong fairness of
`Proceed`, `TakeLock`, `TimerEnter`, `Eof`, `WorkerProcess`), because the operating system
schedules threads and its mutexes do not starve a waiter for ever; SIGTERM is delivered and
end of file seen. There is none for a game's answers: a game that hangs is a behaviour, and
`TerminateReturns` is about that game. A question of the lobby's help to the configuration
process returns (weak fairness of `HelpAnswered`): that is `CallReturns` of `GameConfigClient`, and holds for a process that
answers or dies. No signal of a terminate reaches that process, so behind one that hangs a terminate hangs too.

Fairness of `GameConfigClient` (for `config`): threads, watchdog and destructor go on when they
can, `mutex_` is granted at last to a thread that waits (strong fairness of `Acquire`), and a
process that lives answers (weak fairness of `Serve`). The last one is an assumption about the
games: nothing in the bot bounds how long a rule command may take. There is none for deaths,
commands, or the passing of the idle time.

Fairness of `SerialTaskQueue` (for `queue`): the worker goes on, a thread that has left `mutex_`
notifies, `join` returns when the worker has ended, and a task ends. Nobody has to post or stop.
Fairness of `BiddingPoker`, `LoveLetter`, `Holdem` and `HpKiller` (`MCSteps` in `MCParts`): time passes and the framework finishes what it began; no player has
to do anything, for every stage has a timer.

### What the code does and its documentation says otherwise

* `one_per_user`: cleanup is not idempotent as `match.cc:533` says: repeated, it unbinds by user id,
  whatever match that user is in by now.
* `gaming_match`: a refused `#新游戏` has already signalled the subprocess of the match being
  played (`match.cc:531`).
* `permanent`: hooking overwrites "permanently inactive" (`player_ready_masker.cc:115`), and the
  stage then waits for a player who left. With that assignment kept from overwriting, the
  property holds.
* `config_restart`: an option that was set, answered and saved is gone when the configuration
  process is next started (`child_config_session.cc:103`): the bot saves to one file, the process
  reads another that nothing writes, and what it reads would not reach the log that new matches
  are served from. `game_config_client.h:25` says no replay is needed. The formality goes the
  same way, and `set_game_default_formal` does not look at the client's answer at all.

* `overflow`: in hold'em a raise of up to `INT32_MAX` is added to the bet before anybody looks whether there are so many chips
  (`mygame.cc:293`); the sum wraps, passes for less than the player has, and consuming it makes chips.

Seen while modelling, and in no run of their own. Where a formula is named that is no property of a run, it says what
the code or its texts promise, and TLC refutes it within the bounds given; no passing run has it.

* With two request threads (the bounds of `threads`), the cleanup on a timer thread can drop the last pointer to its own
  match, which then joins itself (`match.cc:562`, against the rule in `timer.h:31`; `TimerNeverLastOwner`): the last user leaves the lobby, and while
  he unlists the match another joins with the pointer found before and starts it.
* Of two threads that terminate one match, the slower one unbinds the group by its id
  (`match.cc:538`) and takes it from the successor, the "blind erase" that `match_manager.cc:206` warns of:
  `ListedMatchOwnsGroup` holds for one thread beside the timers, as in `timers`, and not for two.
* With two threads a start may find the lobby dissolved, when the last player leaves while the start
  waits for the lock, and play it all the same, unlisted and with nobody in it.
* Replacing a timer does not set the flag of the old one (`match_running.cc:388`); if its
  thread already waits for `data_`, the stage is told of a timeout although its new time has only begun, or even the next stage is (`TimeoutIsDue`, with two timers in
  `session`). `TimeoutMeetsItsStage` says that this is the only way in which a timeout goes astray; it is proved, and
  too large for `session`, which has one timer only (TLC agrees for one user, one computer and three timers).
* `serial_task_queue.h:21` and `:42` say that the promises of pending tasks are broken by
  `Stop`; the code runs them all (`StopBreaksPending`). `NothingLeftBehind` is about what both want: that nobody waits for ever.
* In love letter the bishop's player may leave while his target is to choose (`mygame.cc:433`). The next player
  draws, and the target's choice then ends that player's turn (`TurnsHaveTwoCards`, against `rule.md:56`).
* The example that is shown for `新增荣誉` (`message_handlers.cc:1174`) has blanks in its last argument and is
  read by no command (`EveryExampleIsRead`). `ExamplesAreRead` is about the examples of single words.
* The pictures of one message are drawn into one file (`msg_sender.cc:63`), and so are those of
  all replies to a request, which are one message to the bot: all of them show the last one (`EveryPictureIsSeen`). `talent_comb/mygame.cc:850` replies
  with two, whose comment promises the board and the tiles of the round. `EverybodyReadsAll` says that this is all that can go wrong.
* Special rule 9 of crowd forbids the same option in two rounds that follow each other (`rules.h:73`), but
  a player who leaves is put back to A and stays there, and computers do not look (`mygame.cc:451`, `:456`; `NobodyStaysPut`). `ChoicesAreLegal` is about the
  other players.
* The sums in `score_calculation.cc:19` are `int`s, since `std::accumulate` takes the type of
  its initial 0; past 2^31 the zero-sum scores lose their sign.
* `bidding_poker/rule.md` gives five rounds where the option's default is three; the penalty's
  checker allows 0 to 1 where the default is 25; the last two decks share the rest in the text,
  the last one takes it in the code. A player who is out of a later round of bidding and not
  ready can neither bid nor pass, so that the round ends by time only.
* A match goes unrecorded when somebody asks for a profile, or another match is recorded, at the
  wrong moment: `COMMIT` fails (`db_manager.cc:36`, no busy timeout) and the players are told
  that the record failed (`match_running.cc:519`). An admin who erases the record of an unknown
  user is told that it was done.
* A new match with a preset overwrites the cached limits of its game by its own
  (`match_manager.cc:83`), for every later match that asks; two admins who set an option at once
  can leave the limits of one with the value of the other (`message_handlers.cc:1093`).
* The configuration file is emptied before it is written (`bot_ctx.cc:341`): a crash in between
  and the bot does not start, for the file cannot be parsed.
* In love letter, a player who leaves after he was thrown out of the round is dealt in again in
  the next one; if the bishop leaves while his target chooses, cards can be lost; the flatterer's target outlives the round; a draw of which nobody has discarded
  anything of value goes to player 0; a forced card that is refused is discarded without
  effect; a refused card changes its place in the hand.
* In hold'em, `mygame.cc:800` adds a remainder once for each winner of the pot, so more chips are
  announced as lost than are (`ChipsArePaidOut` has the sum as an upper bound).
* In hp killer with good nights, the killer's side can be told that it lost and win after all: it loses when
  the killer is dead and more than half of the civilians who live have said good night, and the
  death of one who said it undoes that (`VerdictsStand` leaves these games out of its last
  part; without the exception it fails). A curse or an injury that is refused for its strength
  has already become the role's action (`mygame.cc:1903`, `:1937`) and is carried out if the round times
  out; a computer whose action is refused is ready all the same.
* In crowd, a rabbit of question 116 that drops below the middle counts as a fox afterwards; the ties of
  question 43 go to the first option, not in the order of its text; option 测试 reaches 999 while the list of test mode 2 is shorter.
* `#排行` cannot have a game and `本群` without a range of time in
  between, though both look optional. `#加入 12abc` joins match 12 and `-1` wraps around
  to 4294967295 (`id.h`). A rule command of a game cannot be called `文字` or `图片`: `show_rule` comes first.
* A frame that the session cannot write because it is too long is only logged
  (`child_session.cc:159`): if it were a result, the bot would wait for it under `data_` until
  somebody terminates the match. `Frames` assumes that results are short, as the code's are.
* Replies reach
  people after all posts of their request, whatever the order in which the game wrote them.

## Proofs

`MatchManagerProofs`, from `ManagerAssumption` (thread names and match ids are disjoint, bounds
are naturals):

* `TypeCorrect`. `TypeOK` is not inductive: a thread past its lookup must hold a match and a
  request must have a user (`TaskInv`), and while `mutex_` is held for a new match that match
  must not exist yet (`SpawnInv`).
* `LifecycleHolds`. `LifeInv` strengthens `Lifecycle` by what holds while `data_` is taken: one
  thread at a time is inside, and what it is about to tear down.
* `PromiseKept`: initial states map to initial states of `MatchLife` and every step maps to a
  step or a stutter, from the same invariant.

`GameSessionProofs`, from `SessionAssumption` (some user plays, the bounds are naturals):

* `SessionTypeCorrect`: the lemmas `MaskerClosed`, `TypesOfTimers` and `TypesOfCall` carry the
  records, one step per action.
* `SidesAlwaysAgree`: `SidesAgree` is inductive with `TypeOK`.
* `CommandsFindPlayersActive`: from `SidesAgree` and `PermanentOnlyGone`, that only players who
  left or were eliminated are permanently inactive, and that a leave still with the compound stages
  is that of a player who left.
* `NobodyIsLeftWaiting`: `WaitsForSomebody` says the same at every place outside the game's code
  and `Handle_`, where a stage that is over may still be on its way out; `NestShape` says that
  the nest is not empty there. A command may reactivate its player without any callback
  running after it: `ActivationKeepsWaiting` shows that this only makes the wait longer.
* `TimeoutsMeetTheirStage`, for any number of timers and restarts: `AtomicShape` locates the atomic stage,
  `TimerShape` says that only an atomic stage has a timer, its own, and that every other timer
  is done, has its flag set or was replaced by its own stage.

`GameConfigClientProofs`, from `ConfigAssumption` (the markers are no thread and no process, the
accepted texts are texts, the bounds are naturals), by one inductive invariant `IInv`:

* `ConfigTypesCorrect`, with `LockShape`: a thread is inside its loop exactly when it holds the
  mutex, and then it has a process.
* `OnlyOneInFlight` and `TakenProcessIsQuiet`: `OneInFlight` is inductive with `ProcShape`, that the
  client and the watchdog hold different processes and that only the client's has
  anything in its pipes.
* `AnswersTellTheLog`: `NumberShape` makes calls distinct and later than everything logged,
  `ReplyShape` says that a request on its way is not in the log and a reply on its way tells
  whether it is, `AckShape` that a new process has told nobody anything.
* `SecondAttemptHidesLoss`: `LossShape` counts that each loss of a process uses up one attempt
  only. A call in its second attempt has one loss behind it and its new process to lose still.

`MatchRunningProofs`:

* `InterruptsWhenUnanimous`, from `VoteAssumption` (there are voters): a hook is the
  only thing that takes somebody out of those who still have to agree, and it is not a vote.
* `AlertsAreTrue`, from `TimerAssumption`: the tasks that `BuildGameTimerTasks` makes take exactly the
  duration (`TasksTakeTheTime`). The loop is a recursive function of the number of turns; that it exists and
  what it keeps (`LoopShape`) is by induction over `Nat`, in the form `Induction` gives it: a set
  with 0 and with each number the next.
* `EveryPayloadArrives`, from `FramesAssumption` (a byte has at least two values, the two bytes of a header can
  tell `MaxPayload`, the result is short enough): `FramesInv` describes the streams as a whole. What a session has read of a request,
  what is in its pipe and what the bot still has to write are together one frame (`AskShape`); likewise for the frames
  of a reply that the bot has not heard, of which the last is the result, with a rest that is lost if the session dies
  (`ReplyShape`). `ReadStep` is the heart of it: a read of any length never goes past the frame
  it began, knows when it has all of it, and then has its payload.
  `FlatFirst` takes the first frame off a reply and `SentEnds` finds the result at its end.
* `QueueTypeCorrect`, from `QueueAssumption` (the marker is no task); `NoWakeupLost`, since whoever makes a sleeping worker's condition true has
  a notify before it, and the worker goes to sleep only with the condition false.
* `QueueLeavesNothing` and `QueueIsSerial` from `InOrder` (what was accepted is what has run, is
  running and waits, in this order), with `PendingIsAhead`: a future is pending only for a task
  that is running or waits, and `EndedIsOver`: a worker that has ended found the queue empty and
  closed.

`StorageProofs`:

* `OptionsStayInStep`, from `OptionsAssumption` (there is a value, the marker of a free lock is no administrator): `LocksAreHeld` says who has which
  lock, `TreeFollows` that the tree and the file differ from the option only while a command is
  between them (the loss of the configuration process changes neither), `LimitsFollow` that, unless two commands have crossed, one command at a time changes the limits
  and has changed those it is done with, and `LimitsAreKnown` that the limits are of the defaults in force or, once their process is gone, of what the tree says.
* `RecordsAreSerial`, from `RecordsAssumption`: the base is always consistent (`MatchIsRecorded` and
  `ErasedIsWon` say that the writes keep it so) and `Isolated` says what a transaction that has
  read may still rely on when it writes, since a second writer has failed.
* `MatchesScoreFairly`, from `ScoreAssumption` (a match has finitely many users and at least one). The invariant is inductive
  as it stands; the work is in the sums. `TotalIsSum` and `SumGrows` show that the fold of the model adds in whatever order,
  by induction over the subsets of a finite set (`SubsetInduction`); the rest follows with
  `SumAdds`, `SumScales`, `SumBelow` and `SumCounts`. That the ranks share out is that as many are behind somebody as are ahead of somebody
  (`CountedBothWays`); that the zero-sum scores do is that each share is off by less than one (`RoundedTowardsZero`).

`GameProofs`, for every number of players:

* `NoCardIsLost`, from `BiddingAssumption`: `CardsInv` places each card in one hand or, while an
  item is for sale, in that item; what players have promised to discard is still in their hands.
* `LaterRoundsAreFair`: `BidsInv` keeps, from one round of bidding to the next, that those who may bid were level and ahead of all
  others.
* `CoinsAreSharedOut`, from an assumption about the options (the penalty is a percentage, a deck has a card at least): `ScoresInv`
  says that the bonus is the one of the present coins and hands, and that what is paid goes to the seller or into the pool
  (`PaymentKeepsCoins`). Since no two hands have a card in common (`CardsInv`), no two decks are equal and each place has one
  deck (`PlacesAreTaken`); what the decks get adds up, place by place, to what the pool was before less what is left of it
  (`PoolIsShared`), and `PercentIsLess` keeps rounding from making a score negative (`BonusShares`).
  `HalvesExist` shows that the model's recursive function of the places is one.
* `OnlyLegalChoicesCount`, an action property, from `CrowdAssumption`: `ChoicesInv` says that who is
  ready has made a choice that he may make. The choices of computers and of those whose time is up are
  legal because every question has two options at least (`TwoOptions`, over all questions of the game).
* `PotsAreDivided`, from `BetAssumption` (finitely many bets): `PotsInv` says that the loop has taken the same from everybody it has not come to
  and has opened the pots of all levels up to there; a bet no higher than the last opens none (`NoNewPot`), a higher one the next (`NewPot`).
* `WhoIsAwaitedCanAct` (`TheActiveCanAct`), from `HuntAssumption`, whatever may be said. The assumption (the run "parts" evaluates it)
  says that roles are of the game's occupations, options in their ranges, actions what the commands read, with a number for each
  token, and that a test that plays has a killer and at most one kind of traitors or agents. Of all other lists `AdaptOptions`
  demands the latter (`AdaptedHaveSides`). `HuntInv` adds that roles keep their seats, all of the game (`SeatIsOfTheGame`). A role that acts goes on being able to, or
  has just said good night (`ActedIsRole`); a time-out may hook who is out, but the round that it ends eliminates all who cannot act again, after
  everything else it does (`GoesOn`), whatever the order (`AllOusted`).
* `HuntTypes`, from the same assumption and by `HuntFair` (`RolesStayFair`), of which each role keeps its part whatever it does (`RoleActs`):
  no damage, cure or hidden damage is negative, in any order of settlement (`HurtIsNatural`), so that the dead do not recover. A shield adds to
  somebody's hit points too, but never to those of the dead, whom nobody can aim at (`ReflectedIsSettling`).
* `VerdictsAreFinal` (`VerdictsStand`). `HuntFair` keeps that, while the game goes on, the sides announced as lost are those
  of whom the dead tell (`FallenAt`). The dead stay dead and of their side through every round (`RoundIsFair`), hence who has lost
  stays lost, but for the killer's side when civilians have to say good night (`LostForGood`). So, whatever ends
  the match, some role is left to win and those who do are of one side (`CrownedStands`, `AgentStands`).

`CardGameProofs`, about hold'em from `HoldemAssumption` (there are finitely many players and at least one base bet, which `AdaptOptions`
demands, and the options are in their ranges; the run "parts" evaluates it), by one inductive invariant `TableInv`:

* `TableTypes` and `ChipsStayInRange`: until a raise overflows nobody bets more than he has, so that no number gets below 0 and none above
  all chips of the game (`NobodyHasMore`); the offset of a raise, which is the one sum that a message can make as large as it likes, fits when it is
  accepted. The raise that overflows comes last (`OverflowSpoils`, `SpoiltStays`), and the two theorems below are about the game before it. What the loops over players do to the masker is
  worked out once (`AllGetReady`, which love letter needs as well, and `AllRetire`), whatever order they take.
* `ChipsArePaid`: `ChipsInv` counts what is missing. `LevelsDivide` says that the pots of all levels have all that was bet in
  them, since what lies between the levels below a bet adds up to the bet (`GapsAddUp`), and each pot has somebody in it who is best
  (`SomebodyIsBest`); this also when all others have folded (`PotsDivide`). What the winners get, player by player, is what is
  paid, pot by pot (`SumsSwap`), and the remainders of the pots are at most what is announced as lost (`PotsArePaid`).
* `StakesStayLevel`: `StakesInv` adds that who has not acted is in and behind (or level, when he is to bet), and that while nobody
  has bet more, whoever has acted is level. Hence who is made to fold for his silence never was the highest, and
  somebody stays in.

And about love letter from `LetterAssumption` (two to 97 players, any set of decks that have each card once and
enough of them to deal everybody in, of which `MakeDeck` gives some; the run "parts" evaluates it), by one inductive invariant `LetterInv`:

* `LetterIsPeaceful`: while nobody leaves, one player alone is awaited and he can act. It is his turn and he has two
  cards (`Turning`), or he is the bishop's target and has one to give up (`Choosing`). The invariant
  adds that a flatterer's target can be reached and that the burn card is still there, so that `DrawCard_` never deals
  a null card: at the end of a turn it is gone only if the deck is empty, and then the round ends (`TurnDone`).
* `NoLetterIsLost` (`EveryLetterOnce`): `Keeps` says of an operator that wherever the cards were each in one place,
  they still are. It is transitive (`KeepsOn`) and holds of each thing that is done with cards: laid down, taken back, drawn from the deck or
  from the burn card, swapped, thrown away with the hand (`Exchange`: two piles share their cards
  out anew, all others stay), hence of every card played, whatever its target and the number guessed (`ResolvedIsPlayed`), of a forced
  card, refused or not (`TurnForced`), and of the choice (`ChosenTurned`). `FreshIsDealt` is where it begins:
  each place of the shuffle gets to one pile (`PlacesPart`).
* `HandsStayRight` (`HandsAreRight`): `OneEach` holds between two turns; who is out has no card, who is in has one, and
  `TurnBegins` gives the next player, who is in, another.

Only model-checked: `TableIsFair` and `SaidIsHeard`, each of which speaks about several
parts (of these `PotsAreTheLevels`, `ScoresShareOutAll`, `EveryLetterOnce`, `HandsAreRight`, `ChipsArePaidOut`, `StakesAreLevel`, `TheActiveCanAct` and `VerdictsStand` are proved: the others
need the scores of the questions, the tests of the games, the recursive readers of `MsgChecker`);
`PartTypesOK`, which the theorems above use part by part where they need types; and the liveness properties `TerminateReturns`, `OverMatchUnlisted`, `CallReturns`,
`IdleGoes`, `ClosesDown`, `FutureAnswered`, `DestructorReturns`, `GameEnds`, and the safety property `ListedMatchOwnsGroup`, which needs one request thread; liveness since the
prover does neither liveness under fairness nor `ENABLED`. Nor does it know `RECURSIVE` operators, which of all
modules only `MsgChecker` uses.

`CountingLemmas` holds what these proofs share. `Induction` follows from the well-founded order of the
numbers, `SubsetInduction` from the cardinality of finite sets; `SumExists` shows that the folds
with which the models add (`FoldSet`, which chooses an order) are functions of the set, whatever the order.

## Not modelled

The rankings and statistics of the record and the text of its statements, level scores in
floating point, the text of options and of configuration files, the loading of the games,
images and the wording of messages, how a message is split into words, the rules of the other
games, and the tools. Of the tests only those of "crowd" and "hp_killer" are in the model. The reasons are in
the `components` of `PROJECT.json`.

## What is left

1. A refused start in `GameSession`, and a composition in which `MatchManager` sees only the
   requests of `GameSession`.
2. A proof that love letter keeps its types when players leave.
3. Other games, one module each on the pattern of `LoveLetter`.
