------------------------------ MODULE BotOptions ------------------------------
(***************************************************************************)
(* The options of the bot and of one game as the commands of the admins      *)
(* change them (bot_core/message_handlers.cc, bot_ctx.cc, game_handle.h):    *)
(* the option that is in force, the limits that are cached of it, the tree   *)
(* of the configuration and the file it is saved in, by several threads,     *)
(* through the loss of the process that keeps the defaults of the game, and  *)
(* through a crash.  How that process is asked is in GameConfigClient.       *)
(***************************************************************************)
EXTENDS Integers, FiniteSets

CONSTANTS
    Admins,     \* threads of commands
    Settings    \* values of an option; the limits that follow from it are the same

Keys == {"bot", "game", "formal"}
First == CHOOSE v \in Settings : TRUE
Unlocked == "none"
Torn == <<>>            \* the file has been emptied and not been written yet

ASSUME OptionsAssumption == Unlocked \notin Admins /\ Settings # {}

VARIABLES
    live,       \* what is in force: mutable_bot_options_ and the defaults of the game
    cachedMaxPlayer, cachedMultiple,
    json,       \* config_json_
    file,       \* the configuration file
    optionLock, jsonLock,
    task,       \* the command of each thread and how far it is
    down,       \* the bot cannot start
    unsaved,    \* history: the last attempt to save has failed
    crossed,    \* history: two commands changed the limits at once, or one for its match
    forgotten   \* history: the configuration process has gone since the game was set

optionVars == <<live, cachedMaxPlayer, cachedMultiple, json, file, optionLock, jsonLock, task,
                down, unsaved, crossed, forgotten>>

NoTask == [key |-> "none", value |-> First, pc |-> "idle"]
Defaults == [k \in Keys |-> First]

OptionsInit ==
    /\ live = Defaults /\ json = Defaults /\ file = Defaults
    /\ cachedMaxPlayer = First /\ cachedMultiple = First
    /\ optionLock = Unlocked /\ jsonLock = Unlocked
    /\ task = [a \in Admins |-> NoTask]
    /\ down = FALSE /\ unsaved = FALSE /\ crossed = FALSE /\ forgotten = FALSE

Goto(a, pc) == task' = [task EXCEPT ![a].pc = pc]
AtStep(a, pc) == ~down /\ task[a].pc = pc

LimitTasks == {a \in Admins : task[a].key \in {"game", "preset"}}

-----------------------------------------------------------------------------

\* set_bot_option up to UpdateBotConfig: the lock is kept until all is saved.
SetBotOption(a, v) ==
    /\ AtStep(a, "idle") /\ optionLock = Unlocked
    /\ optionLock' = a
    /\ live' = [live EXCEPT !["bot"] = v]
    /\ task' = [task EXCEPT ![a] = [key |-> "bot", value |-> v, pc |-> "update"]]
    /\ UNCHANGED <<cachedMaxPlayer, cachedMultiple, json, file, jsonLock, down, unsaved, crossed,
                   forgotten>>

\* set_game_option: the client has changed the default and answered its limits.
SetGameOption(a, v) ==
    /\ AtStep(a, "idle")
    /\ live' = [live EXCEPT !["game"] = v]
    /\ crossed' = (LimitTasks # {}) /\ forgotten' = FALSE
    /\ task' = [task EXCEPT ![a] = [key |-> "game", value |-> v, pc |-> "max"]]
    /\ UNCHANGED <<cachedMaxPlayer, cachedMultiple, json, file, optionLock, jsonLock, down,
                   unsaved>>

\* set_game_default_formal
SetDefaultFormal(a, v) ==
    /\ AtStep(a, "idle")
    /\ live' = [live EXCEPT !["formal"] = v]
    /\ task' = [task EXCEPT ![a] = [key |-> "formal", value |-> v, pc |-> "update"]]
    /\ UNCHANGED <<cachedMaxPlayer, cachedMultiple, json, file, optionLock, jsonLock, down,
                   unsaved, crossed, forgotten>>

\* NewMatch with a preset: InitOptions answers the limits of this match, and they
\* become the limits of the game.
NewMatchPreset(a, v) ==
    /\ AtStep(a, "idle")
    /\ \A b \in Admins : task[b].key # "preset"     \* mutex_ of the MatchManager
    /\ crossed' = TRUE
    /\ task' = [task EXCEPT ![a] = [key |-> "preset", value |-> v, pc |-> "max"]]
    /\ UNCHANGED <<live, cachedMaxPlayer, cachedMultiple, json, file, optionLock, jsonLock, down,
                   unsaved, forgotten>>

\* UpdateCachedLimits, one atomic after the other.
StoreMaxPlayer(a) ==
    /\ AtStep(a, "max")
    /\ cachedMaxPlayer' = task[a].value
    /\ Goto(a, "multiple")
    /\ UNCHANGED <<live, cachedMultiple, json, file, optionLock, jsonLock, down, unsaved,
                   crossed, forgotten>>

StoreMultiple(a) ==
    /\ AtStep(a, "multiple")
    /\ cachedMultiple' = task[a].value
    /\ task' = [task EXCEPT ![a] = IF @.key = "preset" THEN NoTask ELSE [@ EXCEPT !.pc = "update"]]
    /\ UNCHANGED <<live, cachedMaxPlayer, json, file, optionLock, jsonLock, down, unsaved,
                   crossed, forgotten>>

\* Slip: the tree is changed, and the file written, without the tree's lock.
UpdateConfigUnlocked(a) ==
    /\ AtStep(a, "update")
    /\ json' = [json EXCEPT ![task[a].key] = task[a].value]
    /\ Goto(a, "open")
    /\ UNCHANGED <<live, cachedMaxPlayer, cachedMultiple, file, optionLock, jsonLock, down, unsaved,
                   crossed, forgotten>>

\* UpdateBotConfig, UpdateGameConfig, UpdateGameDefaultFormal: the tree is changed.
UpdateConfig(a) ==
    /\ AtStep(a, "update") /\ jsonLock = Unlocked
    /\ jsonLock' = a
    /\ json' = [json EXCEPT ![task[a].key] = task[a].value]
    /\ Goto(a, "open")
    /\ UNCHANGED <<live, cachedMaxPlayer, cachedMultiple, file, optionLock, down, unsaved,
                   crossed, forgotten>>

\* The command is over, whether or not the file was written: nobody looks at that.
Unlock(a) ==
    /\ jsonLock' = Unlocked
    /\ optionLock' = IF optionLock = a THEN Unlocked ELSE optionLock
    /\ task' = [task EXCEPT ![a] = NoTask]

\* SaveConfig_ opens the file, which empties it, or cannot.
OpenFile(a) ==
    /\ AtStep(a, "open")
    /\ \/ file' = Torn /\ Goto(a, "dump") /\ UNCHANGED <<optionLock, jsonLock, unsaved>>
       \/ file' = file /\ unsaved' = TRUE /\ Unlock(a)
    /\ UNCHANGED <<live, cachedMaxPlayer, cachedMultiple, json, down, crossed, forgotten>>

DumpFile(a) ==
    /\ AtStep(a, "dump")
    /\ file' = json
    /\ unsaved' = FALSE
    /\ Unlock(a)
    /\ UNCHANGED <<live, cachedMaxPlayer, cachedMultiple, json, down, crossed, forgotten>>

\* The process dies and is started again: LoadConfig, which gives up if the file
\* cannot be parsed.  The options of games are not read from it.
Restart ==
    /\ ~down
    /\ task' = [a \in Admins |-> NoTask]
    /\ optionLock' = Unlocked /\ jsonLock' = Unlocked
    /\ down' = (file = Torn)
    /\ json' = IF file = Torn THEN json ELSE file
    /\ live' = IF file = Torn THEN live ELSE [Defaults EXCEPT !["bot"] = file["bot"]]
    /\ cachedMaxPlayer' = First /\ cachedMultiple' = First
    /\ unsaved' = FALSE /\ crossed' = FALSE /\ forgotten' = FALSE
    /\ UNCHANGED file

\* The configuration process is shut down for being idle, or dies; the one that is
\* started in its place has the defaults the game was built with.
LoseConfigProcess ==
    /\ ~down
    /\ live' = [live EXCEPT !["game"] = First, !["formal"] = First]
    /\ forgotten' = TRUE
    /\ UNCHANGED <<cachedMaxPlayer, cachedMultiple, json, file, optionLock, jsonLock, task, down,
                   unsaved, crossed>>

OptionsNext ==
    \/ \E a \in Admins :
          \/ \E v \in Settings : \/ SetBotOption(a, v) \/ SetGameOption(a, v)
                                 \/ SetDefaultFormal(a, v) \/ NewMatchPreset(a, v)
          \/ StoreMaxPlayer(a) \/ StoreMultiple(a) \/ UpdateConfig(a)
          \/ OpenFile(a) \/ DumpFile(a)
    \/ LoseConfigProcess
    \/ Restart

OptionsSpec == OptionsInit /\ [][OptionsNext]_optionVars

-----------------------------------------------------------------------------

OptionsTypeOK ==
    /\ live \in [Keys -> Settings] /\ json \in [Keys -> Settings]
    /\ file \in [Keys -> Settings] \cup {Torn}
    /\ cachedMaxPlayer \in Settings /\ cachedMultiple \in Settings
    /\ {optionLock, jsonLock} \subseteq Admins \cup {Unlocked}

\* Between the commands the option of the bot is the one in the tree, and the tree the
\* one in the file unless the file could not be written; the file is never read half
\* written but after a crash.  The two limits of the game are those of one setting,
\* unless two commands changed them at once or a match was made with a preset: of the
\* defaults in force or, when the process that kept these has gone, of the command that
\* set them last, which the tree still has.
OptionsAgree ==
    ~down =>
        /\ optionLock = Unlocked => json["bot"] = live["bot"]
        /\ jsonLock = Unlocked => file # Torn /\ (unsaved \/ file = json)
        /\ LimitTasks = {} /\ ~crossed =>
               /\ cachedMaxPlayer = cachedMultiple
               /\ cachedMaxPlayer \in {live["game"]} \cup (IF forgotten THEN {json["game"]} ELSE {})

=============================================================================
