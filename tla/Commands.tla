------------------------------ MODULE Commands ------------------------------
(***************************************************************************)
(* The commands of the bot (bot_core/message_handlers.cc) and some of a game *)
(* (games/hp_killer, games/infinite_card, the options of games/alter_rps and *)
(* of the bot), read by MsgChecker: the first command of a table that can    *)
(* read a message is the one that is carried out.  Words are translated: #   *)
(* and % stand for the signs of meta and administrators' commands.           *)
(***************************************************************************)
EXTENDS MsgChecker, FiniteSets, FiniteSetsExt

CONSTANTS
    Arguments,  \* words that may follow the first one
    Endings     \* those that may come third

VARIABLES
    message,    \* what is said: a table and the words, or nothing
    answer      \* the command or the option that was found, and its arguments

commandVars == <<message, answer>>

Quiet == [table |-> "none", words |-> <<>>]
NotFound == [command |-> "none", args |-> <<>>]

\* A command: its function and its checkers, of which the first is its own word.
Cmd(name, first, others) ==
    [name |-> name, checkers |-> <<VoidChecker(first)>> \o others]

Text == AnyArg(<<"name">>)
Either(yes, no) == OptionalChecker(<<FALSE>>, BoolChecker(yes, no))
TextMode == Either("text", "picture")
Everywhere == Either("here", "all")

\* db_manager.h
TimeRange(default) ==
    OptionalChecker(<<default>>, AlterChecker(("month" :> "month") @@ ("year" :> "year")
                                              @@ ("total" :> "total"), "month"))
PlayerNumbers == ("all" :> 0) @@ ("single" :> 1) @@ ("two" :> 2) @@ ("many" :> 3)

\* id.h: the digits in front are the number; one with a sign wraps around.
MatchID(example) ==
    BasicChecker(("0" :> "0") @@ ("1" :> "1") @@ ("3" :> "3") @@ ("6" :> "6") @@ ("33" :> "33")
                 @@ ("12th" :> "12") @@ ("-1" :> "4294967295") @@ ("4294967295" :> "4294967295"),
                 example)

meta_cmds == <<
    Cmd("help", "#help", <<TextMode>>),
    Cmd("show_gamelist", "#games", <<TextMode>>),
    Cmd("show_rule", "#rule", <<Text, TextMode>>),
    Cmd("show_custom_rule", "#rule", <<Text, RepeatableChecker(Text)>>),
    Cmd("show_achievement", "#achievements", <<Text>>),
    Cmd("show_game_options", "#options", <<Text, TextMode>>),
    Cmd("show_match_info", "#match", <<>>),
    Cmd("show_matches", "#matches", <<>>),
    Cmd("about", "#about", <<>>),
    Cmd("show_profile", "#profile", <<TimeRange("total")>>),
    Cmd("clear_profile", "#anew", <<>>),
    Cmd("show_rank", "#big", <<Everywhere>>),
    Cmd("show_rank_time_range", "#rank",
        <<TimeRange("year"), Everywhere>>),
    Cmd("show_game_rank", "#big", <<Text, Everywhere>>),
    Cmd("show_game_rank_range_time", "#rank",
        <<Text, TimeRange("year"), Everywhere>>),
    Cmd("show_honors", "#honors", <<OptionalChecker(<<"">>, Text)>>),
    Cmd("new_game", "#new", <<Text, RepeatableChecker(Text)>>),
    Cmd("new_random_game", "#random",
        <<OptionalChecker(<<0>>, AlterChecker(PlayerNumbers, "all"))>>),
    Cmd("set_bench_to", "#bench", <<ArithChecker(2, 32)>>),
    Cmd("set_multiple", "#multiple", <<ArithChecker(0, 3)>>),
    Cmd("set_formal", "#formal", <<BoolChecker("on", "off")>>),
    Cmd("start_game", "#start", <<>>),
    Cmd("join_public", "#join", <<>>),
    Cmd("join_private", "#join", <<MatchID("1")>>),
    Cmd("leave", "#leave", <<Either("force", "usual")>>),
    Cmd("user_interrupt_game", "#stop", <<Either("cancel", "sure")>>)>>

admin_cmds == <<
    Cmd("help", "%help", <<TextMode>>),
    Cmd("show_others_profile", "%profile", <<Text, TimeRange("total")>>),
    Cmd("interrupt_game", "%stop", <<OptionalChecker(<<>>, MatchID("4294967295"))>>),
    Cmd("clear_others_profile", "%clear", <<Text, Text>>),
    Cmd("set_game_default_formal", "%formal", <<Text, BoolChecker("on", "off")>>),
    Cmd("show_bot_options", "%options", <<TextMode>>),
    Cmd("set_bot_option", "%options", <<Text, RepeatableChecker(Text)>>),
    Cmd("set_game_option", "%set", <<Text, Text, RepeatableChecker(Text)>>),
    Cmd("add_honor", "%honor", <<VoidChecker("new"), Text, AnyArg(<<"2022", "champion">>)>>),
    Cmd("delete_honor", "%honor", <<VoidChecker("delete"), ArithChecker(0, 2147483647)>>)>>

\* hp_killer: the token of a role is a letter, of either case.
RoleToken == BasicChecker(("A" :> 0) @@ ("a" :> 0) @@ ("B" :> 1), "A")
stage_cmds == <<
    Cmd("Status_", "state", <<>>),
    Cmd("Hurt_", "attack", <<RepeatableChecker(RoleToken), ArithChecker(0, 25)>>),
    Cmd("BlockHurt_", "block", <<OptionalChecker(<<>>, RoleToken)>>),
    Cmd("Curse_", "curse", <<RoleToken, ArithChecker(5, 10)>>),
    Cmd("ShieldAnti_", "shield",
        <<RepeatableChecker(BatchChecker(<<RoleToken, ArithChecker(-1000, 1000)>>))>>)>>

commands == [meta |-> meta_cmds, admin |-> admin_cmds, stage |-> stage_cmds]

\* bot_core/options.h, alter_rps (two cards, not nine) and an enumeration of flags.
options ==
    [alert |-> BoolChecker("on", "off"),
     ais |-> RepeatableChecker(Text),
     cards |-> OptionalChecker(<<>>, FixedSizeRepeatableChecker(2, RoleToken)),
     flags |-> FlagsChecker(<<"A", "B", "on">>)]

-----------------------------------------------------------------------------

\* HandleRequest of the bot and of a stage: the first that can read the message.
HandleRequest(cmds, words) ==
    LET matching == {i \in DOMAIN cmds : CallIfValid(cmds[i].checkers, words).ok}
    IN  IF matching = {} THEN NotFound
        ELSE LET cmd == cmds[Min(matching)]
             IN  [command |-> cmd.name, args |-> CallIfValid(cmd.checkers, words).value]

\* Command::Info and the options' Info show an example of each.
CommandExample(cmd) == FlattenSeq([i \in DOMAIN cmd.checkers |-> Example(cmd.checkers[i])])
OptionExample(o) == <<o>> \o Example(options[o])

Tails == {<<>>} \cup {<<a>> : a \in Arguments} \cup {<<a, b>> : a, b \in Arguments}
         \cup {<<a, b, c>> : a, b \in Arguments, c \in Endings}

Messages(cmds) ==
    {<<first>> \o tail : first \in {cmds[i].checkers[1].word : i \in DOMAIN cmds}, tail \in Tails}
    \cup {CommandExample(cmds[i]) : i \in DOMAIN cmds}

OptionMessages ==
    {<<o>> \o tail : o \in DOMAIN options \cup {"other"}, tail \in Tails}
    \cup {OptionExample(o) : o \in DOMAIN options}

CommandsInit == message = Quiet /\ answer = NotFound

Ask(t) ==
    /\ message = Quiet
    /\ \E words \in Messages(commands[t]) :
          /\ message' = [table |-> t, words |-> words]
          /\ answer' = HandleRequest(commands[t], words)

\* set_bot_option and the like: what is refused changes nothing.
Configure ==
    /\ message = Quiet
    /\ \E words \in OptionMessages :
          LET r == SetOption(options, words)
          IN  /\ message' = [table |-> "options", words |-> words]
              /\ answer' = IF r.ok THEN [command |-> words[1], args |-> r.value] ELSE NotFound

Answered == message # Quiet /\ message' = Quiet /\ answer' = NotFound

CommandsNext ==
    \/ \E t \in DOMAIN commands : Ask(t)
    \/ Configure
    \/ Answered

CommandsSpec == CommandsInit /\ [][CommandsNext]_commandVars

-----------------------------------------------------------------------------

\* The formats that may have been meant, as they are listed.
Formats ==
    IF message.table = "options"
      THEN IF message.words[1] \in DOMAIN options
             THEN <<[name |-> message.words[1],
                     checkers |-> <<VoidChecker(message.words[1]), options[message.words[1]]>>]>>
             ELSE <<>>
      ELSE commands[message.table]

\* A message is given to the first command whose format it has, with the arguments that
\* its pieces stand for, however it is cut into them; to none only if it has no format.
FormatsAreKept ==
    message # Quiet =>
        LET fitting == {i \in DOMAIN Formats : Cuts(Formats[i].checkers, message.words) # {}}
        IN  IF fitting = {} THEN answer = NotFound
            ELSE LET f == Formats[Min(fitting)]
                 IN  /\ answer.command = f.name
                     /\ \A cut \in Cuts(f.checkers, message.words) :
                           answer.args = Says(f.checkers, message.words, cut)

\* Whether the example of a command is read by that command.
ReadAsShown(cmd) == message.words = CommandExample(cmd) => answer.command = cmd.name

\* Command::Info: the example that is shown with a command or an option is read by just
\* that command or option, not by an earlier one of the table, if each argument's example
\* is one word.
ExamplesAreRead ==
    /\ message.table \in DOMAIN commands =>
          \A cmd \in Range(commands[message.table]) :
             (\A c \in Range(cmd.checkers) : c.kind = "any" => Len(c.example) = 1)
                => ReadAsShown(cmd)
    /\ message.table = "options" =>
          \A o \in DOMAIN options : message.words = OptionExample(o) => answer.command = o

\* And as it is shown to the users: whatever the examples of its arguments are.  False for
\* that of add_honor, which has blanks in it, and in no run.
EveryExampleIsRead ==
    message.table \in DOMAIN commands =>
        \A cmd \in Range(commands[message.table]) : ReadAsShown(cmd)

=============================================================================
