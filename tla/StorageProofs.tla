---------------------------- MODULE StorageProofs ----------------------------
(***************************************************************************)
(* What the bot keeps beyond a run: the options with their file, the        *)
(* records of matches and players, and what a match is worth in them.       *)
(***************************************************************************)
EXTENDS BotOptions, Records, ScoreCalculation, CountingLemmas

-----------------------------------------------------------------------------
(* The options.                                                             *)

Steps == {"idle", "max", "multiple", "update", "open", "dump"}

\* Who has the lock of the options sets one of the bot, and whose command is in
\* the tree has the lock of the tree.
LocksAreHeld ==
    /\ task \in [Admins -> [key : Keys \cup {"preset", "none"}, value : Settings, pc : Steps]]
    /\ \A a \in Admins :
          /\ task[a].pc = "idle" <=> task[a].key = "none"
          /\ task[a].key = "bot" <=> optionLock = a
          /\ task[a].pc \in {"open", "dump"} <=> jsonLock = a
          /\ task[a].pc \in {"max", "multiple"} => task[a].key \in {"game", "preset"}
          /\ task[a].key = "preset" => task[a].pc \in {"max", "multiple"}

\* The option of the bot is in the tree once its command has put it there; the file is
\* empty only while it is being written.
TreeFollows ==
    /\ optionLock = Unlocked => json["bot"] = live["bot"]
    /\ optionLock # Unlocked =>
          \/ task[optionLock].pc = "update" /\ task[optionLock].value = live["bot"]
          \/ task[optionLock].pc \in {"open", "dump"} /\ json["bot"] = live["bot"]
    /\ jsonLock = Unlocked => file # Torn /\ (unsaved \/ file = json)
    /\ jsonLock # Unlocked => (task[jsonLock].pc = "dump" <=> file = Torn)

\* The limits that are cached are those of the last command that set the defaults, which
\* the tree has, or nobody has set any; unless the process that keeps the defaults has
\* gone, they are the defaults in force.
LimitsAreKnown ==
    /\ cachedMaxPlayer = cachedMultiple
    /\ ~forgotten => cachedMaxPlayer = live["game"]
    /\ cachedMaxPlayer = json["game"] \/ (cachedMaxPlayer = First /\ live["game"] = First)

\* Unless two commands have crossed, at most one changes the limits, for the defaults,
\* and it has changed those that it is done with.
LimitsFollow ==
    ~crossed =>
        /\ \A a, b \in LimitTasks : a = b
        /\ \A a \in LimitTasks :
              /\ task[a].key = "game" /\ (~forgotten => task[a].value = live["game"])
              /\ task[a].pc # "max" => cachedMaxPlayer = task[a].value
              /\ task[a].pc \notin {"max", "multiple"} => cachedMultiple = task[a].value
              /\ task[a].pc \in {"open", "dump"} => json["game"] = task[a].value
        /\ LimitTasks = {} => LimitsAreKnown

OptionsInv ==
    /\ OptionsTypeOK /\ {crossed, unsaved, down, forgotten} \subseteq BOOLEAN
    /\ ~down => LocksAreHeld /\ TreeFollows /\ LimitsFollow

\* In the beginning they do.
LEMMA InitOptions ==
  ASSUME Unlocked \notin Admins, Settings # {}
  PROVE  OptionsInit => OptionsInv
<1> SUFFICES ASSUME OptionsInit PROVE OptionsInv
  OBVIOUS
<1>1. First \in Settings
  BY DEF First
<1>2. Defaults # Torn
  <2>1. "bot" \in DOMAIN Defaults /\ "bot" \notin DOMAIN <<>>
    BY DEF Defaults, Keys
  <2> QED
    BY <2>1 DEF Torn
<1>3. OptionsTypeOK
  BY <1>1 DEF OptionsInit, OptionsTypeOK, Defaults
<1>4. LocksAreHeld
  BY <1>1 DEF OptionsInit, LocksAreHeld, NoTask, Steps, Keys
<1>5. TreeFollows
  BY <1>2 DEF OptionsInit, TreeFollows
<1>6. LimitsFollow
  BY DEF OptionsInit, LimitsFollow, LimitsAreKnown, Defaults, NoTask, LimitTasks, Keys
<1> QED
  BY <1>3, <1>4, <1>5, <1>6 DEF OptionsInv, OptionsInit

\* A command begins.
LEMMA BeginsAlone ==
  ASSUME Unlocked \notin Admins, OptionsInv, ~down, down' = down, NEW a \in Admins,
         task[a].pc = "idle", NEW j \in [key : Keys \cup {"preset"}, value : Settings, pc : Steps],
         task' = [task EXCEPT ![a] = j], UNCHANGED <<jsonLock, file, json, cachedMaxPlayer, cachedMultiple, unsaved>>,
         \/ /\ j.key = "bot" /\ j.pc = "update" /\ optionLock = Unlocked /\ optionLock' = a
            /\ live' = [live EXCEPT !["bot"] = j.value] /\ UNCHANGED <<crossed, forgotten>>
         \/ /\ j.key = "game" /\ j.pc = "max" /\ optionLock' = optionLock
            /\ live' = [live EXCEPT !["game"] = j.value] /\ crossed' = (LimitTasks # {})
            /\ forgotten' = FALSE
         \/ /\ j.key = "formal" /\ j.pc = "update" /\ optionLock' = optionLock
            /\ live' = [live EXCEPT !["formal"] = j.value] /\ UNCHANGED <<crossed, forgotten>>
         \/ /\ j.key = "preset" /\ j.pc = "max" /\ optionLock' = optionLock
            /\ live' = live /\ crossed' = TRUE /\ forgotten' = forgotten
  PROVE  OptionsInv'
<1>a. /\ LocksAreHeld /\ TreeFollows /\ LimitsFollow /\ OptionsTypeOK
      /\ {crossed, unsaved, down, forgotten} \subseteq BOOLEAN
      /\ live \in [Keys -> Settings] /\ j.key \in Keys \cup {"preset"} /\ j.value \in Settings
      /\ optionLock \in Admins \cup {Unlocked} /\ jsonLock \in Admins \cup {Unlocked}
  BY DEF OptionsInv, OptionsTypeOK
<1>b. task \in [Admins -> [key : Keys \cup {"preset", "none"}, value : Settings, pc : Steps]]
  BY <1>a DEF LocksAreHeld
<1>1. /\ task'[a] = j /\ \A b \in Admins \ {a} : task'[b] = task[b]
      /\ task' \in [Admins -> [key : Keys \cup {"preset", "none"}, value : Settings, pc : Steps]]
  BY <1>b
<1>2. OptionsTypeOK' /\ {crossed', forgotten'} \subseteq BOOLEAN
  BY <1>a DEF OptionsTypeOK, Keys
<1>3. optionLock # a /\ jsonLock # a /\ a # Unlocked
  BY <1>a, <1>b DEF LocksAreHeld, Keys
<1>4. LocksAreHeld'
  BY <1>a, <1>1, <1>3 DEF LocksAreHeld, Keys
<1>5. TreeFollows'
  BY <1>a, <1>1, <1>3 DEF TreeFollows, Keys
<1>6. LimitsFollow'
  <2>1. LimitTasks' = IF j.key \in {"game", "preset"} THEN LimitTasks \cup {a} ELSE LimitTasks
    BY <1>a, <1>b, <1>1 DEF LimitTasks, LocksAreHeld
  <2>2. a \notin LimitTasks
    BY <1>a, <1>b DEF LimitTasks, LocksAreHeld
  <2>3. CASE j.key = "game"
    <3>1. live'["game"] = j.value /\ ~forgotten' /\ task'[a].pc = "max"
      BY <1>a, <1>1, <2>3 DEF Keys
    <3>2. ~crossed' => LimitTasks' = {a}
      BY <1>a, <2>1, <2>3
    <3> QED
      BY <1>1, <2>3, <3>1, <3>2 DEF LimitsFollow
  <2>4. CASE j.key = "preset"
    BY <2>4, <1>a DEF LimitsFollow
  <2>5. CASE j.key \in {"bot", "formal"}
    <3>1. /\ live'["game"] = live["game"] /\ crossed' = crossed /\ forgotten' = forgotten
          /\ LimitTasks' = LimitTasks
      BY <1>a, <2>1, <2>5 DEF Keys
    <3>2. \A b \in LimitTasks : task'[b] = task[b] /\ b \in Admins
      BY <1>1, <2>2 DEF LimitTasks
    <3> QED
      BY <1>a, <3>1, <3>2 DEF LimitsFollow, LimitsAreKnown
  <2> QED
    BY <1>a, <2>3, <2>4, <2>5 DEF Keys
<1> QED
  BY <1>a, <1>2, <1>4, <1>5, <1>6 DEF OptionsInv

\* A command that has the lock of the tree ends.
LEMMA UnlocksAll ==
  ASSUME Unlocked \notin Admins, Settings # {}, OptionsInv, ~down, down' = down, NEW a \in Admins,
         task[a].pc \in {"open", "dump"}, Unlock(a), UNCHANGED <<crossed, forgotten>>, unsaved' \in BOOLEAN,
         UNCHANGED <<live, cachedMaxPlayer, cachedMultiple, json>>,
         file' # Torn, file' \in [Keys -> Settings], unsaved' \/ file' = json
  PROVE  OptionsInv'
<1>a. /\ LocksAreHeld /\ TreeFollows /\ LimitsFollow /\ OptionsTypeOK
      /\ {crossed, down, forgotten} \subseteq BOOLEAN
      /\ optionLock \in Admins \cup {Unlocked} /\ jsonLock \in Admins \cup {Unlocked}
  BY DEF OptionsInv, OptionsTypeOK
<1>b. task \in [Admins -> [key : Keys \cup {"preset", "none"}, value : Settings, pc : Steps]]
  BY <1>a DEF LocksAreHeld
<1>1. NoTask \in [key : Keys \cup {"preset", "none"}, value : Settings, pc : Steps]
  BY DEF NoTask, First, Steps
<1>2. /\ task'[a] = NoTask /\ \A b \in Admins \ {a} : task'[b] = task[b]
      /\ task' \in [Admins -> [key : Keys \cup {"preset", "none"}, value : Settings, pc : Steps]]
  BY <1>b, <1>1 DEF Unlock
<1>3. jsonLock = a /\ jsonLock' = Unlocked /\ optionLock' \in {optionLock, Unlocked} /\ optionLock' # a
  BY <1>a DEF LocksAreHeld, Unlock
<1>4. OptionsTypeOK'
  BY <1>a, <1>3 DEF OptionsTypeOK
<1>5. LocksAreHeld'
  BY <1>a, <1>2, <1>3 DEF LocksAreHeld, Unlock, NoTask, Keys
<1>6. TreeFollows'
  BY <1>a, <1>2, <1>3 DEF TreeFollows, Unlock
<1>7. LimitsFollow'
  <2>1. LimitTasks' = LimitTasks \ {a}
    BY <1>b, <1>2 DEF LimitTasks, NoTask
  <2>2. task[a].pc \notin {"max", "multiple"}
    OBVIOUS
  <2>3. \A b \in LimitTasks' : task'[b] = task[b] /\ b \in LimitTasks
    BY <1>2, <2>1 DEF LimitTasks
  <2>4. LimitTasks' = {} => LimitTasks = {} \/ a \in LimitTasks
    BY <2>1
  <2>5. ~crossed /\ a \in LimitTasks => LimitsAreKnown
    BY <1>a, <2>2 DEF LimitsFollow, LimitsAreKnown
  <2>6. LimitsAreKnown <=> LimitsAreKnown'
    BY DEF LimitsAreKnown
  <2> QED
    BY <1>a, <2>1, <2>2, <2>3, <2>4, <2>5, <2>6 DEF LimitsFollow
<1> QED
  BY <1>a, <1>4, <1>5, <1>6, <1>7 DEF OptionsInv

\* Every step keeps the invariant of the options.
LEMMA OptionsStep ==
  ASSUME Unlocked \notin Admins, Settings # {}, OptionsInv, [OptionsNext]_optionVars
  PROVE  OptionsInv'
<1>a. /\ OptionsTypeOK /\ {crossed, unsaved, down, forgotten} \subseteq BOOLEAN
      /\ live \in [Keys -> Settings] /\ json \in [Keys -> Settings]
      /\ file \in [Keys -> Settings] \cup {Torn}
      /\ optionLock \in Admins \cup {Unlocked} /\ jsonLock \in Admins \cup {Unlocked}
  BY DEF OptionsInv, OptionsTypeOK
<1>b. First \in Settings
  BY DEF First
<1>c. \A f \in [Keys -> Settings] : f # Torn
  <2> SUFFICES ASSUME NEW f \in [Keys -> Settings] PROVE f # Torn
    OBVIOUS
  <2>1. "bot" \in DOMAIN f /\ "bot" \notin DOMAIN <<>>
    BY DEF Keys
  <2> QED
    BY <2>1 DEF Torn
<1>1. CASE Restart
  <2>1. OptionsTypeOK' /\ {crossed', unsaved', down', forgotten'} \subseteq BOOLEAN
    BY <1>a, <1>b, <1>1 DEF Restart, OptionsTypeOK, Defaults, Keys
  <2>2. LocksAreHeld'
    BY <1>a, <1>b, <1>1 DEF Restart, LocksAreHeld, NoTask, Steps, Keys
  <2>3. ~down' => TreeFollows'
    BY <1>a, <1>1 DEF Restart, TreeFollows, Defaults, Keys
  <2>4. ~down' => LimitsFollow'
    BY <1>a, <1>1 DEF Restart, LimitsFollow, LimitsAreKnown, Defaults, Keys, LimitTasks, NoTask
  <2> QED
    BY <2>1, <2>2, <2>3, <2>4 DEF OptionsInv
<1>0. CASE LoseConfigProcess
  <2>1. /\ live' = [live EXCEPT !["game"] = First, !["formal"] = First] /\ forgotten' = TRUE /\ ~down
        /\ UNCHANGED <<cachedMaxPlayer, cachedMultiple, json, file, optionLock, jsonLock, task,
                       down, unsaved, crossed>>
    BY <1>0 DEF LoseConfigProcess
  <2>2. live' \in [Keys -> Settings] /\ live'["game"] = First /\ live'["bot"] = live["bot"]
    BY <1>a, <1>b, <2>1 DEF Keys
  <2>3. LocksAreHeld /\ TreeFollows /\ LimitsFollow
    BY <2>1 DEF OptionsInv
  <2>4. OptionsTypeOK' /\ LocksAreHeld' /\ TreeFollows'
    BY <1>a, <2>1, <2>2, <2>3 DEF OptionsTypeOK, LocksAreHeld, TreeFollows
  <2>5. LimitsFollow'
    BY <2>1, <2>2, <2>3 DEF LimitsFollow, LimitsAreKnown, LimitTasks
  <2> QED
    BY <1>a, <2>1, <2>4, <2>5 DEF OptionsInv
<1>2. ASSUME NEW a \in Admins, NEW v \in Settings,
             SetBotOption(a, v) \/ SetGameOption(a, v) \/ SetDefaultFormal(a, v) \/ NewMatchPreset(a, v)
      PROVE  OptionsInv'
  <2>1. PICK j \in [key : {"bot", "game", "formal", "preset"}, value : {v}, pc : {"max", "update"}] :
          /\ task[a].pc = "idle" /\ ~down /\ down' = down /\ task' = [task EXCEPT ![a] = j]
          /\ UNCHANGED <<jsonLock, file, json, cachedMaxPlayer, cachedMultiple, unsaved>>
          /\ \/ /\ j.key = "bot" /\ j.pc = "update" /\ optionLock = Unlocked /\ optionLock' = a
                /\ live' = [live EXCEPT !["bot"] = j.value] /\ UNCHANGED <<crossed, forgotten>>
             \/ /\ j.key = "game" /\ j.pc = "max" /\ optionLock' = optionLock
                /\ live' = [live EXCEPT !["game"] = j.value] /\ crossed' = (LimitTasks # {})
                /\ forgotten' = FALSE
             \/ /\ j.key = "formal" /\ j.pc = "update" /\ optionLock' = optionLock
                /\ live' = [live EXCEPT !["formal"] = j.value] /\ UNCHANGED <<crossed, forgotten>>
             \/ /\ j.key = "preset" /\ j.pc = "max" /\ optionLock' = optionLock
                /\ live' = live /\ crossed' = TRUE /\ forgotten' = forgotten
    <3>1. CASE SetBotOption(a, v)
      <4> WITNESS [key |-> "bot", value |-> v, pc |-> "update"] \in
            [key : {"bot", "game", "formal", "preset"}, value : {v}, pc : {"max", "update"}]
      <4> QED
        BY <3>1 DEF SetBotOption, AtStep
    <3>2. CASE SetGameOption(a, v)
      <4> WITNESS [key |-> "game", value |-> v, pc |-> "max"] \in
            [key : {"bot", "game", "formal", "preset"}, value : {v}, pc : {"max", "update"}]
      <4> QED
        BY <3>2 DEF SetGameOption, AtStep
    <3>3. CASE SetDefaultFormal(a, v)
      <4> WITNESS [key |-> "formal", value |-> v, pc |-> "update"] \in
            [key : {"bot", "game", "formal", "preset"}, value : {v}, pc : {"max", "update"}]
      <4> QED
        BY <3>3 DEF SetDefaultFormal, AtStep
    <3>4. CASE NewMatchPreset(a, v)
      <4> WITNESS [key |-> "preset", value |-> v, pc |-> "max"] \in
            [key : {"bot", "game", "formal", "preset"}, value : {v}, pc : {"max", "update"}]
      <4> QED
        BY <3>4 DEF NewMatchPreset, AtStep
    <3> QED
      BY <1>2, <3>1, <3>2, <3>3, <3>4
  <2>2. j \in [key : Keys \cup {"preset"}, value : Settings, pc : Steps]
    BY DEF Keys, Steps
  <2> QED
    BY <2>1, <2>2, BeginsAlone
<1>3. ASSUME NEW a \in Admins, OpenFile(a) \/ DumpFile(a), ~(file' = Torn)
      PROVE  OptionsInv'
  <2>0. LocksAreHeld /\ TreeFollows /\ ~down
    BY <1>3 DEF OpenFile, DumpFile, AtStep, OptionsInv
  <2>1. /\ task[a].pc \in {"open", "dump"} /\ Unlock(a) /\ down' = down
        /\ UNCHANGED <<live, cachedMaxPlayer, cachedMultiple, json, crossed, forgotten>>
        /\ unsaved' \in BOOLEAN /\ (unsaved' \/ file' = json)
        /\ file' = file \/ file' = json
    BY <1>3 DEF OpenFile, DumpFile, AtStep
  <2>2. file' \in [Keys -> Settings] /\ file' # Torn
    BY <1>a, <1>3, <2>1
  <2>3. UNCHANGED <<crossed, forgotten>> /\ UNCHANGED <<live, cachedMaxPlayer, cachedMultiple, json>>
    BY <2>1
  <2> QED
    BY <1>3, <2>0, <2>1, <2>2, <2>3, UnlocksAll
<1>4. ASSUME NEW a \in Admins,
             \/ StoreMaxPlayer(a) \/ StoreMultiple(a) \/ UpdateConfig(a)
             \/ OpenFile(a) /\ file' = Torn
      PROVE  OptionsInv'
  <2>a. LocksAreHeld /\ TreeFollows /\ LimitsFollow /\ ~down /\ down' = down
    BY <1>4 DEF StoreMaxPlayer, StoreMultiple, UpdateConfig, OpenFile, AtStep, OptionsInv
  <2>b. task \in [Admins -> [key : Keys \cup {"preset", "none"}, value : Settings, pc : Steps]]
    BY <2>a DEF LocksAreHeld
  <2>1. CASE StoreMaxPlayer(a)
    <3>1. /\ task'[a] = [task[a] EXCEPT !.pc = "multiple"] /\ cachedMaxPlayer' = task[a].value
          /\ \A b \in Admins \ {a} : task'[b] = task[b]
          /\ task' \in [Admins -> [key : Keys \cup {"preset", "none"}, value : Settings, pc : Steps]]
          /\ task[a].pc = "max"
          /\ UNCHANGED <<live, cachedMultiple, json, file, optionLock, jsonLock, down, unsaved, crossed, forgotten>>
      BY <2>1, <2>b DEF StoreMaxPlayer, Goto, AtStep, Steps
    <3>2. OptionsTypeOK'
      BY <1>a, <2>b, <3>1 DEF OptionsTypeOK
    <3>3. LocksAreHeld'
      BY <2>a, <2>b, <3>1 DEF LocksAreHeld
    <3>4. TreeFollows'
      BY <1>a, <2>a, <2>b, <3>1 DEF TreeFollows
    <3>5. /\ \A b \in Admins : task'[b].key = task[b].key /\ task'[b].value = task[b].value
          /\ \A b \in Admins : b # a => task'[b].pc = task[b].pc
      BY <2>b, <3>1
    <3>6. LimitTasks' = LimitTasks /\ LimitTasks \subseteq Admins
      BY <3>5 DEF LimitTasks
    <3>7. LimitsFollow'
      <4>1. a \in LimitTasks
        BY <2>a, <3>1 DEF LocksAreHeld, LimitTasks
      <4>2. ~crossed => LimitTasks = {a}
        BY <2>a, <4>1 DEF LimitsFollow
      <4> QED
        BY <2>a, <2>b, <3>1, <3>5, <3>6, <4>1, <4>2 DEF LimitsFollow
    <3> QED
      BY <1>a, <2>a, <3>1, <3>2, <3>3, <3>4, <3>7 DEF OptionsInv
  <2>2. CASE StoreMultiple(a) /\ task[a].key = "preset"
    <3>1. /\ task'[a] = NoTask /\ cachedMultiple' = task[a].value
          /\ \A b \in Admins \ {a} : task'[b] = task[b]
          /\ task' \in [Admins -> [key : Keys \cup {"preset", "none"}, value : Settings, pc : Steps]]
          /\ task[a].pc = "multiple"
          /\ UNCHANGED <<live, cachedMaxPlayer, json, file, optionLock, jsonLock, down, unsaved, crossed, forgotten>>
      BY <1>b, <2>2, <2>b DEF StoreMultiple, AtStep, Steps, NoTask
    <3>2. OptionsTypeOK'
      BY <1>a, <2>b, <3>1 DEF OptionsTypeOK
    <3>3. LocksAreHeld'
      BY <2>2, <2>a, <2>b, <3>1 DEF LocksAreHeld, NoTask, Keys
    <3>4. TreeFollows'
      BY <1>a, <2>a, <2>b, <3>1 DEF TreeFollows, LocksAreHeld
    <3>5. crossed
      BY <2>2, <2>a DEF LimitsFollow, LimitTasks
    <3> QED
      BY <1>a, <2>a, <3>1, <3>2, <3>3, <3>4, <3>5 DEF OptionsInv, LimitsFollow
  <2>3. CASE StoreMultiple(a) /\ task[a].key # "preset"
    <3>1. /\ task'[a] = [task[a] EXCEPT !.pc = "update"] /\ cachedMultiple' = task[a].value
          /\ \A b \in Admins \ {a} : task'[b] = task[b]
          /\ task' \in [Admins -> [key : Keys \cup {"preset", "none"}, value : Settings, pc : Steps]]
          /\ task[a].pc = "multiple"
          /\ UNCHANGED <<live, cachedMaxPlayer, json, file, optionLock, jsonLock, down, unsaved, crossed, forgotten>>
      BY <2>3, <2>b DEF StoreMultiple, AtStep, Steps
    <3>2. OptionsTypeOK'
      BY <1>a, <2>b, <3>1 DEF OptionsTypeOK
    <3>3. LocksAreHeld'
      BY <2>3, <2>a, <2>b, <3>1 DEF LocksAreHeld
    <3>4. TreeFollows'
      BY <1>a, <2>a, <2>b, <3>1 DEF TreeFollows, LocksAreHeld
    <3>5. /\ \A b \in Admins : task'[b].key = task[b].key /\ task'[b].value = task[b].value
          /\ \A b \in Admins : b # a => task'[b].pc = task[b].pc
      BY <2>b, <3>1
    <3>6. LimitTasks' = LimitTasks /\ LimitTasks \subseteq Admins
      BY <3>5 DEF LimitTasks
    <3>7. LimitsFollow'
      <4>1. a \in LimitTasks
        BY <2>a, <3>1 DEF LocksAreHeld, LimitTasks
      <4>2. ~crossed => LimitTasks = {a}
        BY <2>a, <4>1 DEF LimitsFollow
      <4> QED
        BY <2>a, <2>b, <3>1, <3>5, <3>6, <4>1, <4>2 DEF LimitsFollow
    <3> QED
      BY <1>a, <2>a, <3>1, <3>2, <3>3, <3>4, <3>7 DEF OptionsInv
  <2>4. CASE UpdateConfig(a)
    <3>1. /\ task'[a] = [task[a] EXCEPT !.pc = "open"] /\ json' = [json EXCEPT ![task[a].key] = task[a].value]
          /\ \A b \in Admins \ {a} : task'[b] = task[b]
          /\ task' \in [Admins -> [key : Keys \cup {"preset", "none"}, value : Settings, pc : Steps]]
          /\ task[a].pc = "update" /\ jsonLock = Unlocked /\ jsonLock' = a
          /\ UNCHANGED <<live, cachedMaxPlayer, cachedMultiple, file, optionLock, down, unsaved, crossed, forgotten>>
      BY <2>4, <2>b DEF UpdateConfig, Goto, AtStep, Steps
    <3>2. OptionsTypeOK' /\ task[a].key \in Keys
      BY <1>a, <2>a, <2>b, <3>1 DEF OptionsTypeOK, LocksAreHeld
    <3>3. LocksAreHeld'
      BY <2>a, <2>b, <3>1 DEF LocksAreHeld
    <3>4. optionLock = a <=> task[a].key = "bot"
      BY <2>a DEF LocksAreHeld
    <3>5. TreeFollows'
      <4>1. task[a].key # "bot" => json'["bot"] = json["bot"]
        BY <1>a, <3>1 DEF Keys
      <4>2. task[a].key = "bot" => json'["bot"] = task[a].value
        BY <1>a, <3>1 DEF Keys
      <4>3. optionLock # Unlocked /\ optionLock # a => task'[optionLock] = task[optionLock]
        BY <1>a, <3>1
      <4>4. jsonLock' # Unlocked /\ task'[a].pc = "open" /\ file # Torn
        BY <2>a, <2>b, <3>1 DEF TreeFollows
      <4> QED
        BY <1>a, <2>a, <3>1, <3>4, <4>1, <4>2, <4>3, <4>4 DEF TreeFollows
    <3>6. /\ \A b \in Admins : task'[b].key = task[b].key /\ task'[b].value = task[b].value
          /\ \A b \in Admins : b # a => task'[b].pc = task[b].pc
      BY <2>b, <3>1
    <3>7. LimitTasks' = LimitTasks /\ LimitTasks \subseteq Admins
      BY <3>6 DEF LimitTasks
    <3>8. LimitsFollow'
      <4>1. /\ task[a].key = "game" => json'["game"] = task[a].value
            /\ task[a].key # "game" => json'["game"] = json["game"]
        BY <1>a, <3>1, <3>2 DEF Keys
      <4>2. a \in LimitTasks <=> task[a].key = "game"
        BY <2>a, <3>1, <3>2 DEF LimitTasks, Keys
      <4>3. CASE a \in LimitTasks
        <5>1. ~crossed => LimitTasks = {a}
          BY <2>a, <4>3 DEF LimitsFollow
        <5> QED
          BY <2>a, <3>1, <3>6, <3>7, <4>1, <4>2, <4>3, <5>1 DEF LimitsFollow
      <4>4. CASE a \notin LimitTasks
        BY <2>a, <3>1, <3>6, <3>7, <4>1, <4>2, <4>4 DEF LimitsFollow, LimitsAreKnown
      <4> QED
        BY <4>3, <4>4
    <3> QED
      BY <1>a, <2>a, <3>1, <3>2, <3>3, <3>5, <3>8 DEF OptionsInv
  <2>5. CASE OpenFile(a) /\ file' = Torn
    <3>1. /\ task[a].pc = "open" /\ UNCHANGED <<live, cachedMaxPlayer, cachedMultiple, json, down, crossed, forgotten>>
          /\ \/ Goto(a, "dump") /\ UNCHANGED <<optionLock, jsonLock, unsaved>>
             \/ file' = file
      BY <2>5 DEF OpenFile, AtStep
    <3>2. jsonLock = a /\ file # Torn
      BY <1>a, <2>a, <3>1 DEF LocksAreHeld, TreeFollows
    <3>3. /\ task'[a] = [task[a] EXCEPT !.pc = "dump"]
          /\ \A b \in Admins \ {a} : task'[b] = task[b]
          /\ task' \in [Admins -> [key : Keys \cup {"preset", "none"}, value : Settings, pc : Steps]]
          /\ UNCHANGED <<optionLock, jsonLock, unsaved>>
      BY <2>5, <2>b, <3>1, <3>2 DEF Goto, Steps
    <3>4. OptionsTypeOK'
      BY <1>a, <2>5, <3>1, <3>3 DEF OptionsTypeOK
    <3>5. LocksAreHeld'
      BY <2>a, <2>b, <3>1, <3>3 DEF LocksAreHeld
    <3>6. TreeFollows'
      BY <1>a, <2>5, <2>a, <2>b, <3>1, <3>2, <3>3 DEF TreeFollows
    <3>7. /\ \A b \in Admins : task'[b].key = task[b].key /\ task'[b].value = task[b].value
          /\ \A b \in Admins : b # a => task'[b].pc = task[b].pc
      BY <2>b, <3>3
    <3>8. LimitTasks' = LimitTasks /\ LimitTasks \subseteq Admins
      BY <3>7 DEF LimitTasks
    <3>9. LimitsFollow'
      BY <2>a, <3>1, <3>3, <3>7, <3>8 DEF LimitsFollow, LimitsAreKnown
    <3> QED
      BY <1>a, <2>a, <3>1, <3>3, <3>4, <3>5, <3>6, <3>9 DEF OptionsInv
  <2> QED
    BY <1>4, <2>1, <2>2, <2>3, <2>4, <2>5
<1>5. CASE UNCHANGED optionVars
  BY <1>5 DEF optionVars, OptionsInv, OptionsTypeOK, LocksAreHeld, TreeFollows, LimitsFollow,
     LimitsAreKnown, LimitTasks
<1>6. ASSUME NEW a \in Admins, DumpFile(a)
      PROVE  file' # Torn
  BY <1>a, <1>c, <1>6 DEF DumpFile
<1>7. CASE \E a \in Admins : OpenFile(a) \/ DumpFile(a)
  BY <1>3, <1>4, <1>6, <1>7
<1>8. CASE \E a \in Admins : StoreMaxPlayer(a) \/ StoreMultiple(a) \/ UpdateConfig(a)
  BY <1>4, <1>8
<1> QED
  BY <1>0, <1>1, <1>2, <1>5, <1>7, <1>8 DEF OptionsNext

\* Option, tree, file and limits agree between the commands, for any number of admins and
\* values, and whenever the configuration process is forgotten.
THEOREM OptionsStayInStep == OptionsSpec => []OptionsAgree
<1>1. OptionsInv => OptionsAgree
  BY DEF OptionsInv, OptionsAgree, TreeFollows, LimitsFollow, LimitsAreKnown
<1>2. OptionsInit => OptionsInv
  BY OptionsAssumption, InitOptions DEF OptionsAssumption
<1>3. OptionsInv /\ [OptionsNext]_optionVars => OptionsInv'
  BY OptionsAssumption, OptionsStep DEF OptionsAssumption
<1> QED
  BY <1>1, <1>2, <1>3, PTL DEF OptionsSpec

-----------------------------------------------------------------------------
(* The records.                                                             *)

Rows == [match : Nat, game : Games, user : Members, birth : Nat, gain : Gains, seen : Nat]

Databases == [birth : [Members -> Nat \cup {Unborn}], rows : SUBSET Rows, last : Nat,
              honors : SUBSET [id : Nat, user : Members, birth : Nat], lastHonor : Nat]

\* The matches of the row's user in the row's game that the row counts.
Earlier(rows, r) ==
    {s \in rows : s.user = r.user /\ s.game = r.game /\ s.birth = r.birth /\ s.match < r.match}

\* What a database says that was only changed by whole transactions one after the other.
Consistent(d) ==
    /\ d \in Databases /\ IsFiniteSet(d.rows)
    /\ \A r \in d.rows :
          /\ r.match \in 1 .. d.last
          /\ r.birth <= d.birth[r.user]
          /\ r.seen = Cardinality(Earlier(d.rows, r))
    /\ \A m \in 1 .. d.last : Cardinality({r \in d.rows : r.match = m}) > 1
    /\ \A r, s \in d.rows :
          r.user = s.user => /\ r.match = s.match => r = s
                             /\ r.birth < s.birth => r.match < s.match

\* The rows of a user's life, and the last of them.
Life(d, e) == {r \in d.rows : r.user = e[1] /\ r.birth = e[2]}
LastOf(old) == {r \in old : Cardinality({s \in old : s.match > r.match}) < Required}

\* Life e is over, and its last matches were won.
EndedByWinner(d, e) ==
    /\ e \in Members \X Nat /\ e[2] < d.birth[e[1]]
    /\ Cardinality(LastOf(Life(d, e))) = Required
    /\ \A r \in LastOf(Life(d, e)) : r.gain > 0

RightJob(j) ==
    /\ j.kind \in {"record", "suicide", "honor", "unhonor", "profile"}
    /\ j.kind = "record" =>
          /\ j \in [kind : {"record"}, game : Games, gain : [DOMAIN j.gain -> Gains],
                    seen : [DOMAIN j.gain -> Nat \cup Gains]]
          /\ DOMAIN j.gain \subseteq Members /\ Cardinality(DOMAIN j.gain) > 1
    /\ j.kind = "suicide" => j.user \in Members /\ j.required \in {0, Required}
    /\ j.kind = "honor" => j.user \in Members

\* The scores of a match are to be calculated from what the database says.
Counted(d, j) ==
    j.kind = "record" => \A u \in DOMAIN j.gain : j.seen[u] = HistoryOf(d, u, j.game)

\* A transaction that has read sees what is committed, with its own changes.
Isolated ==
    /\ DOMAIN job = Clerks /\ DOMAIN view = Clerks
    /\ at \in [Clerks -> {"idle", "begun", "read", "written"}]
    /\ readers = {t \in Clerks : at[t] \in {"read", "written"}}
    /\ writer \in Clerks \cup {NobodyWrites}
    /\ \A t \in Clerks :
          /\ at[t] = "written" <=> writer = t
          /\ at[t] # "idle" => RightJob(job[t])
          /\ at[t] = "read" => view[t] = db /\ Counted(db, job[t])
          /\ at[t] = "written" =>
                /\ view[t] = Written(db, job[t]) /\ Counted(db, job[t])
                /\ job[t].kind # "profile"
                /\ job[t].kind = "suicide" => MaySuicide(db, job[t])

RecordsInv ==
    /\ Consistent(db)
    /\ \A e \in ended : EndedByWinner(db, e)
    /\ Isolated

\* Nobody has a record at first.
LEMMA EmptyIsConsistent == Consistent(Empty)
<1>1. Empty \in Databases
  BY DEF Empty, Databases
<1>2. Empty.rows = {} /\ Empty.last = 0
  BY DEF Empty
<1> QED
  BY <1>1, <1>2, FS_EmptySet DEF Consistent

\* The empty database is consistent.
LEMMA InitRecords ==
  ASSUME NobodyWrites \notin Clerks
  PROVE  RecordsInit => RecordsInv
BY EmptyIsConsistent DEF RecordsInit, RecordsInv, Isolated, Idle

\* The last Required matches of a user who has won that many of them are those that he
\* has won.
LEMMA LastAreWon ==
  ASSUME NEW old, IsFiniteSet(old), old \subseteq Rows,
         \A r, s \in old : r.match = s.match => r = s,
         Required \in Nat \ {0},
         Cardinality({r \in LastOf(old) : r.gain > 0}) = Required
  PROVE  /\ Cardinality(LastOf(old)) = Required
         /\ \A r \in LastOf(old) : r.gain > 0
<1> DEFINE last == LastOf(old)
           won == {r \in last : r.gain > 0}
<1>1. last \subseteq old /\ won \subseteq last
  BY DEF LastOf
<1>2. IsFiniteSet(last)
  BY <1>1, FS_Subset
<1>3. last # {}
  <2>1. won # {}
    BY FS_EmptySet
  <2> QED
    BY <2>1
<1>4. PICK r \in last : \A s \in last : r.match <= s.match
  <2> DEFINE T == {s.match : s \in last}
  <2>1. T \subseteq Nat /\ T # {}
    BY <1>1, <1>3 DEF Rows
  <2>2. PICK x \in T : \A y \in T : x <= y
    BY <2>1, LeastNumber
  <2> QED
    BY <2>2
<1>5. last \ {r} \subseteq {s \in old : s.match > r.match}
  <2> SUFFICES ASSUME NEW s \in last \ {r} PROVE s \in old /\ s.match > r.match
    OBVIOUS
  <2>1. s \in old /\ r \in old /\ s.match # r.match /\ r.match <= s.match
    BY <1>1, <1>4
  <2> QED
    BY <2>1 DEF Rows
<1>6. IsFiniteSet({s \in old : s.match > r.match})
  BY FS_Subset
<1>7. Cardinality(last \ {r}) <= Cardinality({s \in old : s.match > r.match})
  BY <1>5, <1>6, FS_Subset
<1>8. Cardinality({s \in old : s.match > r.match}) < Required
  BY DEF LastOf
<1>9. Cardinality(last \ {r}) = Cardinality(last) - 1
  BY <1>2, FS_RemoveElement
<1>10. /\ Cardinality(last) \in Nat /\ Cardinality(last \ {r}) \in Nat
       /\ Cardinality({s \in old : s.match > r.match}) \in Nat
  BY <1>2, <1>6, FS_CardinalityType, FS_RemoveElement
<1>11. Cardinality(last) <= Required
  BY <1>7, <1>8, <1>9, <1>10
<1>12. Cardinality(won) <= Cardinality(last) /\ (Cardinality(last) = Cardinality(won) => last = won)
  BY <1>1, <1>2, FS_Subset
<1>13. Cardinality(last) = Cardinality(won)
  BY <1>10, <1>11, <1>12
<1> QED
  BY <1>12, <1>13

\* A match that is recorded has a row for each of its users, of the life he is in.
LEMMA MatchIsRecorded ==
  ASSUME IsFiniteSet(Members), NEW d, Consistent(d), NEW j, RightJob(j), j.kind = "record",
         Counted(d, j)
  PROVE  /\ Consistent(WithMatch(d, j))
         /\ \A u \in Members : d.birth[u] <= WithMatch(d, j).birth[u]
         /\ d.rows \subseteq WithMatch(d, j).rows
         /\ \A r \in WithMatch(d, j).rows \ d.rows : d.birth[r.user] <= r.birth
<1> DEFINE S == DOMAIN j.gain
           known == WithUsers(d, S)
           id == d.last + 1
           Row(u) == [match |-> id, game |-> j.game, user |-> u, birth |-> known.birth[u],
                      gain |-> j.gain[u], seen |-> j.seen[u]]
           new == {Row(u) : u \in S}
           e == WithMatch(d, j)
<1>a. /\ d \in Databases /\ IsFiniteSet(d.rows) /\ d.last \in Nat
      /\ d.birth \in [Members -> Nat \cup {Unborn}] /\ d.rows \subseteq Rows
  BY DEF Consistent, Databases
<1>b. /\ S \subseteq Members /\ Cardinality(S) > 1 /\ j.game \in Games
      /\ j.gain \in [S -> Gains] /\ IsFiniteSet(S)
  BY FS_Subset DEF RightJob
<1>1. /\ known.birth \in [Members -> Nat \cup {Unborn}] /\ known \in Databases
      /\ \A u \in Members : known.birth[u] = IF u \in S /\ d.birth[u] = Unborn THEN 0 ELSE d.birth[u]
      /\ known.last = d.last /\ known.rows = d.rows
  BY <1>a DEF WithUsers, Databases
<1>2. \A u \in S : known.birth[u] \in Nat
  BY <1>a, <1>b, <1>1
<1>3. e.birth = known.birth /\ e.last = id /\ e.rows = d.rows \cup new
  BY <1>1 DEF WithMatch, Databases
<1>4. \A u \in S : IsFiniteSet({r \in Since(d, u) : r.game = j.game}) /\ j.seen[u] \in Nat
                   /\ j.seen[u] = Cardinality({r \in Since(d, u) : r.game = j.game})
  <2> TAKE u \in S
  <2>1. {r \in Since(d, u) : r.game = j.game} \subseteq d.rows
    BY DEF Since
  <2>2. IsFiniteSet({r \in Since(d, u) : r.game = j.game})
    BY <1>a, <2>1, FS_Subset
  <2> QED
    BY <2>2, FS_CardinalityType DEF Counted, HistoryOf
<1> HIDE DEF known
<1>5. new \subseteq Rows
  <2> SUFFICES ASSUME NEW u \in S PROVE Row(u) \in Rows
    OBVIOUS
  <2>1. id \in Nat /\ j.game \in Games /\ u \in Members /\ j.gain[u] \in Gains
    BY <1>a, <1>b
  <2> QED
    BY <1>2, <1>4, <2>1 DEF Rows
<1>6. e \in Databases
  <2>1. e = [known EXCEPT !.last = id, !.rows = known.rows \cup new]
    BY DEF WithMatch, known
  <2>2. id \in Nat /\ known.rows \cup new \subseteq Rows
    BY <1>1, <1>5, <1>a
  <2> HIDE DEF new, id, e
  <2> QED
    BY <1>1, <2>1, <2>2 DEF Databases
<1>7. \A r \in new : r.user \in S /\ r = Row(r.user)
  OBVIOUS
<1>8. IsFiniteSet(new) /\ Cardinality(new) > 1
  <2>1. [u \in S |-> Row(u)] \in Surjection(S, new)
    BY DEF Surjection
  <2>2. IsFiniteSet(new)
    BY <1>b, <2>1, FS_Surjection
  <2>3. [r \in new |-> r.user] \in Surjection(new, S)
    <3>1. \A u \in S : Row(u) \in new /\ Row(u).user = u
      OBVIOUS
    <3> HIDE DEF Row, new
    <3> QED
      BY <1>7, <3>1 DEF Surjection
  <2>4. Cardinality(S) <= Cardinality(new)
    BY <2>2, <2>3, FS_Surjection
  <2> QED
    BY <1>b, <2>2, <2>4, FS_CardinalityType
<1>9. IsFiniteSet(e.rows)
  <2> HIDE DEF new, e, Row
  <2>1. IsFiniteSet(d.rows) /\ IsFiniteSet(new)
    BY <1>8, <1>a
  <2>2. IsFiniteSet(d.rows \cup new)
    BY <2>1, FS_Union
  <2> QED
    BY <1>3, <2>2
<1>10. \A r \in d.rows : r.match \in 1 .. d.last /\ r.birth <= d.birth[r.user] /\ r.birth \in Nat
                         /\ r.user \in Members
  BY <1>a DEF Consistent, Rows
<1>11. \A u \in Members : d.birth[u] <= known.birth[u] /\ d.birth[u] \in Int /\ known.birth[u] \in Int
  BY <1>a, <1>1 DEF Unborn
<1>12. \A r \in new : r.match = id /\ r.birth = known.birth[r.user] /\ r.birth \in Nat
  BY <1>2
<1>13. ASSUME NEW r \in d.rows
       PROVE  Earlier(e.rows, r) = Earlier(d.rows, r)
  BY <1>3, <1>10, <1>12, <1>a DEF Earlier
<1>14. ASSUME NEW u \in S
       PROVE  Earlier(e.rows, Row(u)) = {r \in Since(d, u) : r.game = j.game}
  <2>1. \A s \in e.rows : s.match < id <=> s \in d.rows
    BY <1>3, <1>10, <1>12, <1>a
  <2>2. \A s \in d.rows : s.user = u => (s.birth = known.birth[u] <=> s.birth = d.birth[u])
    BY <1>1, <1>10, <1>a, <1>b DEF Unborn
  <2> QED
    BY <1>3, <2>1, <2>2 DEF Earlier, Since
<1> HIDE DEF Row
<1>15. ASSUME NEW r \in e.rows
       PROVE  /\ r.match \in 1 .. e.last /\ r.birth <= e.birth[r.user]
              /\ r.seen = Cardinality(Earlier(e.rows, r))
  <2>1. CASE r \in d.rows
    <3>1. r.match \in 1 .. d.last /\ r.birth <= d.birth[r.user] /\ r.birth \in Nat /\ r.user \in Members
      BY <1>10, <2>1
    <3>2. r.match \in 1 .. e.last /\ r.birth <= e.birth[r.user]
      BY <1>3, <1>11, <1>a, <3>1
    <3>3. r.seen = Cardinality(Earlier(d.rows, r))
      BY <2>1 DEF Consistent
    <3> QED
      BY <1>13, <2>1, <3>2, <3>3
  <2>2. CASE r \in new
    <3>1. r.match = id /\ r.birth = known.birth[r.user] /\ r.birth \in Nat /\ id \in 1 .. id
      BY <1>12, <1>a, <2>2
    <3>2. PICK u \in S : r = Row(u)
      BY <2>2
    <3>3. r.seen = j.seen[u]
      BY <3>2 DEF Row
    <3> QED
      BY <1>3, <1>4, <1>14, <3>1, <3>2, <3>3
  <2> QED
    BY <1>3, <2>1, <2>2
<1>16. ASSUME NEW m \in 1 .. e.last
       PROVE  Cardinality({r \in e.rows : r.match = m}) > 1
  <2>1. CASE m = id
    <3>1. {r \in e.rows : r.match = m} = new
      BY <1>3, <1>10, <1>12, <1>a, <2>1
    <3> QED
      BY <1>8, <3>1
  <2>2. CASE m # id
    <3>1. {r \in e.rows : r.match = m} = {r \in d.rows : r.match = m}
      BY <1>3, <1>12, <2>2
    <3>2. m \in 1 .. d.last
      BY <1>3, <1>a, <2>2
    <3> QED
      BY <3>1, <3>2 DEF Consistent
  <2> QED
    BY <2>1, <2>2
<1>17. ASSUME NEW r \in e.rows, NEW s \in e.rows, r.user = s.user
       PROVE  /\ r.match = s.match => r = s
              /\ r.birth < s.birth => r.match < s.match
  <2>1. CASE r \in d.rows /\ s \in d.rows
    BY <1>17, <2>1 DEF Consistent
  <2>2. CASE r \in d.rows /\ s \in new
    BY <1>10, <1>12, <1>a, <2>2
  <2>3. CASE r \in new /\ s \in d.rows
    <3>1. s.birth <= d.birth[s.user] /\ d.birth[s.user] <= known.birth[s.user]
      BY <1>10, <1>11, <2>3
    <3>2. r.birth = known.birth[s.user] /\ r.match = id /\ s.match \in 1 .. d.last /\ s.user \in Members
      BY <1>10, <1>12, <1>17, <2>3
    <3>3. s.birth <= r.birth /\ s.match < r.match
      BY <1>10, <1>11, <1>a, <2>3, <3>1, <3>2
    <3> QED
      BY <1>10, <1>12, <1>a, <2>3, <3>3
  <2>4. CASE r \in new /\ s \in new
    <3>1. r = s
      BY <1>7, <1>17, <2>4
    <3> QED
      BY <1>12, <2>4, <3>1
  <2> QED
    BY <1>3, <2>1, <2>2, <2>3, <2>4
<1>18. Consistent(e)
  BY <1>6, <1>9, <1>15, <1>16, <1>17 DEF Consistent
<1>19. \A r \in e.rows \ d.rows : d.birth[r.user] <= r.birth
  BY <1>3, <1>7, <1>11, <1>12, <1>b
<1> QED
  BY <1>3, <1>11, <1>18, <1>19

\* The other transactions change no row, and a life only for a later one.
LEMMA RowsStay ==
  ASSUME NEW d, Consistent(d), NEW e \in Databases, e.rows = d.rows, e.last = d.last,
         \A u \in Members : d.birth[u] <= e.birth[u]
  PROVE  Consistent(e)
<1>1. ASSUME NEW r \in d.rows
      PROVE  r.birth <= e.birth[r.user]
  <2>1. r.user \in Members /\ r.birth \in Nat /\ r.birth <= d.birth[r.user]
    BY DEF Consistent, Databases, Rows
  <2>2. d.birth[r.user] \in Int /\ e.birth[r.user] \in Int /\ d.birth[r.user] <= e.birth[r.user]
    BY <2>1 DEF Consistent, Databases, Unborn
  <2> QED
    BY <2>1, <2>2
<1> QED
  BY <1>1 DEF Consistent

\* Every transaction leaves a consistent database, in which lives that were over are
\* as they were.
LEMMA WrittenIsConsistent ==
  ASSUME IsFiniteSet(Members), NEW d, Consistent(d), NEW j, RightJob(j), j.kind # "profile",
         Counted(d, j)
  PROVE  /\ Consistent(Written(d, j))
         /\ \A u \in Members : d.birth[u] <= Written(d, j).birth[u]
         /\ d.rows \subseteq Written(d, j).rows
         /\ \A r \in Written(d, j).rows \ d.rows : d.birth[r.user] <= r.birth
         /\ j.kind = "suicide" /\ d.birth[j.user] # Unborn =>
               Written(d, j).rows = d.rows /\ d.birth[j.user] < Written(d, j).birth[j.user]
<1>a. /\ d \in Databases /\ d.birth \in [Members -> Nat \cup {Unborn}]
      /\ d.lastHonor \in Nat /\ d.honors \subseteq [id : Nat, user : Members, birth : Nat]
      /\ \A u \in Members : d.birth[u] \in Int
  BY DEF Consistent, Databases, Unborn
<1>1. CASE j.kind = "record"
  BY <1>1, MatchIsRecorded DEF Written
<1>2. CASE j.kind = "suicide"
  <2>1. Written(d, j) = Reborn(d, j.user) /\ j.user \in Members
    BY <1>2 DEF Written, RightJob
  <2>2. CASE d.birth[j.user] = Unborn
    BY <1>a, <2>1, <2>2 DEF Reborn
  <2>3. CASE d.birth[j.user] # Unborn
    <3>1. Reborn(d, j.user) = [d EXCEPT !.birth = [d.birth EXCEPT ![j.user] = @ + 1]]
      BY <1>a, <2>3 DEF Reborn, Databases
    <3>2. [d.birth EXCEPT ![j.user] = @ + 1] \in [Members -> Nat \cup {Unborn}]
      BY <1>a, <2>1, <2>3
    <3>3. /\ Reborn(d, j.user) \in Databases
          /\ Reborn(d, j.user).birth = [d.birth EXCEPT ![j.user] = @ + 1]
          /\ Reborn(d, j.user).rows = d.rows /\ Reborn(d, j.user).last = d.last
      BY <1>a, <3>1, <3>2 DEF Databases
    <3>4. \A u \in Members : d.birth[u] <= Reborn(d, j.user).birth[u]
      BY <1>a, <3>3
    <3>5. d.birth[j.user] < Reborn(d, j.user).birth[j.user]
      BY <1>a, <2>1, <3>3
    <3>6. Consistent(Reborn(d, j.user))
      BY <3>3, <3>4, RowsStay
    <3> QED
      BY <2>1, <3>3, <3>4, <3>5, <3>6
  <2> QED
    BY <2>2, <2>3
<1>3. CASE j.kind = "honor"
  <2> DEFINE known == WithUsers(d, {j.user})
             e == WithHonor(d, j.user)
             h == [id |-> d.lastHonor + 1, user |-> j.user, birth |-> known.birth[j.user]]
  <2>1. /\ j.user \in Members /\ Written(d, j) = e
    BY <1>3 DEF Written, RightJob
  <2>2. /\ known.birth \in [Members -> Nat \cup {Unborn}] /\ known \in Databases
        /\ \A u \in Members : known.birth[u] = IF u = j.user /\ d.birth[u] = Unborn
                                               THEN 0 ELSE d.birth[u]
        /\ known.last = d.last /\ known.rows = d.rows
        /\ known.honors = d.honors /\ known.lastHonor = d.lastHonor
    BY <1>a, <2>1 DEF WithUsers, Databases
  <2>3. e = [known EXCEPT !.lastHonor = known.lastHonor + 1, !.honors = known.honors \cup {h}]
    BY <2>2 DEF WithHonor, Databases
  <2>4. h \in [id : Nat, user : Members, birth : Nat]
    <3>1. known.birth[j.user] \in Nat
      BY <1>a, <2>1, <2>2
    <3> HIDE DEF known
    <3> QED
      BY <1>a, <2>1, <3>1
  <2> HIDE DEF known, h, e
  <2>5. e \in Databases /\ e.birth = known.birth /\ e.rows = d.rows /\ e.last = d.last
    <3> DEFINE H == [id : Nat, user : Members, birth : Nat]
    <3>1. known.honors \cup {h} \in SUBSET H /\ known.lastHonor + 1 \in Nat
      BY <1>a, <2>2, <2>4
    <3>2. Databases = [birth : [Members -> Nat \cup {Unborn}], rows : SUBSET Rows, last : Nat,
                       honors : SUBSET H, lastHonor : Nat]
      BY DEF Databases
    <3> HIDE DEF H
    <3> QED
      BY <2>2, <2>3, <3>1, <3>2
  <2>6. \A u \in Members : d.birth[u] <= e.birth[u]
    BY <1>a, <2>2, <2>5 DEF Unborn
  <2> QED
    BY <1>3, <2>1, <2>5, <2>6, RowsStay
<1>4. CASE j.kind = "unhonor"
  <2> DEFINE e == [d EXCEPT !.honors = {h \in @ : h.id # j.id}]
  <2>1. Written(d, j) = e
    BY <1>4 DEF Written
  <2>2. e \in Databases /\ e.birth = d.birth /\ e.rows = d.rows /\ e.last = d.last
    BY <1>a DEF Databases
  <2> HIDE DEF e
  <2>3. Consistent(e)
    BY <1>a, <2>2, RowsStay
  <2> QED
    BY <1>4, <1>a, <2>1, <2>2, <2>3
<1> QED
  BY <1>1, <1>2, <1>3, <1>4 DEF RightJob

\* A life that is over stays as it was.
LEMMA EndedStays ==
  ASSUME NEW d, Consistent(d), NEW x, Consistent(x), NEW e, EndedByWinner(d, e),
         \A u \in Members : d.birth[u] <= x.birth[u],
         d.rows \subseteq x.rows, \A r \in x.rows \ d.rows : d.birth[r.user] <= r.birth
  PROVE  EndedByWinner(x, e)
<1>1. e[1] \in Members /\ e[2] \in Nat /\ d.birth[e[1]] \in Int /\ x.birth[e[1]] \in Int
  BY DEF EndedByWinner, Consistent, Databases, Unborn
<1>2. \A r \in x.rows : r.birth \in Nat
  BY DEF Consistent, Databases, Rows
<1>3. Life(x, e) = Life(d, e)
  BY <1>1, <1>2 DEF Life, EndedByWinner
<1> QED
  BY <1>1, <1>3 DEF EndedByWinner

\* Who may erase his record has won his last matches.
LEMMA ErasedIsWon ==
  ASSUME NEW d, Consistent(d), NEW j, RightJob(j), j.kind = "suicide", j.required > 0,
         MaySuicide(d, j), d.birth[j.user] # Unborn, Required \in Nat,
         NEW x, Consistent(x), x.rows = d.rows, d.birth[j.user] < x.birth[j.user]
  PROVE  EndedByWinner(x, <<j.user, d.birth[j.user]>>)
<1> DEFINE e == <<j.user, d.birth[j.user]>>
           old == Life(d, e)
<1>1. j.user \in Members /\ j.required = Required /\ Required \in Nat \ {0}
  BY DEF RightJob
<1>2. /\ d.birth[j.user] \in Nat /\ e \in Members \X Nat
      /\ IsFiniteSet(d.rows) /\ d.rows \subseteq Rows
  BY <1>1 DEF Consistent, Databases
<1>3. old = Since(d, j.user) /\ old \subseteq d.rows
  BY DEF Life, Since
<1>4. IsFiniteSet(old)
  BY <1>2, <1>3, FS_Subset
<1>5. \A r, s \in old : r.match = s.match => r = s
  BY <1>3 DEF Life, Consistent
<1>6. LastOf(old) = Recent(d, j.user, Required)
  BY <1>3 DEF LastOf, Recent
<1>7. Cardinality({r \in LastOf(old) : r.gain > 0}) = Required
  BY <1>1, <1>6 DEF MaySuicide
<1>8. Life(x, e) = old
  BY DEF Life
<1> HIDE DEF old
<1>9. Cardinality(LastOf(old)) = Required /\ \A r \in LastOf(old) : r.gain > 0
  BY <1>1, <1>2, <1>3, <1>4, <1>5, <1>7, LastAreWon
<1> QED
  BY <1>2, <1>8, <1>9 DEF EndedByWinner

\* What a thread is given to do is right.
LEMMA JobsAreRight ==
  ASSUME NEW j \in Jobs
  PROVE  RightJob(j)
<1>1. CASE \E g \in Games, f \in UNION {[S -> Gains] : S \in {U \in SUBSET Members : Cardinality(U) > 1}} :
              j = [kind |-> "record", game |-> g, gain |-> f, seen |-> f]
  <2>0. PICK g \in Games, f \in UNION {[S -> Gains] : S \in {U \in SUBSET Members : Cardinality(U) > 1}} :
           j = [kind |-> "record", game |-> g, gain |-> f, seen |-> f]
    BY <1>1
  <2>1. PICK S \in {U \in SUBSET Members : Cardinality(U) > 1} : f \in [S -> Gains]
    OBVIOUS
  <2>2. DOMAIN j.gain = S /\ j.gain = f /\ j.seen = f /\ j.game = g /\ j.kind = "record"
    BY <2>0, <2>1
  <2>3. f \in [S -> Nat \cup Gains]
    BY <2>1
  <2>4. j \in [kind : {"record"}, game : Games, gain : [S -> Gains], seen : [S -> Nat \cup Gains]]
    BY <2>0, <2>1, <2>3
  <2> QED
    BY <2>2, <2>4 DEF RightJob
<1>2. CASE ~(\E g \in Games, f \in UNION {[S -> Gains] : S \in {U \in SUBSET Members : Cardinality(U) > 1}} :
              j = [kind |-> "record", game |-> g, gain |-> f, seen |-> f])
  <2>1. \/ \E u \in Members, n \in {0, Required} : j = [kind |-> "suicide", user |-> u, required |-> n]
        \/ \E u \in Members : j = [kind |-> "honor", user |-> u]
        \/ \E i \in 1 .. MaxHonors : j = [kind |-> "unhonor", id |-> i]
        \/ j = [kind |-> "profile"]
    BY <1>2 DEF Jobs
  <2> QED
    BY <2>1 DEF RightJob
<1> QED
  BY <1>1, <1>2

\* The histories that are read are the numbers of what the database has.
LEMMA ReadCounts ==
  ASSUME Consistent(db), NEW j, RightJob(j), j.kind = "record",
         NEW k, k = [j EXCEPT !.seen = [u \in DOMAIN j.gain |-> HistoryOf(db, u, j.game)]]
  PROVE  RightJob(k) /\ Counted(db, k)
<1> DEFINE S == DOMAIN j.gain
<1>1. /\ j \in [kind : {"record"}, game : Games, gain : [S -> Gains], seen : [S -> Nat \cup Gains]]
      /\ S \subseteq Members /\ Cardinality(S) > 1
  BY DEF RightJob
<1>2. \A u \in S : HistoryOf(db, u, j.game) \in Nat
  <2> TAKE u \in S
  <2>1. {r \in Since(db, u) : r.game = j.game} \subseteq db.rows /\ IsFiniteSet(db.rows)
    BY DEF Since, Consistent
  <2> QED
    BY <2>1, FS_Subset, FS_CardinalityType DEF HistoryOf
<1>3. DOMAIN j.seen = S
  BY <1>1
<1>4. k.seen = [u \in S |-> HistoryOf(db, u, j.game)] /\ k.gain = j.gain /\ k.game = j.game
      /\ k.kind = "record"
  BY <1>1, <1>3
<1>5. k \in [kind : {"record"}, game : Games, gain : [S -> Gains], seen : [S -> Nat \cup Gains]]
  <2>1. [u \in S |-> HistoryOf(db, u, j.game)] \in [S -> Nat \cup Gains]
    BY <1>2
  <2> QED
    BY <1>1, <1>3, <2>1
<1> QED
  BY <1>1, <1>4, <1>5 DEF RightJob, Counted

\* A transaction that is over leaves the others alone.
LEMMA ClosedIsIsolated ==
  ASSUME NobodyWrites \notin Clerks, Isolated, NEW t \in Clerks, CloseDb(t),
         db' = db \/ readers \subseteq {t}
  PROVE  Isolated'
<1>1. /\ DOMAIN job' = Clerks /\ DOMAIN view' = Clerks
      /\ at' \in [Clerks -> {"idle", "begun", "read", "written"}]
      /\ at'[t] = "idle"
      /\ \A c \in Clerks \ {t} : at'[c] = at[c] /\ job'[c] = job[c] /\ view'[c] = view[c]
  BY DEF Isolated, CloseDb
<1>2. readers' = {c \in Clerks : at'[c] \in {"read", "written"}}
  BY <1>1 DEF Isolated, CloseDb
<1>3. writer' \in Clerks \cup {NobodyWrites} /\ \A c \in Clerks : at'[c] = "written" <=> writer' = c
  BY <1>1 DEF Isolated, CloseDb
<1>4. \A c \in Clerks : at'[c] # "idle" => c # t
  BY <1>1
<1>5. \A c \in Clerks : at'[c] \in {"read", "written"} => db' = db
  BY <1>1 DEF Isolated
<1> QED
  BY <1>1, <1>2, <1>3, <1>4, <1>5 DEF Isolated

\* Every step keeps the invariant of the records.
LEMMA RecordsStep ==
  ASSUME NobodyWrites \notin Clerks, IsFiniteSet(Members), Required \in Nat,
         RecordsInv, [RecordsNext]_recordVars
  PROVE  RecordsInv'
<1>a. Consistent(db) /\ Isolated /\ \A e \in ended : EndedByWinner(db, e)
  BY DEF RecordsInv
<1>b. /\ DOMAIN job = Clerks /\ DOMAIN view = Clerks
      /\ at \in [Clerks -> {"idle", "begun", "read", "written"}]
      /\ readers = {t \in Clerks : at[t] \in {"read", "written"}}
  BY <1>a DEF Isolated
<1>1. ASSUME NEW t \in Clerks, NEW j \in Jobs, Begin(t, j)
      PROVE  RecordsInv'
  <2>1. RightJob(j)
    BY JobsAreRight
  <2>2. /\ job' = [job EXCEPT ![t] = j] /\ at' = [at EXCEPT ![t] = "begun"] /\ at[t] = "idle"
        /\ UNCHANGED <<db, view, readers, writer, ended>>
    BY <1>1 DEF Begin
  <2>3. /\ DOMAIN job' = Clerks /\ job'[t] = j /\ at'[t] = "begun"
        /\ at' \in [Clerks -> {"idle", "begun", "read", "written"}]
        /\ \A c \in Clerks \ {t} : at'[c] = at[c] /\ job'[c] = job[c]
    BY <1>b, <2>2
  <2>4. Isolated'
    BY <1>a, <1>b, <2>1, <2>2, <2>3 DEF Isolated
  <2> QED
    BY <1>a, <2>2, <2>4 DEF RecordsInv
<1>2. ASSUME NEW t \in Clerks, Read(t)
      PROVE  RecordsInv'
  <2>1. /\ at[t] = "begun" /\ at' = [at EXCEPT ![t] = "read"] /\ view' = [view EXCEPT ![t] = db]
        /\ readers' = readers \cup {t} /\ UNCHANGED <<db, writer, ended>>
    BY <1>2 DEF Read
  <2>2. RightJob(job[t])
    BY <1>a, <2>1 DEF Isolated
  <2>3. /\ DOMAIN job' = Clerks
        /\ job'[t] = IF job[t].kind = "record"
                     THEN [job[t] EXCEPT !.seen = [u \in DOMAIN job[t].gain |-> HistoryOf(db, u, job[t].game)]]
                     ELSE job[t]
        /\ \A c \in Clerks \ {t} : job'[c] = job[c]
    BY <1>2, <1>b DEF Read
  <2>4. RightJob(job'[t]) /\ Counted(db, job'[t])
    <3>1. CASE job[t].kind = "record"
      BY <1>a, <2>2, <2>3, <3>1, ReadCounts
    <3>2. CASE job[t].kind # "record"
      BY <2>2, <2>3, <3>2 DEF Counted
    <3> QED
      BY <3>1, <3>2
  <2>5. /\ DOMAIN view' = Clerks /\ view'[t] = db /\ at'[t] = "read"
        /\ at' \in [Clerks -> {"idle", "begun", "read", "written"}]
        /\ \A c \in Clerks \ {t} : at'[c] = at[c] /\ view'[c] = view[c]
    BY <1>b, <2>1
  <2>6. Isolated'
    BY <1>a, <1>b, <2>1, <2>3, <2>4, <2>5 DEF Isolated
  <2> QED
    BY <1>a, <2>1, <2>6 DEF RecordsInv
<1>3. ASSUME NEW t \in Clerks, Write(t)
      PROVE  RecordsInv'
  <2>1. /\ at[t] = "read" /\ writer = NobodyWrites /\ writer' = t /\ job[t].kind # "profile"
        /\ job[t].kind = "suicide" => MaySuicide(view[t], job[t])
        /\ view' = [view EXCEPT ![t] = Written(view[t], job[t])]
        /\ at' = [at EXCEPT ![t] = "written"] /\ UNCHANGED <<db, job, readers, ended>>
    BY <1>3 DEF Write
  <2>2. view[t] = db /\ Counted(db, job[t]) /\ RightJob(job[t])
    BY <1>a, <2>1 DEF Isolated
  <2>3. /\ DOMAIN view' = Clerks /\ view'[t] = Written(db, job[t]) /\ at'[t] = "written"
        /\ at' \in [Clerks -> {"idle", "begun", "read", "written"}]
        /\ \A c \in Clerks \ {t} : at'[c] = at[c] /\ view'[c] = view[c]
    BY <1>b, <2>1, <2>2
  <2>4. Isolated'
    BY <1>a, <1>b, <2>1, <2>2, <2>3 DEF Isolated
  <2> QED
    BY <1>a, <2>1, <2>4 DEF RecordsInv
<1>4. ASSUME NEW t \in Clerks, ReadOnly(t) \/ Fail(t)
      PROVE  RecordsInv'
  <2>1. CloseDb(t) /\ UNCHANGED <<db, ended>>
    BY <1>4 DEF ReadOnly, Fail
  <2> QED
    BY <1>a, <2>1, ClosedIsIsolated DEF RecordsInv
<1>5. ASSUME NEW t \in Clerks, Commit(t)
      PROVE  RecordsInv'
  <2> DEFINE j == job[t]
             b == <<j.user, db.birth[j.user]>>
  <2>1. /\ at[t] = "written" /\ readers \subseteq {t} /\ db' = view[t] /\ CloseDb(t)
        /\ ended' = IF j.kind = "suicide" /\ j.required > 0 /\ db.birth[j.user] # Unborn
                    THEN ended \cup {b} ELSE ended
    BY <1>5 DEF Commit
  <2>2. Isolated'
    BY <1>a, <2>1, ClosedIsIsolated
  <2>3. /\ db' = Written(db, j) /\ Counted(db, j) /\ RightJob(j) /\ j.kind # "profile"
        /\ j.kind = "suicide" => MaySuicide(db, j)
    BY <1>a, <2>1 DEF Isolated
  <2> HIDE DEF j
  <2>4. /\ Consistent(db') /\ \A u \in Members : db.birth[u] <= db'.birth[u]
        /\ db.rows \subseteq db'.rows /\ \A r \in db'.rows \ db.rows : db.birth[r.user] <= r.birth
        /\ j.kind = "suicide" /\ db.birth[j.user] # Unborn =>
               db'.rows = db.rows /\ db.birth[j.user] < db'.birth[j.user]
    BY <1>a, <2>3, WrittenIsConsistent
  <2>5. \A e \in ended : EndedByWinner(db', e)
    BY <1>a, <2>4, EndedStays
  <2>6. ASSUME j.kind = "suicide", j.required > 0, db.birth[j.user] # Unborn
        PROVE  EndedByWinner(db', b)
    BY <1>a, <2>3, <2>4, <2>6, ErasedIsWon
  <2>7. \A e \in ended' : EndedByWinner(db', e)
    BY <2>1, <2>5, <2>6
  <2> QED
    BY <2>2, <2>4, <2>7 DEF RecordsInv
<1>6. CASE DatabaseCrash
  <2>1. UNCHANGED <<db, ended>> /\ Isolated'
    BY <1>6 DEF DatabaseCrash, Isolated
  <2> QED
    BY <1>a, <2>1 DEF RecordsInv
<1>7. CASE UNCHANGED recordVars
  BY <1>7 DEF recordVars, RecordsInv, Isolated
<1> QED
  BY <1>1, <1>2, <1>3, <1>4, <1>5, <1>6, <1>7 DEF RecordsNext

\* Transactions that interleave, fail or are cut off by a crash leave the same as if each
\* match were recorded by itself: it counts once, for all of its users, with the history that each
\* had, and only winners erase their record.
THEOREM RecordsAreSerial == RecordsSpec => []RecordsAddUp
<1>1. RecordsInv => RecordsAddUp
  <2> SUFFICES ASSUME RecordsInv PROVE LevelsCountAll /\ MatchesAreWhole /\ ErasedByWinners
    BY DEF RecordsAddUp
  <2>1. Consistent(db) /\ \A e \in ended : EndedByWinner(db, e)
    BY DEF RecordsInv
  <2>2. LevelsCountAll
    BY <2>1 DEF Consistent, Earlier, LevelsCountAll
  <2>3. MatchesAreWhole
    <3>1. \A r \in db.rows : r.match <= db.last /\ r.birth <= db.birth[r.user]
      BY <2>1 DEF Consistent, Databases, Rows
    <3> QED
      BY <2>1, <3>1 DEF Consistent, MatchesAreWhole
  <2>4. ErasedByWinners
    <3> SUFFICES ASSUME NEW e \in ended
                 PROVE  /\ Cardinality(LastOf(Life(db, e))) = Required
                        /\ \A r \in LastOf(Life(db, e)) : r.gain > 0
                        /\ \A r \in Life(db, e),
                              s \in {x \in db.rows : x.user = e[1] /\ x.birth > e[2]} :
                              r.match < s.match
      BY DEF ErasedByWinners, Life, LastOf
    <3>1. EndedByWinner(db, e)
      BY <2>1
    <3>2. ASSUME NEW r \in Life(db, e), NEW s \in {x \in db.rows : x.user = e[1] /\ x.birth > e[2]}
          PROVE  r.match < s.match
      <4>1. r \in db.rows /\ s \in db.rows /\ r.user = s.user /\ r.birth = e[2] /\ s.birth > e[2]
        BY DEF Life
      <4>2. r.birth \in Nat /\ s.birth \in Nat
        BY <2>1, <4>1 DEF Consistent, Databases, Rows
      <4> QED
        BY <2>1, <4>1, <4>2 DEF Consistent
    <3> QED
      BY <3>1, <3>2 DEF EndedByWinner
  <2> QED
    BY <2>2, <2>3, <2>4
<1>2. RecordsInit => RecordsInv
  BY RecordsAssumption, InitRecords DEF RecordsAssumption
<1>3. RecordsInv /\ [RecordsNext]_recordVars => RecordsInv'
  BY RecordsAssumption, RecordsStep DEF RecordsAssumption
<1> QED
  BY <1>1, <1>2, <1>3, PTL DEF RecordsSpec

-----------------------------------------------------------------------------
(* What a match is worth.                                                   *)

\* The sum of all values.
LEMMA TotalIsSum ==
  ASSUME NEW f
  PROVE  Total(f) = SumTo(f, DOMAIN f)
BY DEF Total, FoldFunction, FoldFunctionOnSet, MapThenFoldSet, SumTo, Adds, Summand, OneOf

\* A number that fits is not changed by the width of an int.
LEMMA FitsAnInt ==
  ASSUME NEW w \in Nat, NEW a \in Int, -w <= a, a < w
  PROVE  ((a + w) % (2 * w)) - w = a
<1>1. PICK d \in Nat, b \in Nat : d = 2 * w /\ b = a + w /\ b < d
  OBVIOUS
<1>2. b % d = b
  BY <1>1
<1> QED
  BY <1>1, <1>2

\* Rounding towards 0 loses less than one share.
LEMMA RoundedTowardsZero ==
  ASSUME NEW a \in Int, NEW n \in Nat \ {0}
  PROVE  /\ Quotient(a, n) \in Int
         /\ -n < n * Quotient(a, n) - a /\ n * Quotient(a, n) - a < n
         /\ a >= 0 => Quotient(a, n) >= 0 /\ n * Quotient(a, n) <= a
         /\ a < 0 => Quotient(a, n) <= 0 /\ n * Quotient(a, n) >= a
<1> DEFINE m == Magnitude(a)
           d == m \div n
<1>1. m \in Nat /\ (a = m \/ a = -m) /\ (a < 0 => a = -m) /\ (a >= 0 => a = m)
  BY DEF Magnitude
<1> HIDE DEF m
<1>2. d \in Nat /\ n * d <= m /\ m < n * d + n
  BY <1>1
<1>3. Quotient(a, n) = IF a >= 0 THEN d ELSE -d
  <2>1. Magnitude(n) = n /\ ~(n < 0)
    BY DEF Magnitude
  <2> QED
    BY <2>1 DEF Quotient, m
<1> HIDE DEF d
<1>4. n * (-d) = -(n * d) /\ n * d \in Int
  BY <1>2
<1>5. CASE a >= 0
  BY <1>1, <1>2, <1>3, <1>5
<1>6. CASE a < 0
  BY <1>1, <1>2, <1>3, <1>4, <1>6
<1> QED
  BY <1>5, <1>6

\* What is off by less than one for each in N is off by less than N.
LEMMA LessThanOneEach ==
  ASSUME NEW n \in Nat \ {0}, NEW k \in Nat \ {0}, NEW z \in Int,
         (-(k - 1)) * n <= k * z, k * z <= (k - 1) * n
  PROVE  -n < z /\ z < n
<1>1. (k - 1) * n = k * n - n /\ (-(k - 1)) * n = n - k * n
  OBVIOUS
<1>2. CASE z >= n
  <2>1. k * z >= k * n
    BY <1>2
  <2> QED
    BY <1>1, <2>1
<1>3. CASE z <= -n
  <2>1. k * z <= k * (-n) /\ k * (-n) = -(k * n)
    BY <1>3
  <2> QED
    BY <1>1, <2>1
<1> QED
  BY <1>2, <1>3

\* The sum of all scores.
LEMMA TotalIsANumber ==
  ASSUME NEW D, IsFiniteSet(D), NEW f \in [D -> Int]
  PROVE  Total(f) = SumTo(f, D) /\ Total(f) \in Int
BY TotalIsSum, SumGrows

\* How far the users are from the average adds more to nothing.
LEMMA DeviationsCancel ==
  ASSUME NEW s \in [Users -> Int], Accumulate(s) = Total(s)
  PROVE  Deviation(s) \in [Users -> Int] /\ SumTo(Deviation(s), Users) = 0
<1>1. IsFiniteSet(Users) /\ UserNum \in Nat
  BY ScoreAssumption, FS_CardinalityType DEF ScoreAssumption, UserNum
<1>2. PICK t \in Int : t = Total(s) /\ t = SumTo(s, Users)
  BY <1>1, TotalIsANumber
<1>3. PICK n \in Nat : n = UserNum
  BY <1>1
<1> DEFINE more == [u \in Users |-> n * s[u]]
           less == [u \in Users |-> -t]
           dev == [u \in Users |-> s[u] * n - t]
<1>4. Deviation(s) = dev
  BY <1>2, <1>3 DEF Deviation
<1>5. more \in [Users -> Int] /\ less \in [Users -> Int] /\ dev \in [Users -> Int]
  OBVIOUS
<1>6. \A u \in Users : more[u] = n * s[u] /\ less[u] = -t /\ dev[u] = more[u] + less[u]
  OBVIOUS
<1> HIDE DEF more, less, dev
<1>7. SumTo(more, Users) = n * t
  BY <1>1, <1>2, <1>5, <1>6, SumScales
<1>8. SumTo(less, Users) = (-t) * n
  <2>1. \A u \in Users : less[u] = IF u \in Users THEN -t ELSE 0
    BY <1>6
  <2>2. -t \in Int
    OBVIOUS
  <2> QED
    BY <1>1, <1>3, <1>5, <2>1, <2>2, SumCounts DEF UserNum
<1>9. SumTo(dev, Users) = SumTo(more, Users) + SumTo(less, Users)
  BY <1>1, <1>5, <1>6, SumAdds
<1>10. n * t + (-t) * n = 0
  OBVIOUS
<1> QED
  BY <1>4, <1>5, <1>7, <1>8, <1>9, <1>10

\* What the zero-sum scores are shares of, if the sums fit.
LEMMA SharesOfTheSum ==
  ASSUME NEW s \in [Users -> Int],
         Magnitude(Total(s)) < IntBound,
         Total([u \in Users |-> Magnitude(Deviation(s)[u])]) < IntBound
  PROVE  \E dev \in [Users -> Int], M \in Nat :
            /\ SumTo(dev, Users) = 0
            /\ \A u \in Users : dev[u] = s[u] * UserNum - Total(s)
            /\ \A u \in Users : CalZeroSumScore(s)[u] =
                  IF M = 0 THEN 0 ELSE Quotient(dev[u] * UserNum * k_zero_sum_score_multi, M)
<1>1. IsFiniteSet(Users) /\ UserNum \in Nat \ {0}
  <2>1. IsFiniteSet(Users) /\ Users # {}
    BY ScoreAssumption DEF ScoreAssumption
  <2> QED
    BY <2>1, FS_CardinalityType, FS_EmptySet DEF UserNum
<1>2. IntBound \in Nat
  BY ScoreAssumption DEF ScoreAssumption
<1>3. Accumulate(s) = Total(s)
  <2>1. PICK t \in Int : t = Total(s)
    BY <1>1, TotalIsANumber
  <2>2. -IntBound <= t /\ t < IntBound
    BY <1>2, <2>1 DEF Magnitude
  <2> QED
    BY <1>2, <2>1, <2>2, FitsAnInt DEF Accumulate
<1>4. PICK dev \in [Users -> Int] : dev = Deviation(s) /\ SumTo(dev, Users) = 0
  BY <1>3, DeviationsCancel
<1>5. PICK abs \in [Users -> Int] :
         abs = [u \in Users |-> Magnitude(dev[u])] /\ \A u \in Users : abs[u] >= 0
  <2>1. \A u \in Users : Magnitude(dev[u]) \in Int /\ Magnitude(dev[u]) >= 0
    BY DEF Magnitude
  <2>2. PICK abs : abs = [u \in Users |-> Magnitude(dev[u])]
    OBVIOUS
  <2>3. abs \in [Users -> Int] /\ \A u \in Users : abs[u] >= 0
    BY <2>1, <2>2
  <2> QED
    BY <2>2, <2>3
<1>6. PICK M \in Nat : M = Total(abs)
  <2>1. PICK none \in [Users -> Int] : \A u \in Users : none[u] = 0
    <3>1. [u \in Users |-> 0] \in [Users -> Int]
      OBVIOUS
    <3> QED
      BY <3>1
  <2>2. SumTo(none, Users) = 0 * Cardinality({})
    <3>1. {} \in SUBSET Users /\ \A u \in Users : none[u] = IF u \in {} THEN 0 ELSE 0
      BY <2>1
    <3> QED
      BY <1>1, <3>1, SumCounts
  <2>3. SumTo(none, Users) <= SumTo(abs, Users)
    BY <1>1, <1>5, <2>1, SumBelow
  <2>4. SumTo(none, Users) = 0
    BY <2>2, FS_EmptySet
  <2>5. Total(abs) = SumTo(abs, Users) /\ Total(abs) \in Int
    BY <1>1, TotalIsANumber
  <2> QED
    BY <2>3, <2>4, <2>5
<1>7. Accumulate(abs) = M
  <2>1. M < IntBound /\ -IntBound <= M
    BY <1>2, <1>4, <1>5, <1>6
  <2> QED
    BY <1>2, <1>6, <2>1, FitsAnInt DEF Accumulate
<1>8. \A u \in Users : CalZeroSumScore(s)[u] =
                          IF M = 0 THEN 0 ELSE Quotient(dev[u] * UserNum * k_zero_sum_score_multi, M)
  BY <1>4, <1>5, <1>7 DEF CalZeroSumScore
<1>9. \A u \in Users : dev[u] = s[u] * UserNum - Total(s)
  BY <1>3, <1>4 DEF Deviation
<1> QED
  BY <1>4, <1>8, <1>9

\* The zero-sum scores add up to nothing but what is forgotten by rounding.
LEMMA ZeroSumShared ==
  ASSUME NEW s \in [Users -> Int], NEW m \in Nat \ {0}, NEW z \in [Users -> Int],
         Magnitude(Total(s)) < IntBound,
         Total([u \in Users |-> Magnitude(Deviation(s)[u])]) < IntBound,
         \A u \in Users : z[u] = CalZeroSumScore(s)[u] * m
  PROVE  Magnitude(Total(z)) < UserNum * m
<1>1. IsFiniteSet(Users) /\ UserNum \in Nat \ {0}
  <2>1. IsFiniteSet(Users) /\ Users # {}
    BY ScoreAssumption DEF ScoreAssumption
  <2> QED
    BY <2>1, FS_CardinalityType, FS_EmptySet DEF UserNum
<1> DEFINE N == UserNum
<1>2. PICK dev \in [Users -> Int], M \in Nat :
         /\ SumTo(dev, Users) = 0
         /\ \A u \in Users : CalZeroSumScore(s)[u] =
               IF M = 0 THEN 0 ELSE Quotient(dev[u] * N * k_zero_sum_score_multi, M)
  BY SharesOfTheSum
<1> HIDE DEF N
<1>3. N \in Nat \ {0} /\ N = Cardinality(Users)
  BY <1>1 DEF N, UserNum
<1> DEFINE c == N * k_zero_sum_score_multi
<1>4. c \in Int /\ \A u \in Users : dev[u] * N * k_zero_sum_score_multi = c * dev[u]
  BY <1>3 DEF k_zero_sum_score_multi
<1> HIDE DEF c
<1>5. PICK q \in [Users -> Int] :
          \A u \in Users : q[u] = IF M = 0 THEN 0 ELSE Quotient(c * dev[u], M)
  <2> DEFINE v(u) == IF M = 0 THEN 0 ELSE Quotient(c * dev[u], M)
  <2>1. ASSUME NEW u \in Users
        PROVE  v(u) \in Int
    <3>1. c * dev[u] \in Int
      BY <1>4
    <3> QED
      BY <3>1, RoundedTowardsZero
  <2>2. [u \in Users |-> v(u)] \in [Users -> Int]
    <3> HIDE DEF v
    <3> QED
      BY <2>1
  <2> QED
    BY <2>2
<1>6. PICK Z \in Int : Z = SumTo(q, Users)
  BY <1>1, SumGrows
<1>7. -N < Z /\ Z < N
  <2>1. CASE M = 0
    <3>1. \A u \in Users : q[u] = IF u \in {} THEN 0 ELSE 0
      BY <1>5, <2>1
    <3>2. SumTo(q, Users) = 0 * Cardinality({})
      BY <1>1, <3>1, SumCounts
    <3>3. Z = 0
      BY <1>6, <3>2, FS_EmptySet
    <3> QED
      BY <1>3, <3>3
  <2>2. CASE M # 0
    \* What the shares, taken M times, are off by.
    <3>1. PICK large \in [Users -> Int], due \in [Users -> Int] :
             \A u \in Users : large[u] = M * q[u] /\ due[u] = c * dev[u]
      <4>1. /\ [u \in Users |-> M * q[u]] \in [Users -> Int]
            /\ [u \in Users |-> c * dev[u]] \in [Users -> Int]
        BY <1>4
      <4> QED
        BY <4>1
    <3>2. PICK off \in [Users -> Int], under \in [Users -> Int] :
             \A u \in Users : off[u] = M - 1 /\ under[u] = -(M - 1)
      <4>1. /\ [u \in Users |-> M - 1] \in [Users -> Int]
            /\ [u \in Users |-> -(M - 1)] \in [Users -> Int]
        OBVIOUS
      <4> QED
        BY <4>1
    <3>3. \A u \in Users : under[u] <= large[u] - due[u] /\ large[u] - due[u] <= off[u]
      <4> TAKE u \in Users
      <4>1. PICK a \in Int : a = due[u]
        OBVIOUS
      <4>2. q[u] = Quotient(a, M)
        BY <1>5, <2>2, <3>1, <4>1
      <4>3. -M < M * q[u] - a /\ M * q[u] - a < M
        BY <2>2, <4>2, RoundedTowardsZero
      <4>4. PICK b \in Int : b = large[u] /\ b = M * q[u]
        BY <3>1
      <4>5. -(M - 1) <= b - a /\ b - a <= M - 1
        BY <4>3, <4>4
      <4> QED
        BY <3>2, <4>1, <4>4, <4>5
    <3>4. SumTo(large, Users) = M * Z
      <4>1. M \in Int /\ \A u \in Users : large[u] = M * q[u]
        BY <3>1
      <4>2. SumTo(large, Users) = M * SumTo(q, Users)
        BY <1>1, <4>1, SumScales
      <4> QED
        BY <1>6, <4>2
    <3>5. SumTo(due, Users) = 0
      <4>1. SumTo(due, Users) = c * SumTo(dev, Users)
        BY <1>1, <1>4, <3>1, SumScales
      <4> QED
        BY <1>2, <1>4, <4>1
    <3>6. PICK diff \in [Users -> Int] : \A u \in Users : diff[u] = large[u] - due[u]
      <4>1. [u \in Users |-> large[u] - due[u]] \in [Users -> Int]
        OBVIOUS
      <4> QED
        BY <4>1
    <3>7. SumTo(large, Users) = SumTo(diff, Users) + SumTo(due, Users)
      <4>1. \A u \in Users : large[u] = diff[u] + due[u]
        BY <3>6
      <4> QED
        BY <1>1, <4>1, SumAdds
    <3>8. SumTo(under, Users) <= SumTo(diff, Users) /\ SumTo(diff, Users) <= SumTo(off, Users)
      BY <1>1, <3>3, <3>6, SumBelow
    <3>9. SumTo(off, Users) = (M - 1) * N /\ SumTo(under, Users) = (-(M - 1)) * N
      <4>1. /\ \A u \in Users : off[u] = IF u \in Users THEN M - 1 ELSE 0
            /\ \A u \in Users : under[u] = IF u \in Users THEN -(M - 1) ELSE 0
            /\ M - 1 \in Int /\ -(M - 1) \in Int
        BY <3>2
      <4> QED
        BY <1>1, <1>3, <4>1, SumCounts
    <3>10. SumTo(diff, Users) \in Int
      BY <1>1, SumGrows
    <3>11. (-(M - 1)) * N <= M * Z /\ M * Z <= (M - 1) * N
      BY <3>4, <3>5, <3>7, <3>8, <3>9, <3>10
    <3> QED
      BY <1>3, <2>2, <3>11, LessThanOneEach
  <2> QED
    BY <2>1, <2>2
<1>8. Total(z) = m * Z
  <2>1. \A u \in Users : z[u] = m * q[u]
    <3> TAKE u \in Users
    <3>1. PICK k \in Int : k = q[u]
      OBVIOUS
    <3>2. z[u] = k * m
      BY <1>2, <1>4, <1>5, <3>1
    <3> QED
      BY <3>1, <3>2
  <2> QED
    BY <1>1, <1>6, <2>1, SumScales, TotalIsANumber
<1>9. -(N * m) < m * Z /\ m * Z < N * m
  BY <1>3, <1>7
<1> QED
  BY <1>3, <1>8, <1>9 DEF Magnitude, N

\* Somebody did best, and somebody worst.
LEMMA BestAndWorst ==
  ASSUME NEW s \in [Users -> Int]
  PROVE  /\ \E u \in Users : \A v \in Users : s[v] <= s[u]
         /\ \E u \in Users : \A v \in Users : s[v] >= s[u]
<1>1. IsFiniteSet(Users) /\ Users # {}
  BY ScoreAssumption DEF ScoreAssumption
<1> DEFINE T == {S \in SUBSET Users :
                    S # {} => /\ \E u \in S : \A v \in S : s[v] <= s[u]
                              /\ \E u \in S : \A v \in S : s[v] >= s[u]}
<1>2. {} \in T
  OBVIOUS
<1>3. ASSUME NEW S \in SUBSET Users, NEW x \in Users \ S, S \in T
      PROVE  S \cup {x} \in T
  <2>1. CASE S = {}
    BY <2>1
  <2>2. CASE S # {}
    <3>1. PICK b \in S, w \in S : \A v \in S : s[v] <= s[b] /\ s[v] >= s[w]
      BY <1>3, <2>2
    <3>2. \E u \in S \cup {x} : \A v \in S \cup {x} : s[v] <= s[u]
      <4>1. CASE s[x] <= s[b]
        BY <3>1, <4>1
      <4>2. CASE s[b] <= s[x]
        BY <3>1, <4>2
      <4> QED
        BY <4>1, <4>2
    <3>3. \E u \in S \cup {x} : \A v \in S \cup {x} : s[v] >= s[u]
      <4>1. CASE s[x] >= s[w]
        BY <3>1, <4>1
      <4>2. CASE s[w] >= s[x]
        BY <3>1, <4>2
      <4> QED
        BY <4>1, <4>2
    <3> QED
      BY <3>2, <3>3
  <2> QED
    BY <2>1, <2>2
<1> HIDE DEF T
<1>4. Users \in T
  BY <1>1, <1>2, <1>3, SubsetInduction
<1> QED
  BY <1>1, <1>4 DEF T

\* A tenfold shared out among some leaves less than one each over.
LEMMA ShareOut ==
  ASSUME NEW n \in Nat, NEW k \in Nat \ {0}, k <= n
  PROVE  LET p == (n * 10) \div k
         IN  p \in Nat /\ n * 10 - n <= k * p /\ k * p <= n * 10
<1>1. PICK a \in Nat : a = n * 10
  OBVIOUS
<1>2. PICK p \in Nat : p = a \div k
  BY <1>1
<1>3. k * p <= a /\ a < k * p + k
  BY <1>2
<1> QED
  BY <1>1, <1>2, <1>3

\* The best get what the worst pay but for the rounding.
LEMMA TopShared ==
  ASSUME NEW s \in [Users -> Int], NEW m \in Nat \ {0}, NEW z \in [Users -> Int],
         \A u \in Users : z[u] = CalTopScore(s)[u] * m
  PROVE  Magnitude(Total(z)) <= UserNum * m
<1>1. IsFiniteSet(Users) /\ UserNum \in Nat
  BY ScoreAssumption, FS_CardinalityType DEF ScoreAssumption, UserNum
<1> DEFINE B == {u \in Users : \A v \in Users : s[v] <= s[u]}
           W == {u \in Users : \A v \in Users : s[v] >= s[u]}
<1>2. B # {} /\ W # {} /\ B \in SUBSET Users /\ W \in SUBSET Users
  BY BestAndWorst
<1>3. \A u \in Users : CalTopScore(s)[u] =
         (IF u \in B THEN (UserNum * k_top_score_multi) \div Cardinality(B) ELSE 0)
           - (IF u \in W THEN (UserNum * k_top_score_multi) \div Cardinality(W) ELSE 0)
  BY DEF CalTopScore
<1> HIDE DEF B, W
<1>4. PICK N \in Nat, k \in Nat \ {0}, l \in Nat \ {0} :
         N = UserNum /\ k = Cardinality(B) /\ l = Cardinality(W) /\ k <= N /\ l <= N
  <2>1. IsFiniteSet(B) /\ IsFiniteSet(W)
    BY <1>1, <1>2, FS_Subset
  <2>2. /\ Cardinality(B) \in Nat /\ Cardinality(B) # 0
        /\ Cardinality(W) \in Nat /\ Cardinality(W) # 0
    BY <1>2, <2>1, FS_CardinalityType, FS_EmptySet
  <2>3. Cardinality(B) <= UserNum /\ Cardinality(W) <= UserNum
    BY <1>1, <1>2, FS_Subset DEF UserNum
  <2> QED
    BY <1>1, <2>2, <2>3
<1>5. PICK p \in Nat : p = (N * 10) \div k /\ N * 10 - N <= k * p /\ k * p <= N * 10
  BY <1>4, ShareOut
<1>6. PICK r \in Nat : r = (N * 10) \div l /\ N * 10 - N <= l * r /\ l * r <= N * 10
  BY <1>4, ShareOut
<1>7. PICK f \in [Users -> Int] :
         (\A u \in Users : f[u] = IF u \in B THEN p ELSE 0) /\ SumTo(f, Users) = p * k
  <2>1. PICK f \in [Users -> Int] : \A u \in Users : f[u] = IF u \in B THEN p ELSE 0
    <3>1. [u \in Users |-> IF u \in B THEN p ELSE 0] \in [Users -> Int]
      OBVIOUS
    <3> QED
      BY <3>1
  <2>2. p \in Int
    OBVIOUS
  <2>3. SumTo(f, Users) = p * Cardinality(B)
    BY <1>1, <1>2, <2>1, <2>2, SumCounts
  <2> QED
    BY <1>4, <2>1, <2>3
<1>8. PICK g \in [Users -> Int] :
         (\A u \in Users : g[u] = IF u \in W THEN -r ELSE 0) /\ SumTo(g, Users) = (-r) * l
  <2>1. PICK g \in [Users -> Int] : \A u \in Users : g[u] = IF u \in W THEN -r ELSE 0
    <3>1. [u \in Users |-> IF u \in W THEN -r ELSE 0] \in [Users -> Int]
      OBVIOUS
    <3> QED
      BY <3>1
  <2>2. -r \in Int
    OBVIOUS
  <2>3. SumTo(g, Users) = (-r) * Cardinality(W)
    BY <1>1, <1>2, <2>1, <2>2, SumCounts
  <2> QED
    BY <1>4, <2>1, <2>3
<1>9. PICK t \in [Users -> Int] : \A u \in Users : t[u] = f[u] + g[u]
  <2>1. [u \in Users |-> f[u] + g[u]] \in [Users -> Int]
    OBVIOUS
  <2> QED
    BY <2>1
<1>10. SumTo(t, Users) = SumTo(f, Users) + SumTo(g, Users)
  BY <1>1, <1>9, SumAdds
<1>11. PICK x \in Int : x = SumTo(t, Users) /\ -N <= x /\ x <= N
  <2>1. p * k = k * p /\ (-r) * l = -(l * r) /\ k * p \in Int /\ l * r \in Int
    OBVIOUS
  <2> QED
    BY <1>5, <1>6, <1>7, <1>8, <1>10, <2>1
<1>12. Total(z) = m * x
  <2>1. \A u \in Users : z[u] = m * t[u]
    <3> TAKE u \in Users
    <3>1. PICK a \in Int : a = t[u]
      OBVIOUS
    <3>2. CalTopScore(s)[u] = (IF u \in B THEN p ELSE 0) - (IF u \in W THEN r ELSE 0)
      BY <1>3, <1>4, <1>5, <1>6 DEF k_top_score_multi
    <3>3. PICK i \in Int, j \in Int :
             /\ i = f[u] /\ i = IF u \in B THEN p ELSE 0
             /\ j = g[u] /\ j = IF u \in W THEN -r ELSE 0
      BY <1>7, <1>8
    <3>4. a = i + j
      BY <1>9, <3>1, <3>3
    <3>5. CalTopScore(s)[u] = a
      BY <3>2, <3>3, <3>4
    <3> QED
      BY <3>1, <3>5
  <2> QED
    BY <1>1, <1>11, <2>1, SumScales, TotalIsANumber
<1>13. -(N * m) <= m * x /\ m * x <= N * m
  BY <1>11
<1> QED
  BY <1>4, <1>12, <1>13 DEF Magnitude

\* Those behind, those level and those ahead are all.
LEMMA EverybodyHasAPlace ==
  ASSUME NEW s \in [Users -> Int], NEW u \in Users
  PROVE  /\ Cardinality({v \in Users : s[v] < s[u]}) \in Nat
         /\ Cardinality({v \in Users : s[v] = s[u]}) \in Nat
         /\ Cardinality({v \in Users : s[u] < s[v]}) \in Nat
         /\ Cardinality({v \in Users : s[v] < s[u]}) + Cardinality({v \in Users : s[v] = s[u]})
               + Cardinality({v \in Users : s[u] < s[v]}) = UserNum
<1>1. IsFiniteSet(Users)
  BY ScoreAssumption DEF ScoreAssumption
<1> DEFINE L == {v \in Users : s[v] < s[u]}
           E == {v \in Users : s[v] = s[u]}
           H == {v \in Users : s[u] < s[v]}
<1>2. /\ L \cap E = {} /\ (L \cup E) \cap H = {} /\ (L \cup E) \cup H = Users
      /\ L \subseteq Users /\ E \subseteq Users /\ H \subseteq Users
  OBVIOUS
<1> HIDE DEF L, E, H
<1>3. IsFiniteSet(L) /\ IsFiniteSet(E) /\ IsFiniteSet(H)
  BY <1>1, <1>2, FS_Subset
<1>4. Cardinality(L) \in Nat /\ Cardinality(E) \in Nat /\ Cardinality(H) \in Nat
  BY <1>3, FS_CardinalityType
<1>5. IsFiniteSet(L \cup E) /\ Cardinality(L \cup E) = Cardinality(L) + Cardinality(E)
  <2>1. Cardinality(L \cup E) = Cardinality(L) + Cardinality(E) - Cardinality(L \cap E)
    BY <1>3, FS_Union
  <2>2. Cardinality(L \cap E) = 0
    BY <1>2, FS_EmptySet
  <2>3. IsFiniteSet(L \cup E)
    BY <1>3, FS_Union
  <2> QED
    BY <1>4, <2>1, <2>2, <2>3
<1>6. UserNum = Cardinality(L \cup E) + Cardinality(H)
  <2> DEFINE Rest == L \cup E
  <2>1. IsFiniteSet(Rest) /\ Rest \cap H = {} /\ Rest \cup H = Users /\ Cardinality(Rest) \in Nat
    BY <1>2, <1>4, <1>5
  <2> HIDE DEF Rest
  <2>2. Cardinality(Rest \cup H) = Cardinality(Rest) + Cardinality(H) - Cardinality(Rest \cap H)
    BY <1>3, <2>1, FS_Union
  <2>3. Cardinality(Rest \cap H) = 0
    BY <2>1, FS_EmptySet
  <2>4. UserNum = Cardinality(Rest \cup H)
    BY <2>1 DEF UserNum
  <2>5. UserNum = Cardinality(Rest) + Cardinality(H)
    BY <1>4, <2>1, <2>2, <2>3, <2>4
  <2> QED
    BY <2>5 DEF Rest
<1> QED
  BY <1>4, <1>5, <1>6 DEF L, E, H

\* As many are behind somebody as are ahead of somebody.
LEMMA RanksShared ==
  ASSUME NEW s \in [Users -> Int], NEW z \in [Users -> Int],
         \A u \in Users : z[u] = CalLevelScoreRank(s)[u]
  PROVE  Total(z) = UserNum * UserNum
<1>1. IsFiniteSet(Users) /\ UserNum \in Nat
  BY ScoreAssumption, FS_CardinalityType DEF ScoreAssumption, UserNum
<1> DEFINE L(u) == Cardinality({v \in Users : s[v] < s[u]})
           E(u) == Cardinality({v \in Users : s[v] = s[u]})
           H(u) == Cardinality({v \in Users : s[u] < s[v]})
<1>2. \A u \in Users : z[u] = 2 * L(u) + E(u)
  BY DEF CalLevelScoreRank
<1>3. \A u \in Users :
         L(u) \in Nat /\ E(u) \in Nat /\ H(u) \in Nat /\ L(u) + E(u) + H(u) = UserNum
  BY EverybodyHasAPlace
<1>4. PICK f \in [Users -> Int], g \in [Users -> Int] :
         \A u \in Users : f[u] = L(u) /\ g[u] = H(u)
  <2> HIDE DEF L, E, H
  <2>1. [u \in Users |-> L(u)] \in [Users -> Int] /\ [u \in Users |-> H(u)] \in [Users -> Int]
    BY <1>3
  <2> QED
    BY <2>1
<1>5. SumTo(f, Users) = SumTo(g, Users)
  <2>1. PICK behind \in [Users -> SUBSET Users], ahead \in [Users -> SUBSET Users] :
           \A u \in Users : /\ behind[u] = {v \in Users : s[v] < s[u]}
                            /\ ahead[u] = {v \in Users : s[u] < s[v]}
    <3>1. /\ [u \in Users |-> {v \in Users : s[v] < s[u]}] \in [Users -> SUBSET Users]
          /\ [u \in Users |-> {v \in Users : s[u] < s[v]}] \in [Users -> SUBSET Users]
      OBVIOUS
    <3> QED
      BY <3>1
  <2>2. \A u, v \in Users : v \in behind[u] <=> u \in ahead[v]
    BY <2>1
  <2>3. \A u \in Users : f[u] = Cardinality(behind[u]) /\ g[u] = Cardinality(ahead[u])
    BY <1>4, <2>1
  <2> HIDE DEF L, E, H
  <2> QED
    BY <1>1, <2>2, <2>3, CountedBothWays
<1> HIDE DEF L, E, H
\* Each with those ahead of him in place of those behind him: all of them.
<1>6. PICK a \in [Users -> Int] : \A u \in Users : a[u] = UserNum
  <2>1. [u \in Users |-> UserNum] \in [Users -> Int]
    BY <1>1
  <2> QED
    BY <2>1
<1>7. SumTo(a, Users) = UserNum * UserNum
  <2>1. \A u \in Users : a[u] = IF u \in Users THEN UserNum ELSE 0
    BY <1>6
  <2> QED
    BY <1>1, <2>1, SumCounts DEF UserNum
<1>8. PICK d \in [Users -> Int] : \A u \in Users : d[u] = z[u] + g[u]
  <2>1. [u \in Users |-> z[u] + g[u]] \in [Users -> Int]
    OBVIOUS
  <2> QED
    BY <2>1
<1>9. SumTo(d, Users) = SumTo(z, Users) + SumTo(g, Users)
  BY <1>1, <1>8, SumAdds
<1>10. SumTo(d, Users) = SumTo(a, Users) + SumTo(f, Users)
  <2>1. \A u \in Users : d[u] = a[u] + f[u]
    BY <1>2, <1>3, <1>4, <1>6, <1>8
  <2> QED
    BY <1>1, <2>1, SumAdds
<1>11. SumTo(z, Users) = SumTo(a, Users)
  <2>1. /\ SumTo(z, Users) \in Int /\ SumTo(g, Users) \in Int
        /\ SumTo(a, Users) \in Int /\ SumTo(f, Users) \in Int
    BY <1>1, SumGrows
  <2> QED
    BY <1>5, <1>9, <1>10, <2>1
<1> QED
  BY <1>1, <1>7, <1>11, TotalIsANumber

\* Accumulating gives a number, whatever its width does to it.
LEMMA AccumulateIsANumber ==
  ASSUME NEW s \in [Users -> Int]
  PROVE  Accumulate(s) \in Int
<1>1. IsFiniteSet(Users) /\ IntBound \in Nat \ {0}
  BY ScoreAssumption DEF ScoreAssumption
<1>2. PICK t \in Int : t = Total(s)
  BY <1>1, TotalIsANumber
<1>3. (t + IntBound) % (2 * IntBound) \in Int
  BY <1>1
<1> QED
  BY <1>1, <1>2, <1>3 DEF Accumulate

\* What a match is worth is a number.
LEMMA WorthIsANumber ==
  ASSUME NEW s \in [Users -> Int]
  PROVE  /\ CalZeroSumScore(s) \in [Users -> Int]
         /\ CalTopScore(s) \in [Users -> Int]
         /\ CalLevelScoreRank(s) \in [Users -> Int]
<1>1. IsFiniteSet(Users) /\ Users # {} /\ UserNum \in Nat
  BY ScoreAssumption, FS_CardinalityType DEF ScoreAssumption, UserNum
<1>2. CalZeroSumScore(s) \in [Users -> Int]
  <2>1. PICK dev \in [Users -> Int] : dev = Deviation(s)
    <3>1. PICK t \in Int : t = Accumulate(s)
      BY AccumulateIsANumber
    <3>2. Deviation(s) = [u \in Users |-> s[u] * UserNum - t]
      BY <3>1 DEF Deviation
    <3>3. [u \in Users |-> s[u] * UserNum - t] \in [Users -> Int]
      BY <1>1
    <3> QED
      BY <3>2, <3>3
  <2>2. PICK M \in Int : M = Accumulate([u \in Users |-> Magnitude(dev[u])])
    <3>1. \A u \in Users : Magnitude(dev[u]) \in Int
      BY DEF Magnitude
    <3>2. [u \in Users |-> Magnitude(dev[u])] \in [Users -> Int]
      BY <3>1
    <3> QED
      BY <3>2, AccumulateIsANumber
  <2> DEFINE v(u) == IF M = 0 THEN 0
                     ELSE Quotient(dev[u] * UserNum * k_zero_sum_score_multi, M)
  <2>3. CalZeroSumScore(s) = [u \in Users |-> v(u)]
    BY <2>1, <2>2 DEF CalZeroSumScore
  <2>4. ASSUME NEW u \in Users
        PROVE  v(u) \in Int
    <3>1. PICK a \in Int : a = dev[u] * UserNum * k_zero_sum_score_multi
      BY <1>1 DEF k_zero_sum_score_multi
    <3>2. M # 0 => Magnitude(a) \in Nat /\ Magnitude(M) \in Nat \ {0}
      BY DEF Magnitude
    <3>3. M # 0 => Magnitude(a) \div Magnitude(M) \in Int
      BY <3>2
    <3>4. M # 0 => Quotient(a, M) \in Int
      BY <3>3 DEF Quotient
    <3> QED
      BY <3>1, <3>4
  <2> HIDE DEF v
  <2> QED
    BY <2>3, <2>4
<1>3. CalTopScore(s) \in [Users -> Int]
  <2> DEFINE B == {u \in Users : \A v \in Users : s[v] <= s[u]}
             W == {u \in Users : \A v \in Users : s[v] >= s[u]}
             p == (UserNum * k_top_score_multi) \div Cardinality(B)
             r == (UserNum * k_top_score_multi) \div Cardinality(W)
  <2>1. CalTopScore(s) = [u \in Users |-> (IF u \in B THEN p ELSE 0) - (IF u \in W THEN r ELSE 0)]
    BY DEF CalTopScore
  <2>2. B # {} /\ W # {} /\ B \subseteq Users /\ W \subseteq Users
    BY BestAndWorst
  <2> HIDE DEF B, W
  <2>3. p \in Int /\ r \in Int
    <3>1. IsFiniteSet(B) /\ IsFiniteSet(W)
      BY <1>1, <2>2, FS_Subset
    <3>2. Cardinality(B) \in Nat \ {0} /\ Cardinality(W) \in Nat \ {0}
      BY <2>2, <3>1, FS_CardinalityType, FS_EmptySet
    <3> QED
      BY <1>1, <3>2 DEF k_top_score_multi
  <2> HIDE DEF p, r
  <2> QED
    BY <2>1, <2>3
<1>4. CalLevelScoreRank(s) \in [Users -> Int]
  <2> DEFINE v(u) == 2 * Cardinality({w \in Users : s[w] < s[u]})
                       + Cardinality({w \in Users : s[w] = s[u]})
  <2>1. \A u \in Users : v(u) \in Int
    <3> TAKE u \in Users
    <3>1. PICK i \in Nat, j \in Nat : /\ i = Cardinality({w \in Users : s[w] < s[u]})
                                     /\ j = Cardinality({w \in Users : s[w] = s[u]})
      BY EverybodyHasAPlace
    <3>2. v(u) = 2 * i + j
      BY <3>1
    <3> HIDE DEF v
    <3> QED
      BY <3>2
  <2>2. CalLevelScoreRank(s) = [u \in Users |-> v(u)]
    BY DEF CalLevelScoreRank
  <2> HIDE DEF v
  <2> QED
    BY <2>1, <2>2
<1> QED
  BY <1>2, <1>3, <1>4

\* One calculation shares out what it makes.
LEMMA CalculationShares ==
  ASSUME NEW s \in [Users -> GameScores], NEW m \in Multiples, CalScores(s, m)
  PROVE  NothingMadeNothingLost'
<1> SUFFICES ASSUME m > 0
             PROVE  NothingMadeNothingLost'
  BY DEF CalScores, NothingMadeNothingLost
<1>1. s \in [Users -> Int] /\ m \in Nat \ {0}
  <2>1. GameScores \subseteq Int /\ Multiples \subseteq Nat
    BY ScoreAssumption DEF ScoreAssumption
  <2>2. \A u \in Users : s[u] \in Int
    BY <2>1
  <2> QED
    BY <2>1, <2>2
<1>2. gameScore' = s /\ multiple' = m /\ info' = MakeScoreInfo(s, m)
  BY DEF CalScores
<1> DEFINE zero == [u \in Users |-> info'[u].zero_sum]
           top == [u \in Users |-> info'[u].top]
           rank == [u \in Users |-> info'[u].rank]
<1>3. \A u \in Users : /\ zero[u] = CalZeroSumScore(s)[u] * m
                       /\ top[u] = CalTopScore(s)[u] * m
                       /\ rank[u] = CalLevelScoreRank(s)[u]
  BY <1>2 DEF MakeScoreInfo
<1>4. /\ CalZeroSumScore(s) \in [Users -> Int]
      /\ CalTopScore(s) \in [Users -> Int]
      /\ CalLevelScoreRank(s) \in [Users -> Int]
  BY <1>1, WorthIsANumber
<1>5. zero \in [Users -> Int] /\ top \in [Users -> Int] /\ rank \in [Users -> Int]
  <2>1. \A u \in Users : zero[u] \in Int /\ top[u] \in Int /\ rank[u] \in Int
    BY <1>1, <1>3, <1>4
  <2>2. /\ zero = [u \in Users |-> zero[u]] /\ top = [u \in Users |-> top[u]]
        /\ rank = [u \in Users |-> rank[u]]
    OBVIOUS
  <2> HIDE DEF zero, top, rank
  <2> QED
    BY <2>1, <2>2
<1>6. Fits' => Magnitude(Total(zero)) < UserNum * m
  <2> HIDE DEF zero
  <2>1. Fits' => /\ Magnitude(Total(s)) < IntBound
                 /\ Total([u \in Users |-> Magnitude(Deviation(s)[u])]) < IntBound
    BY <1>2 DEF Fits
  <2> QED
    BY <1>1, <1>3, <1>5, <2>1, ZeroSumShared
<1>7. Magnitude(Total(top)) <= UserNum * m
  <2> HIDE DEF top
  <2> QED
    BY <1>1, <1>3, <1>5, TopShared
<1>8. Total(rank) = UserNum * UserNum
  <2> HIDE DEF rank
  <2> QED
    BY <1>1, <1>3, <1>5, RanksShared
<1> QED
  BY <1>2, <1>6, <1>7, <1>8 DEF NothingMadeNothingLost

\* ScoreCalculation: however many users a match has and whatever their scores, the
\* zero-sum scores add up to less than one for each user, so do the top scores, and the
\* rank scores add up to the square of the number of users.
THEOREM ScoresAreShared == ScoreSpec => []NothingMadeNothingLost
<1>1. ScoreInit => NothingMadeNothingLost
  BY DEF ScoreInit, NothingMadeNothingLost
<1>2. NothingMadeNothingLost /\ [ScoreNext]_scoreVars => NothingMadeNothingLost'
  <2> SUFFICES ASSUME NothingMadeNothingLost, [ScoreNext]_scoreVars
               PROVE  NothingMadeNothingLost'
    OBVIOUS
  <2>1. CASE UNCHANGED scoreVars
    BY <2>1 DEF scoreVars, NothingMadeNothingLost, Fits, Deviation, Accumulate
  <2>2. CASE ScoreNext
    BY <2>2, CalculationShares DEF ScoreNext
  <2> QED
    BY <2>1, <2>2
<1> QED
  BY <1>1, <1>2, PTL DEF ScoreSpec

\* Who is further above the average gets no smaller a share.
LEMMA RoundingKeepsTheOrder ==
  ASSUME NEW a \in Int, NEW b \in Int, a <= b, NEW n \in Nat \ {0}
  PROVE  Quotient(a, n) <= Quotient(b, n)
<1>1. PICK p \in Int, q \in Int : p = Quotient(a, n) /\ q = Quotient(b, n)
  BY RoundedTowardsZero
<1>2. PICK x \in Int, y \in Int : x = n * p /\ y = n * q
  OBVIOUS
<1>3. /\ -n < x - a /\ x - a < n /\ -n < y - b /\ y - b < n
      /\ a >= 0 => p >= 0 /\ x <= a
      /\ a < 0 => p <= 0 /\ x >= a
      /\ b >= 0 => q >= 0 /\ y <= b
      /\ b < 0 => q <= 0 /\ y >= b
  BY <1>1, <1>2, RoundedTowardsZero
<1>4. CASE a < 0 /\ b >= 0
  BY <1>1, <1>3, <1>4
<1>5. CASE a >= 0 \/ b < 0
  <2>1. x < y + n
    BY <1>3, <1>5
  <2>2. p < q + 1
    <3>1. CASE p >= q + 1
      <4>1. n * p >= n * (q + 1) /\ n * (q + 1) = n * q + n
        BY <3>1
      <4> QED
        BY <1>2, <2>1, <4>1
    <3> QED
      BY <3>1
  <2> QED
    BY <1>1, <2>2
<1> QED
  BY <1>4, <1>5

\* Who did better has not the smaller share, and nobody above the average pays.
LEMMA ZeroSumInOrder ==
  ASSUME NEW s \in [Users -> Int],
         Magnitude(Total(s)) < IntBound,
         Total([u \in Users |-> Magnitude(Deviation(s)[u])]) < IntBound
  PROVE  /\ \A u, v \in Users : s[u] >= s[v] => CalZeroSumScore(s)[u] >= CalZeroSumScore(s)[v]
         /\ \A u \in Users : s[u] * UserNum > Total(s) => CalZeroSumScore(s)[u] >= 0
<1>1. UserNum \in Nat
  BY ScoreAssumption, FS_CardinalityType DEF ScoreAssumption, UserNum
<1>2. PICK t \in Int, M \in Nat :
         /\ t = Total(s)
         /\ \A u \in Users : CalZeroSumScore(s)[u] =
               IF M = 0 THEN 0
               ELSE Quotient((s[u] * UserNum - t) * UserNum * k_zero_sum_score_multi, M)
  <2>1. PICK t \in Int : t = Total(s)
    BY ScoreAssumption, TotalIsANumber DEF ScoreAssumption
  <2> QED
    BY <2>1, SharesOfTheSum
<1> DEFINE w(u) == (s[u] * UserNum - t) * UserNum * k_zero_sum_score_multi
<1>3. \A u \in Users : w(u) \in Int
  BY <1>1 DEF k_zero_sum_score_multi
<1>4. ASSUME NEW u \in Users, NEW v \in Users, s[u] >= s[v]
      PROVE  CalZeroSumScore(s)[u] >= CalZeroSumScore(s)[v]
  <2>1. w(v) <= w(u)
    <3>1. PICK a \in Int, b \in Int : a = s[v] /\ b = s[u] /\ a <= b
      BY <1>4
    <3>2. a * UserNum <= b * UserNum
      BY <1>1, <3>1
    <3>3. PICK c \in Int, d \in Int : c = a * UserNum - t /\ d = b * UserNum - t /\ c <= d
      BY <1>1, <3>2
    <3>4. c * UserNum <= d * UserNum
      BY <1>1, <3>3
    <3> QED
      BY <1>1, <3>1, <3>3, <3>4 DEF k_zero_sum_score_multi
  <2> HIDE DEF w
  <2>2. M # 0 => Quotient(w(v), M) <= Quotient(w(u), M)
    BY <1>3, <2>1, RoundingKeepsTheOrder
  <2>3. M # 0 => Quotient(w(v), M) \in Int /\ Quotient(w(u), M) \in Int
    BY <1>3, RoundedTowardsZero
  <2> QED
    BY <1>2, <2>2, <2>3 DEF w
<1>5. ASSUME NEW u \in Users, s[u] * UserNum > Total(s)
      PROVE  CalZeroSumScore(s)[u] >= 0
  <2>1. w(u) >= 0
    <3>1. PICK c \in Int : c = s[u] * UserNum - t /\ c > 0
      BY <1>1, <1>2, <1>5
    <3>2. c * UserNum >= 0
      BY <1>1, <3>1
    <3> QED
      BY <1>1, <3>1, <3>2 DEF k_zero_sum_score_multi
  <2> HIDE DEF w
  <2>2. M # 0 => Quotient(w(u), M) >= 0
    BY <1>3, <2>1, RoundedTowardsZero
  <2> QED
    BY <1>2, <2>2 DEF w
<1> QED
  BY <1>4, <1>5

\* Only the best are given a top score, and only the worst pay for it.
LEMMA TopInOrder ==
  ASSUME NEW s \in [Users -> Int], NEW u \in Users, NEW v \in Users, s[u] > s[v]
  PROVE  CalTopScore(s)[u] >= CalTopScore(s)[v]
<1>1. IsFiniteSet(Users) /\ Users # {} /\ UserNum \in Nat
  BY ScoreAssumption, FS_CardinalityType DEF ScoreAssumption, UserNum
<1> DEFINE B == {x \in Users : \A y \in Users : s[y] <= s[x]}
           W == {x \in Users : \A y \in Users : s[y] >= s[x]}
           p == (UserNum * k_top_score_multi) \div Cardinality(B)
           r == (UserNum * k_top_score_multi) \div Cardinality(W)
<1>2. \A x \in Users :
         CalTopScore(s)[x] = (IF x \in B THEN p ELSE 0) - (IF x \in W THEN r ELSE 0)
  BY DEF CalTopScore
<1>3. B # {} /\ W # {} /\ B \subseteq Users /\ W \subseteq Users
  BY BestAndWorst
<1>4. u \notin W /\ v \notin B
  OBVIOUS
<1> HIDE DEF B, W
<1>5. p \in Nat /\ r \in Nat
  <2>1. IsFiniteSet(B) /\ IsFiniteSet(W)
    BY <1>1, <1>3, FS_Subset
  <2>2. Cardinality(B) \in Nat \ {0} /\ Cardinality(W) \in Nat \ {0}
    BY <1>3, <2>1, FS_CardinalityType, FS_EmptySet
  <2> QED
    BY <1>1, <2>2 DEF k_top_score_multi
<1> HIDE DEF p, r
<1> QED
  BY <1>2, <1>4, <1>5

\* Who did better has two ranks more for each that he is ahead of.
LEMMA RankInOrder ==
  ASSUME NEW s \in [Users -> Int], NEW u \in Users, NEW v \in Users, s[u] > s[v]
  PROVE  CalLevelScoreRank(s)[u] >= CalLevelScoreRank(s)[v] + 2
<1> DEFINE L(x) == {w \in Users : s[w] < s[x]}
           E(x) == {w \in Users : s[w] = s[x]}
<1>1. IsFiniteSet(Users)
  BY ScoreAssumption DEF ScoreAssumption
<1>2. \A x \in Users : CalLevelScoreRank(s)[x] = 2 * Cardinality(L(x)) + Cardinality(E(x))
  BY DEF CalLevelScoreRank
<1>3. \A x \in Users : L(x) \subseteq Users /\ E(x) \subseteq Users
  OBVIOUS
<1>4. L(v) \cap E(v) = {} /\ (L(v) \cup E(v)) \subseteq L(u) /\ u \in E(u) /\ v \in E(v)
  OBVIOUS
<1> HIDE DEF L, E
<1>5. \A x \in Users : /\ IsFiniteSet(L(x)) /\ IsFiniteSet(E(x))
                       /\ Cardinality(L(x)) \in Nat /\ Cardinality(E(x)) \in Nat
  BY <1>1, <1>3, FS_Subset, FS_CardinalityType
<1>6. Cardinality(L(v) \cup E(v)) = Cardinality(L(v)) + Cardinality(E(v))
  <2>1. Cardinality(L(v) \cup E(v))
           = Cardinality(L(v)) + Cardinality(E(v)) - Cardinality(L(v) \cap E(v))
    BY <1>5, FS_Union
  <2>2. Cardinality(L(v) \cap E(v)) = 0
    BY <1>4, FS_EmptySet
  <2> QED
    BY <1>5, <2>1, <2>2
<1>7. Cardinality(L(v) \cup E(v)) <= Cardinality(L(u))
  BY <1>4, <1>5, FS_Subset
<1>8. Cardinality(E(u)) >= 1 /\ Cardinality(E(v)) >= 1
  <2>1. Cardinality(E(u)) # 0 /\ Cardinality(E(v)) # 0
    BY <1>4, <1>5, FS_EmptySet
  <2> QED
    BY <1>5, <2>1
<1>9. PICK i \in Nat, j \in Nat, k \in Nat, l \in Nat :
         /\ i = Cardinality(L(u)) /\ j = Cardinality(E(u))
         /\ k = Cardinality(L(v)) /\ l = Cardinality(E(v))
  BY <1>5
<1>10. k + l <= i /\ j >= 1 /\ l >= 1
  BY <1>6, <1>7, <1>8, <1>9
<1>11. 2 * i + j >= 2 * k + l + 2
  BY <1>10
<1> QED
  BY <1>2, <1>9, <1>11

\* One calculation is in the order of the scores.
LEMMA CalculationInOrder ==
  ASSUME NEW s \in [Users -> GameScores], NEW m \in Multiples, CalScores(s, m)
  PROVE  BetterIsWorthMore'
<1> SUFFICES ASSUME m > 0, NEW u \in Users, NEW v \in Users
             PROVE  /\ s[u] = s[v] => info'[u] = info'[v]
                    /\ s[u] > s[v] =>
                          /\ Fits' => info'[u].zero_sum >= info'[v].zero_sum
                          /\ info'[u].top >= info'[v].top
                          /\ info'[u].rank >= info'[v].rank + 2
                    /\ Fits' /\ s[u] * UserNum > Total(s) => info'[u].zero_sum >= 0
  BY DEF CalScores, BetterIsWorthMore
<1>1. s \in [Users -> Int] /\ m \in Nat \ {0}
  <2>1. GameScores \subseteq Int /\ Multiples \subseteq Nat
    BY ScoreAssumption DEF ScoreAssumption
  <2>2. \A x \in Users : s[x] \in Int
    BY <2>1
  <2> QED
    BY <2>1, <2>2
<1>2. gameScore' = s /\ multiple' = m /\ info' = MakeScoreInfo(s, m)
  BY DEF CalScores
<1>3. \A x \in Users : info'[x] = [zero_sum |-> CalZeroSumScore(s)[x] * m,
                                   top |-> CalTopScore(s)[x] * m,
                                   rank |-> CalLevelScoreRank(s)[x]]
  BY <1>2 DEF MakeScoreInfo
<1> DEFINE zero(x) == info'[x].zero_sum
           top(x) == info'[x].top
           rank(x) == info'[x].rank
<1>4. \A x \in Users : /\ zero(x) = CalZeroSumScore(s)[x] * m
                       /\ top(x) = CalTopScore(s)[x] * m
                       /\ rank(x) = CalLevelScoreRank(s)[x]
  <2> TAKE x \in Users
  <2>1. PICK a, b, c : /\ a = CalZeroSumScore(s)[x] * m /\ b = CalTopScore(s)[x] * m
                       /\ c = CalLevelScoreRank(s)[x]
    OBVIOUS
  <2>2. info'[x] = [zero_sum |-> a, top |-> b, rank |-> c]
    BY <1>3, <2>1
  <2>3. zero(x) = a /\ top(x) = b /\ rank(x) = c
    BY <2>2
  <2> HIDE DEF zero, top, rank
  <2> QED
    BY <2>1, <2>3
<1>5. \A x \in Users : /\ CalZeroSumScore(s)[x] \in Int
                       /\ CalTopScore(s)[x] \in Int
                       /\ CalLevelScoreRank(s)[x] \in Int
  BY <1>1, WorthIsANumber
<1>6. Fits' => /\ Magnitude(Total(s)) < IntBound
               /\ Total([x \in Users |-> Magnitude(Deviation(s)[x])]) < IntBound
  BY <1>2 DEF Fits
<1>7. ASSUME s[u] = s[v]
      PROVE  info'[u] = info'[v]
  <2>1. CalZeroSumScore(s)[u] = CalZeroSumScore(s)[v]
    BY <1>7 DEF CalZeroSumScore, Deviation
  <2>2. CalTopScore(s)[u] = CalTopScore(s)[v]
    BY <1>7 DEF CalTopScore
  <2>3. CalLevelScoreRank(s)[u] = CalLevelScoreRank(s)[v]
    BY <1>7 DEF CalLevelScoreRank
  <2> QED
    BY <1>3, <2>1, <2>2, <2>3
<1>8. ASSUME s[u] > s[v]
      PROVE  /\ Fits' => zero(u) >= zero(v)
             /\ top(u) >= top(v)
             /\ rank(u) >= rank(v) + 2
  <2> HIDE DEF zero, top, rank
  <2>1. ASSUME Fits'
        PROVE  zero(u) >= zero(v)
    <3>1. PICK a \in Int, b \in Int :
             a = CalZeroSumScore(s)[u] /\ b = CalZeroSumScore(s)[v] /\ a >= b
      <4>1. s[u] >= s[v]
        BY <1>1, <1>8
      <4> QED
        BY <1>1, <1>5, <1>6, <2>1, <4>1, ZeroSumInOrder
    <3>2. a * m >= b * m
      BY <1>1, <3>1
    <3> QED
      BY <1>4, <3>1, <3>2
  <2>2. top(u) >= top(v)
    <3>1. PICK a \in Int, b \in Int :
             a = CalTopScore(s)[u] /\ b = CalTopScore(s)[v] /\ a >= b
      BY <1>1, <1>5, <1>8, TopInOrder
    <3>2. a * m >= b * m
      BY <1>1, <3>1
    <3> QED
      BY <1>4, <3>1, <3>2
  <2>3. rank(u) >= rank(v) + 2
    <3>1. CalLevelScoreRank(s)[u] >= CalLevelScoreRank(s)[v] + 2
      BY <1>1, <1>8, RankInOrder
    <3> QED
      BY <1>4, <3>1
  <2> QED
    BY <2>1, <2>2, <2>3
<1>9. ASSUME Fits', s[u] * UserNum > Total(s)
      PROVE  zero(u) >= 0
  <2> HIDE DEF zero
  <2>1. PICK a \in Int : a = CalZeroSumScore(s)[u] /\ a >= 0
    BY <1>1, <1>5, <1>6, <1>9, ZeroSumInOrder
  <2>2. a * m >= 0
    BY <1>1, <2>1
  <2> QED
    BY <1>4, <2>1, <2>2
<1> QED
  BY <1>7, <1>8, <1>9

\* ScoreCalculation: who scored more than another in a match is worth no less in the
\* record by any of the three scores, who scored the same is worth the same, and nobody
\* above the average pays.
THEOREM ScoresAreInOrder == ScoreSpec => []BetterIsWorthMore
<1>1. ScoreInit => BetterIsWorthMore
  BY DEF ScoreInit, BetterIsWorthMore
<1>2. BetterIsWorthMore /\ [ScoreNext]_scoreVars => BetterIsWorthMore'
  <2> SUFFICES ASSUME BetterIsWorthMore, [ScoreNext]_scoreVars
               PROVE  BetterIsWorthMore'
    OBVIOUS
  <2>1. CASE UNCHANGED scoreVars
    BY <2>1 DEF scoreVars, BetterIsWorthMore, Fits, Deviation, Accumulate
  <2>2. CASE ScoreNext
    BY <2>2, CalculationInOrder DEF ScoreNext
  <2> QED
    BY <2>1, <2>2
<1> QED
  BY <1>1, <1>2, PTL DEF ScoreSpec

\* ScoreCalculation: both of a match of any users with any scores.
THEOREM MatchesScoreFairly == ScoreSpec => []ScoresAreFair
BY ScoresAreShared, ScoresAreInOrder, PTL DEF ScoresAreFair

=============================================================================
