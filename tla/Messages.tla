------------------------------ MODULE Messages ------------------------------
(***************************************************************************)
(* What a game says and what people read: the guards that collect the        *)
(* fragments of a message in the subprocess (bot_core/msg_sender.h), their   *)
(* way through the pipe (msg_fragment_ipc.cc, ipc_match_env.cc,              *)
(* child_session.cc), and the bot that renders them (match_child_client.cc,  *)
(* msg_sender.cc).  Each thread of the bot serves a match of its own and     *)
(* draws its pictures into one file.  Players stay; there is a directory for *)
(* pictures.                                                                *)
(***************************************************************************)
EXTENDS Naturals, Sequences, FiniteSetsExt, SequencesExt

CONSTANTS
    Threads,        \* threads of the bot, each inside its match
    Public,         \* those whose match is played in a group
    Humans,         \* players who are users
    Fragments,      \* what the game of a thread may write: [kind, of]
    Channels,       \* where it may write to: [to, pid]
    MaxGuards,      \* bound on its messages in a request
    MaxFragments    \* bound on the fragments in them

VARIABLES
    call,           \* the request of each thread: "idle", "serving", "ended" or "dead"
    frames,         \* the pipe
    collected,      \* the guard of ChildMessageReplyHandler
    sending,        \* messages being rendered and delivered
    picture,        \* what is in the file of each thread
    said, shown     \* history of a request: what was sent off, and what people saw

messageVars == <<call, frames, collected, sending, picture, said, shown>>

\* of: the words of a text, else one name.
Fragment(kind, of) == [kind |-> kind, of |-> of]
Words(of) == Fragment("text", of)

Nothing == [targets |-> <<>>, msgs |-> <<>>, made |-> <<>>]

MessagesInit ==
    /\ call = [t \in Threads |-> "idle"]
    /\ frames = [t \in Threads |-> <<>>]
    /\ collected = [t \in Threads |-> <<>>] /\ sending = [t \in Threads |-> Nothing]
    /\ picture = [t \in Threads |-> <<>>]
    /\ said = [t \in Threads |-> <<>>] /\ shown = [t \in Threads |-> <<>>]

-----------------------------------------------------------------------------

\* AppendMsgFragmentText and the operators <<: texts are joined, empty ones left out.
Written(msgs, f) ==
    IF f.kind # "text" THEN Append(msgs, f)
    ELSE IF f.of = <<>> THEN msgs
    ELSE IF msgs # <<>> /\ Last(msgs).kind = "text"
      THEN Front(msgs) \o <<Words(Last(msgs).of \o f.of)>>
    ELSE Append(msgs, f)

WrittenAll(msgs, new) == FoldLeft(Written, msgs, new)

\* MsgFragmentToItem and AppendMsgItem: At and Name of a player become his number, with
\* a mention of the user or the name of the computer; At and Name of a user a mention.
ToHost(f) ==
    CASE f.kind = "player" ->
            <<Words(<<"number">> \o f.of)>>
              \o (IF f.of[1] \in Humans THEN <<Fragment("user", f.of)>> ELSE <<Words(<<"machine">>)>>)
              \o <<Words(<<"]">>)>>
      [] OTHER -> <<f>>

\* TellMsgSender, BoardcastMsgSender, GroupMsgSender and the reply to who asked.
Place(t, h) == IF t \in Public THEN "group" ELSE h
Asker == CHOOSE h \in Humans : TRUE
Targets(t, channel) ==
    CASE channel.to = "tell" -> IF channel.pid \in Humans THEN <<channel.pid>> ELSE <<>>
      [] channel.to = "group" -> IF t \in Public THEN <<"group">> ELSE <<>>
      [] channel.to = "broadcast" -> IF t \in Public THEN <<"group">> ELSE SetToSeq(Humans)
      [] channel.to = "reply" -> <<Place(t, Asker)>>

-----------------------------------------------------------------------------
(* The subprocess.                                                          *)

Length(messages) == FoldSeq(LAMBDA m, n : n + Len(m.wrote), 0, messages)

Request(t) ==
    /\ call[t] = "idle" /\ sending[t] = Nothing
    /\ call' = [call EXCEPT ![t] = "serving"]
    /\ said' = [said EXCEPT ![t] = <<>>] /\ shown' = [shown EXCEPT ![t] = <<>>]
    /\ UNCHANGED <<frames, collected, sending, picture>>

\* Guards may be open side by side; what counts is the moment in which one is destroyed:
\* ~MsgSenderGuard, whose Flush sends a frame if there is anything.
Say(t, channel, wrote) ==
    /\ call[t] = "serving" /\ Len(said[t]) < MaxGuards[t]
    /\ Length(said[t]) + Len(wrote) <= MaxFragments[t]
    /\ LET msgs == WrittenAll(<<>>, wrote)
       IN  IF msgs = <<>> THEN UNCHANGED <<frames, said>>
           ELSE /\ frames' = [frames EXCEPT ![t] = Append(@, [channel |-> channel, items |-> msgs])]
                /\ said' = [said EXCEPT ![t] = Append(@, [channel |-> channel, wrote |-> wrote])]
    /\ UNCHANGED <<call, collected, sending, picture, shown>>

\* The result, or the end of a subprocess that dies with what it has not sent.
EndRequest(t) ==
    /\ call[t] = "serving"
    /\ \E end \in {"ended", "dead"} : call' = [call EXCEPT ![t] = end]
    /\ UNCHANGED <<frames, collected, sending, picture, said, shown>>

-----------------------------------------------------------------------------
(* The bot.  It may read a frame as soon as it is there; since the session    *)
(* never looks at the bot meanwhile, it is enough that it reads when the      *)
(* session has said everything.                                             *)

HostItems(items) == WrittenAll(<<>>, FlattenSeq([i \in DOMAIN items |-> ToHost(items[i])]))

\* A reply goes to the guard of the request, a post off at once (ApplyChildPost_).
TakeFrame(t) ==
    /\ call[t] \in {"ended", "dead"} /\ frames[t] # <<>> /\ sending[t] = Nothing
    /\ frames' = [frames EXCEPT ![t] = Tail(@)]
    /\ LET frame == Head(frames[t])
           items == HostItems(frame.items)
       IN  IF frame.channel.to = "reply"
             THEN /\ collected' = [collected EXCEPT ![t] = WrittenAll(@, items)]
                  /\ UNCHANGED sending
             ELSE /\ sending' = [sending EXCEPT ![t] =
                        IF Targets(t, frame.channel) = <<>> THEN Nothing
                        ELSE [Nothing EXCEPT !.targets = Targets(t, frame.channel), !.msgs = items]]
                  /\ UNCHANGED collected
    /\ UNCHANGED <<call, picture, said, shown>>

\* The handler of the replies is destroyed when the result has come, or the end of file,
\* which adds a text of its own.
EndOfCall(t) ==
    /\ call[t] \in {"ended", "dead"} /\ frames[t] = <<>> /\ sending[t] = Nothing
    /\ LET all == IF call[t] = "dead" THEN Written(collected[t], Words(<<"lost">>)) ELSE collected[t]
       IN  sending' = [sending EXCEPT ![t] =
                IF all = <<>> THEN Nothing
                ELSE [Nothing EXCEPT !.targets = Targets(t, [to |-> "reply"]), !.msgs = all]]
    /\ said' = [said EXCEPT ![t] =
            IF call[t] = "dead"
              THEN Append(@, [channel |-> [to |-> "reply"], wrote |-> <<Words(<<"lost">>)>>])
              ELSE @]
    /\ collected' = [collected EXCEPT ![t] = <<>>]
    /\ call' = [call EXCEPT ![t] = "idle"]
    /\ UNCHANGED <<frames, picture, shown>>

\* AppendMarkdown: the file is named by the thread.
File(t) == t

\* MsgSender::Flush, as far as the next markdown, which is drawn; everything else is
\* taken as it is.
Render(t) ==
    LET s == sending[t]
        done == Len(s.made)
        drawings == {i \in done + 1 .. Len(s.msgs) : s.msgs[i].kind = "markdown"}
        upTo == IF drawings = {} THEN Len(s.msgs) ELSE Min(drawings)
    IN  /\ done < Len(s.msgs)
        /\ sending' = [sending EXCEPT ![t].made = SubSeq(s.msgs, 1, upTo)]
        /\ picture' = IF drawings = {} THEN picture
                      ELSE [picture EXCEPT ![File(t)] = s.msgs[upTo].of]
        /\ UNCHANGED <<call, frames, collected, said, shown>>

\* handle_messages: who shows a picture shows what is in the file now.
Shown(t, made) ==
    [i \in DOMAIN made |->
        IF made[i].kind = "markdown" THEN Fragment("markdown", picture[File(t)]) ELSE made[i]]

\* PrivateBroadcastSender: one target after the other, each with pictures of its own.
Handle(t) ==
    LET s == sending[t]
    IN  /\ s # Nothing /\ Len(s.made) = Len(s.msgs)
        /\ shown' = [shown EXCEPT ![t] =
                Append(@, [target |-> Head(s.targets), msgs |-> Shown(t, s.made)])]
        /\ sending' = [sending EXCEPT ![t] =
                IF Len(s.targets) = 1 THEN Nothing
                ELSE [s EXCEPT !.targets = Tail(@), !.made = <<>>]]
        /\ UNCHANGED <<call, frames, collected, picture, said>>

MessagesNext ==
    \E t \in Threads :
        \/ Request(t) \/ EndRequest(t)
        \/ \E channel \in Channels[t], n \in 0 .. MaxFragments[t] :
              \E wrote \in [1 .. n -> Fragments[t]] : Say(t, channel, wrote)
        \/ TakeFrame(t) \/ EndOfCall(t) \/ Render(t) \/ Handle(t)

MessagesSpec == MessagesInit /\ [][MessagesNext]_messageVars

-----------------------------------------------------------------------------

\* What somebody reads in fragments, whatever texts they are joined to.
Reads(msgs) ==
    FlattenSeq([i \in DOMAIN msgs |->
        IF msgs[i].kind = "text" THEN [j \in DOMAIN msgs[i].of |-> Words(<<msgs[i].of[j]>>)]
        ELSE <<msgs[i]>>])

\* What is meant for a target in a request, message by message: the posts in the order in
\* which they were finished, then all that was replied, which is one message.
Meant(t, target) ==
    LET IsReply(m) == m.channel.to = "reply"
        Items(m) == IF target \in Range(Targets(t, m.channel))
                      THEN Reads(FlattenSeq([i \in DOMAIN m.wrote |-> ToHost(m.wrote[i])]))
                      ELSE <<>>
        posts == SelectSeq(said[t], LAMBDA m : ~IsReply(m))
        answers == SelectSeq(said[t], IsReply)
    IN  [i \in DOMAIN posts |-> Items(posts[i])]
          \o <<FlattenSeq([i \in DOMAIN answers |-> Items(answers[i])])>>

\* What has been seen of it when the request is over.
Seen(t, target) ==
    FlattenSeq([i \in DOMAIN shown[t] |->
        IF shown[t][i].target = target THEN Reads(shown[t][i].msgs) ELSE <<>>])

\* The pictures of one message are in one file: all of them look like the last.
LikeTheLast(msgs) ==
    LET drawings == SelectSeq(msgs, LAMBDA f : f.kind = "markdown")
    IN  [i \in DOMAIN msgs |-> IF msgs[i].kind = "markdown" THEN Last(drawings) ELSE msgs[i]]

Over(t) == call[t] = "idle" /\ sending[t] = Nothing

\* When a request is over, everybody has read what was meant for him, in order, each
\* message with the last of the pictures that were drawn for it, and never with one of
\* another message or of another match that speaks at the same time.
EverybodyReadsAll ==
    \A t \in Threads : Over(t) =>
        \A target \in Humans \cup {"group"} :
            LET messages == Meant(t, target)
            IN  Seen(t, target) = FlattenSeq([i \in DOMAIN messages |-> LikeTheLast(messages[i])])

\* As a comment in a game has it, which says the opposite: everybody sees all the
\* pictures that were drawn for him, however many there are in a message.  False, and in
\* no run.
EveryPictureIsSeen ==
    \A t \in Threads : Over(t) =>
        \A target \in Humans \cup {"group"} : Seen(t, target) = FlattenSeq(Meant(t, target))

=============================================================================
