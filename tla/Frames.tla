------------------------------- MODULE Frames -------------------------------
(***************************************************************************)
(* The bytes between the bot and a game's subprocess: match_process/         *)
(* ipc_frame.cc on the side of the subprocess, bot_core/subprocess.cc on     *)
(* that of the bot, one pipe each way.  A frame is the length of the payload *)
(* in big-endian digits and the payload.  Pipes have room for a few bytes    *)
(* and hand over any part of what is there, whatever the frames are; the     *)
(* subprocess may die, or be told to, between any two bytes.                 *)
(***************************************************************************)
EXTENDS Integers, Sequences, SequencesExt

CONSTANTS
    Radix,          \* values of a byte
    Room,           \* bytes that fit into a pipe
    MaxPayload,     \* kMaxIpcFramePayloadSize
    Payloads,       \* what may be sent: sequences of digits
    Result,         \* the payload that ends a reply
    MaxRequests,    \* bound on the requests
    MaxPushes       \* bound on the frames of a reply before the result

Digits == 2         \* bytes of a header
Bytes == 0 .. Radix - 1

\* A header can tell every size that is sent.
ASSUME FramesAssumption ==
    /\ Radix \in Nat \ {0, 1} /\ Room \in Nat \ {0}
    /\ MaxPayload \in 1 .. Radix * Radix - 1 /\ MaxPushes \in Nat
    /\ Payloads \subseteq Seq(Bytes)
    /\ Result \in Payloads /\ Len(Result) <= MaxPayload

VARIABLES
    host,           \* the call of the bot: where it is, what it has read of a frame
    child,          \* the session in the subprocess, likewise
    toChild,        \* standard input of the subprocess
    toHost,         \* its standard output
    asked, got,     \* history: payloads the bot wrote, and those the session read
    replied, heard     \* history: payloads the session wrote, and those the bot read

frameVars == <<host, child, toChild, toHost, asked, got, replied, heard>>

SizeValid(payload) == Len(payload) <= MaxPayload

Frame(payload) == <<Len(payload) \div Radix, Len(payload) % Radix>> \o payload

\* at: "idle", "write", "read", "lost" (the call failed) or "closed".
Side(at) == [at |-> at, out |-> <<>>, in |-> <<>>]

FramesInit ==
    /\ host = Side("idle") /\ child = Side("read")
    /\ toChild = <<>> /\ toHost = <<>>
    /\ asked = <<>> /\ got = <<>> /\ replied = <<>> /\ heard = <<>>

Alive == child.at # "dead"

-----------------------------------------------------------------------------
(* ReadAll: the header first, then as many bytes as it says.                *)

Length(in) == in[1] * Radix + in[2]

\* The bytes that are still missing of what is being read.
Missing(in) ==
    IF Len(in) < Digits THEN Digits - Len(in) ELSE Digits + Length(in) - Len(in)

\* Slip: one successful read is taken for the whole payload.
CompleteAfterOne(in) == Len(in) > Digits \/ (Len(in) = Digits /\ Missing(in) = 0)
Complete(in) == Len(in) >= Digits /\ Missing(in) = 0
TooLong(in) == Len(in) >= Digits /\ Length(in) > MaxPayload

Payload(in) == SubSeq(in, Digits + 1, Len(in))

\* Any number of bytes that are there and that are asked for.
Parts(pipe, in) == 1 .. (IF Missing(in) < Len(pipe) THEN Missing(in) ELSE Len(pipe))

Space(pipe, out) == 1 .. (IF Len(out) < Room - Len(pipe) THEN Len(out) ELSE Room - Len(pipe))

-----------------------------------------------------------------------------
(* The bot: SendRequestAndRead_ under data_.                                *)

\* WriteProto_: a payload that is too long is refused before a byte is written.  After a
\* call that failed the client may well be used again.
SendRequest(p) ==
    /\ host.at \in {"idle", "lost"} /\ Len(asked) < MaxRequests
    /\ IF SizeValid(p)
         THEN host' = [Side("write") EXCEPT !.out = Frame(p)] /\ asked' = Append(asked, p)
         ELSE host' = Side("lost") /\ UNCHANGED asked
    /\ UNCHANGED <<child, toChild, toHost, got, replied, heard>>

\* Nobody reads the pipe of a subprocess that is gone: the write fails.
HostWrite ==
    /\ host.at = "write"
    /\ IF Alive
         THEN \E n \in Space(toChild, host.out) :
                LET rest == SubSeq(host.out, n + 1, Len(host.out))
                IN  /\ toChild' = toChild \o SubSeq(host.out, 1, n)
                    /\ host' = IF rest = <<>> THEN Side("read") ELSE [host EXCEPT !.out = rest]
         ELSE host' = Side("lost") /\ UNCHANGED toChild
    /\ UNCHANGED <<child, toHost, asked, got, replied, heard>>

\* What a frame means to the bot: the result ends the call, everything else (a push, a
\* reply, a payload that does not parse) is taken note of and the next one is read.
HostFrame(in) ==
    IF TooLong(in) THEN host' = Side("lost") /\ UNCHANGED heard
    ELSE IF Complete(in)
      THEN /\ heard' = Append(heard, Payload(in))
           /\ host' = IF Payload(in) = Result THEN Side("idle") ELSE Side("read")
      ELSE host' = [host EXCEPT !.in = in] /\ UNCHANGED heard

HostRead ==
    /\ host.at = "read"
    /\ \/ \E n \in Parts(toHost, host.in) :
            /\ HostFrame(host.in \o SubSeq(toHost, 1, n))
            /\ toHost' = SubSeq(toHost, n + 1, Len(toHost))
       \/ \* end of file
          /\ toHost = <<>> /\ ~Alive
          /\ host' = Side("lost") /\ UNCHANGED <<toHost, heard>>
    /\ UNCHANGED <<child, toChild, asked, got, replied>>

\* Close, once the match has no more requests.
Close ==
    /\ host.at \in {"idle", "lost"}
    /\ host' = Side("closed")
    /\ UNCHANGED <<child, toChild, toHost, asked, got, replied, heard>>

-----------------------------------------------------------------------------
(* The session: RunLoop, its handlers and SendProto.                        *)

\* WriteFrame for each payload; one that is too long is logged and left out.
Sent(payloads) ==
    LET sent[i \in 0 .. Len(payloads)] ==
            IF i = 0 THEN <<>>
            ELSE IF SizeValid(payloads[i]) THEN Append(sent[i - 1], payloads[i])
            ELSE sent[i - 1]
    IN  sent[Len(payloads)]

\* A reply: what the game has to say, and the result.
Replies == {p \o <<Result>> : p \in UNION {[1 .. n -> Payloads \ {Result}] : n \in 0 .. MaxPushes}}

ChildFrame(in) ==
    IF TooLong(in) THEN child' = Side("dead") /\ UNCHANGED <<got, replied>>
    ELSE IF Complete(in)
      THEN /\ got' = Append(got, Payload(in))
           /\ \E reply \in Replies :
                /\ replied' = replied \o Sent(reply)
                /\ child' = [Side("write") EXCEPT
                               !.out = FlattenSeq([i \in DOMAIN Sent(reply) |-> Frame(Sent(reply)[i])])]
      ELSE child' = [child EXCEPT !.in = in] /\ UNCHANGED <<got, replied>>

ChildRead ==
    /\ child.at = "read"
    /\ \/ \E n \in Parts(toChild, child.in) :
            /\ ChildFrame(child.in \o SubSeq(toChild, 1, n))
            /\ toChild' = SubSeq(toChild, n + 1, Len(toChild))
       \/ \* end of file
          /\ toChild = <<>> /\ host.at = "closed"
          /\ child' = Side("dead") /\ UNCHANGED <<toChild, got, replied>>
    /\ UNCHANGED <<host, toHost, asked, heard>>

\* The buffers of stdio are flushed at the end of header and payload; in between, too,
\* if they are full.
ChildWrite ==
    /\ child.at = "write"
    /\ \E n \in Space(toHost, child.out) :
         LET rest == SubSeq(child.out, n + 1, Len(child.out))
         IN  /\ toHost' = toHost \o SubSeq(child.out, 1, n)
             /\ child' = IF rest = <<>> THEN Side("read") ELSE [child EXCEPT !.out = rest]
    /\ UNCHANGED <<host, toChild, asked, got, replied, heard>>

\* A crash, or the signal of Cancel or Close: what is in the pipe to the bot stays there.
Die ==
    /\ Alive
    /\ child' = Side("dead")
    /\ UNCHANGED <<host, toChild, toHost, asked, got, replied, heard>>

FramesNext ==
    \/ \E p \in Payloads : SendRequest(p)
    \/ HostWrite \/ HostRead \/ Close
    \/ ChildRead \/ ChildWrite \/ Die

FramesSpec == FramesInit /\ [][FramesNext]_frameVars

-----------------------------------------------------------------------------

FramesTypeOK ==
    /\ host.at \in {"idle", "write", "read", "lost", "closed"}
    /\ child.at \in {"read", "write", "dead"}
    /\ \A e \in {host, child} : Len(e.in) < Digits + MaxPayload /\ ~TooLong(e.in)
    /\ Len(toChild) <= Room /\ Len(toHost) <= Room

\* Wherever pipes divide what is written and whenever the subprocess dies, each side reads
\* the payloads that the other wrote, whole and in their order; between two calls with a
\* subprocess that lives nothing is left behind for the next one; and the two never both
\* wait for the other to write, or to read.
PayloadsArrive ==
    /\ IsPrefix(got, asked) /\ IsPrefix(heard, replied)
    /\ host.at \in {"idle", "lost"} /\ Alive =>
         /\ got = asked /\ heard = replied
         /\ toChild = <<>> /\ toHost = <<>>
    /\ ~(host.at = "read" /\ child.at = "read" /\ toChild = <<>> /\ toHost = <<>>)
    /\ ~(host.at = "write" /\ child.at = "write")

=============================================================================
