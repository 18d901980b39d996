------------------------------- MODULE HubTalk -------------------------------
(***************************************************************************)
(* What the websocket hub tells its clients (src/src/ws_lobby.rs): the     *)
(* room's lobby_update, the chat of the room and of a title, the pushes of *)
(* the room list, and the outbox each socket's writer empties.             *)
(*                                                                         *)
(* A handler runs on the task of its client and changes the hub in one     *)
(* lock scope; whom it tells what follows in further scopes: one for the   *)
(* snapshot, one for every member the snapshot named.  Handlers of other   *)
(* clients run in between.  An outbox is a broadcast channel of OUTBOX     *)
(* messages: a writer that falls further behind is told so and ends, and   *)
(* its reader goes on: the client stays seated and hears nothing more.     *)
(*                                                                         *)
(* Abstracted: the content of a room, to a version that every change       *)
(* raises; lines of chat and all other messages, to one kind each.         *)
(* One room, made by Host; its seats do not run out.  Outboxes do not      *)
(* touch each other: those of Ears are followed.                           *)
(***************************************************************************)
EXTENDS Naturals, Sequences, FiniteSets, SequencesExt

CONSTANTS
  Client, Host,
  Ears,            \* the clients whose outboxes are followed
  Title, NoTitle,  \* game titles; NoTitle is the empty game_name
  RoomTitle,       \* Lobby.game_name of the room
  OUTBOX,          \* capacity of a client's broadcast channel, 64 in the code
  MaxOps           \* bound: messages and timer ticks the hub handles

ASSUME TalkConstants ==
  /\ Host \in Client
  /\ Ears \subseteq Client
  /\ NoTitle \notin Title
  /\ RoomTitle \in Title
  /\ OUTBOX \in Nat \ {0}
  /\ MaxOps \in Nat

VARIABLES
  conn,     \* "on": read loop; "closing": past it; "off": out of HubInner.clients
  live,     \* the room is in HubInner.lobbies
  seated,   \* Lobby::everyone
  version,  \* stands for all that a lobby_update shows
  title,    \* ClientMeta.game_name
  duty,     \* duty[c]: what the handler of c has still to send
  out,      \* out[e]: the outbox of e and what its socket was given
  ops

talkVars == <<conn, live, seated, version, title, duty, out, ops>>

-----------------------------------------------------------------------------
(* Messages and duties *)

LobbyUpdate(v) == [kind |-> "lobby_update", n |-> v]
Chat      == [kind |-> "chat", n |-> 0]
Other     == [kind |-> "other", n |-> 0]

Message == [kind : {"lobby_update", "chat", "other"}, n : Nat]

\* In the order the steps are taken: the message in hand to those still to be
\* sent it, destroy_lobby, emit_lobby_update, broadcast_list, chat_system,
\* and the answer that "leave" ends with.
Duty == [msg     : Message,
         to      : SUBSET Client,
         destroy : BOOLEAN,
         update  : BOOLEAN,
         list    : BOOLEAN,
         system  : BOOLEAN,
         reply   : BOOLEAN]

Free == [msg |-> Other, to |-> {}, destroy |-> FALSE, update |-> FALSE,
         list |-> FALSE, system |-> FALSE, reply |-> FALSE]

Answer(S) == [Free EXCEPT !.msg = Other, !.to = S]

\* What everyone in the room and on the list is told after a change.
TellRoom(d) == [d EXCEPT !.update = TRUE, !.list = TRUE, !.system = TRUE]

Outbox == [sent : Seq(Message), pos : Nat, got : Seq(Message), hears : BOOLEAN]

\* The writer has ended, and the receiver's end of the channel went with it.
Deaf == [sent |-> <<>>, pos |-> 0, got |-> <<>>, hears |-> FALSE]

TalkInit ==
  /\ conn = [c \in Client |-> "on"]
  /\ live = TRUE
  /\ seated = {Host}
  /\ version = 0
  /\ title \in [Client -> Title \cup {NoTitle}] /\ title[Host] = RoomTitle
  /\ duty = [c \in Client |-> Free]
  /\ out = [c \in Ears |-> [Deaf EXCEPT !.hears = TRUE]]
  /\ ops = 0

-----------------------------------------------------------------------------
(* The outbox *)

\* A channel whose receiver is gone takes nothing.
Put(o, m) == IF o.hears THEN [o EXCEPT !.sent = Append(@, m)] ELSE o

\* ClientMeta.tx is reached through HubInner.clients.
Posted(S, m) ==
  [c \in Ears |-> IF c \in S /\ conn[c] # "off" THEN Put(out[c], m) ELSE out[c]]

Lags(o) == Len(o.sent) - o.pos > OUTBOX

\* Mutant of Received: the loop goes on after Lagged, from the oldest kept.
Received_skips(o) ==
  LET p == IF Lags(o) THEN Len(o.sent) - OUTBOX ELSE o.pos IN
  [o EXCEPT !.pos = p + 1, !.got = Append(@, o.sent[p + 1])]

\* recv: the next message, or Lagged, which ends the loop.
Received(o) ==
  IF Lags(o)
  THEN Deaf
  ELSE [o EXCEPT !.pos = @ + 1, !.got = Append(@, o.sent[o.pos + 1])]

Write(c) ==
  /\ out[c].hears
  /\ out[c].pos < Len(out[c].sent)
  /\ out' = [out EXCEPT ![c] = Received(out[c])]
  /\ UNCHANGED <<conn, live, seated, version, title, duty, ops>>

\* The socket takes no more; the read loop has yet to notice.
WriteFails(c) ==
  /\ out[c].hears
  /\ out[c].pos < Len(out[c].sent)
  /\ out' = [e \in Ears |-> IF e = c THEN Deaf ELSE out[e]]
  /\ UNCHANGED <<conn, live, seated, version, title, duty, ops>>

-----------------------------------------------------------------------------
(* Handlers: the first lock scope of each *)

InLobby(c) == live /\ c \in seated /\ ~duty[c].destroy

\* game_scope_for
Scope(c) == IF title[c] = NoTitle /\ InLobby(c) THEN RoomTitle ELSE title[c]

Reads(c) ==
  /\ conn[c] = "on"
  /\ duty[c] = Free
  /\ ops < MaxOps
  /\ ops' = ops + 1

Owes(c, d) == duty' = [duty EXCEPT ![c] = d]

\* An op that only answers its sender: ping, list, and every refusal.
Ask(c) ==
  /\ Reads(c)
  /\ Owes(c, Answer({c}))
  /\ UNCHANGED <<conn, live, seated, version, title, out>>

\* hello: sign-in answered, and the seat renamed when the name changed.
Hello(c) ==
  /\ Reads(c)
  /\ \E t \in Title \cup {title[c]} : title' = [title EXCEPT ![c] = t]
  /\ \E renamed \in {FALSE, InLobby(c)} :
       /\ version' = IF renamed THEN version + 1 ELSE version
       /\ Owes(c, [Answer({c}) EXCEPT !.update = renamed])
  /\ UNCHANGED <<conn, live, seated, out>>

\* set_ready, move, seat_move, set_match_caps, path_report, set_host_endpoint:
\* some answer the sender first, some push the list as well.
Change(c) ==
  /\ Reads(c)
  /\ InLobby(c)
  /\ version' = version + 1
  /\ \E S \in {{}, {c}}, list \in BOOLEAN :
       Owes(c, [Answer(S) EXCEPT !.update = TRUE, !.list = list])
  /\ UNCHANGED <<conn, live, seated, title, out>>

TalkJoin(c) ==
  /\ Reads(c)
  /\ live /\ c \notin seated
  /\ seated' = seated \cup {c}
  /\ version' = version + 1
  /\ title' = [title EXCEPT ![c] = RoomTitle]
  /\ Owes(c, TellRoom(Answer({c})))
  /\ UNCHANGED <<conn, live, out>>

\* The host has the room destroyed in a later scope.
AfterLeave(c) ==
  IF c = Host THEN [Free EXCEPT !.destroy = TRUE] ELSE TellRoom(Free)

Unseated(c) ==
  /\ seated' = IF InLobby(c) /\ c # Host THEN seated \ {c} ELSE seated
  /\ version' = IF InLobby(c) /\ c # Host THEN version + 1 ELSE version

TalkLeave(c) ==
  /\ Reads(c)
  /\ InLobby(c)
  /\ Unseated(c)
  /\ Owes(c, [AfterLeave(c) EXCEPT !.reply = TRUE])
  /\ UNCHANGED <<conn, live, title, out>>

TalkKick(c, v) ==
  /\ Reads(c)
  /\ c = Host /\ InLobby(c)
  /\ v \in seated \ {Host}
  /\ seated' = seated \ {v}
  /\ version' = version + 1
  /\ Owes(c, TellRoom(Answer({v})))
  /\ UNCHANGED <<conn, live, title, out>>

\* handle_chat
Speak(c) ==
  /\ Reads(c)
  /\ InLobby(c)
  /\ Owes(c, [Free EXCEPT !.msg = Chat, !.to = seated])
  /\ UNCHANGED <<conn, live, seated, version, title, out>>

\* handle_server_chat: a line may carry its title, and the scope it resolves
\* to is remembered; without one it is only answered (no_game).
SpeakToTitle(c) ==
  /\ Reads(c)
  /\ \E carried \in Title \cup {NoTitle} :
       LET scope == IF carried = NoTitle THEN Scope(c) ELSE carried
           audience == {d \in Client : conn[d] # "off" /\ (d = c \/ Scope(d) = scope)}
       IN  /\ title' = [title EXCEPT ![c] = scope]
           /\ Owes(c, IF scope = NoTitle
                      THEN Answer({c})
                      ELSE [Free EXCEPT !.msg = Chat, !.to = audience])
  /\ UNCHANGED <<conn, live, seated, version, out>>

\* The one-second push of the list to one client.
PushList(c) ==
  /\ conn[c] = "on" /\ ops < MaxOps /\ ops' = ops + 1
  /\ out' = Posted({c}, Other)
  /\ UNCHANGED <<conn, live, seated, version, title, duty>>

\* The read loop ends: the writer is aborted and client_leave runs.
EndOfStream(c) ==
  /\ conn[c] = "on" /\ duty[c] = Free /\ ops < MaxOps /\ ops' = ops + 1
  /\ conn' = [conn EXCEPT ![c] = "closing"]
  /\ Unseated(c)
  /\ Owes(c, IF InLobby(c) THEN AfterLeave(c) ELSE Free)
  /\ out' = [e \in Ears |-> IF e = c THEN Deaf ELSE out[e]]
  /\ UNCHANGED <<live, title>>

Forget(c) ==
  /\ conn[c] = "closing" /\ duty[c] = Free
  /\ conn' = [conn EXCEPT ![c] = "off"]
  /\ UNCHANGED <<live, seated, version, title, duty, out, ops>>

-----------------------------------------------------------------------------
(* Handlers: the scopes that follow, in order *)

Sent(job, d) ==
  [job EXCEPT !.to = job.to \ {d}, !.msg = IF job.to = {d} THEN Other ELSE job.msg]

\* send_to, once for each client the snapshot named.
SendOne(c) ==
  /\ \E d \in duty[c].to :
       /\ out' = Posted({d}, duty[c].msg)
       /\ duty' = [duty EXCEPT ![c] = Sent(duty[c], d)]
  /\ UNCHANGED <<conn, live, seated, version, title, ops>>

\* destroy_lobby: the host is still seated, and told with the others.
DestroyRoom(c) ==
  /\ duty[c].to = {} /\ duty[c].destroy
  /\ live' = FALSE
  /\ seated' = {}
  /\ duty' = [duty EXCEPT ![c] =
       [duty[c] EXCEPT !.destroy = FALSE, !.list = TRUE, !.msg = Other, !.to = seated]]
  /\ UNCHANGED <<conn, version, title, out, ops>>

\* Mutant of Told: the client whose message it was is left out.
Told_others(c) == seated \ {c}

\* member_ids
Told(c) == seated

\* emit_lobby_update: what it says and whom it names, in one scope.
EmitUpdate(c) ==
  /\ duty[c].to = {} /\ ~duty[c].destroy /\ duty[c].update
  /\ duty' = [duty EXCEPT ![c] =
       [duty[c] EXCEPT !.update = FALSE, !.to = Told(c),
                       !.msg = IF Told(c) = {} THEN Other ELSE LobbyUpdate(version)]]
  /\ UNCHANGED <<conn, live, seated, version, title, out, ops>>

\* broadcast_list sends to all clients within its scope.
BroadcastList(c) ==
  /\ duty[c].to = {} /\ ~duty[c].destroy /\ ~duty[c].update /\ duty[c].list
  /\ out' = Posted(Client, Other)
  /\ duty' = [duty EXCEPT ![c].list = FALSE]
  /\ UNCHANGED <<conn, live, seated, version, title, ops>>

\* chat_system, and the last answer of "leave".
LastWords(c) ==
  /\ duty[c].to = {} /\ ~duty[c].destroy /\ ~duty[c].update /\ ~duty[c].list
  /\ \/ /\ duty[c].system
        /\ duty' = [duty EXCEPT ![c] =
             [duty[c] EXCEPT !.system = FALSE, !.msg = Other, !.to = seated]]
     \/ /\ ~duty[c].system /\ duty[c].reply
        /\ duty' = [duty EXCEPT ![c] = Answer({c})]
  /\ UNCHANGED <<conn, live, seated, version, title, out, ops>>

TalkHandler(c) ==
  \/ SendOne(c) \/ DestroyRoom(c) \/ EmitUpdate(c) \/ BroadcastList(c)
  \/ LastWords(c)

TalkOp(c) ==
  \/ Ask(c) \/ Hello(c) \/ Change(c) \/ TalkJoin(c) \/ TalkLeave(c)
  \/ (\E v \in Client : TalkKick(c, v))
  \/ Speak(c) \/ SpeakToTitle(c) \/ PushList(c) \/ EndOfStream(c)

TalkNext ==
  \/ \E c \in Client : TalkOp(c) \/ TalkHandler(c) \/ Forget(c)
  \/ \E e \in Ears : Write(e) \/ WriteFails(e)

TalkSpec == TalkInit /\ [][TalkNext]_talkVars

-----------------------------------------------------------------------------
(* Properties *)

TalkTypeOK ==
  /\ conn \in [Client -> {"on", "closing", "off"}]
  /\ live \in BOOLEAN
  /\ seated \in SUBSET Client
  /\ version \in Nat
  /\ title \in [Client -> Title \cup {NoTitle}]
  /\ duty \in [Client -> Duty]
  /\ out \in [Ears -> Outbox]
  /\ ops \in Nat

\* Whom the hub has told, or some handler has yet to tell, what a room is now.
WasTold(m)  == \E i \in 1 .. Len(out[m].sent) : out[m].sent[i] = LobbyUpdate(version)
ToBeTold(m) == \E c \in Client : \/ duty[c].update
                                 \/ duty[c].msg = LobbyUpdate(version) /\ m \in duty[c].to

\* No change of a room is lost on a member: whoever sits in it and can be
\* reached was sent the room as it is now, or a handler still has to send it,
\* though emit_lobby_update takes its snapshot and sends it in scopes of their
\* own and changes, joins and departures happen in between.
NewestUnderWay ==
  live => \A m \in seated \cap Ears : out[m].hears /\ version > 0 => WasTold(m) \/ ToBeTold(m)

\* What a socket was given is a prefix of what the hub sent to its client: a
\* writer that lags ends and never skips a message (handle_socket's send_task).
NoGaps == \A c \in Ears : IsPrefix(out[c].got, out[c].sent)
=============================================================================
