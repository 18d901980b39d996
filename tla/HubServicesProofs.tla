-------------------------- MODULE HubServicesProofs --------------------------
(***************************************************************************)
(* Proofs about what the hub does for its clients beside their rooms: what *)
(* it tells them (HubTalk), the signals and probes it relays through a     *)
(* lobby (SignalRelay), and the reports it files (ChatReports), for any    *)
(* clients, titles, outboxes, rooms, rates, accounts, sockets and limits.  *)
(*                                                                         *)
(* Whatever a member has still to hear is either in a message on its way   *)
(* to it or in an emit_lobby_update that has not begun; a step that raises *)
(* the version leaves one of the latter behind, and the step that begins   *)
(* it names everybody who sits there then.                                 *)
(*                                                                         *)
(* The rate over a span of time follows from what a bucket holds at its    *)
(* end: whatever was let past since some call, with what is left, is no    *)
(* more than a full bucket and the refill since then.                      *)
(*                                                                         *)
(* The limit on reports is not kept by the rows alone: a row may be        *)
(* inserted long after it was let past.  What is kept is the sum of the    *)
(* rows of the last hour and of the tasks that have been let past and not  *)
(* yet inserted theirs.                                                    *)
(***************************************************************************)
EXTENDS HubTalk, SignalRelay, ChatReports, SequenceTheorems, FiniteSetTheorems, TLAPS

-----------------------------------------------------------------------------
(* What clients are told: the inductive invariant *)

\* A client that hears is one whose read loop has not ended.
HearersAreOn == \A c \in Ears : out[c].hears => conn[c] = "on"

TalkInv == TalkTypeOK /\ HearersAreOn /\ NewestUnderWay

-----------------------------------------------------------------------------
(* Outboxes *)

Has(o, m) == \E i \in 1 .. Len(o.sent) : o.sent[i] = m

LEMMA PutType ==
  ASSUME NEW o \in Outbox, NEW m \in Message
  PROVE  /\ Put(o, m) \in Outbox
         /\ Put(o, m).hears = o.hears
         /\ \A n : Has(o, n) => Has(Put(o, m), n)
         /\ o.hears => Has(Put(o, m), m)
<1>1. CASE ~o.hears
  BY <1>1 DEF Put
<1>2. CASE o.hears
  <2> DEFINE s == o.sent
             e == Append(o.sent, m)
  <2>1. Put(o, m) = [o EXCEPT !.sent = e]
    BY <1>2 DEF Put
  <2>2. s \in Seq(Message) /\ e \in Seq(Message)
    BY DEF Outbox
  <2>3. Put(o, m) \in Outbox /\ Put(o, m).hears = o.hears /\ Put(o, m).sent = e
    BY <2>1, <2>2 DEF Outbox
  <2>4. /\ Len(e) = Len(s) + 1 /\ e[Len(s) + 1] = m /\ Len(s) \in Nat
        /\ \A i \in 1 .. Len(s) : e[i] = s[i]
    BY <2>2
  <2> HIDE DEF e
  <2>5. \A i \in 1 .. Len(s) : i \in 1 .. Len(e)
    BY <2>4
  <2>6. Len(s) + 1 \in 1 .. Len(e)
    BY <2>4
  <2> QED
    BY <2>3, <2>4, <2>5, <2>6 DEF Has
<1> QED
  BY <1>1, <1>2

LEMMA DeafType == Deaf \in Outbox /\ ~Deaf.hears
<1>1. <<>> \in Seq(Message)
  OBVIOUS
<1> QED
  BY <1>1 DEF Deaf, Outbox

LEMMA PostedType ==
  ASSUME TalkTypeOK, NEW S, NEW m \in Message
  PROVE  /\ Posted(S, m) \in [Ears -> Outbox]
         /\ \A c \in Ears : Posted(S, m)[c].hears = out[c].hears
         /\ \A c \in Ears : \A n : Has(out[c], n) => Has(Posted(S, m)[c], n)
         /\ \A c \in Ears \cap S : out[c].hears /\ conn[c] # "off" => Has(Posted(S, m)[c], m)
<1>1. \A c \in Ears : out[c] \in Outbox
  BY DEF TalkTypeOK
<1>2. \A c \in Ears : Posted(S, m)[c] = IF c \in S /\ conn[c] # "off" THEN Put(out[c], m) ELSE out[c]
  BY DEF Posted
<1>3. ASSUME NEW c \in Ears
      PROVE  /\ Posted(S, m)[c] \in Outbox
             /\ Posted(S, m)[c].hears = out[c].hears
             /\ \A n : Has(out[c], n) => Has(Posted(S, m)[c], n)
             /\ c \in S /\ out[c].hears /\ conn[c] # "off" => Has(Posted(S, m)[c], m)
  <2>1. CASE c \in S /\ conn[c] # "off"
    <3>1. Posted(S, m)[c] = Put(out[c], m) /\ out[c] \in Outbox
      BY <1>1, <1>2, <2>1
    <3> QED
      BY <3>1, PutType
  <2>2. CASE ~(c \in S /\ conn[c] # "off")
    <3>1. Posted(S, m)[c] = out[c] /\ out[c] \in Outbox
      BY <1>1, <1>2, <2>2
    <3> QED
      BY <2>2, <3>1
  <2> QED
    BY <2>1, <2>2
<1>4. Posted(S, m) \in [Ears -> Outbox]
  BY <1>3 DEF Posted
<1> QED
  BY <1>3, <1>4

\* What the writer does to an outbox: what was sent stays, or the client is deaf.
LEMMA ReceivedType ==
  ASSUME NEW o \in Outbox, o.pos < Len(o.sent)
  PROVE  /\ Received(o) \in Outbox
         /\ Received(o).hears => o.hears /\ Received(o).sent = o.sent
<1>1. CASE Lags(o)
  BY <1>1, DeafType DEF Received
<1>2. CASE ~Lags(o)
  <2> DEFINE g == Append(o.got, o.sent[o.pos + 1])
             r == o.pos + 1
  <2>1. o.sent \in Seq(Message) /\ o.got \in Seq(Message) /\ o.pos \in Nat
    BY DEF Outbox
  <2>2. o.sent[o.pos + 1] \in Message
    BY <2>1
  <2>3. g \in Seq(Message) /\ r \in Nat
    BY <2>1, <2>2
  <2>4. Received(o) = [o EXCEPT !.pos = r, !.got = g]
    BY <1>2 DEF Received
  <2> HIDE DEF g, r
  <2> QED
    BY <2>3, <2>4 DEF Outbox
<1> QED
  BY <1>1, <1>2

-----------------------------------------------------------------------------
(* Duties *)

LEMMA MessageTypes == Chat \in Message /\ Other \in Message /\ \A v \in Nat : LobbyUpdate(v) \in Message
BY DEF Chat, Other, LobbyUpdate, Message

LEMMA DutyTypes ==
  ASSUME NEW S \in SUBSET Client
  PROVE  /\ Free \in Duty
         /\ Answer(S) \in Duty
         /\ \A u \in BOOLEAN : [Answer(S) EXCEPT !.update = u] \in Duty
         /\ \A l \in BOOLEAN : [Answer(S) EXCEPT !.update = TRUE, !.list = l] \in Duty
         /\ TellRoom(Free) \in Duty /\ TellRoom(Answer(S)) \in Duty
         /\ [Free EXCEPT !.destroy = TRUE] \in Duty
         /\ \A c \in Client : AfterLeave(c) \in Duty /\ [AfterLeave(c) EXCEPT !.reply = TRUE] \in Duty
         /\ [Free EXCEPT !.msg = Chat, !.to = S] \in Duty
BY MessageTypes DEF Free, Answer, TellRoom, AfterLeave, Duty

\* Whose snapshot is still to be taken.
LEMMA UpdatesToCome ==
  ASSUME NEW S, NEW c
  PROVE  /\ TellRoom(Free).update /\ TellRoom(Answer(S)).update
         /\ c # Host => AfterLeave(c).update /\ [AfterLeave(c) EXCEPT !.reply = TRUE].update
         /\ \A u \in BOOLEAN : [Answer(S) EXCEPT !.update = u].update = u
         /\ \A l \in BOOLEAN : [Answer(S) EXCEPT !.update = TRUE, !.list = l].update = TRUE
BY DEF Free, Answer, TellRoom, AfterLeave

-----------------------------------------------------------------------------
(* The steps *)

\* A step that raises the version and leaves an update to come.
LEMMA Announced ==
  ASSUME NEW c \in Client, duty'[c].update
  PROVE  NewestUnderWay'
BY DEF NewestUnderWay, ToBeTold

\* A step that changes nothing of the room, forgets nothing that was sent and
\* nothing that is still to be sent.
LEMMA NothingNew ==
  ASSUME TalkInv, version' = version, live' => live, seated' \subseteq seated,
         \A m \in Ears : out'[m].hears => out[m].hears,
         \A m \in Ears : out'[m].hears /\ WasTold(m) => WasTold(m)',
         \A m \in seated' \cap Ears : out'[m].hears /\ ToBeTold(m) => WasTold(m)' \/ ToBeTold(m)'
  PROVE  NewestUnderWay'
<1> SUFFICES ASSUME live', NEW m \in seated' \cap Ears, out'[m].hears, version' > 0
             PROVE  WasTold(m)' \/ ToBeTold(m)'
  BY DEF NewestUnderWay
<1>1. WasTold(m) \/ ToBeTold(m)
  BY DEF TalkInv, NewestUnderWay
<1> QED
  BY <1>1

\* A duty that asks for nothing does not stand for a message to come.
LEMMA FreeOwesNothing ==
  /\ ~Free.update /\ Free.to = {}
BY DEF Free

\* A handler takes up a duty.
LEMMA OwesKeepsRest ==
  ASSUME TalkTypeOK, NEW c \in Client, NEW d \in Duty, duty[c] = Free, Owes(c, d),
         version' = version
  PROVE  /\ duty' \in [Client -> Duty] /\ duty'[c] = d
         /\ \A m \in Client : ToBeTold(m) => ToBeTold(m)'
<1>1. /\ duty' \in [Client -> Duty] /\ duty'[c] = d
      /\ \A e \in Client : e # c => duty'[e] = duty[e]
  BY DEF Owes, TalkTypeOK
<1>2. ASSUME NEW m \in Client, ToBeTold(m) PROVE ToBeTold(m)'
  <2>1. PICK e \in Client : duty[e].update \/ (duty[e].msg = LobbyUpdate(version) /\ m \in duty[e].to)
    BY <1>2 DEF ToBeTold
  <2>2. e # c
    BY <2>1, FreeOwesNothing
  <2> QED
    BY <1>1, <2>1, <2>2 DEF ToBeTold
<1> QED
  BY <1>1, <1>2

\* The first scope of a handler: either it changes nothing a member has to hear
\* of, or an update is to come.
LEMMA FirstScopeKeeps ==
  ASSUME TalkInv, NEW c \in Client, NEW d \in Duty, duty[c] = Free, Owes(c, d),
         conn' \in [Client -> {"on", "closing", "off"}],
         live' = live, seated' \in SUBSET Client, version' \in Nat,
         title' \in [Client -> Title \cup {NoTitle}], ops' \in Nat,
         out' \in [Ears -> Outbox],
         \A e \in Ears : out'[e].hears => out'[e] = out[e] /\ conn'[e] = conn[e],
         (version' = version /\ seated' \subseteq seated) \/ d.update
  PROVE  TalkInv'
<1>1. duty' \in [Client -> Duty] /\ duty'[c] = d
  BY DEF Owes, TalkInv, TalkTypeOK
<1>2. TalkTypeOK'
  BY <1>1 DEF TalkInv, TalkTypeOK
<1>3. HearersAreOn'
  BY DEF TalkInv, HearersAreOn
<1>4. NewestUnderWay'
  <2>1. CASE d.update
    BY <1>1, <2>1, Announced
  <2>2. CASE version' = version /\ seated' \subseteq seated
    <3>1. \A m \in Client : ToBeTold(m) => ToBeTold(m)'
      BY <2>2, OwesKeepsRest DEF TalkInv
    <3>2. \A m \in Ears : out'[m].hears => out[m].hears
      OBVIOUS
    <3>3. \A m \in Ears : out'[m].hears /\ WasTold(m) => WasTold(m)'
      BY <2>2 DEF WasTold
    <3> QED
      BY <2>2, <3>1, <3>2, <3>3, NothingNew, TalkConstants
  <2> QED
    BY <2>1, <2>2
<1> QED
  BY <1>2, <1>3, <1>4 DEF TalkInv

LEMMA ReadsFacts ==
  ASSUME TalkInv, NEW c \in Client, Reads(c)
  PROVE  duty[c] = Free /\ ops' \in Nat
BY DEF Reads, TalkInv, TalkTypeOK

\* A message read by the handler of c that leaves the sockets alone.
LEMMA OpKeeps ==
  ASSUME TalkInv, NEW c \in Client, NEW d \in Duty, Reads(c), Owes(c, d),
         UNCHANGED <<conn, live, out>>,
         seated' \in SUBSET Client, version' \in Nat,
         title' \in [Client -> Title \cup {NoTitle}],
         (version' = version /\ seated' \subseteq seated) \/ d.update
  PROVE  TalkInv'
<1>1. /\ conn \in [Client -> {"on", "closing", "off"}] /\ out \in [Ears -> Outbox]
      /\ duty[c] = Free /\ ops' \in Nat
  BY ReadsFacts DEF TalkInv, TalkTypeOK
<1> QED
  BY <1>1, FirstScopeKeeps

LEMMA RoomOpsKeep ==
  ASSUME TalkInv, NEW c \in Client,
         \/ Ask(c) \/ Hello(c) \/ Change(c) \/ TalkJoin(c) \/ TalkLeave(c)
         \/ (\E v \in Client : TalkKick(c, v))
  PROVE  TalkInv'
<1>1. /\ seated \in SUBSET Client /\ version \in Nat /\ version + 1 \in Nat
      /\ title \in [Client -> Title \cup {NoTitle}]
  BY DEF TalkInv, TalkTypeOK
<1>2. CASE Ask(c)
  <2>1. Answer({c}) \in Duty
    BY DutyTypes
  <2> QED
    BY <1>1, <1>2, <2>1, OpKeeps DEF Ask
<1>3. CASE Hello(c)
  <2>1. PICK r \in {FALSE, InLobby(c)} :
          /\ version' = IF r THEN version + 1 ELSE version
          /\ Owes(c, [Answer({c}) EXCEPT !.update = r])
    BY <1>3 DEF Hello
  <2>2. r \in BOOLEAN
    BY DEF InLobby
  <2>3. title' \in [Client -> Title \cup {NoTitle}]
    BY <1>1, <1>3 DEF Hello
  <2>4. UNCHANGED <<conn, live, seated, out>> /\ Reads(c)
    BY <1>3 DEF Hello
  <2>5. [Answer({c}) EXCEPT !.update = r] \in Duty /\ [Answer({c}) EXCEPT !.update = r].update = r
    BY <2>2, DutyTypes, UpdatesToCome
  <2>6. version' \in Nat /\ (version' = version \/ r)
    BY <1>1, <2>1
  <2> QED
    BY <1>1, <2>1, <2>3, <2>4, <2>5, <2>6, OpKeeps
<1>4. CASE Change(c)
  <2>1. PICK S \in {{}, {c}}, l \in BOOLEAN :
          Owes(c, [Answer(S) EXCEPT !.update = TRUE, !.list = l])
    BY <1>4 DEF Change
  <2> DEFINE d == [Answer(S) EXCEPT !.update = TRUE, !.list = l]
  <2>2. d \in Duty /\ d.update
    BY DutyTypes, UpdatesToCome
  <2> HIDE DEF d
  <2>3. Owes(c, d)
    BY <2>1 DEF d
  <2> QED
    BY <1>1, <1>4, <2>2, <2>3, OpKeeps DEF Change
<1>5. CASE TalkJoin(c)
  <2>1. TellRoom(Answer({c})) \in Duty /\ TellRoom(Answer({c})).update
    BY DutyTypes, UpdatesToCome
  <2>2. title' \in [Client -> Title \cup {NoTitle}]
    BY <1>1, <1>5, TalkConstants DEF TalkJoin
  <2>3. seated' \in SUBSET Client
    BY <1>1, <1>5 DEF TalkJoin
  <2> QED
    BY <1>1, <1>5, <2>1, <2>2, <2>3, OpKeeps DEF TalkJoin
<1>6. CASE TalkLeave(c)
  <2> DEFINE d == [AfterLeave(c) EXCEPT !.reply = TRUE]
  <2>1. d \in Duty /\ (c # Host => d.update)
    BY DutyTypes, UpdatesToCome
  <2> HIDE DEF d
  <2>2. Owes(c, d) /\ Reads(c) /\ UNCHANGED <<conn, live, title, out>>
    BY <1>6 DEF TalkLeave, d
  <2>3. /\ seated' \in SUBSET Client /\ version' \in Nat /\ seated' \subseteq seated
        /\ (version' = version \/ c # Host)
    BY <1>1, <1>6 DEF TalkLeave, Unseated
  <2> QED
    BY <1>1, <2>1, <2>2, <2>3, OpKeeps
<1>7. ASSUME NEW v \in Client, TalkKick(c, v) PROVE TalkInv'
  <2>1. TellRoom(Answer({v})) \in Duty /\ TellRoom(Answer({v})).update
    BY DutyTypes, UpdatesToCome
  <2>2. seated' \in SUBSET Client
    BY <1>1, <1>7 DEF TalkKick
  <2> QED
    BY <1>1, <1>7, <2>1, <2>2, OpKeeps DEF TalkKick
<1> QED
  BY <1>2, <1>3, <1>4, <1>5, <1>6, <1>7

LEMMA ChatKeeps ==
  ASSUME TalkInv, NEW c \in Client, Speak(c) \/ SpeakToTitle(c)
  PROVE  TalkInv'
<1>1. /\ seated \in SUBSET Client /\ version \in Nat
      /\ title \in [Client -> Title \cup {NoTitle}]
  BY DEF TalkInv, TalkTypeOK
<1>2. CASE Speak(c)
  <2>1. [Free EXCEPT !.msg = Chat, !.to = seated] \in Duty
    BY <1>1, DutyTypes
  <2> QED
    BY <1>1, <1>2, <2>1, OpKeeps DEF Speak
<1>3. CASE SpeakToTitle(c)
  <2>1. PICK t \in Title \cup {NoTitle} :
          LET scope == IF t = NoTitle THEN Scope(c) ELSE t
              audience == {e \in Client : conn[e] # "off" /\ (e = c \/ Scope(e) = scope)}
          IN  /\ title' = [title EXCEPT ![c] = scope]
              /\ Owes(c, IF scope = NoTitle THEN Answer({c})
                         ELSE [Free EXCEPT !.msg = Chat, !.to = audience])
    BY <1>3 DEF SpeakToTitle
  <2> DEFINE scope == IF t = NoTitle THEN Scope(c) ELSE t
             audience == {e \in Client : conn[e] # "off" /\ (e = c \/ Scope(e) = scope)}
             d == IF scope = NoTitle THEN Answer({c}) ELSE [Free EXCEPT !.msg = Chat, !.to = audience]
  <2>2. scope \in Title \cup {NoTitle}
    BY <1>1, TalkConstants DEF Scope
  <2>3. audience \in SUBSET Client
    OBVIOUS
  <2> HIDE DEF scope, audience
  <2>4. d \in Duty
    BY <2>3, DutyTypes
  <2>5. title' = [title EXCEPT ![c] = scope] /\ Owes(c, d)
    BY <2>1 DEF scope, audience
  <2> HIDE DEF d
  <2>6. title' \in [Client -> Title \cup {NoTitle}]
    BY <1>1, <2>2, <2>5
  <2>7. Reads(c) /\ UNCHANGED <<conn, live, seated, version, out>>
    BY <1>3 DEF SpeakToTitle
  <2> QED
    BY <1>1, <2>4, <2>5, <2>6, <2>7, OpKeeps
<1> QED
  BY <1>2, <1>3

LEMMA EndOfStreamKeeps ==
  ASSUME TalkInv, NEW c \in Client, EndOfStream(c)
  PROVE  TalkInv'
<1> DEFINE d == IF InLobby(c) THEN AfterLeave(c) ELSE Free
<1>1. /\ seated \in SUBSET Client /\ version \in Nat /\ ops \in Nat
      /\ title \in [Client -> Title \cup {NoTitle}] /\ out \in [Ears -> Outbox]
      /\ conn \in [Client -> {"on", "closing", "off"}]
  BY DEF TalkInv, TalkTypeOK
<1>2. d \in Duty /\ (InLobby(c) /\ c # Host => d.update)
  BY DutyTypes, UpdatesToCome
<1>3. /\ duty[c] = Free /\ ops' = ops + 1 /\ UNCHANGED <<live, title>> /\ Owes(c, d)
      /\ conn' = [conn EXCEPT ![c] = "closing"]
      /\ out' = [e \in Ears |-> IF e = c THEN Deaf ELSE out[e]]
  BY DEF EndOfStream
<1>4. /\ seated' \in SUBSET Client /\ version' \in Nat /\ seated' \subseteq seated
      /\ version' = version \/ (InLobby(c) /\ c # Host)
  BY <1>1 DEF EndOfStream, Unseated
<1> HIDE DEF d
<1>5. /\ out' \in [Ears -> Outbox] /\ conn' \in [Client -> {"on", "closing", "off"}]
      /\ \A e \in Ears : out'[e].hears => out'[e] = out[e] /\ conn'[e] = conn[e]
  BY <1>1, <1>3, DeafType, TalkConstants
<1> QED
  BY <1>1, <1>2, <1>3, <1>4, <1>5, FirstScopeKeeps

-----------------------------------------------------------------------------
(* The scopes that follow *)

\* A step that touches only what is sent and what is still to be sent.
LEMMA SendingKeeps ==
  ASSUME TalkInv, UNCHANGED <<conn, live, seated, version, title>>, ops' \in Nat,
         duty' \in [Client -> Duty], out' \in [Ears -> Outbox],
         \A e \in Ears : out'[e].hears => out[e].hears,
         \A m \in Ears : out'[m].hears /\ WasTold(m) => WasTold(m)',
         \A m \in seated \cap Ears : out'[m].hears /\ ToBeTold(m) => WasTold(m)' \/ ToBeTold(m)'
  PROVE  TalkInv'
<1>1. TalkTypeOK'
  BY DEF TalkInv, TalkTypeOK
<1>2. HearersAreOn'
  BY DEF TalkInv, HearersAreOn
<1>3. NewestUnderWay'
  BY NothingNew
<1> QED
  BY <1>1, <1>2, <1>3 DEF TalkInv

LEMMA PostedTells ==
  ASSUME TalkTypeOK, NEW S, NEW m \in Message, out' = Posted(S, m), version' = version
  PROVE  /\ out' \in [Ears -> Outbox]
         /\ \A e \in Ears : out'[e].hears => out[e].hears
         /\ \A e \in Ears : WasTold(e) => WasTold(e)'
         /\ \A e \in Ears \cap S : out[e].hears /\ conn[e] # "off" /\ m = LobbyUpdate(version)
              => WasTold(e)'
BY PostedType DEF WasTold, Has

LEMMA SendOneKeeps ==
  ASSUME TalkInv, NEW c \in Client, SendOne(c)
  PROVE  TalkInv'
<1>1. PICK d \in duty[c].to :
        /\ out' = Posted({d}, duty[c].msg)
        /\ duty' = [duty EXCEPT ![c] = Sent(duty[c], d)]
  BY DEF SendOne
<1>2. UNCHANGED <<conn, live, seated, version, title, ops>>
  BY DEF SendOne
<1> DEFINE job == duty[c]
           rest == Sent(job, d)
<1>3. job \in Duty /\ duty \in [Client -> Duty]
  BY DEF TalkInv, TalkTypeOK
<1>4. /\ rest \in Duty /\ rest.update = job.update /\ rest.to = job.to \ {d}
      /\ job.to # {d} => rest.msg = job.msg
  BY <1>3, MessageTypes DEF Sent, Duty
<1>5. job.msg \in Message
  BY <1>3 DEF Duty
<1>6. /\ duty' \in [Client -> Duty] /\ duty'[c] = rest
      /\ \A e \in Client : e # c => duty'[e] = duty[e]
  BY <1>1, <1>3, <1>4
<1> HIDE DEF job, rest
<1>7. out' = Posted({d}, job.msg)
  BY <1>1 DEF job
<1>8. TalkTypeOK /\ ops' \in Nat
  BY <1>2 DEF TalkInv, TalkTypeOK
<1>9. /\ out' \in [Ears -> Outbox]
      /\ \A e \in Ears : out'[e].hears => out[e].hears
      /\ \A e \in Ears : WasTold(e) => WasTold(e)'
      /\ \A e \in Ears \cap {d} : out[e].hears /\ conn[e] # "off" /\ job.msg = LobbyUpdate(version)
           => WasTold(e)'
  BY <1>2, <1>5, <1>7, <1>8, PostedTells
<1>10. ASSUME NEW m \in seated \cap Ears, out'[m].hears, ToBeTold(m)
       PROVE  WasTold(m)' \/ ToBeTold(m)'
  <2>1. PICK e \in Client : duty[e].update \/ (duty[e].msg = LobbyUpdate(version) /\ m \in duty[e].to)
    BY <1>10 DEF ToBeTold
  <2>2. CASE e # c
    BY <1>2, <1>6, <2>1, <2>2 DEF ToBeTold
  <2>3. CASE e = c /\ job.update
    BY <1>4, <1>6, <2>3 DEF ToBeTold
  <2>4. CASE e = c /\ job.msg = LobbyUpdate(version) /\ m \in job.to /\ m = d
    <3>1. out[m].hears /\ conn[m] # "off"
      BY <1>9, <1>10 DEF TalkInv, HearersAreOn
    <3> QED
      BY <1>9, <2>4, <3>1
  <2>5. CASE e = c /\ job.msg = LobbyUpdate(version) /\ m \in job.to /\ m # d
    <3>1. rest.msg = LobbyUpdate(version) /\ m \in rest.to
      BY <1>4, <2>5
    <3> QED
      BY <1>2, <1>6, <3>1 DEF ToBeTold
  <2> QED
    BY <2>1, <2>2, <2>3, <2>4, <2>5 DEF job
<1> QED
  BY <1>2, <1>6, <1>8, <1>9, <1>10, SendingKeeps

LEMMA DestroyRoomKeeps ==
  ASSUME TalkInv, NEW c \in Client, DestroyRoom(c)
  PROVE  TalkInv'
<1>1. /\ live' = FALSE /\ seated' = {} /\ UNCHANGED <<conn, version, title, out, ops>>
      /\ duty' = [duty EXCEPT ![c] =
           [duty[c] EXCEPT !.destroy = FALSE, !.list = TRUE, !.msg = Other, !.to = seated]]
  BY DEF DestroyRoom
<1>2. [duty[c] EXCEPT !.destroy = FALSE, !.list = TRUE, !.msg = Other, !.to = seated] \in Duty
  <2>1. duty[c] \in Duty /\ seated \in SUBSET Client
    BY DEF TalkInv, TalkTypeOK
  <2> QED
    BY <2>1, MessageTypes DEF Duty
<1>3. TalkTypeOK'
  BY <1>1, <1>2 DEF TalkInv, TalkTypeOK
<1> QED
  BY <1>1, <1>3 DEF TalkInv, HearersAreOn, NewestUnderWay

\* The snapshot names everybody who sits there.
LEMMA EmitUpdateKeeps ==
  ASSUME TalkInv, NEW c \in Client, EmitUpdate(c)
  PROVE  TalkInv'
<1> DEFINE d == [duty[c] EXCEPT !.update = FALSE, !.to = Told(c),
                                !.msg = IF Told(c) = {} THEN Other ELSE LobbyUpdate(version)]
<1>1. UNCHANGED <<conn, live, seated, version, title, out, ops>> /\ duty' = [duty EXCEPT ![c] = d]
  BY DEF EmitUpdate
<1>2. duty[c] \in Duty /\ seated \in SUBSET Client /\ version \in Nat
  BY DEF TalkInv, TalkTypeOK
<1>3. /\ d \in Duty /\ d.to = seated
      /\ seated # {} => d.msg = LobbyUpdate(version)
  BY <1>2, MessageTypes DEF Duty, Told
<1> HIDE DEF d
<1>4. duty' \in [Client -> Duty] /\ duty'[c] = d
  BY <1>1, <1>3 DEF TalkInv, TalkTypeOK
<1>5. \A m \in seated : ToBeTold(m)'
  BY <1>1, <1>3, <1>4 DEF ToBeTold
<1>6. \A m \in Ears : WasTold(m) => WasTold(m)'
  BY <1>1 DEF WasTold
<1>7. out' \in [Ears -> Outbox] /\ ops' \in Nat
  BY <1>1 DEF TalkInv, TalkTypeOK
<1> QED
  BY <1>1, <1>4, <1>5, <1>6, <1>7, SendingKeeps

LEMMA BroadcastListKeeps ==
  ASSUME TalkInv, NEW c \in Client, BroadcastList(c)
  PROVE  TalkInv'
<1>1. /\ out' = Posted(Client, Other) /\ duty' = [duty EXCEPT ![c].list = FALSE]
      /\ UNCHANGED <<conn, live, seated, version, title, ops>>
  BY DEF BroadcastList
<1>2. duty \in [Client -> Duty] /\ duty[c] \in Duty
  BY DEF TalkInv, TalkTypeOK
<1> DEFINE d == [duty[c] EXCEPT !.list = FALSE]
<1>3. d \in Duty /\ d.update = duty[c].update /\ d.msg = duty[c].msg /\ d.to = duty[c].to
  BY <1>2 DEF Duty
<1>4. duty' = [duty EXCEPT ![c] = d]
  BY <1>1, <1>2
<1> HIDE DEF d
<1>5. /\ duty' \in [Client -> Duty] /\ duty'[c] = d
      /\ \A e \in Client : e # c => duty'[e] = duty[e]
  BY <1>2, <1>3, <1>4
<1>6. \A m \in Client : ToBeTold(m) => ToBeTold(m)'
  BY <1>1, <1>3, <1>5 DEF ToBeTold
<1>7. /\ out' \in [Ears -> Outbox]
      /\ \A e \in Ears : out'[e].hears => out[e].hears
      /\ \A e \in Ears : WasTold(e) => WasTold(e)'
  BY <1>1, PostedTells, MessageTypes DEF TalkInv
<1>8. ops' \in Nat
  BY <1>1 DEF TalkInv, TalkTypeOK
<1> QED
  BY <1>1, <1>5, <1>6, <1>7, <1>8, SendingKeeps, TalkConstants

LEMMA LastWordsKeeps ==
  ASSUME TalkInv, NEW c \in Client, LastWords(c)
  PROVE  TalkInv'
<1>1. /\ UNCHANGED <<conn, live, seated, version, title, out, ops>>
      /\ duty[c].to = {} /\ ~duty[c].update
  BY DEF LastWords
<1>2. duty[c] \in Duty /\ seated \in SUBSET Client /\ duty \in [Client -> Duty]
  BY DEF TalkInv, TalkTypeOK
<1>3. PICK d \in Duty : duty' = [duty EXCEPT ![c] = d]
  <2>1. [duty[c] EXCEPT !.system = FALSE, !.msg = Other, !.to = seated] \in Duty
    BY <1>2, MessageTypes DEF Duty
  <2>2. Answer({c}) \in Duty
    BY DutyTypes
  <2> QED
    BY <2>1, <2>2 DEF LastWords
<1>4. /\ duty' \in [Client -> Duty]
      /\ \A e \in Client : e # c => duty'[e] = duty[e]
  BY <1>2, <1>3
<1>5. \A m \in Client : ToBeTold(m) => ToBeTold(m)'
  BY <1>1, <1>4 DEF ToBeTold
<1>6. \A m \in Ears : WasTold(m) => WasTold(m)'
  BY <1>1 DEF WasTold
<1>7. out' \in [Ears -> Outbox] /\ ops' \in Nat
  BY <1>1 DEF TalkInv, TalkTypeOK
<1> QED
  BY <1>1, <1>4, <1>5, <1>6, <1>7, SendingKeeps, TalkConstants

LEMMA PushListKeeps ==
  ASSUME TalkInv, NEW c \in Client, PushList(c)
  PROVE  TalkInv'
<1>1. out' = Posted({c}, Other) /\ UNCHANGED <<conn, live, seated, version, title, duty>>
  BY DEF PushList
<1>2. ops' \in Nat /\ duty' \in [Client -> Duty]
  BY <1>1 DEF PushList, TalkInv, TalkTypeOK
<1>3. /\ out' \in [Ears -> Outbox]
      /\ \A e \in Ears : out'[e].hears => out[e].hears
      /\ \A e \in Ears : WasTold(e) => WasTold(e)'
  BY <1>1, PostedTells, MessageTypes DEF TalkInv
<1>4. \A m \in Client : ToBeTold(m) => ToBeTold(m)'
  BY <1>1 DEF ToBeTold
<1> QED
  BY <1>1, <1>2, <1>3, <1>4, SendingKeeps, TalkConstants

LEMMA ForgetKeeps ==
  ASSUME TalkInv, NEW c \in Client, Forget(c)
  PROVE  TalkInv'
<1>1. /\ conn[c] = "closing" /\ conn' = [conn EXCEPT ![c] = "off"]
      /\ UNCHANGED <<live, seated, version, title, duty, out, ops>>
  BY DEF Forget
<1>2. TalkTypeOK'
  BY <1>1 DEF TalkInv, TalkTypeOK
<1>3. HearersAreOn'
  BY <1>1, TalkConstants DEF TalkInv, HearersAreOn, TalkTypeOK
<1>4. NewestUnderWay'
  BY <1>1 DEF TalkInv, NewestUnderWay, WasTold, ToBeTold
<1> QED
  BY <1>2, <1>3, <1>4 DEF TalkInv

\* The writer and its end.
LEMMA WriterKeeps ==
  ASSUME TalkInv, NEW e \in Ears, Write(e) \/ WriteFails(e)
  PROVE  TalkInv'
<1>1. UNCHANGED <<conn, live, seated, version, title, duty, ops>>
  BY DEF Write, WriteFails
<1>2. out \in [Ears -> Outbox] /\ out[e].pos < Len(out[e].sent) /\ out[e].hears
  BY DEF Write, WriteFails, TalkInv, TalkTypeOK
<1>3. PICK o \in Outbox : /\ out' = [out EXCEPT ![e] = o]
                          /\ o.hears => o.sent = out[e].sent
  <2>1. CASE Write(e)
    BY <1>2, <2>1, ReceivedType DEF Write
  <2>2. CASE WriteFails(e)
    <3>1. out' = [out EXCEPT ![e] = Deaf]
      BY <1>2, <2>2 DEF WriteFails
    <3> QED
      BY <3>1, DeafType
  <2> QED
    BY <2>1, <2>2
<1>4. /\ out' \in [Ears -> Outbox] /\ out'[e] = o
      /\ \A m \in Ears : m # e => out'[m] = out[m]
  BY <1>2, <1>3
<1>5. \A m \in Ears : out'[m].hears => out[m].hears /\ out'[m].sent = out[m].sent
  BY <1>2, <1>3, <1>4
<1>6. \A m \in Ears : out'[m].hears /\ WasTold(m) => WasTold(m)'
  BY <1>1, <1>5 DEF WasTold
<1>7. \A m \in Client : ToBeTold(m) => ToBeTold(m)'
  BY <1>1 DEF ToBeTold
<1>8. duty' \in [Client -> Duty] /\ ops' \in Nat
  BY <1>1 DEF TalkInv, TalkTypeOK
<1> QED
  BY <1>1, <1>4, <1>5, <1>6, <1>7, <1>8, SendingKeeps, TalkConstants

-----------------------------------------------------------------------------
(* The theorems *)

LEMMA TalkInvInit == TalkInit => TalkInv
<1> SUFFICES ASSUME TalkInit PROVE TalkInv
  OBVIOUS
<1>1. [Deaf EXCEPT !.hears = TRUE] \in Outbox
  BY DeafType DEF Outbox
<1>2. Free \in Duty
  BY DutyTypes
<1>3. TalkTypeOK
  BY <1>1, <1>2, TalkConstants DEF TalkInit, TalkTypeOK
<1>4. HearersAreOn /\ NewestUnderWay
  BY TalkConstants DEF TalkInit, HearersAreOn, NewestUnderWay
<1> QED
  BY <1>3, <1>4 DEF TalkInv

LEMMA TalkInvStep == TalkInv /\ [TalkNext]_talkVars => TalkInv'
<1> SUFFICES ASSUME TalkInv, [TalkNext]_talkVars PROVE TalkInv'
  OBVIOUS
<1>1. ASSUME NEW c \in Client, TalkOp(c) PROVE TalkInv'
  BY <1>1, RoomOpsKeep, ChatKeeps, PushListKeeps, EndOfStreamKeeps DEF TalkOp
<1>2. ASSUME NEW c \in Client, TalkHandler(c) PROVE TalkInv'
  BY <1>2, SendOneKeeps, DestroyRoomKeeps, EmitUpdateKeeps, BroadcastListKeeps, LastWordsKeeps
     DEF TalkHandler
<1>3. CASE UNCHANGED talkVars
  BY <1>3 DEF talkVars, TalkInv, TalkTypeOK, HearersAreOn, NewestUnderWay, WasTold, ToBeTold
<1> QED
  BY <1>1, <1>2, <1>3, ForgetKeeps, WriterKeeps DEF TalkNext

\* Types, and that a client whose read loop has ended hears nothing more.
THEOREM TalkInvAlways == TalkSpec => []TalkInv
BY TalkInvInit, TalkInvStep, PTL DEF TalkSpec

\* No change of a room is lost on a member that can be reached, however the
\* handlers interleave (emit_lobby_update).
THEOREM NewestUnderWayAlways == TalkSpec => []NewestUnderWay
<1>1. TalkInv => NewestUnderWay
  BY DEF TalkInv
<1> QED
  BY <1>1, TalkInvAlways, PTL

-----------------------------------------------------------------------------
(* What a socket is given *)

\* A writer has given its socket the first `pos` of what was sent, in order.
InStep(o) ==
  /\ o.pos <= Len(o.sent) /\ Len(o.got) = o.pos
  /\ \A i \in 1 .. Len(o.got) : o.got[i] = o.sent[i]

AllInStep == \A e \in Ears : InStep(out[e])

LEMMA DeafInStep == InStep(Deaf)
BY DEF InStep, Deaf

LEMMA PutInStep ==
  ASSUME NEW o \in Outbox, NEW m \in Message, InStep(o)
  PROVE  InStep(Put(o, m))
<1>1. CASE ~o.hears
  BY <1>1 DEF Put
<1>2. CASE o.hears
  <2> DEFINE s == o.sent
             e == Append(o.sent, m)
             q == Put(o, m)
  <2>1. q = [o EXCEPT !.sent = e]
    BY <1>2 DEF Put
  <2>2. s \in Seq(Message) /\ o.got \in Seq(Message) /\ o.pos \in Nat
    BY DEF Outbox
  <2>3. q.sent = e /\ q.got = o.got /\ q.pos = o.pos
    BY <2>1 DEF Outbox
  <2>4. /\ Len(e) = Len(s) + 1 /\ Len(s) \in Nat
        /\ \A i \in 1 .. Len(s) : e[i] = s[i]
    BY <2>2
  <2> HIDE DEF e, q
  <2>5. InStep(q)
    BY <2>2, <2>3, <2>4 DEF InStep
  <2> QED
    BY <2>5 DEF q
<1> QED
  BY <1>1, <1>2

LEMMA ReceivedInStep ==
  ASSUME NEW o \in Outbox, o.pos < Len(o.sent), InStep(o)
  PROVE  InStep(Received(o))
<1>1. CASE Lags(o)
  BY <1>1, DeafInStep DEF Received
<1>2. CASE ~Lags(o)
  <2> DEFINE g == Append(o.got, o.sent[o.pos + 1])
             r == o.pos + 1
             q == Received(o)
  <2>1. o.sent \in Seq(Message) /\ o.got \in Seq(Message) /\ o.pos \in Nat
    BY DEF Outbox
  <2>2. q = [o EXCEPT !.pos = r, !.got = g]
    BY <1>2 DEF Received
  <2>3. q.sent = o.sent /\ q.got = g /\ q.pos = r
    BY <2>2 DEF Outbox
  <2>4. Len(o.got) = o.pos /\ \A i \in 1 .. Len(o.got) : o.got[i] = o.sent[i]
    BY DEF InStep
  <2>5. /\ Len(g) = r /\ g[r] = o.sent[r]
        /\ \A i \in 1 .. o.pos : g[i] = o.got[i]
    BY <2>1, <2>4
  <2>6. r \in Nat /\ r <= Len(o.sent)
    BY <2>1
  <2>7. \A i \in 1 .. r : i \in 1 .. o.pos \/ i = r
    BY <2>1
  <2>8. \A i \in 1 .. r : g[i] = o.sent[i]
    BY <2>4, <2>5, <2>7
  <2> HIDE DEF g, r, q
  <2>9. InStep(q)
    BY <2>3, <2>5, <2>6, <2>8 DEF InStep
  <2> QED
    BY <2>9 DEF q
<1> QED
  BY <1>1, <1>2

LEMMA PostedInStep ==
  ASSUME TalkTypeOK, AllInStep, NEW S, NEW m \in Message, out' = Posted(S, m)
  PROVE  \A e \in Ears : InStep(out'[e])
<1>1. \A e \in Ears : out'[e] = Put(out[e], m) \/ out'[e] = out[e]
  BY DEF Posted
<1>2. \A e \in Ears : out[e] \in Outbox /\ InStep(out[e])
  BY DEF AllInStep, TalkTypeOK
<1> QED
  BY <1>1, <1>2, PutInStep

LEMMA GivenStep ==
  ASSUME TalkTypeOK, AllInStep, TalkNext
  PROVE  \A e \in Ears : InStep(out'[e])
<1>0. \A e \in Ears : out[e] \in Outbox /\ InStep(out[e])
  BY DEF AllInStep, TalkTypeOK
<1>1. CASE UNCHANGED out
  BY <1>0, <1>1
<1>2. ASSUME NEW c \in Client, SendOne(c) PROVE \A e \in Ears : InStep(out'[e])
  <2>1. PICK d \in duty[c].to : out' = Posted({d}, duty[c].msg)
    BY <1>2 DEF SendOne
  <2>2. duty[c].msg \in Message
    BY DEF AllInStep, TalkTypeOK, Duty
  <2> QED
    BY <2>1, <2>2, PostedInStep
<1>3. ASSUME NEW c \in Client, PushList(c) \/ BroadcastList(c)
      PROVE  \A e \in Ears : InStep(out'[e])
  BY <1>3, PostedInStep, MessageTypes DEF PushList, BroadcastList
<1>4. ASSUME NEW c \in Client, EndOfStream(c) PROVE \A e \in Ears : InStep(out'[e])
  BY <1>0, <1>4, DeafInStep DEF EndOfStream
<1>5. ASSUME NEW c \in Ears, WriteFails(c) PROVE \A e \in Ears : InStep(out'[e])
  BY <1>0, <1>5, DeafInStep DEF WriteFails
<1>6. ASSUME NEW c \in Ears, Write(c) PROVE \A e \in Ears : InStep(out'[e])
  <2>1. /\ out' = [out EXCEPT ![c] = Received(out[c])] /\ out[c].pos < Len(out[c].sent)
        /\ out \in [Ears -> Outbox]
    BY <1>6 DEF Write, TalkTypeOK
  <2>2. out'[c] = Received(out[c]) /\ \A e \in Ears : e # c => out'[e] = out[e]
    BY <2>1
  <2>3. InStep(out'[c])
    BY <1>0, <2>1, <2>2, ReceivedInStep
  <2> QED
    BY <1>0, <2>2, <2>3
<1>7. ASSUME NEW c \in Client, TalkOp(c)
      PROVE  UNCHANGED out \/ PushList(c) \/ EndOfStream(c)
  BY <1>7 DEF TalkOp, Ask, Hello, Change, TalkJoin, TalkLeave, TalkKick, Speak, SpeakToTitle
<1>8. ASSUME NEW c \in Client, TalkHandler(c)
      PROVE  UNCHANGED out \/ SendOne(c) \/ BroadcastList(c)
  BY <1>8 DEF TalkHandler, DestroyRoom, EmitUpdate, LastWords
<1>9. ASSUME NEW c \in Client, Forget(c) PROVE UNCHANGED out
  BY <1>9 DEF Forget
<1> QED
  BY <1>1, <1>2, <1>3, <1>4, <1>5, <1>6, <1>7, <1>8, <1>9 DEF TalkNext

LEMMA InStepIsPrefix ==
  ASSUME NEW o \in Outbox, InStep(o)
  PROVE  IsPrefix(o.got, o.sent)
<1> DEFINE n == Len(o.got)
           a == SubSeq(o.got, 1, n)
           b == SubSeq(o.sent, 1, n)
<1>1. o.got \in Seq(Message) /\ o.sent \in Seq(Message) /\ n \in Nat /\ n <= Len(o.sent)
  BY DEF Outbox, InStep
<1>2. \A i \in 1 .. n : o.got[i] = o.sent[i]
  BY DEF InStep
<1>3. /\ a = [i \in 1 .. n |-> o.got[i]]
      /\ b = [i \in 1 .. n |-> o.sent[i]]
  BY <1>1, SubSeqProperties
<1>4. a = b
  BY <1>2, <1>3
<1> QED
  BY <1>1, <1>4 DEF IsPrefix

\* What a socket was given is a prefix of what the hub sent to its client, however
\* far its writer falls behind (handle_socket's send_task).
THEOREM NoGapsAlways == TalkSpec => []NoGaps
<1>1. TalkInit => AllInStep
  BY DEF TalkInit, AllInStep, InStep, Deaf
<1>2. TalkTypeOK /\ AllInStep /\ [TalkNext]_talkVars => AllInStep'
  <2>1. ASSUME AllInStep, UNCHANGED talkVars PROVE AllInStep'
    BY <2>1 DEF talkVars, AllInStep
  <2> QED
    BY <2>1, GivenStep DEF AllInStep
<1>3. TalkInv => TalkTypeOK
  BY DEF TalkInv
<1>4. TalkTypeOK /\ AllInStep => NoGaps
  BY InStepIsPrefix DEF AllInStep, NoGaps, TalkTypeOK
<1> QED
  BY <1>1, <1>2, <1>3, <1>4, TalkInvAlways, PTL DEF TalkSpec

-----------------------------------------------------------------------------
(* The signal relay: the inductive invariant *)

\* Calls of times d with tokens left at the time of the last call.
Paid(d, tokens, last) ==
  /\ \A i \in 1 .. Len(d) : d[i] <= last
  /\ \A i \in 1 .. Len(d) : (Len(d) - i + 1) * SHARE + tokens <= Full + (last - d[i])
  /\ \A i, j \in 1 .. Len(d) : i <= j => (j - i + 1) * SHARE <= Full + (d[j] - d[i])

RateInv ==
  \A p \in Peer : /\ bucket[p].last <= clock
                  /\ Paid(drawn[p], bucket[p].tokens, bucket[p].last)

\* A grant is what is left of a probe that was relayed.
GrantInv == grants \subseteq probes /\ \A q \in probes : q.at <= clock

RelayInv == RelayTypeOK /\ RateInv /\ GrantInv /\ ProbesSolicited

-----------------------------------------------------------------------------
(* The bucket *)

LEMMA FullNat == SHARE \in Nat \ {0} /\ Full \in Nat /\ SHARE <= Full
<1>1. SHARE \in Nat \ {0} /\ SIGNAL_BURST \in Nat \ {0}
  BY RelayConstants
<1>2. SIGNAL_BURST * SHARE \in Nat /\ SHARE <= SIGNAL_BURST * SHARE
  BY <1>1
<1> QED
  BY <1>1, <1>2 DEF Full

\* What was paid, k, and what is left, t, at l; and at a later c.
LEMMA Later ==
  ASSUME NEW k \in Nat, NEW t \in Nat, NEW r \in Nat, NEW f \in Nat,
         NEW l \in Nat, NEW c \in Nat, NEW x \in Nat,
         k + t <= f + (l - x), r <= t + (c - l)
  PROVE  k + r <= f + (c - x)
OBVIOUS

\* A call of allow keeps what was paid, whether it lets its caller past or not.
LEMMA DrainedPaid ==
  ASSUME NEW b \in Bucket, NEW d \in Seq(Nat), clock \in Nat, b.last <= clock,
         Paid(d, b.tokens, b.last)
  PROVE  /\ Drained(b) \in Bucket
         /\ Drained(b).last = clock
         /\ ~Allowed(b) => Paid(d, Drained(b).tokens, clock)
         /\ Allowed(b) => Paid(Append(d, clock), Drained(b).tokens, clock)
<1> DEFINE R == Refilled(b)
<1>0. SHARE \in Nat \ {0} /\ Full \in Nat
  BY FullNat
<1>1. b.tokens \in 0 .. Full /\ b.last \in Nat
  BY DEF Bucket
<1>2. R \in 0 .. Full /\ R <= b.tokens + (clock - b.last)
  BY <1>0, <1>1 DEF Refilled, Lesser
<1>3. /\ Drained(b).last = clock
      /\ Allowed(b) => Drained(b).tokens = R - SHARE /\ R - SHARE \in 0 .. Full
      /\ ~Allowed(b) => Drained(b).tokens = R
  BY <1>0, <1>2 DEF Drained, Allowed
<1>4. Drained(b) \in Bucket
  BY <1>0, <1>2 DEF Drained, Allowed, Bucket
<1>5. /\ Len(d) \in Nat
      /\ \A i \in 1 .. Len(d) : d[i] \in Nat /\ d[i] <= b.last
      /\ \A i \in 1 .. Len(d) :
           (Len(d) - i + 1) * SHARE + b.tokens <= Full + (b.last - d[i])
      /\ \A i, j \in 1 .. Len(d) : i <= j => (j - i + 1) * SHARE <= Full + (d[j] - d[i])
  BY DEF Paid
<1> HIDE DEF R
<1>6. ASSUME NEW i \in 1 .. Len(d)
      PROVE  (Len(d) - i + 1) * SHARE + R <= Full + (clock - d[i])
  <2>1. (Len(d) - i + 1) * SHARE \in Nat /\ d[i] \in Nat
    BY <1>0, <1>5
  <2>2. (Len(d) - i + 1) * SHARE + b.tokens <= Full + (b.last - d[i])
    BY <1>5
  <2>3. b.tokens \in Nat /\ R \in Nat
    BY <1>0, <1>1, <1>2
  <2> QED
    BY <1>0, <1>1, <1>2, <2>1, <2>2, <2>3, Later
<1>7. ASSUME ~Allowed(b) PROVE Paid(d, Drained(b).tokens, clock)
  <2>1. Drained(b).tokens = R
    BY <1>3, <1>7
  <2>2. \A i \in 1 .. Len(d) : d[i] <= clock
    BY <1>1, <1>5
  <2>3. Paid(d, R, clock)
    BY <1>5, <1>6, <2>2 DEF Paid
  <2> QED
    BY <2>1, <2>3
<1>8. ASSUME Allowed(b) PROVE Paid(Append(d, clock), Drained(b).tokens, clock)
  <2> DEFINE e == Append(d, clock)
  <2>1. /\ Len(e) = Len(d) + 1 /\ e[Len(d) + 1] = clock
        /\ \A i \in 1 .. Len(d) : e[i] = d[i]
    OBVIOUS
  <2> HIDE DEF e
  <2>2. ASSUME NEW i \in 1 .. Len(e) PROVE e[i] \in Nat /\ e[i] <= clock
    <3>1. i \in 1 .. Len(d) \/ i = Len(d) + 1
      BY <1>5, <2>1
    <3> QED
      BY <1>1, <1>5, <2>1, <3>1
  <2>3. ASSUME NEW i \in 1 .. Len(e)
        PROVE  (Len(e) - i + 1) * SHARE + (R - SHARE) <= Full + (clock - e[i])
    <3>1. CASE i \in 1 .. Len(d)
      <4> DEFINE k == Len(d) - i + 1
      <4>1. k \in Nat /\ Len(e) - i + 1 = k + 1
        BY <1>5, <2>1, <3>1
      <4>2. k * SHARE + R <= Full + (clock - d[i])
        BY <1>6, <3>1
      <4> HIDE DEF k
      <4>3. (k + 1) * SHARE = k * SHARE + SHARE /\ k * SHARE \in Nat
        BY <1>0, <4>1
      <4>4. e[i] = d[i] /\ d[i] \in Nat
        BY <1>5, <2>1, <3>1
      <4> DEFINE m == k * SHARE
      <4>5. m \in Nat /\ m + R <= Full + (clock - e[i]) /\ (k + 1) * SHARE = m + SHARE
        BY <4>2, <4>3, <4>4
      <4> HIDE DEF m
      <4>6. (m + SHARE) + (R - SHARE) <= Full + (clock - e[i])
        BY <1>0, <1>2, <4>4, <4>5
      <4> QED
        BY <4>1, <4>5, <4>6
    <3>2. CASE i = Len(d) + 1
      <4>1. Len(e) - i + 1 = 1 /\ e[i] = clock
        BY <1>5, <2>1, <3>2
      <4> QED
        BY <1>0, <1>2, <4>1
    <3> QED
      BY <1>5, <2>1, <3>1, <3>2
  <2>4. ASSUME NEW i \in 1 .. Len(e), NEW j \in 1 .. Len(e), i <= j
        PROVE  (j - i + 1) * SHARE <= Full + (e[j] - e[i])
    <3>1. CASE j \in 1 .. Len(d)
      <4>1. i \in 1 .. Len(d)
        BY <1>5, <2>1, <2>4, <3>1
      <4>2. e[i] = d[i] /\ e[j] = d[j]
        BY <2>1, <3>1, <4>1
      <4>3. (j - i + 1) * SHARE <= Full + (d[j] - d[i])
        BY <1>5, <2>4, <3>1, <4>1
      <4> QED
        BY <4>2, <4>3
    <3>2. CASE j = Len(d) + 1
      <4> DEFINE k == (Len(e) - i + 1) * SHARE
      <4>1. k \in Nat /\ (j - i + 1) * SHARE = k /\ e[j] = clock
        BY <1>0, <1>5, <2>1, <3>2
      <4>2. k + (R - SHARE) <= Full + (clock - e[i])
        BY <2>3
      <4>3. R - SHARE >= 0
        BY <1>3, <1>8
      <4> HIDE DEF k
      <4> QED
        BY <1>0, <1>2, <2>2, <4>1, <4>2, <4>3
    <3> QED
      BY <1>5, <2>1, <3>1, <3>2
  <2>5. Paid(e, R - SHARE, clock)
    BY <2>2, <2>3, <2>4 DEF Paid
  <2> QED
    BY <1>3, <1>8, <2>5 DEF e
<1> QED
  BY <1>3, <1>4, <1>7, <1>8

-----------------------------------------------------------------------------
(* The steps *)

\* A sender's call, refused or not.
LEMMA DrawsKeep ==
  ASSUME RelayTypeOK, RateInv, NEW p \in Peer, NEW ok \in BOOLEAN, Draws(p, ok),
         UNCHANGED clock
  PROVE  /\ bucket' \in [Peer -> Bucket]
         /\ drawn' \in [Peer -> Seq(Nat)]
         /\ RateInv'
<1> DEFINE b == bucket[p]
           d == drawn[p]
<1>1. b \in Bucket /\ d \in Seq(Nat) /\ clock \in Nat
  BY DEF RelayTypeOK
<1>2. b.last <= clock /\ Paid(d, b.tokens, b.last)
  BY DEF RateInv
<1>3. /\ Drained(b) \in Bucket
      /\ Drained(b).last = clock
      /\ ~Allowed(b) => Paid(d, Drained(b).tokens, clock)
      /\ Allowed(b) => Paid(Append(d, clock), Drained(b).tokens, clock)
  BY <1>1, <1>2, DrainedPaid
<1>4. /\ bucket' = [bucket EXCEPT ![p] = Drained(b)]
      /\ drawn' = IF Allowed(b) THEN [drawn EXCEPT ![p] = Append(d, clock)] ELSE drawn
  BY DEF Draws
<1>5. bucket' \in [Peer -> Bucket]
  BY <1>3, <1>4 DEF RelayTypeOK
<1>6. Append(d, clock) \in Seq(Nat)
  BY <1>1
<1>7. drawn' \in [Peer -> Seq(Nat)]
  BY <1>4, <1>6 DEF RelayTypeOK
<1>8. /\ bucket'[p] = Drained(b)
      /\ drawn'[p] = IF Allowed(b) THEN Append(d, clock) ELSE d
      /\ \A q \in Peer : q # p => bucket'[q] = bucket[q] /\ drawn'[q] = drawn[q]
  BY <1>4 DEF RelayTypeOK
<1> HIDE DEF b, d
<1>9. Paid(drawn'[p], bucket'[p].tokens, bucket'[p].last) /\ bucket'[p].last = clock
  BY <1>3, <1>8
<1>10. ASSUME NEW q \in Peer
       PROVE  bucket'[q].last <= clock /\ Paid(drawn'[q], bucket'[q].tokens, bucket'[q].last)
  <2>1. CASE q = p
    BY <1>1, <1>9, <2>1
  <2>2. CASE q # p
    BY <1>8, <2>2 DEF RateInv
  <2> QED
    BY <2>1, <2>2
<1> QED
  BY <1>5, <1>7, <1>10 DEF RateInv, Paid

\* A step that leaves the buckets alone, and lets no time pass back.
LEMMA BucketsRest ==
  ASSUME RateInv, UNCHANGED <<bucket, drawn>>, clock \in Nat, clock' \in Nat,
         clock <= clock', bucket \in [Peer -> Bucket]
  PROVE  RateInv'
<1>1. ASSUME NEW p \in Peer
      PROVE  /\ bucket[p].last <= clock'
             /\ Paid(drawn[p], bucket[p].tokens, bucket[p].last)
  <2>1. bucket[p].last <= clock /\ Paid(drawn[p], bucket[p].tokens, bucket[p].last)
    BY DEF RateInv
  <2>2. bucket[p].last \in Nat
    BY DEF Bucket
  <2> QED
    BY <2>1, <2>2
<1> QED
  BY <1>1 DEF RateInv, Paid

\* Every answer there is was solicited, and stays so.
LEMMA AnswersRest ==
  ASSUME ProbesSolicited, UNCHANGED answers, probes \subseteq probes'
  PROVE  ProbesSolicited'
BY DEF ProbesSolicited

LEMMA FreshIsGranted == FreshGrants \subseteq grants
BY DEF FreshGrants

LEMMA NowIsTrace ==
  ASSUME NEW p \in Peer, NEW l \in Lobby, clock \in Nat
  PROVE  Now(p, l) \in Trace /\ Now(p, l).at = clock /\ Now(p, l).peer = p /\ Now(p, l).lobby = l
BY DEF Now, Trace

LEMMA SignalKeeps ==
  ASSUME RelayInv, NEW p \in Peer, NEW l \in Lobby, Signal(p, l)
  PROVE  RelayInv'
<1>1. PICK ok \in BOOLEAN : Draws(p, ok)
  BY DEF Signal
<1>2. UNCHANGED <<clock, grants, blocks, room, probes, answers>>
  BY DEF Signal
<1>3. bucket' \in [Peer -> Bucket] /\ drawn' \in [Peer -> Seq(Nat)] /\ RateInv'
  BY <1>1, <1>2, DrawsKeep DEF RelayInv
<1>4. RelayTypeOK'
  BY <1>2, <1>3 DEF RelayInv, RelayTypeOK
<1>5. GrantInv' /\ ProbesSolicited'
  BY <1>2 DEF RelayInv, GrantInv, ProbesSolicited
<1> QED
  BY <1>3, <1>4, <1>5 DEF RelayInv

LEMMA ProbeNowhereKeeps ==
  ASSUME RelayInv, NEW p \in Peer, ProbeNowhere(p)
  PROVE  RelayInv'
<1>1. PICK ok \in BOOLEAN : Draws(p, ok) /\ grants' = IF ok THEN FreshGrants ELSE grants
  BY DEF ProbeNowhere
<1>2. UNCHANGED <<clock, blocks, room, probes, answers>>
  BY DEF ProbeNowhere
<1>3. bucket' \in [Peer -> Bucket] /\ drawn' \in [Peer -> Seq(Nat)] /\ RateInv'
  BY <1>1, <1>2, DrawsKeep DEF RelayInv
<1>4. grants' \subseteq grants
  BY <1>1, FreshIsGranted
<1>5. RelayTypeOK'
  BY <1>2, <1>3, <1>4 DEF RelayInv, RelayTypeOK
<1>6. GrantInv' /\ ProbesSolicited'
  BY <1>2, <1>4 DEF RelayInv, GrantInv, ProbesSolicited
<1> QED
  BY <1>3, <1>5, <1>6 DEF RelayInv

\* A probe that is relayed becomes both a grant and a probe.
LEMMA ProbeKeeps ==
  ASSUME RelayInv, NEW p \in Peer, NEW l \in Lobby, Probe(p, l)
  PROVE  RelayInv'
<1> DEFINE here == Now(p, l)
           left == {g \in FreshGrants : ~(g.peer = p /\ g.lobby = l)}
<1>1. PICK ok \in BOOLEAN :
        /\ Draws(p, ok)
        /\ LET relayed == ok /\ Probeable(p, l) IN
           /\ grants' = IF ~ok THEN grants
                        ELSE IF ~relayed THEN FreshGrants
                        ELSE left \cup {here}
           /\ probes' = IF relayed THEN probes \cup {here} ELSE probes
  BY DEF Probe
<1>2. UNCHANGED <<clock, blocks, room, answers>>
  BY DEF Probe
<1>3. bucket' \in [Peer -> Bucket] /\ drawn' \in [Peer -> Seq(Nat)] /\ RateInv'
  BY <1>1, <1>2, DrawsKeep DEF RelayInv
<1>4. here \in Trace /\ here.at = clock
  BY NowIsTrace DEF RelayInv, RelayTypeOK
<1>5. left \subseteq grants
  BY FreshIsGranted
<1> HIDE DEF here, left
<1>6. \/ grants' \subseteq grants /\ probes' = probes
      \/ grants' \subseteq grants \cup {here} /\ probes' = probes \cup {here}
  BY <1>1, <1>5, FreshIsGranted
<1>7. RelayTypeOK'
  <2>1. grants' \subseteq Trace /\ probes' \subseteq Trace
    BY <1>4, <1>6 DEF RelayInv, RelayTypeOK
  <2> QED
    BY <1>2, <1>3, <2>1 DEF RelayInv, RelayTypeOK
<1>8. GrantInv'
  <2>1. clock \in Nat /\ grants \subseteq probes /\ \A q \in probes : q.at <= clock
    BY DEF RelayInv, GrantInv, RelayTypeOK
  <2>2. grants' \subseteq probes' /\ \A q \in probes' : q \in probes \/ q = here
    BY <1>6, <2>1
  <2> QED
    BY <1>2, <1>4, <2>1, <2>2 DEF GrantInv
<1>9. ProbesSolicited'
  BY <1>2, <1>6, AnswersRest DEF RelayInv
<1> QED
  BY <1>3, <1>7, <1>8, <1>9 DEF RelayInv

\* An answer that is relayed rests on a grant, and the grant on a probe.
LEMMA ProbeAnswerKeeps ==
  ASSUME RelayInv, NEW l \in Lobby, NEW to \in Peer, ProbeAnswer(l, to)
  PROVE  RelayInv'
<1> DEFINE here == Now(to, l)
<1>1. PICK ok \in BOOLEAN :
        /\ Draws(HostOf[l], ok)
        /\ grants' = IF ok THEN FreshGrants ELSE grants
        /\ answers' = IF ok /\ Granted(to, l) THEN answers \cup {here} ELSE answers
  BY DEF ProbeAnswer
<1>2. UNCHANGED <<clock, blocks, room, probes>>
  BY DEF ProbeAnswer
<1>3. HostOf[l] \in Peer
  BY RelayConstants
<1>4. bucket' \in [Peer -> Bucket] /\ drawn' \in [Peer -> Seq(Nat)] /\ RateInv'
  BY <1>1, <1>2, <1>3, DrawsKeep DEF RelayInv
<1>5. clock \in Nat /\ here \in Trace /\ here.at = clock /\ here.peer = to /\ here.lobby = l
  BY NowIsTrace DEF RelayInv, RelayTypeOK
<1> HIDE DEF here
<1>6. grants' \subseteq grants /\ answers' \subseteq answers \cup {here}
  BY <1>1, FreshIsGranted
<1>7. RelayTypeOK'
  <2>1. grants' \subseteq Trace /\ answers' \subseteq Trace
    BY <1>5, <1>6 DEF RelayInv, RelayTypeOK
  <2> QED
    BY <1>2, <1>4, <2>1 DEF RelayInv, RelayTypeOK
<1>8. GrantInv'
  BY <1>2, <1>6 DEF RelayInv, GrantInv
<1>9. ProbesSolicited'
  <2>1. ASSUME NEW a \in answers', a \notin answers
        PROVE  \E q \in probes : /\ q.peer = a.peer /\ q.lobby = a.lobby
                                 /\ q.at <= a.at /\ a.at - q.at < PROBE_GRANT_TTL
    <3>1. a = here /\ Granted(to, l)
      BY <1>1, <1>6, <2>1
    <3>2. PICK g \in FreshGrants : g.peer = to /\ g.lobby = l
      BY <3>1 DEF Granted
    <3>3. g \in probes /\ g.at <= clock /\ clock - g.at < PROBE_GRANT_TTL
      BY <3>2 DEF RelayInv, GrantInv, FreshGrants, Fresh
    <3> QED
      BY <1>5, <3>1, <3>2, <3>3
  <2> QED
    BY <1>2, <2>1 DEF RelayInv, ProbesSolicited
<1> QED
  BY <1>4, <1>7, <1>8, <1>9 DEF RelayInv

LEMMA SetBlocksKeeps ==
  ASSUME RelayInv, NEW p \in Peer, SetBlocks(p)
  PROVE  RelayInv'
<1>1. UNCHANGED <<clock, bucket, grants, room, drawn, probes, answers>>
  BY DEF SetBlocks
<1>2. blocks' \in [Peer -> SUBSET Peer]
  BY DEF SetBlocks, RelayInv, RelayTypeOK
<1>3. RelayTypeOK'
  BY <1>1, <1>2 DEF RelayInv, RelayTypeOK
<1>4. RateInv'
  BY <1>1, BucketsRest DEF RelayInv, RelayTypeOK
<1>5. GrantInv' /\ ProbesSolicited'
  BY <1>1 DEF RelayInv, GrantInv, ProbesSolicited
<1> QED
  BY <1>3, <1>4, <1>5 DEF RelayInv

LEMMA RoomChangesKeeps ==
  ASSUME RelayInv, NEW l \in Lobby, NEW r \in RelayRoom, RoomChanges(l, r)
  PROVE  RelayInv'
<1>1. UNCHANGED <<clock, bucket, grants, blocks, drawn, probes, answers>>
  BY DEF RoomChanges
<1>2. room' \in [Lobby -> RelayRoom]
  BY DEF RoomChanges, RelayInv, RelayTypeOK
<1>3. RelayTypeOK'
  BY <1>1, <1>2 DEF RelayInv, RelayTypeOK
<1>4. RateInv'
  BY <1>1, BucketsRest DEF RelayInv, RelayTypeOK
<1>5. GrantInv' /\ ProbesSolicited'
  BY <1>1 DEF RelayInv, GrantInv, ProbesSolicited
<1> QED
  BY <1>3, <1>4, <1>5 DEF RelayInv

LEMMA SecondKeeps ==
  ASSUME RelayInv, Second
  PROVE  RelayInv'
<1>1. clock \in Nat /\ clock' = clock + 1 /\ bucket \in [Peer -> Bucket]
  BY DEF Second, RelayInv, RelayTypeOK
<1>2. UNCHANGED <<bucket, grants, blocks, room, drawn, probes, answers>>
  BY DEF Second
<1>3. RelayTypeOK'
  BY <1>1, <1>2 DEF RelayInv, RelayTypeOK
<1>4. RateInv'
  BY <1>1, <1>2, BucketsRest DEF RelayInv
<1>5. \A q \in probes : q.at \in Nat /\ q.at <= clock
  BY DEF RelayInv, GrantInv, RelayTypeOK, Trace
<1>6. GrantInv'
  BY <1>1, <1>2, <1>5 DEF RelayInv, GrantInv
<1>7. ProbesSolicited'
  BY <1>2 DEF RelayInv, ProbesSolicited
<1> QED
  BY <1>3, <1>4, <1>6, <1>7 DEF RelayInv

-----------------------------------------------------------------------------
(* The theorems *)

LEMMA RelayInvInit == RelayInit => RelayInv
<1> SUFFICES ASSUME RelayInit PROVE RelayInv
  OBVIOUS
<1>1. clock = 0 /\ bucket = [p \in Peer |-> [tokens |-> Full, last |-> 0]]
  BY DEF RelayInit
<1>2. /\ grants = {} /\ probes = {} /\ answers = {} /\ drawn = [p \in Peer |-> <<>>]
      /\ blocks = [p \in Peer |-> {}]
  BY DEF RelayInit
<1>3. [tokens |-> Full, last |-> 0] \in Bucket
  BY FullNat DEF Bucket
<1>4. room \in [Lobby -> RelayRoom]
  <2>1. PICK c \in [Lobby -> BOOLEAN] :
          room = [l \in Lobby |-> [live |-> TRUE, closed |-> c[l], seated |-> {HostOf[l]}]]
    BY DEF RelayInit
  <2>2. \A l \in Lobby : [live |-> TRUE, closed |-> c[l], seated |-> {HostOf[l]}] \in RelayRoom
    BY RelayConstants DEF RelayRoom
  <2> QED
    BY <2>1, <2>2
<1>5. RelayTypeOK
  BY <1>1, <1>2, <1>3, <1>4 DEF RelayTypeOK
<1>6. RateInv
  BY <1>1, <1>2 DEF RateInv, Paid
<1>7. GrantInv /\ ProbesSolicited
  BY <1>2 DEF GrantInv, ProbesSolicited
<1> QED
  BY <1>5, <1>6, <1>7 DEF RelayInv

LEMMA RelayInvStep == RelayInv /\ [RelayNext]_relayVars => RelayInv'
<1> SUFFICES ASSUME RelayInv, [RelayNext]_relayVars PROVE RelayInv'
  OBVIOUS
<1>0. \A l \in Lobby : room[l] \in RelayRoom
  BY DEF RelayInv, RelayTypeOK
<1>1. ASSUME NEW p \in Peer, SetBlocks(p) \/ ProbeNowhere(p)
      PROVE  RelayInv'
  BY <1>1, SetBlocksKeeps, ProbeNowhereKeeps
<1>2. ASSUME NEW p \in Peer, NEW l \in Lobby, Signal(p, l) \/ Probe(p, l) \/ ProbeAnswer(l, p)
      PROVE  RelayInv'
  BY <1>2, SignalKeeps, ProbeKeeps, ProbeAnswerKeeps
<1>3. ASSUME NEW p \in Peer, NEW l \in Lobby, Sit(p, l) \/ Rise(p, l)
      PROVE  RelayInv'
  <2>1. /\ [room[l] EXCEPT !.seated = @ \cup {p}] \in RelayRoom
        /\ [room[l] EXCEPT !.seated = @ \ {p}] \in RelayRoom
    BY <1>0 DEF RelayRoom
  <2> QED
    BY <1>3, <2>1, RoomChangesKeeps DEF Sit, Rise
<1>4. ASSUME NEW l \in Lobby, Begin(l) \/ Destroyed(l)
      PROVE  RelayInv'
  <2>1. /\ [room[l] EXCEPT !.closed = TRUE] \in RelayRoom
        /\ [live |-> FALSE, closed |-> TRUE, seated |-> {}] \in RelayRoom
    BY <1>0 DEF RelayRoom
  <2> QED
    BY <1>4, <2>1, RoomChangesKeeps DEF Begin, Destroyed
<1>5. CASE UNCHANGED relayVars
  BY <1>5 DEF relayVars, RelayInv, RelayTypeOK, RateInv, Paid, GrantInv, ProbesSolicited
<1> QED
  BY <1>1, <1>2, <1>3, <1>4, <1>5, SecondKeeps DEF RelayNext

\* Whatever connections do, RelayInv holds in every state of the relay.
THEOREM RelayInvAlways == RelaySpec => []RelayInv
<1>1. RelayInit => RelayInv
  BY RelayInvInit
<1>2. RelayInv /\ [RelayNext]_relayVars => RelayInv'
  BY RelayInvStep
<1> QED
  BY <1>1, <1>2, PTL DEF RelaySpec

\* No sender gets more signals past its bucket, over any span of time, than a
\* full bucket and the refill of that span allow (SignalBucket::allow).
THEOREM WithinRateAlways == RelaySpec => []WithinRate
<1>1. RelayInv => WithinRate
  BY DEF RelayInv, RateInv, Paid, WithinRate
<1> QED
  BY <1>1, RelayInvAlways, PTL

\* A host reaches a browser only within PROBE_GRANT_TTL of a probe by which that
\* browser reached it about that room (handle_probe_signal).
THEOREM ProbesSolicitedAlways == RelaySpec => []ProbesSolicited
<1>1. RelayInv => ProbesSolicited
  BY DEF RelayInv
<1> QED
  BY <1>1, RelayInvAlways, PTL

-----------------------------------------------------------------------------
(* The reports: the inductive invariant *)

\* The connections of an account whose report has been let past the limit.
Inserting(a) == {s \in SocketsOf(a) : report[s].step = "inserting"}

Budget(a) == REPORTS_PER_HOUR - 1 + Cardinality(SocketsOf(a))

Spent(a) == Cardinality(Recent(a)) + Cardinality(Inserting(a))

\* A guest files nothing.
FilersHaveAccounts == \A s \in Socket : report[s].step # "idle" => Holder[s] \in Account

ReportsInv ==
  /\ ReportsTypeOK
  /\ IsFiniteSet(filed)
  /\ FilersHaveAccounts
  /\ \A a \in Account \ uncounted : Spent(a) <= Budget(a)

-----------------------------------------------------------------------------
(* Counting *)

LEMMA SocketsFinite ==
  ASSUME NEW a
  PROVE  /\ IsFiniteSet(SocketsOf(a)) /\ Cardinality(SocketsOf(a)) \in Nat
         /\ IsFiniteSet(Inserting(a)) /\ Cardinality(Inserting(a)) \in Nat
         /\ Cardinality(Inserting(a)) <= Cardinality(SocketsOf(a))
<1>1. SocketsOf(a) \subseteq Socket /\ Inserting(a) \subseteq SocketsOf(a)
  BY DEF SocketsOf, Inserting
<1>2. IsFiniteSet(SocketsOf(a))
  BY <1>1, ReportConstants, FS_Subset
<1>3. IsFiniteSet(Inserting(a)) /\ Cardinality(Inserting(a)) <= Cardinality(SocketsOf(a))
  BY <1>1, <1>2, FS_Subset
<1> QED
  BY <1>2, <1>3, FS_CardinalityType

LEMMA RecentFinite ==
  ASSUME IsFiniteSet(filed), NEW a
  PROVE  IsFiniteSet(Recent(a)) /\ Cardinality(Recent(a)) \in Nat
<1>1. Recent(a) \subseteq filed
  BY DEF Recent
<1> QED
  BY <1>1, FS_Subset, FS_CardinalityType

LEMMA BudgetFixed ==
  ASSUME NEW a
  PROVE  Budget(a)' = Budget(a) /\ SocketsOf(a)' = SocketsOf(a) /\ Budget(a) \in Int
<1>1. SocketsOf(a)' = SocketsOf(a)
  BY DEF SocketsOf
<1>2. Budget(a)' = Budget(a)
  BY <1>1 DEF Budget
<1>3. REPORTS_PER_HOUR \in Nat
  BY ReportConstants
<1>4. Budget(a) \in Int
  BY <1>3, SocketsFinite DEF Budget
<1> QED
  BY <1>1, <1>2, <1>4

\* Fewer rows that count and fewer tasks that insert.
LEMMA SpentShrinks ==
  ASSUME IsFiniteSet(filed), NEW a,
         Recent(a)' \subseteq Recent(a), Inserting(a)' \subseteq Inserting(a),
         Spent(a) <= Budget(a)
  PROVE  Spent(a)' <= Budget(a)'
<1>1. Cardinality(Recent(a)') <= Cardinality(Recent(a)) /\ Cardinality(Recent(a)') \in Nat
  BY RecentFinite, FS_Subset, FS_CardinalityType
<1>2. Cardinality(Inserting(a)') <= Cardinality(Inserting(a)) /\ Cardinality(Inserting(a)') \in Nat
  BY SocketsFinite, FS_Subset, FS_CardinalityType
<1>3. Cardinality(Recent(a)) \in Nat /\ Cardinality(Inserting(a)) \in Nat
  BY RecentFinite, SocketsFinite
<1>4. Spent(a)' = Cardinality(Recent(a)') + Cardinality(Inserting(a)')
  BY DEF Spent
<1>5. Spent(a)' <= Spent(a) /\ Spent(a)' \in Nat /\ Spent(a) \in Nat
  BY <1>1, <1>2, <1>3, <1>4 DEF Spent
<1> QED
  BY <1>5, BudgetFixed

-----------------------------------------------------------------------------
(* The steps *)

\* A task moves on; nobody else's does.
LEMMA OneTaskMoves ==
  ASSUME ReportsTypeOK, NEW s \in Socket, NEW f, report' = [report EXCEPT ![s] = f], NEW a
  PROVE  /\ f.step # "inserting" => Inserting(a)' \subseteq Inserting(a) \ {s}
         /\ a # Holder[s] => Inserting(a)' \subseteq Inserting(a)
<1>1. report'[s] = f /\ \A r \in Socket : r # s => report'[r] = report[r]
  BY DEF ReportsTypeOK
<1> QED
  BY <1>1 DEF Inserting, SocketsOf

\* A task that begins or ends leaves those with an account in hand.
LEMMA FilersStay ==
  ASSUME ReportsInv, NEW s \in Socket, NEW f, report' = [report EXCEPT ![s] = f],
         f.step # "idle" => Holder[s] \in Account
  PROVE  FilersHaveAccounts'
<1>1. report'[s] = f /\ \A r \in Socket : r # s => report'[r] = report[r]
  BY DEF ReportsInv, ReportsTypeOK
<1> QED
  BY <1>1 DEF ReportsInv, FilersHaveAccounts

LEMMA SayLineKeeps ==
  ASSUME ReportsInv, NEW s \in Socket, SayLine(s)
  PROVE  ReportsInv'
<1> DEFINE new == [id |-> nextId, boot |-> boot, by |-> Holder[s]]
           said == Append(ring, new)
<1>1. /\ ring' = (IF Len(said) > CHAT_RING_MAX THEN Tail(said) ELSE said)
      /\ nextId' = nextId + 1
      /\ UNCHANGED <<now, boot, report, filed, thanked, uncounted>>
  BY DEF SayLine
<1>2. ring \in Seq(Line) /\ nextId \in Nat \ {0} /\ boot \in Nat
  BY DEF ReportsInv, ReportsTypeOK
<1>3. new \in Line
  BY <1>2, ReportConstants DEF Line
<1> HIDE DEF new
<1>4. said \in Seq(Line) /\ Len(said) # 0
  BY <1>2, <1>3
<1> HIDE DEF said
<1>5. ring' \in Seq(Line) /\ nextId' \in Nat \ {0}
  <2>1. said # <<>> => Tail(said) \in Seq(Line)
    BY <1>4
  <2> QED
    BY <1>1, <1>2, <1>4, <2>1
<1>6. ReportsTypeOK'
  BY <1>1, <1>5 DEF ReportsInv, ReportsTypeOK
<1>7. ASSUME NEW a \in Account \ uncounted' PROVE Spent(a)' <= Budget(a)'
  BY <1>1, <1>7, SpentShrinks DEF ReportsInv, Recent, Inserting, SocketsOf
<1>8. FilersHaveAccounts'
  BY <1>1 DEF ReportsInv, FilersHaveAccounts
<1> QED
  BY <1>1, <1>6, <1>7, <1>8 DEF ReportsInv

LEMMA ReportLineKeeps ==
  ASSUME ReportsInv, NEW s \in Socket, ReportLine(s)
  PROVE  ReportsInv'
<1>1. UNCHANGED <<now, boot, nextId, ring, filed, thanked, uncounted>>
  BY DEF ReportLine
<1>2. PICK i \in DOMAIN ring :
        report' = [report EXCEPT ![s] = [step |-> "counting", line |-> ring[i]]]
  BY DEF ReportLine
<1> DEFINE f == [step |-> "counting", line |-> ring[i]]
<1>3. ring[i] \in Line
  BY DEF ReportsInv, ReportsTypeOK
<1>4. f \in Filing /\ f.step = "counting"
  BY <1>3 DEF Filing
<1> HIDE DEF f
<1>5. report' = [report EXCEPT ![s] = f]
  BY <1>2 DEF f
<1>6. ReportsTypeOK'
  BY <1>1, <1>4, <1>5 DEF ReportsInv, ReportsTypeOK
<1>7. ASSUME NEW a \in Account \ uncounted' PROVE Spent(a)' <= Budget(a)'
  <2>1. Inserting(a)' \subseteq Inserting(a)
    BY <1>4, <1>5, OneTaskMoves DEF ReportsInv
  <2> QED
    BY <1>1, <1>7, <2>1, SpentShrinks DEF ReportsInv, Recent
<1>8. FilersHaveAccounts'
  BY <1>5, FilersStay, ReportConstants DEF ReportLine
<1> QED
  BY <1>1, <1>6, <1>7, <1>8 DEF ReportsInv

\* A task that the count lets past finds room for itself and for every other
\* connection of the account.
LEMMA LetPast ==
  ASSUME ReportsInv, NEW a, Recent(a)' = Recent(a), ~Exhausted(a)
  PROVE  Spent(a)' <= Budget(a)'
<1>1. Cardinality(Recent(a)') \in Nat /\ Cardinality(Recent(a)') < REPORTS_PER_HOUR
  BY ReportConstants, RecentFinite DEF Exhausted, ReportsInv
<1>2. Inserting(a)' \subseteq SocketsOf(a)
  BY BudgetFixed DEF Inserting
<1>3. /\ Cardinality(Inserting(a)') \in Nat
      /\ Cardinality(Inserting(a)') <= Cardinality(SocketsOf(a))
      /\ Cardinality(SocketsOf(a)) \in Nat
  BY <1>2, SocketsFinite, FS_Subset, FS_CardinalityType
<1>4. Spent(a)' = Cardinality(Recent(a)') + Cardinality(Inserting(a)')
  BY DEF Spent
<1>5. REPORTS_PER_HOUR \in Nat
  BY ReportConstants
<1>6. Spent(a)' <= Budget(a)
  BY <1>1, <1>3, <1>4, <1>5 DEF Budget
<1> QED
  BY <1>6, BudgetFixed

LEMMA CountRecentKeeps ==
  ASSUME ReportsInv, NEW s \in Socket, CountRecent(s)
  PROVE  ReportsInv'
<1> DEFINE h == Holder[s]
           past == [report[s] EXCEPT !.step = "inserting"]
<1>1. UNCHANGED <<now, boot, nextId, ring, filed, thanked>> /\ report[s].step = "counting"
  BY DEF CountRecent
<1>2. /\ report \in [Socket -> Filing] /\ report[s] \in Filing /\ uncounted \subseteq Account
  BY DEF ReportsInv, ReportsTypeOK
<1>3. past \in Filing /\ past.step = "inserting"
  BY <1>2 DEF Filing
<1>4. Quiet \in Filing /\ Quiet.step # "inserting"
  BY DEF Quiet, Filing, NoLine, Line
<1> HIDE DEF past
<1>5. \/ /\ report' = [report EXCEPT ![s] = Quiet]
         /\ uncounted' = uncounted
      \/ /\ report' = [report EXCEPT ![s] = past] /\ ~Exhausted(h)
         /\ uncounted' = uncounted
      \/ /\ report' = [report EXCEPT ![s] = past]
         /\ uncounted' = uncounted \cup {h}
  BY <1>2 DEF CountRecent, past
<1>6. \A a : Recent(a)' = Recent(a)
  BY <1>1 DEF Recent
<1>7. ASSUME NEW a \in Account \ uncounted' PROVE Spent(a)' <= Budget(a)'
  <2>0. a \in Account \ uncounted /\ Spent(a) <= Budget(a) /\ IsFiniteSet(filed)
    BY <1>5, <1>7 DEF ReportsInv
  <2>1. CASE report' = [report EXCEPT ![s] = Quiet]
    <3>1. Inserting(a)' \subseteq Inserting(a)
      BY <1>4, <2>1, OneTaskMoves DEF ReportsInv
    <3> QED
      BY <1>6, <2>0, <3>1, SpentShrinks
  <2>2. CASE report' = [report EXCEPT ![s] = past] /\ a # h
    <3>1. Inserting(a)' \subseteq Inserting(a)
      BY <2>2, OneTaskMoves DEF ReportsInv
    <3> QED
      BY <1>6, <2>0, <3>1, SpentShrinks
  <2>3. CASE report' = [report EXCEPT ![s] = past] /\ a = h /\ ~Exhausted(h)
    BY <1>6, <2>3, LetPast
  <2>4. CASE uncounted' = uncounted \cup {h} /\ a = h
    BY <1>7, <2>4
  <2> QED
    BY <1>5, <2>1, <2>2, <2>3, <2>4
<1>8. h \in Account /\ uncounted' \subseteq Account
  <2>1. h \in Account
    BY <1>1 DEF ReportsInv, FilersHaveAccounts
  <2> QED
    BY <1>2, <1>5, <2>1
<1>9. report' \in [Socket -> Filing]
  BY <1>2, <1>3, <1>4, <1>5
<1>10. ReportsTypeOK'
  BY <1>1, <1>8, <1>9 DEF ReportsInv, ReportsTypeOK
<1>11. FilersHaveAccounts'
  BY <1>5, <1>8, FilersStay
<1> QED
  BY <1>1, <1>7, <1>10, <1>11 DEF ReportsInv

\* A row that is inserted is one task less.
LEMMA FileReportKeeps ==
  ASSUME ReportsInv, NEW s \in Socket, FileReport(s)
  PROVE  ReportsInv'
<1> DEFINE h == Holder[s]
           claim == [reporter |-> h, line |-> report[s].line]
           new == [reporter |-> h, line |-> report[s].line, at |-> now]
<1>1. /\ report[s].step = "inserting" /\ report' = [report EXCEPT ![s] = Quiet]
      /\ UNCHANGED <<now, boot, nextId, ring, uncounted>>
  BY DEF FileReport
<1>2. thanked' \subseteq thanked \cup {claim} /\ (filed' = filed \/ filed' = filed \cup {new})
  BY DEF FileReport
<1>3. /\ report \in [Socket -> Filing] /\ report[s] \in Filing /\ now \in Nat
      /\ filed \subseteq ReportRow /\ thanked \subseteq Claim /\ IsFiniteSet(filed)
  BY DEF ReportsInv, ReportsTypeOK
<1>4. h \in Account
  BY <1>1 DEF ReportsInv, FilersHaveAccounts
<1>5. claim \in Claim /\ new \in ReportRow /\ new.reporter = h
  BY <1>3, <1>4 DEF Claim, ReportRow, Filing
<1>6. Quiet \in Filing /\ Quiet.step = "idle"
  BY DEF Quiet, Filing, NoLine, Line
<1> HIDE DEF claim, new
<1>7. ReportsTypeOK'
  BY <1>1, <1>2, <1>3, <1>5, <1>6 DEF ReportsInv, ReportsTypeOK
<1>8. IsFiniteSet(filed')
  BY <1>2, <1>3, FS_AddElement
<1>9. FilersHaveAccounts'
  BY <1>1, <1>6, FilersStay
<1>10. ASSUME NEW a \in Account \ uncounted' PROVE Spent(a)' <= Budget(a)'
  <2>0. Spent(a) <= Budget(a)
    BY <1>1, <1>10 DEF ReportsInv
  <2>1. Inserting(a)' \subseteq Inserting(a) \ {s}
    BY <1>1, <1>6, OneTaskMoves DEF ReportsInv
  <2>2. CASE a # h
    <3>1. Recent(a)' \subseteq Recent(a)
      BY <1>1, <1>2, <1>5, <2>2 DEF Recent
    <3> QED
      BY <1>3, <2>0, <2>1, <3>1, SpentShrinks
  <2>3. CASE a = h
    <3> DEFINE left == Inserting(a) \ {s}
               most == Recent(a) \cup {new}
    <3>1. s \in Inserting(a)
      BY <1>1, <2>3 DEF Inserting, SocketsOf
    <3>2. IsFiniteSet(Inserting(a)) /\ Cardinality(Inserting(a)) \in Nat
      BY SocketsFinite
    <3>3. IsFiniteSet(left) /\ Cardinality(left) = Cardinality(Inserting(a)) - 1
      BY <3>1, <3>2, FS_RemoveElement
    <3>4. /\ Cardinality(Inserting(a)') \in Nat
          /\ Cardinality(Inserting(a)') <= Cardinality(Inserting(a)) - 1
      BY <2>1, <3>3, FS_Subset, FS_CardinalityType
    <3>5. IsFiniteSet(Recent(a)) /\ Cardinality(Recent(a)) \in Nat
      BY <1>3, RecentFinite
    <3>6. IsFiniteSet(most) /\ Cardinality(most) <= Cardinality(Recent(a)) + 1
      <4> DEFINE c == Cardinality(Recent(a))
      <4>1. IsFiniteSet(most) /\ Cardinality(most) = IF new \in Recent(a) THEN c ELSE c + 1
        BY <3>5, FS_AddElement
      <4>2. c \in Nat
        BY <3>5
      <4> HIDE DEF c
      <4>3. Cardinality(most) <= c + 1
        BY <4>1, <4>2
      <4> QED
        BY <4>1, <4>3 DEF c
    <3>7. Recent(a)' \subseteq most
      BY <1>1, <1>2 DEF Recent
    <3>8. /\ Cardinality(Recent(a)') \in Nat
          /\ Cardinality(Recent(a)') <= Cardinality(most) /\ Cardinality(most) \in Nat
      BY <3>6, <3>7, FS_Subset, FS_CardinalityType
    <3>9. Spent(a)' = Cardinality(Recent(a)') + Cardinality(Inserting(a)')
      BY DEF Spent
    <3> HIDE DEF most
    <3>10. Spent(a)' <= Spent(a) /\ Spent(a)' \in Nat /\ Spent(a) \in Nat
      BY <3>2, <3>4, <3>5, <3>6, <3>8, <3>9 DEF Spent
    <3> QED
      BY <2>0, <3>10, BudgetFixed
  <2> QED
    BY <2>2, <2>3
<1> QED
  BY <1>7, <1>8, <1>9, <1>10 DEF ReportsInv

\* As time passes rows stop counting; a restart ends the tasks.
LEMMA ClockKeeps ==
  ASSUME ReportsInv, AnHourPart \/ ServerRestart
  PROVE  ReportsInv'
<1>1. /\ filed' = filed /\ thanked' = thanked /\ uncounted' = uncounted
      /\ now \in Nat /\ boot \in Nat /\ now' \in Nat /\ now <= now'
      /\ boot' \in Nat /\ nextId' \in Nat \ {0} /\ ring' \in Seq(Line)
  <2>1. /\ now \in Nat /\ boot \in Nat /\ nextId \in Nat \ {0} /\ ring \in Seq(Line)
        /\ now + 1 \in Nat /\ boot + 1 \in Nat /\ now <= now + 1 /\ now <= now
    BY DEF ReportsInv, ReportsTypeOK
  <2>2. <<>> \in Seq(Line) /\ 1 \in Nat \ {0}
    OBVIOUS
  <2>3. CASE AnHourPart
    BY <2>1, <2>3 DEF AnHourPart
  <2>4. CASE ServerRestart
    BY <2>1, <2>2, <2>4 DEF ServerRestart
  <2> QED
    BY <2>3, <2>4
<1>2. Quiet \in Filing /\ Quiet.step = "idle"
  BY DEF Quiet, Filing, NoLine, Line
<1>3. report' = report \/ report' = [s \in Socket |-> Quiet]
  BY DEF AnHourPart, ServerRestart
<1>4. ReportsTypeOK'
  BY <1>1, <1>2, <1>3 DEF ReportsInv, ReportsTypeOK
<1>5. FilersHaveAccounts'
  BY <1>2, <1>3 DEF ReportsInv, FilersHaveAccounts
<1>6. ASSUME NEW a \in Account \ uncounted' PROVE Spent(a)' <= Budget(a)'
  <2>1. Inserting(a)' \subseteq Inserting(a)
    BY <1>2, <1>3 DEF Inserting, SocketsOf
  <2>2. \A x \in filed : x.at \in Nat
    BY DEF ReportsInv, ReportsTypeOK, ReportRow
  <2>3. Recent(a)' \subseteq Recent(a)
    BY <1>1, <2>2, ReportConstants DEF Recent
  <2> QED
    BY <1>1, <1>6, <2>1, <2>3, SpentShrinks DEF ReportsInv
<1> QED
  BY <1>1, <1>4, <1>5, <1>6 DEF ReportsInv

-----------------------------------------------------------------------------
(* The theorems *)

LEMMA ReportsInvInit == ReportsInit => ReportsInv
<1> SUFFICES ASSUME ReportsInit PROVE ReportsInv
  OBVIOUS
<1>1. Quiet \in Filing /\ Quiet.step = "idle"
  BY DEF Quiet, Filing, NoLine, Line
<1>2. ReportsTypeOK
  BY <1>1 DEF ReportsInit, ReportsTypeOK
<1>3. IsFiniteSet(filed) /\ FilersHaveAccounts
  BY <1>1, FS_EmptySet DEF ReportsInit, FilersHaveAccounts
<1>4. ASSUME NEW a \in Account \ uncounted PROVE Spent(a) <= Budget(a)
  <2>1. Recent(a) = {} /\ Inserting(a) = {}
    BY <1>1 DEF ReportsInit, Recent, Inserting, SocketsOf
  <2>2. Spent(a) = 0
    BY <2>1, FS_EmptySet DEF Spent
  <2> QED
    BY <2>2, ReportConstants, SocketsFinite DEF Budget
<1> QED
  BY <1>2, <1>3, <1>4 DEF ReportsInv

LEMMA ReportsInvStep == ReportsInv /\ [ReportsNext]_reportVars => ReportsInv'
<1> SUFFICES ASSUME ReportsInv, [ReportsNext]_reportVars PROVE ReportsInv'
  OBVIOUS
<1>1. ASSUME UNCHANGED reportVars PROVE ReportsInv'
  <2>1. ReportsTypeOK' /\ IsFiniteSet(filed') /\ FilersHaveAccounts'
    BY <1>1 DEF reportVars, ReportsInv, ReportsTypeOK, FilersHaveAccounts
  <2>2. ASSUME NEW a \in Account \ uncounted' PROVE Spent(a)' <= Budget(a)'
    BY <1>1, <2>2, SpentShrinks DEF reportVars, ReportsInv, Recent, Inserting, SocketsOf
  <2> QED
    BY <2>1, <2>2 DEF ReportsInv
<1> QED
  BY <1>1, SayLineKeeps, ReportLineKeeps, CountRecentKeeps, FileReportKeeps, ClockKeeps
     DEF ReportsNext

\* The sum of rows and of tasks let past stays within the budget of an account.
THEOREM ReportsInvAlways == ReportsSpec => []ReportsInv
BY ReportsInvInit, ReportsInvStep, PTL DEF ReportsSpec

\* An account whose counts are answered gets past the limit on reports by no more
\* than its further connections, however its tasks interleave (record).
THEOREM ReportsCappedAlways == ReportsSpec => []ReportsCapped
<1>1. ReportsInv => ReportsCapped
  <2> SUFFICES ASSUME ReportsInv, NEW a \in Account \ uncounted
               PROVE  Cardinality(Recent(a)) <= REPORTS_PER_HOUR - 1 + Cardinality(SocketsOf(a))
    BY DEF ReportsCapped
  <2>1. Spent(a) <= Budget(a) /\ IsFiniteSet(filed)
    BY DEF ReportsInv
  <2>2. Cardinality(Recent(a)) \in Nat /\ Cardinality(Inserting(a)) \in Nat /\ Budget(a) \in Int
    BY <2>1, RecentFinite, SocketsFinite, BudgetFixed
  <2>3. Cardinality(Recent(a)) <= Budget(a)
    BY <2>1, <2>2 DEF Spent
  <2> QED
    BY <2>3 DEF Budget
<1> QED
  BY <1>1, ReportsInvAlways, PTL
=============================================================================
