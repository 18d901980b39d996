----------------------------- MODULE SignalRelay -----------------------------
(***************************************************************************)
(* The hub as a relay of connection signals (src/src/ws_lobby.rs):         *)
(* `signal` between the members of a room, `probe_signal` between somebody *)
(* who browses the list and the host of a room, the token bucket both draw *)
(* on, the grants that let a host answer a probe, and the blocks that      *)
(* forbid one.                                                             *)
(*                                                                         *)
(* Each handler decides in one lock scope and sends in later ones; what a  *)
(* target does with a signal has no effect here, so an action is the       *)
(* deciding scope.  Grants outlive what they were given for: the room may  *)
(* start, fill or close and the browser sit down while one lasts.          *)
(*                                                                         *)
(* Time is counted in ticks of 1 / (SHARE * SIGNAL_PER_SEC) s and tokens   *)
(* in parts of 1 / SHARE, so that a bucket may hold less than one token.   *)
(* Rooms change as LobbyHub has it, here by steps of the environment.      *)
(***************************************************************************)
EXTENDS Naturals, Sequences, FiniteSets

CONSTANTS
  Peer,           \* connections
  Guest,          \* those without an account
  Lobby,
  HostOf,         \* HostOf[l]: Lobby.host_player_id
  SIGNAL_BURST,   \* signals a full bucket lets past
  SHARE,          \* parts of a token a signal takes; a tick brings one part
  PROBE_GRANT_TTL, PROBE_GRANTS_PER_CLIENT,
  MaxTime,        \* bound: ticks
  MaxRelayed      \* bound: signals one sender gets past its bucket

ASSUME RelayConstants ==
  /\ Guest \subseteq Peer
  /\ HostOf \in [Lobby -> Peer]
  /\ SIGNAL_BURST \in Nat \ {0} /\ SHARE \in Nat \ {0}
  /\ PROBE_GRANT_TTL \in Nat \ {0} /\ PROBE_GRANTS_PER_CLIENT \in Nat \ {0}
  /\ MaxTime \in Nat /\ MaxRelayed \in Nat

VARIABLES
  clock,
  bucket,   \* ClientMeta.signal_bucket
  grants,   \* HubInner.probe_grants: when each grant was last renewed
  blocks,   \* ClientMeta.blocks, as connections of the accounts blocked
  room,     \* what handle_signal and handle_probe_signal read of a room
  drawn,    \* drawn[p]: when p was let past its bucket
  probes,   \* probes relayed to hosts
  answers   \* answers relayed to browsers

relayVars == <<clock, bucket, grants, blocks, room, drawn, probes, answers>>

-----------------------------------------------------------------------------
(* State *)

Full == SIGNAL_BURST * SHARE

Bucket == [tokens : 0 .. Full, last : Nat]

\* A grant, a probe and an answer name the browser, the room and the time.
Trace == [peer : Peer, lobby : Lobby, at : Nat]

RelayRoom == [live    : BOOLEAN,
              closed  : BOOLEAN,        \* automatch, started or with a password
              seated  : SUBSET Peer]    \* players and spectators

RelayInit ==
  /\ clock = 0
  /\ bucket = [p \in Peer |-> [tokens |-> Full, last |-> 0]]
  /\ grants = {}
  /\ blocks = [p \in Peer |-> {}]
  /\ \E c \in [Lobby -> BOOLEAN] :
       room = [l \in Lobby |-> [live |-> TRUE, closed |-> c[l],
                                seated |-> {HostOf[l]}]]
  /\ drawn = [p \in Peer |-> <<>>]
  /\ probes = {}
  /\ answers = {}

-----------------------------------------------------------------------------
(* SignalBucket::allow *)

Lesser(a, b) == IF a < b THEN a ELSE b

Refilled(b) == Lesser(b.tokens + (clock - b.last), Full)

Allowed(b) == Refilled(b) >= SHARE

\* Mutant of Drained: a refusal leaves the time of the last call as it was.
Drained_same_time(b) ==
  [tokens |-> IF Allowed(b) THEN Refilled(b) - SHARE ELSE Refilled(b),
   last   |-> IF Allowed(b) THEN clock ELSE b.last]

\* The bucket after a call of allow: refilled, and one token less if it can be.
Drained(b) ==
  [tokens |-> IF Allowed(b) THEN Refilled(b) - SHARE ELSE Refilled(b), last |-> clock]

\* A sender's call of allow, which answers `ok`.
Draws(p, ok) ==
  /\ Len(drawn[p]) < MaxRelayed
  /\ ok = Allowed(bucket[p])
  /\ bucket' = [bucket EXCEPT ![p] = Drained(bucket[p])]
  /\ drawn' = IF ok THEN [drawn EXCEPT ![p] = Append(@, clock)] ELSE drawn

-----------------------------------------------------------------------------
(* handle_signal *)

\* Relayed to the others of the room, or to one of them.  A spectator is
\* refused the types of the ICE exchange, and may send any other.
Signal(p, l) ==
  /\ room[l].live
  /\ p \in room[l].seated
  /\ \E ok \in BOOLEAN : Draws(p, ok)
  /\ UNCHANGED <<clock, grants, blocks, room, probes, answers>>

-----------------------------------------------------------------------------
(* handle_probe_signal *)

\* Mutant of Fresh: what has run out stays.
Fresh_all(g) == TRUE

Fresh(g) == clock - g.at < PROBE_GRANT_TTL

FreshGrants == {g \in grants : Fresh(g)}

Granted(p, l) == \E g \in FreshGrants : g.peer = p /\ g.lobby = l

blocked_between(p, q) ==
  \/ q \notin Guest /\ q \in blocks[p]
  \/ p \notin Guest /\ p \in blocks[q]

AtCap(p, l) ==
  ~Granted(p, l) /\ Cardinality({g \in FreshGrants : g.peer = p}) >= PROBE_GRANTS_PER_CLIENT

Probeable(p, l) ==
  /\ ~room[l].closed
  /\ p \notin room[l].seated
  /\ ~AtCap(p, l)
  /\ ~blocked_between(p, HostOf[l])

Now(p, l) == [peer |-> p, lobby |-> l, at |-> clock]

\* The room a probe names is gone, or was never there.
ProbeNowhere(p) ==
  /\ \E l \in Lobby : ~room[l].live
  /\ \E ok \in BOOLEAN : Draws(p, ok) /\ grants' = IF ok THEN FreshGrants ELSE grants
  /\ UNCHANGED <<clock, blocks, room, probes, answers>>

Probe(p, l) ==
  /\ room[l].live /\ HostOf[l] # p
  /\ \E ok \in BOOLEAN :
       /\ Draws(p, ok)
       /\ LET relayed == ok /\ Probeable(p, l) IN
          /\ grants' = IF ~ok THEN grants
                       ELSE IF ~relayed THEN FreshGrants
                       ELSE {g \in FreshGrants : ~(g.peer = p /\ g.lobby = l)} \cup {Now(p, l)}
          /\ probes' = IF relayed THEN probes \cup {Now(p, l)} ELSE probes
  /\ UNCHANGED <<clock, blocks, room, answers>>

\* The host answers whom it names, if that one's grant has not run out.
ProbeAnswer(l, to) ==
  /\ room[l].live
  /\ \E ok \in BOOLEAN :
       /\ Draws(HostOf[l], ok)
       /\ grants' = IF ok THEN FreshGrants ELSE grants
       /\ answers' = IF ok /\ Granted(to, l) THEN answers \cup {Now(to, l)} ELSE answers
  /\ UNCHANGED <<clock, blocks, room, probes>>

-----------------------------------------------------------------------------
(* handle_set_blocks, and what happens to rooms *)

\* The list a client sends replaces the one before.
SetBlocks(p) ==
  /\ \E q \in Peer \ {p}, b \in BOOLEAN :
       blocks' = [blocks EXCEPT ![p] = IF b THEN {q} ELSE {}]
  /\ UNCHANGED <<clock, bucket, grants, room, drawn, probes, answers>>

RoomChanges(l, r) ==
  /\ room[l].live
  /\ room' = [room EXCEPT ![l] = r]
  /\ UNCHANGED <<clock, bucket, grants, blocks, drawn, probes, answers>>

Sit(p, l) ==
  /\ p \notin room[l].seated
  /\ RoomChanges(l, [room[l] EXCEPT !.seated = @ \cup {p}])

Rise(p, l) ==
  /\ p \in room[l].seated \ {HostOf[l]}
  /\ RoomChanges(l, [room[l] EXCEPT !.seated = @ \ {p}])

Begin(l) == ~room[l].closed /\ RoomChanges(l, [room[l] EXCEPT !.closed = TRUE])

Destroyed(l) ==
  RoomChanges(l, [live |-> FALSE, closed |-> TRUE, seated |-> {}])

Second ==
  /\ clock < MaxTime
  /\ clock' = clock + 1
  /\ UNCHANGED <<bucket, grants, blocks, room, drawn, probes, answers>>

RelayNext ==
  \/ \E p \in Peer : SetBlocks(p) \/ ProbeNowhere(p)
  \/ \E p \in Peer, l \in Lobby :
       Signal(p, l) \/ Probe(p, l) \/ ProbeAnswer(l, p) \/ Sit(p, l) \/ Rise(p, l)
  \/ \E l \in Lobby : Begin(l) \/ Destroyed(l)
  \/ Second

RelaySpec == RelayInit /\ [][RelayNext]_relayVars

-----------------------------------------------------------------------------
(* Properties *)

RelayTypeOK ==
  /\ clock \in Nat
  /\ bucket \in [Peer -> Bucket]
  /\ grants \subseteq Trace
  /\ blocks \in [Peer -> SUBSET Peer]
  /\ room \in [Lobby -> RelayRoom]
  /\ drawn \in [Peer -> Seq(Nat)]
  /\ probes \subseteq Trace
  /\ answers \subseteq Trace

\* Over any span of time, from any sender's call to any later one, no more
\* signals get past its bucket than a full bucket and the refill of that span
\* allow, `signal` and `probe_signal` together (SignalBucket::allow).
WithinRate ==
  \A p \in Peer : \A i, j \in 1 .. Len(drawn[p]) :
    i <= j => (j - i + 1) * SHARE <= Full + (drawn[p][j] - drawn[p][i])

\* A host reaches a browser only within PROBE_GRANT_TTL of a probe by which
\* that browser reached it about that room, whatever has happened to the room,
\* to seats and to blocks since (handle_probe_signal).
ProbesSolicited ==
  \A a \in answers : \E q \in probes :
    /\ q.peer = a.peer /\ q.lobby = a.lobby
    /\ q.at <= a.at /\ a.at - q.at < PROBE_GRANT_TTL
=============================================================================
