---------------------------- MODULE PairSelection ----------------------------
(***************************************************************************)
(* Which two tickets of the automatch queue become an offer, and when:     *)
(* Queue::pair, find_pair and their rules in src/src/automatch.rs.         *)
(* Automatch lets any two tickets of different accounts pair at any time;  *)
(* here the order of the queue, the rules and the clock decide.            *)
(*                                                                         *)
(* Abstracted: an account has at most one ticket, waiting, on offer or on  *)
(* its way back (Automatch shows what two of them do); how an offer ends   *)
(* is any of the ways it may end.  Ages and cooldowns are counted in ticks *)
(* and stop where no rule tells them apart any more.                       *)
(***************************************************************************)
EXTENDS Integers, Sequences, FiniteSets, SequencesExt, FiniteSetsExt

CONSTANTS
  Queuer,      \* the accounts that queue
  Blocks,      \* Blocks[k]: the accounts k has blocked
  ProfilesOf,  \* what each account may queue with: the titles it would play, in
               \* its order, and whether it offers an endpoint or knows ICE
  MeasuredRtt, \* round trips that are reported, -1 for unmeasured
  PROBE_GRACE_SECS, RTT_START_MS, RTT_STEP_MS, RTT_WIDEN_SECS,
  RTT_UNLIMITED_AFTER_STEPS,
  Cooldown    \* config.automatch_rematch_cooldown_secs

\* The age at which no rule holds a ticket back.
Unlimited == RTT_WIDEN_SECS * RTT_UNLIMITED_AFTER_STEPS

ASSUME PairConstants ==
  /\ Blocks \in [Queuer -> SUBSET Queuer]
  /\ \A k \in Queuer : \A p \in ProfilesOf[k] :
       /\ p.keys \in Seq(ToSet(p.keys)) /\ Len(p.keys) > 0
       /\ p.relay \subseteq {"endpoint", "ice"}
  /\ MeasuredRtt \subseteq Int
  /\ {PROBE_GRACE_SECS, RTT_START_MS, RTT_STEP_MS, Cooldown} \subseteq Nat
  /\ {RTT_WIDEN_SECS, RTT_UNLIMITED_AFTER_STEPS} \subseteq Nat \ {0}
  /\ PROBE_GRACE_SECS <= Unlimited

VARIABLES
  tickets,   \* QueueInner.tickets
  offers,    \* QueueInner.pending
  returning, \* tickets of settled offers, in the hands of the task that settled them
  recent     \* recent[{j, k}]: for how long j and k are recent opponents yet

queueVars == <<tickets, offers, returning, recent>>

Profile == UNION {ProfilesOf[k] : k \in Queuer}

Ticket == [account : Queuer, profile : Profile, rtt : MeasuredRtt, waited : 0 .. Unlimited]

Couple == {{j, k} : j, k \in Queuer}

\* Pending: the two tickets, and which of them is a is left to their ages.
Offer == [pair : SUBSET Ticket]

QueueInit ==
  /\ tickets = <<>>
  /\ offers = {}
  /\ returning = {}
  /\ recent = [x \in Couple |-> 0]

Waiting == {t.account : t \in ToSet(tickets)}

AccountsOf(o) == {t.account : t \in o.pair}

Elsewhere == (UNION {AccountsOf(o) : o \in offers}) \cup {t.account : t \in returning}

-----------------------------------------------------------------------------
(* The rules: may a and b be paired? *)

Keys(t) == ToSet(t.profile.keys)

Older(a, b) == Max({a.waited, b.waited})

relay_possible(a, b) ==
  \/ "endpoint" \in a.profile.relay \cup b.profile.relay
  \/ "ice" \in a.profile.relay \cap b.profile.relay

measurable(t) == t.rtt >= 0 \/ t.waited >= PROBE_GRACE_SECS

\* Mutant of rtt_ok: the ceiling stays where it started.
rtt_ok_capped(a, b) == a.rtt + b.rtt <= RTT_START_MS

rtt_ok(a, b) ==
  LET steps == Older(a, b) \div RTT_WIDEN_SECS IN
  \/ a.rtt < 0 \/ b.rtt < 0
  \/ steps >= RTT_UNLIMITED_AFTER_STEPS
  \/ a.rtt + b.rtt <= RTT_START_MS + steps * RTT_STEP_MS

\* What nothing relaxes: neither time nor the want of another opponent.
Hard(a, b) ==
  /\ a.account # b.account
  /\ a.account \notin Blocks[b.account] /\ b.account \notin Blocks[a.account]
  /\ relay_possible(a, b)

Pairable(a, b) ==
  /\ Keys(a) \cap Keys(b) # {}
  /\ Hard(a, b)
  /\ measurable(a) /\ measurable(b)
  /\ rtt_ok(a, b)

rematch_ok(a, b) ==
  Older(a, b) >= Unlimited \/ recent[{a.account, b.account}] = 0

-----------------------------------------------------------------------------
(* The choice *)

\* The innermost body of find_pair_pass's loops: ticket i, its n-th title, and
\* ticket j, which may be paired for all but recent opponents.
Candidates(q) ==
  {x \in (DOMAIN q) \X (UNION {DOMAIN t.profile.keys : t \in ToSet(q)}) \X (DOMAIN q) :
      LET a == q[x[1]]  b == q[x[3]] IN
      /\ x[1] # x[3]
      /\ x[2] \in DOMAIN a.profile.keys /\ a.profile.keys[x[2]] \in Keys(b)
      /\ Pairable(a, b)}

\* Mutants of Found: a new opponent is a hard rule, or no rule at all.
Found_hard(q, allow_rematch) == {x \in Candidates(q) : rematch_ok(q[x[1]], q[x[3]])}
Found_any(q, allow_rematch) == Candidates(q)

\* find_pair_pass: all that its loops would come to.
Found(q, allow_rematch) ==
  {x \in Candidates(q) : allow_rematch \/ rematch_ok(q[x[1]], q[x[3]])}

\* The order in which the loops come to them.
Before(x, y) ==
  \/ x[1] < y[1]
  \/ x[1] = y[1] /\ x[2] < y[2]
  \/ x[1] = y[1] /\ x[2] = y[2] /\ x[3] <= y[3]

\* Mutant of FirstOf: the last of the queue is served first.
FirstOf_last(S) == {x \in S : \A y \in S : Before(y, x)}

FirstOf(S) == {x \in S : \A y \in S : Before(x, y)}

\* find_pair, none or one: a second pass gives way on recent opponents only.
find_pair(q) ==
  IF Found(q, FALSE) # {} THEN FirstOf(Found(q, FALSE)) ELSE FirstOf(Found(q, TRUE))

\* Mutant of Take: the lower index goes first, and the higher one is another's.
Take_lower(s, x) ==
  LET hi == Max({x[1], x[3]})  lo == Min({x[1], x[3]}) IN
  [queue  |-> RemoveAt(RemoveAt(s.queue, lo), hi),
   offers |-> s.offers \cup {[pair |-> {s.queue[x[1]], s.queue[x[3]]}]}]

\* The loop body of Queue::pair, for the i and j of x: the higher index goes first.
Take(s, x) ==
  LET hi == Max({x[1], x[3]})  lo == Min({x[1], x[3]}) IN
  [queue  |-> RemoveAt(RemoveAt(s.queue, hi), lo),
   offers |-> s.offers \cup {[pair |-> {s.queue[x[1]], s.queue[x[3]]}]}]

Round(s) ==
  IF Candidates(s.queue) = {} THEN {s} ELSE {Take(s, x) : x \in find_pair(s.queue)}

\* Mutant of Rounds: one offer a tick.
Rounds_one(q) == Round([queue |-> q, offers |-> {}])

\* Queue::pair: rounds until no two tickets are left that may be paired.
Rounds(q) ==
  LET round[n \in 0 .. Len(q) \div 2] ==
        IF n = 0 THEN {[queue |-> q, offers |-> {}]}
                 ELSE UNION {Round(s) : s \in round[n - 1]}
  IN round[Len(q) \div 2]

-----------------------------------------------------------------------------
(* One lock scope each *)

\* handle_automatch_queue's push.
Push(k) ==
  /\ k \notin Waiting \cup Elsewhere
  /\ \E p \in ProfilesOf[k], v \in MeasuredRtt :
        tickets' = Append(tickets, [account |-> k, profile |-> p, rtt |-> v, waited |-> 0])
  /\ UNCHANGED <<offers, returning, recent>>

\* Queue::set_rtt: a measurement that comes in while the ticket waits.
SetRtt(i, v) ==
  /\ i \in DOMAIN tickets
  /\ tickets' = [tickets EXCEPT ![i].rtt = v]
  /\ UNCHANGED <<offers, returning, recent>>

\* Queue::remove_player, of one who waits.
Cancel(i) ==
  /\ i \in DOMAIN tickets
  /\ tickets' = RemoveAt(tickets, i)
  /\ UNCHANGED <<offers, returning, recent>>

PairUp ==
  /\ UNCHANGED <<returning, recent>>
  /\ Candidates(tickets) # {}
  /\ \E s \in Rounds(tickets) :
        /\ tickets' = s.queue
        /\ offers' = offers \cup s.offers

\* The offer is answered, lapses or is dropped; form_match notes a match that is
\* made before it knows whether it can start.
Settle(o, played) ==
  /\ offers' = offers \ {o}
  /\ returning' = returning \cup o.pair
  /\ recent' = IF played THEN [recent EXCEPT ![AccountsOf(o)] = Cooldown] ELSE recent
  /\ UNCHANGED tickets

\* Queue::requeue_front.
requeue_front(t) == <<[t EXCEPT !.waited = 0]>> \o tickets

Requeue(t) ==
  /\ tickets' = requeue_front(t)
  /\ returning' = returning \ {t}
  /\ UNCHANGED <<offers, recent>>

\* The decliner, the one who left or who played has no ticket any more.
Spend(t) ==
  /\ returning' = returning \ {t}
  /\ UNCHANGED <<tickets, offers, recent>>

\* A tick of the clock.
Tick ==
  /\ tickets' = [i \in DOMAIN tickets |->
                   [tickets[i] EXCEPT !.waited = Min({@ + 1, Unlimited})]]
  /\ recent' = [x \in Couple |-> Max({recent[x] - 1, 0})]
  /\ <<tickets, recent>>' # <<tickets, recent>>
  /\ UNCHANGED <<offers, returning>>

QueueNext ==
  \/ \E k \in Queuer : Push(k)
  \/ \E i \in DOMAIN tickets : Cancel(i) \/ \E v \in MeasuredRtt : SetRtt(i, v)
  \/ PairUp
  \/ \E o \in offers, played \in BOOLEAN : Settle(o, played)
  \/ \E t \in returning : Requeue(t) \/ Spend(t)
  \/ Tick

QueueSpec == QueueInit /\ [][QueueNext]_queueVars

\* Time passes, and the 1 Hz driver pairs whoever may be paired.
QueueFairSpec == QueueSpec /\ WF_queueVars(Tick) /\ WF_queueVars(PairUp)

-----------------------------------------------------------------------------
(* Safety *)

\* An account is in one place at a time, and its ticket in the queue once: what
\* the indices of Queue::pair's removals must keep.
QueueTypeOK ==
  /\ ToSet(tickets) \subseteq Ticket
  /\ Cardinality(Waiting) = Len(tickets)
  /\ offers \subseteq Offer /\ \A o \in offers : Cardinality(AccountsOf(o)) = 2
  /\ returning \subseteq Ticket
  /\ Waiting \cap Elsewhere = {}
  /\ recent \in [Couple -> 0 .. Cooldown]

\* NewOpponents(a, b): the first pass of find_pair takes a and b.
NewOpponents(a, b) == Pairable(a, b) /\ rematch_ok(a, b)

\* A step of Queue::pair that returns offers.
Offered == offers' \ offers # {}

\* No two who still wait after it may be paired.
PairsAll == Offered => \A a, b \in ToSet(tickets') : ~Pairable(a, b)

\* Pairing ends only when no two who wait may be paired (Queue::pair's loop).
NobodyLeftPairable == [][PairsAll]_queueVars

\* Of two who may meet as new opponents, one at least gets a new opponent.
PrefersNew ==
  Offered =>
    \A a, b \in ToSet(tickets) : NewOpponents(a, b) =>
      \E o \in offers' \ offers :
        /\ {a, b} \cap o.pair # {}
        /\ \A c, d \in o.pair : c # d => rematch_ok(c, d)

\* "prefer a new opponent": two players who may meet as new opponents are not
\* both held back, nor both given old ones (find_pair).
NewOpponentsFirst == [][PrefersNew]_queueVars

\* The first of the queue that may meet a new opponent gets an offer.
ServesFront ==
  Offered =>
    \A i \in DOMAIN tickets :
      (/\ \E b \in ToSet(tickets) : NewOpponents(tickets[i], b)
       /\ \A h \in 1 .. i - 1 : \A b \in ToSet(tickets) : ~NewOpponents(tickets[h], b))
         => \E o \in offers' : tickets[i] \in o.pair

\* Oldest first: the first of the queue that may meet a new opponent gets an
\* offer, whatever the others want (find_pair_pass).
FrontIsServed == [][ServesFront]_queueVars

-----------------------------------------------------------------------------
(* Refinement: no ticket is lost or put back twice, as TicketLedger promises *)

\* A push asks and pushes in one step here: whoever has no ticket may.
askingBar == Queuer \ (Waiting \cup Elsewhere)

waitingBar == [k \in Queuer |-> IF k \in Waiting THEN 1 ELSE 0]

outBar == Elsewhere \X {"match"}

Ledger == INSTANCE TicketLedger
            WITH Who <- Queuer, Slip <- {"match"},
                 asking <- askingBar, waiting <- waitingBar, out <- outBar

\* Whatever a run of Queue::pair offers it has taken from the queue, each ticket
\* once and nobody else's (its removals by index), and nothing else comes back.
ImplementsTicketLedger == Ledger!Spec

-----------------------------------------------------------------------------
(* Liveness, under QueueFairSpec *)

\* "A queue that never matches is worse than a match a player can decline":
\* unless a hard rule keeps them apart, two who play one title do not both wait
\* for ever, whatever they measure and whomever they have just played.
SomebodyIsMatched ==
  \A x \in Couple :
    (\E a, b \in ToSet(tickets) :
        {a.account, b.account} = x /\ Hard(a, b) /\ Keys(a) \cap Keys(b) # {})
      ~> ~(x \subseteq Waiting)

-----------------------------------------------------------------------------
(* What the repository says and the code does not keep *)

\* requeue_front: "making them serve a second full wait would be a penalty for
\* somebody else's decline".  Whoever had waited long enough to be paired, and
\* was, has waited long enough when it comes back.
NoSecondWait ==
  [][\A t \in returning \ returning' : t.account \in Waiting' =>
       \A u \in ToSet(tickets) : Pairable(t, u) =>
         \E s \in ToSet(tickets') : s.account = t.account /\ Pairable(s, u)]_queueVars
=============================================================================
