--------------------------- MODULE MatchRulesProofs ---------------------------
(***************************************************************************)
(* Proofs about the rules automatch makes a match by: the delay it runs at *)
(* (DelayFloor), for any reports, frame lengths and authored numbers; the  *)
(* cooldown before it (MatchHistory), for any players, ladder, window and  *)
(* retention; and who is paired (PairSelection), for any accounts,         *)
(* profiles, measurements and tuning.                                      *)
(*                                                                         *)
(* How many frames a link needs is one number for the argument: what the   *)
(* tier table and the runway leave uncovered of it, the delay takes, and   *)
(* only the launcher's limits can take that back.                          *)
(*                                                                         *)
(* A sweep takes no strike a cooldown counts, and one strike more raises   *)
(* both the rung and the time it is counted from.  That a latest strike    *)
(* exists at all is kept by every step, so it needs no induction over the  *)
(* set of strikes.                                                         *)
(*                                                                         *)
(* Queue::pair is a loop, and what it has done after n rounds is told by   *)
(* induction over n: a set of numbers with 0 and with every number's       *)
(* successor has them all (EveryCount).  RunOK is what the rounds keep,    *)
(* and PairingIs what they come to.  A step is one of the ledger's, by     *)
(* where it moves accounts: into the queue, out of it, onto an offer or    *)
(* back (PlacesTell).                                                      *)
(***************************************************************************)
EXTENDS DelayFloor, MatchHistory, PairSelection, FiniteSetTheorems, FunctionTheorems,
        SequenceTheorems, WellFoundedInduction, TLAPS

-----------------------------------------------------------------------------
(* The delay floor: ranges *)

LEMMA NeededInt ==
  ASSUME NEW a \in Int, NEW b \in Int, NEW frame \in Nat \ {0}
  PROVE  frames_needed(a, b, frame) \in Int
<1>1. (a + b) * 500 + frame - 1 \in Int
  OBVIOUS
<1>2. ((a + b) * 500 + frame - 1) \div frame \in Int
  BY <1>1
<1> QED
  BY <1>2 DEF frames_needed, JITTER_MARGIN_FRAMES

LEMMA TableRange ==
  ASSUME NEW rtt \in Int
  PROVE  hosted_rollback_delay(rtt) \in 3 .. 10
BY DEF hosted_rollback_delay

LEMMA DelayOnlyRange ==
  ASSUME NEW rtt \in Int
  PROVE  hosted_delay_only(rtt) \in 3 .. MAX_DELAY
<1>1. Larger(rtt, 0) + 32 \in Int
  BY DEF Larger
<1>2. (Larger(rtt, 0) + 32) \div 33 \in Int
  BY <1>1
<1> QED
  BY <1>2 DEF hosted_delay_only, Larger, Clamp, MAX_DELAY

\* What a link holds: a report replaces one number of it.
LEMMA LinkFields ==
  ASSUME NEW o \in OfferedLink
  PROVE  /\ o.a \in Int /\ o.b \in Int /\ o.frame \in Nat \ {0}
         /\ o.delay \in Nat /\ o.prediction \in Nat /\ o.rollback \in BOOLEAN
         /\ Needed(o) \in Int
<1>1. Rtt \subseteq Int
  <2>1. \A raw \in Int : sanitize_rtt(raw) \in Int
    BY DEF sanitize_rtt, MAX_REPORTED_RTT_MS
  <2>2. \A raw \in Reported : sanitize_rtt(raw) \in Int
    BY <2>1, FloorConstants
  <2> QED
    BY <2>2 DEF Rtt
<1>2. Rtt \cup {-1} \subseteq Int
  BY <1>1
<1>3. /\ o.a \in Rtt \cup {-1} /\ o.b \in Rtt \cup {-1} /\ o.frame \in FrameUs
      /\ o.delay \in Authored /\ o.prediction \in Authored /\ o.rollback \in BOOLEAN
  BY DEF OfferedLink
<1>4. /\ o.a \in Int /\ o.b \in Int /\ o.frame \in Nat \ {0}
      /\ o.delay \in Nat /\ o.prediction \in Nat /\ o.rollback \in BOOLEAN
  BY <1>2, <1>3, FloorConstants
<1> QED
  BY <1>4, NeededInt DEF Needed

-----------------------------------------------------------------------------
(* The delay floor: its arithmetic *)

\* n frames to cover, t by the table and y authored, w the runway at t; d is
\* the delay that results and p the runway at d.
LEMMA RollbackCovers ==
  ASSUME NEW n \in Int, NEW t \in Nat, NEW y \in Nat, NEW w \in Int,
         NEW d \in Int, NEW p \in Int, t >= 3,
         w = Larger(hosted_rollback_prediction(t), y),
         d = t + Larger(n - (t + w), 0),
         p = Larger(hosted_rollback_prediction(d), y)
  PROVE  LET D == Clamp(d, MIN_DELAY, MAX_DELAY)
             P == Clamp(p, MIN_PREDICTION, MAX_PREDICTION)
         IN  /\ \/ y > MAX_PREDICTION
                \/ D + P >= n
                \/ D = MAX_DELAY /\ P = MAX_PREDICTION
             /\ P >= hosted_rollback_prediction(D)
BY DEF Larger, Clamp, hosted_rollback_prediction,
       MIN_DELAY, MAX_DELAY, MIN_PREDICTION, MAX_PREDICTION

LEMMA ClampKeepsOrder ==
  ASSUME NEW x \in Int, NEW y \in Int, NEW low \in Int, NEW high \in Int,
         x >= y, low <= high
  PROVE  Clamp(x, low, high) >= Clamp(y, low, high)
BY DEF Clamp

LEMMA Covers ==
  ASSUME NEW o \in OfferedLink
  PROVE  LET f == delay_floor(o) IN
         /\ f.input_delay >= Clamp(o.delay, MIN_DELAY, MAX_DELAY)
         /\ Needed(o) > 0 =>
              IF o.rollback
              THEN /\ \/ o.prediction > MAX_PREDICTION
                      \/ f.input_delay + f.input_prediction >= Needed(o)
                      \/ f.input_delay = MAX_DELAY /\ f.input_prediction = MAX_PREDICTION
                   /\ f.input_prediction >= hosted_rollback_prediction(f.input_delay)
              ELSE f.input_delay >= Needed(o) \/ f.input_delay = MAX_DELAY
<1> DEFINE n == Needed(o)
           y == o.prediction
           t == Tier(o)
           w == Runway(o, t)
           d == RollbackDelay(o)
           p == RollbackRunway(o)
           f == delay_floor(o)
           e == Larger(Larger(hosted_delay_only(o.a + o.b), n), o.delay)
<1>1. /\ n \in Int /\ y \in Nat /\ o.delay \in Nat /\ o.rollback \in BOOLEAN
      /\ o.a + o.b \in Int
  BY LinkFields
<1>2. hosted_rollback_delay(o.a + o.b) \in 3 .. 10
  BY <1>1, TableRange
<1>3. hosted_delay_only(o.a + o.b) \in 3 .. MAX_DELAY
  BY <1>1, DelayOnlyRange
<1>4. t \in Nat /\ t >= 3 /\ t >= o.delay
  BY <1>1, <1>2 DEF Tier, Larger
<1>5. w = Larger(hosted_rollback_prediction(t), y) /\ w \in Int
  BY <1>1, <1>4 DEF Runway, Larger, hosted_rollback_prediction, Clamp, MAX_PREDICTION
<1>6. d = t + Larger(n - (t + w), 0)
  BY DEF RollbackDelay, Shortfall
<1>7. p = Larger(hosted_rollback_prediction(d), y)
  BY DEF RollbackRunway, Runway
<1>8. d \in Int /\ d >= o.delay /\ e \in Int /\ e >= o.delay /\ e >= n
  BY <1>1, <1>3, <1>4, <1>5, <1>6 DEF Larger, MAX_DELAY
<1>9. p \in Int
  BY <1>1, <1>7, <1>8 DEF Larger, hosted_rollback_prediction, Clamp, MAX_PREDICTION
<1>10. /\ f.input_delay = Clamp(Unclamped(o).d, MIN_DELAY, MAX_DELAY)
       /\ f.input_prediction = Clamp(Unclamped(o).p, MIN_PREDICTION, MAX_PREDICTION)
  BY DEF delay_floor
<1>11. /\ n = 0 => Unclamped(o).d = o.delay
       /\ n # 0 /\ o.rollback => Unclamped(o) = [d |-> d, p |-> p]
       /\ n # 0 /\ ~o.rollback => Unclamped(o).d = e
  BY <1>1 DEF Unclamped
<1> HIDE DEF n, y, t, w, d, p, f, e
<1>12. f.input_delay >= Clamp(o.delay, MIN_DELAY, MAX_DELAY)
  <2>1. Unclamped(o).d \in Int /\ Unclamped(o).d >= o.delay
    BY <1>1, <1>8, <1>11
  <2> QED
    BY <1>1, <1>10, <2>1, ClampKeepsOrder DEF MIN_DELAY, MAX_DELAY
<1>13. ASSUME n > 0, o.rollback
       PROVE  /\ \/ y > MAX_PREDICTION
                 \/ f.input_delay + f.input_prediction >= n
                 \/ f.input_delay = MAX_DELAY /\ f.input_prediction = MAX_PREDICTION
              /\ f.input_prediction >= hosted_rollback_prediction(f.input_delay)
  <2>1. Unclamped(o).d = d /\ Unclamped(o).p = p
    BY <1>1, <1>11, <1>13
  <2> QED
    BY <1>1, <1>4, <1>5, <1>6, <1>7, <1>8, <1>9, <1>10, <2>1, RollbackCovers
<1>14. ASSUME n > 0, ~o.rollback
       PROVE  f.input_delay >= n \/ f.input_delay = MAX_DELAY
  <2>1. Unclamped(o).d = e
    BY <1>1, <1>11, <1>14
  <2> QED
    BY <1>1, <1>8, <1>10, <2>1 DEF Clamp, MIN_DELAY, MAX_DELAY
<1> QED
  BY <1>12, <1>13, <1>14 DEF n, y, f

-----------------------------------------------------------------------------
(* The delay floor: the theorem *)

FloorTypeOK == offer \in OfferedLink

LEMMA ReportKeeps == FloorTypeOK /\ [Report]_offer => FloorTypeOK'
<1>1. ASSUME NEW r \in Rtt, offer \in OfferedLink
      PROVE  [offer EXCEPT !.a = r] \in OfferedLink /\ [offer EXCEPT !.b = r] \in OfferedLink
  BY <1>1 DEF OfferedLink
<1>2. ASSUME NEW raw \in Reported PROVE sanitize_rtt(raw) \in Rtt
  BY DEF Rtt
<1> QED
  BY <1>1, <1>2 DEF Report, FloorTypeOK

\* A report replaces a round trip by another that may be reported (Report).
THEOREM FloorTypesAlways == FloorSpec => []FloorTypeOK
<1>1. FloorInit => FloorTypeOK
  BY DEF FloorInit, FloorTypeOK
<1> QED
  BY <1>1, ReportKeeps, PTL DEF FloorSpec

\* Whatever its players report and its ruleset authors, a measured match runs at
\* a delay and a runway that cover the trip of an input as far as the launcher's
\* limits allow (delay_floor).
THEOREM FloorCoversTripAlways == FloorSpec => []FloorCoversTrip
<1>1. FloorTypeOK => FloorCoversTrip
  BY Covers DEF FloorCoversTrip, FloorTypeOK
<1> QED
  BY <1>1, FloorTypesAlways, PTL

-----------------------------------------------------------------------------
(* Cooldowns: the inductive invariant *)

StrikesOf(a) == {x \in history : x.table = "strike" /\ x.who = a}

IsLatest(x, S) == \A y \in S : y.at <= x.at

HasLatest == \A a \in PlayerId : StrikesOf(a) # {} => \E x \in StrikesOf(a) : IsLatest(x, StrikesOf(a))

HistoryInv ==
  /\ HistoryTypeOK
  /\ IsFiniteSet(history)
  /\ \A x \in history : x.at <= time
  /\ HasLatest

-----------------------------------------------------------------------------
(* Cooldowns: the ladder *)

LEMMA LadderNonEmpty == Len(LADDER) \in Nat \ {0} /\ \A n \in 1 .. Len(LADDER) : LADDER[n] \in Nat
BY HistoryConstants

LEMMA PenaltyNat ==
  ASSUME NEW n \in Nat \ {0}
  PROVE  Penalty(n) \in Nat
BY LadderNonEmpty DEF Penalty

LEMMA PenaltyRises ==
  ASSUME Rising, NEW m \in Nat \ {0}, NEW n \in Nat, m <= n
  PROVE  Penalty(m) <= Penalty(n)
<1>1. DOMAIN LADDER = 1 .. Len(LADDER)
  BY HistoryConstants
<1>2. \A i, j \in 1 .. Len(LADDER) : i <= j => LADDER[i] <= LADDER[j]
  BY <1>1 DEF Rising
<1> QED
  BY <1>2, LadderNonEmpty DEF Penalty

-----------------------------------------------------------------------------
(* Cooldowns: what they are computed from *)

\* The strikes counted, if there are any, hold the latest of all.
LEMMA LatestCounted ==
  ASSUME HistoryInv, NEW a \in PlayerId, Counted(a) # {}
  PROVE  /\ Latest(a) \in Nat /\ Latest(a) <= time
         /\ IsFiniteSet(Counted(a))
         /\ Cardinality(Counted(a)) \in Nat \ {0}
<1>1. Counted(a) \subseteq StrikesOf(a) /\ StrikesOf(a) \subseteq history
  BY DEF Counted, StrikesOf
<1>2. PICK x \in StrikesOf(a) : IsLatest(x, StrikesOf(a))
  BY <1>1 DEF HistoryInv, HasLatest
<1>3. time \in Nat /\ \A y \in history : y.at \in Nat /\ y.at <= time
  BY DEF HistoryInv, HistoryTypeOK, HistoryRow
<1>4. x \in Counted(a)
  <2>1. PICK y \in Counted(a) : TRUE
    OBVIOUS
  <2>2. y.at + STRIKE_WINDOW >= time /\ y.at <= x.at /\ y \in history /\ x \in history
    BY <1>1, <1>2, <2>1 DEF Counted, IsLatest
  <2>3. x.at + STRIKE_WINDOW >= time
    BY <1>3, <2>2, HistoryConstants
  <2> QED
    BY <1>2, <2>3 DEF Counted, StrikesOf
<1> DEFINE T == {y.at : y \in Counted(a)}
<1>5. x.at \in T /\ \A t \in T : x.at >= t
  BY <1>1, <1>2, <1>3, <1>4 DEF IsLatest
<1>6. Max(T) \in T
  BY <1>5 DEF Max
<1>7. Latest(a) \in Nat /\ Latest(a) <= time
  BY <1>1, <1>3, <1>6 DEF Latest
<1>8. IsFiniteSet(Counted(a))
  BY <1>1, FS_Subset DEF HistoryInv
<1>9. Cardinality(Counted(a)) \in Nat /\ Cardinality(Counted(a)) # 0
  BY <1>8, FS_CardinalityType, FS_EmptySet
<1> QED
  BY <1>7, <1>8, <1>9

LEMMA CooldownNat ==
  ASSUME HistoryInv, NEW a \in PlayerId
  PROVE  cooldown_secs(a) \in Nat
<1>1. CASE Counted(a) = {}
  BY <1>1 DEF cooldown_secs
<1>2. CASE Counted(a) # {}
  <2>1. /\ Latest(a) \in Nat /\ Latest(a) <= time /\ time \in Nat
        /\ Penalty(Cardinality(Counted(a))) \in Nat
    BY <1>2, LatestCounted, PenaltyNat DEF HistoryInv, HistoryTypeOK
  <2> DEFINE q == Penalty(Cardinality(Counted(a)))
             l == Latest(a)
  <2>2. cooldown_secs(a) = LeftOf(q, time - l)
    BY <1>2 DEF cooldown_secs
  <2>3. q \in Nat /\ time - l \in Nat
    BY <2>1
  <2> HIDE DEF q, l
  <2> QED
    BY <2>2, <2>3 DEF LeftOf
<1> QED
  BY <1>1, <1>2

-----------------------------------------------------------------------------
(* Cooldowns: the steps *)

\* A sweep goes back at least as far as the strikes that count.
LEMMA SweepKeepsCounted ==
  ASSUME HistoryInv, Prune, NEW a \in PlayerId
  PROVE  Counted(a)' = Counted(a)
<1>1. PICK swept \in {{"strike"}, {"strike", "pairing"}, {"strike", "pairing", "desync"}} :
        history' = {x \in history : x.table \in swept => Kept(x)}
  BY DEF Prune
<1>2. time' = time /\ time \in Nat
  BY DEF Prune, HistoryInv, HistoryTypeOK
<1>3. Cutoff("strike") \in Nat /\ Cutoff("strike") >= STRIKE_WINDOW
  BY HistoryConstants DEF Cutoff, cutoff_secs, LongerOf
<1>4. ASSUME NEW x \in Counted(a) PROVE x \in history'
  <2>1. x \in history /\ x.table = "strike" /\ x.at \in Nat /\ x.at + STRIKE_WINDOW >= time
    BY DEF Counted, HistoryInv, HistoryTypeOK, HistoryRow
  <2>2. Kept(x)
    BY <1>2, <1>3, <2>1, HistoryConstants DEF Kept
  <2> QED
    BY <1>1, <2>1, <2>2
<1>5. history' \subseteq history
  BY <1>1
<1> QED
  BY <1>2, <1>4, <1>5 DEF Counted

LEMMA PruneKeeps ==
  ASSUME HistoryInv, Prune
  PROVE  HistoryInv'
<1>1. PICK swept \in {{"strike"}, {"strike", "pairing"}, {"strike", "pairing", "desync"}} :
        history' = {x \in history : x.table \in swept => Kept(x)}
  BY DEF Prune
<1>2. time' = time /\ written' = written
  BY DEF Prune
<1>3. history' \subseteq history /\ "strike" \in swept
  BY <1>1
<1>4. HistoryTypeOK' /\ \A x \in history' : x.at <= time'
  BY <1>2, <1>3 DEF HistoryInv, HistoryTypeOK
<1>5. IsFiniteSet(history')
  BY <1>3, FS_Subset DEF HistoryInv
<1>6. ASSUME NEW a \in PlayerId, StrikesOf(a)' # {}
      PROVE  \E x \in StrikesOf(a)' : IsLatest(x, StrikesOf(a)')
  <2>1. StrikesOf(a)' \subseteq StrikesOf(a)
    BY <1>3 DEF StrikesOf
  <2>2. PICK x \in StrikesOf(a) : IsLatest(x, StrikesOf(a))
    BY <1>6, <2>1 DEF HistoryInv, HasLatest
  <2>3. PICK y \in StrikesOf(a)' : TRUE
    BY <1>6
  <2>4. y \in history /\ y.table = "strike" /\ Kept(y) /\ y.at <= x.at
    BY <1>1, <1>3, <2>1, <2>2, <2>3 DEF StrikesOf, IsLatest
  <2>5. x \in history /\ x.table = "strike" /\ x.who = a
    BY DEF StrikesOf
  <2>6. x.at \in Nat /\ y.at \in Nat /\ time \in Nat
    BY <2>4, <2>5 DEF HistoryInv, HistoryTypeOK, HistoryRow
  <2>7. Cutoff("strike") \in Nat
    BY HistoryConstants DEF Cutoff, cutoff_secs, LongerOf
  <2>8. Kept(x)
    BY <2>4, <2>5, <2>6, <2>7 DEF Kept
  <2>9. x \in StrikesOf(a)'
    BY <1>1, <2>5, <2>8 DEF StrikesOf
  <2> QED
    BY <2>1, <2>2, <2>9 DEF IsLatest
<1>7. HasLatest'
  BY <1>6 DEF HasLatest, IsLatest
<1> QED
  BY <1>4, <1>5, <1>7 DEF HistoryInv

\* A row written is as late as any.
LEMMA WriteRowKeeps ==
  ASSUME HistoryInv, NEW t \in {"strike", "pairing", "desync"}, NEW b \in PlayerId, WriteRow(t, b)
  PROVE  HistoryInv'
<1> DEFINE new == [table |-> t, who |-> b, n |-> written, at |-> time]
<1>1. history' = history \cup {new} /\ time' = time /\ written' = written + 1
  BY DEF WriteRow
<1>2. time \in Nat /\ written \in Nat /\ \A x \in history : x.at \in Nat /\ x.at <= time
  BY DEF HistoryInv, HistoryTypeOK, HistoryRow
<1>3. new \in HistoryRow /\ new.at = time /\ new.table = t /\ new.who = b
  BY <1>2 DEF HistoryRow
<1> HIDE DEF new
<1>4. HistoryTypeOK' /\ \A x \in history' : x.at <= time'
  BY <1>1, <1>2, <1>3 DEF HistoryInv, HistoryTypeOK
<1>5. IsFiniteSet(history')
  BY <1>1, FS_AddElement DEF HistoryInv
<1>6. ASSUME NEW a \in PlayerId, StrikesOf(a)' # {}
      PROVE  \E x \in StrikesOf(a)' : IsLatest(x, StrikesOf(a)')
  <2>1. StrikesOf(a)' \subseteq history'
    BY DEF StrikesOf
  <2>2. CASE t = "strike" /\ b = a
    <3>1. new \in StrikesOf(a)'
      BY <1>1, <1>3, <2>2 DEF StrikesOf
    <3> QED
      BY <1>1, <1>3, <1>4, <2>1, <3>1 DEF IsLatest
  <2>3. CASE ~(t = "strike" /\ b = a)
    <3>1. StrikesOf(a)' = StrikesOf(a)
      BY <1>1, <1>3, <2>3 DEF StrikesOf
    <3> QED
      BY <1>6, <3>1 DEF HistoryInv, HasLatest
  <2> QED
    BY <2>2, <2>3
<1>7. HasLatest'
  BY <1>6 DEF HasLatest, IsLatest
<1> QED
  BY <1>4, <1>5, <1>7 DEF HistoryInv

\* One row more shortens no cooldown.
LEMMA WriteRowFreesNobody ==
  ASSUME HistoryInv, Rising, NEW t \in {"strike", "pairing", "desync"}, NEW b \in PlayerId,
         WriteRow(t, b), NEW a \in PlayerId
  PROVE  cooldown_secs(a)' >= cooldown_secs(a)
<1> DEFINE new == [table |-> t, who |-> b, n |-> written, at |-> time]
<1>1. history' = history \cup {new} /\ time' = time
  BY DEF WriteRow
<1>2. time \in Nat
  BY DEF HistoryInv, HistoryTypeOK
<1>3. new.at = time /\ new.table = t /\ new.who = b
  OBVIOUS
<1> HIDE DEF new
<1>4. HistoryInv'
  BY WriteRowKeeps
<1>5. cooldown_secs(a) \in Nat
  BY CooldownNat
<1>6. CASE ~(t = "strike" /\ b = a)
  <2>1. Counted(a)' = Counted(a)
    BY <1>1, <1>3, <1>6 DEF Counted
  <2>2. cooldown_secs(a)' = cooldown_secs(a)
    BY <1>1, <2>1 DEF cooldown_secs, Latest, Penalty, LeftOf, Max
  <2> QED
    BY <1>5, <2>2
<1>7. CASE t = "strike" /\ b = a
  <2>1. Counted(a)' = Counted(a) \cup {new}
    BY <1>1, <1>2, <1>3, <1>7, HistoryConstants DEF Counted
  <2> DEFINE m == Cardinality(Counted(a))
             n == Cardinality(Counted(a)')
  <2>2. IsFiniteSet(Counted(a)')
    <3>1. Counted(a)' \subseteq history'
      BY DEF Counted
    <3> QED
      BY <1>4, <3>1, FS_Subset DEF HistoryInv
  <2>3. n \in Nat \ {0}
    BY <2>1, <2>2, FS_CardinalityType, FS_EmptySet
  <2>4. Latest(a)' = time
    <3> DEFINE T == {x.at : x \in Counted(a)'}
    <3>1. time \in T
      BY <1>3, <2>1
    <3>2. \A s \in T : s \in Nat /\ s <= time
      BY <1>1, <1>4 DEF Counted, HistoryInv, HistoryTypeOK, HistoryRow
    <3>3. Max(T) \in T /\ \A s \in T : Max(T) >= s
      BY <1>2, <3>1, <3>2 DEF Max
    <3>4. Max(T) = time
      BY <1>2, <3>1, <3>2, <3>3
    <3> QED
      BY <3>4 DEF Latest, Max
  <2>5. cooldown_secs(a)' = Penalty(n)
    <3>1. Penalty(n) \in Nat
      BY <2>3, PenaltyNat
    <3>2. cooldown_secs(a)' = LeftOf(Penalty(n), time - time)
      BY <1>1, <2>1, <2>4 DEF cooldown_secs, Penalty, LeftOf
    <3> QED
      BY <1>2, <3>1, <3>2 DEF LeftOf
  <2>6. CASE Counted(a) = {}
    BY <2>3, <2>5, <2>6, PenaltyNat DEF cooldown_secs
  <2>7. CASE Counted(a) # {}
    <3>1. /\ Latest(a) \in Nat /\ Latest(a) <= time
          /\ m \in Nat \ {0}
      BY <2>7, LatestCounted
    <3>2. m <= n
      BY <2>1, <2>2, FS_Subset
    <3>3. Penalty(m) <= Penalty(n) /\ Penalty(m) \in Nat /\ Penalty(n) \in Nat
      BY <2>3, <3>1, <3>2, PenaltyRises, PenaltyNat
    <3>4. cooldown_secs(a) = LeftOf(Penalty(m), time - Latest(a))
      BY <2>7 DEF cooldown_secs
    <3> DEFINE q == Penalty(m)
               l == Latest(a)
    <3>5. q \in Nat /\ l \in Nat /\ l <= time /\ cooldown_secs(a) = LeftOf(q, time - l)
          /\ q <= Penalty(n)
      BY <3>1, <3>3, <3>4
    <3> HIDE DEF q, l, m, n
    <3>6. LeftOf(q, time - l) <= q
      BY <1>2, <3>5 DEF LeftOf
    <3> QED
      BY <1>5, <2>5, <3>3, <3>5, <3>6
  <2> QED
    BY <2>6, <2>7
<1> QED
  BY <1>6, <1>7

LEMMA TimePassesKeeps ==
  ASSUME HistoryInv, TimePasses
  PROVE  HistoryInv'
<1>1. time' = time + 1 /\ history' = history /\ written' = written /\ time \in Nat
  BY DEF TimePasses, HistoryInv, HistoryTypeOK
<1>2. \A x \in history : x.at \in Nat /\ x.at <= time
  BY DEF HistoryInv, HistoryTypeOK, HistoryRow
<1>3. HistoryTypeOK' /\ \A x \in history' : x.at <= time'
  BY <1>1, <1>2 DEF HistoryInv, HistoryTypeOK
<1>4. HasLatest'
  BY <1>1 DEF HistoryInv, HasLatest, StrikesOf, IsLatest
<1> QED
  BY <1>1, <1>3, <1>4 DEF HistoryInv

-----------------------------------------------------------------------------
(* Cooldowns: the theorem *)

LEMMA HistoryInvInit == HistoryInit => HistoryInv
BY FS_EmptySet DEF HistoryInit, HistoryInv, HistoryTypeOK, HasLatest, StrikesOf

LEMMA HistoryInvStep == HistoryInv /\ [HistoryNext]_historyVars => HistoryInv'
<1>1. ASSUME HistoryInv, UNCHANGED historyVars PROVE HistoryInv'
  BY <1>1 DEF historyVars, HistoryInv, HistoryTypeOK, HasLatest, StrikesOf, IsLatest
<1> QED
  BY <1>1, WriteRowKeeps, PruneKeeps, TimePassesKeeps DEF HistoryNext

\* What a step may never do: shorten a cooldown while no time passes.
FreesNobody == Rising /\ time' = time => \A a \in PlayerId : cooldown_secs(a)' >= cooldown_secs(a)

LEMMA StepFreesNobody == HistoryInv /\ [HistoryNext]_historyVars => [FreesNobody]_historyVars
<1> SUFFICES ASSUME HistoryInv, HistoryNext, Rising, time' = time, NEW a \in PlayerId
             PROVE  cooldown_secs(a)' >= cooldown_secs(a)
  BY DEF FreesNobody
<1>1. ASSUME NEW b \in PlayerId, WriteRow("strike", b) \/ WriteRow("pairing", b) \/ WriteRow("desync", b)
      PROVE  cooldown_secs(a)' >= cooldown_secs(a)
  BY <1>1, WriteRowFreesNobody
<1>2. CASE Prune
  <2>1. Counted(a)' = Counted(a)
    BY <1>2, SweepKeepsCounted
  <2>2. cooldown_secs(a)' = cooldown_secs(a)
    BY <2>1 DEF cooldown_secs, Latest, Penalty, LeftOf, Max
  <2> QED
    BY <2>2, CooldownNat
<1>3. CASE TimePasses
  BY <1>3 DEF TimePasses, HistoryInv, HistoryTypeOK
<1> QED
  BY <1>1, <1>2, <1>3 DEF HistoryNext

\* The rows of the three tables have their types, and whoever has strikes has a
\* latest one (record_strike, record_pairing, prune).
THEOREM HistoryInvAlways == HistorySpec => []HistoryInv
BY HistoryInvInit, HistoryInvStep, PTL DEF HistorySpec

\* Nothing but time shortens a cooldown, whatever the ladder, the window and the
\* retention: no sweep, no strike more (prune, cutoff_secs, cooldown_secs).
THEOREM OnlyTimeFreesAlways == HistorySpec => OnlyTimeFrees
<1>1. HistoryInv /\ [HistoryNext]_historyVars => [FreesNobody]_historyVars
  BY StepFreesNobody
<1>2. HistorySpec => [][FreesNobody]_historyVars
  BY <1>1, HistoryInvAlways, PTL DEF HistorySpec
<1> QED
  BY <1>2 DEF OnlyTimeFrees, FreesNobody

-----------------------------------------------------------------------------
(* Induction over the numbers *)

LEMMA LeastNumber ==
  ASSUME NEW T \in SUBSET Nat, T # {}
  PROVE  \E n \in T : \A m \in T : n <= m
<1>1. PICK n \in T : \A m \in T : ~(<<m, n>> \in OpToRel(<, Nat))
  BY NatLessThanWellFounded, WFMin
<1>2. \A m \in T : ~(m < n)
  BY <1>1 DEF OpToRel
<1> QED BY <1>2

LEMMA EveryCount ==
  ASSUME NEW S \in SUBSET Nat, 0 \in S, \A n \in S : n + 1 \in S
  PROVE  S = Nat
<1> SUFFICES ASSUME Nat \ S # {} PROVE FALSE
  OBVIOUS
<1>1. PICK n \in Nat \ S : \A m \in Nat \ S : n <= m
  BY LeastNumber
<1>2. n # 0 /\ n - 1 \in Nat
  OBVIOUS
<1>3. n - 1 \in S
  BY <1>1, <1>2
<1> QED BY <1>2, <1>3

-----------------------------------------------------------------------------
(* The queue *)

\* No account has two tickets in q.
OnePerAccount(q) ==
  \A i, j \in 1 .. Len(q) : q[i].account = q[j].account => i = j

LEMMA ToSetIs ==
  ASSUME NEW E, NEW q \in Seq(E)
  PROVE  /\ DOMAIN q = 1 .. Len(q) /\ Len(q) \in Nat
         /\ ToSet(q) \subseteq E
         /\ \A t : t \in ToSet(q) <=> \E i \in 1 .. Len(q) : t = q[i]
BY DEF ToSet

\* A ticket leaves the queue, the others keep their order.
LEMMA RemoveOne ==
  ASSUME NEW E, NEW q \in Seq(E), NEW i \in 1 .. Len(q)
  PROVE  /\ RemoveAt(q, i) \in Seq(E) /\ Len(RemoveAt(q, i)) = Len(q) - 1
         /\ \A k \in 1 .. Len(q) - 1 :
              RemoveAt(q, i)[k] = IF k < i THEN q[k] ELSE q[k + 1]
<1>1. PICK a, b : a = SubSeq(q, 1, i - 1) /\ b = SubSeq(q, i + 1, Len(q))
  OBVIOUS
<1>2. /\ a \in Seq(E) /\ Len(a) = i - 1 /\ \A k \in 1 .. i - 1 : a[k] = q[k]
      /\ b \in Seq(E) /\ Len(b) = Len(q) - i /\ \A k \in 1 .. Len(q) - i : b[k] = q[i + k]
  BY <1>1
<1>3. PICK c : c = a \o b
  OBVIOUS
<1>4. c \in Seq(E) /\ Len(c) = Len(a) + Len(b)
  <2>1. a \in Seq(E) /\ b \in Seq(E)
    BY <1>2
  <2> QED BY <1>3, <2>1, ConcatProperties
<1>5. \A k \in 1 .. Len(a) + Len(b) : c[k] = IF k <= Len(a) THEN a[k] ELSE b[k - Len(a)]
  BY <1>2, <1>3
<1>6. Len(c) = Len(q) - 1
  BY <1>2, <1>4
<1>7. ASSUME NEW k \in 1 .. Len(q) - 1
      PROVE  c[k] = IF k < i THEN q[k] ELSE q[k + 1]
  <2>0. k \in 1 .. Len(a) + Len(b) /\ i \in Int /\ Len(q) \in Nat
    BY <1>2
  <2>1. CASE k < i
    <3>1. k \in 1 .. i - 1 /\ k <= Len(a)
      BY <1>2, <2>0, <2>1
    <3> QED BY <1>2, <1>5, <2>0, <2>1, <3>1
  <2>2. CASE k >= i
    <3>1. k - Len(a) \in 1 .. Len(q) - i /\ i + (k - Len(a)) = k + 1 /\ ~(k <= Len(a))
      BY <1>2, <2>0, <2>2
    <3>2. c[k] = b[k - Len(a)] /\ b[k - Len(a)] = q[i + (k - Len(a))]
      BY <1>2, <1>5, <2>0, <3>1
    <3> QED BY <2>0, <2>2, <3>1, <3>2
  <2> QED BY <2>0, <2>1, <2>2
<1>8. RemoveAt(q, i) = c
  BY <1>1, <1>3 DEF RemoveAt
<1> QED BY <1>4, <1>6, <1>7, <1>8

LEMMA PairMax ==
  ASSUME NEW a \in Int, NEW b \in Int
  PROVE  Max({a, b}) = (IF a >= b THEN a ELSE b) /\ Min({a, b}) = IF a <= b THEN a ELSE b
BY DEF Max, Min

\* r is q without its tickets lo and hi.
WithoutTwo(E, q, lo, hi, r) ==
  /\ r \in Seq(E) /\ Len(r) = Len(q) - 2
  /\ \A k \in 1 .. Len(r) : \E m \in 1 .. Len(q) : m # lo /\ m # hi /\ r[k] = q[m]
  /\ \A m \in 1 .. Len(q) : m # lo /\ m # hi => \E k \in 1 .. Len(r) : r[k] = q[m]
  /\ OnePerAccount(q) => OnePerAccount(r)

\* Two tickets leave the queue, the one further back first (Queue::pair).
LEMMA RemoveTwo ==
  ASSUME NEW E, NEW q \in Seq(E), NEW hi \in 1 .. Len(q), NEW lo \in 1 .. Len(q), lo < hi,
         NEW r, r = RemoveAt(RemoveAt(q, hi), lo)
  PROVE  WithoutTwo(E, q, lo, hi, r)
<1>0. lo \in Int /\ hi \in Int /\ Len(q) \in Nat
  OBVIOUS
<1>2. PICK s : s = RemoveAt(q, hi)
  OBVIOUS
<1>3. /\ s \in Seq(E) /\ Len(s) = Len(q) - 1
      /\ \A k \in 1 .. Len(q) - 1 : s[k] = IF k < hi THEN q[k] ELSE q[k + 1]
  BY <1>2, RemoveOne
<1>4. lo \in 1 .. Len(s)
  BY <1>0, <1>3
<1>6. r = RemoveAt(s, lo)
  BY <1>2
<1>7. /\ r \in Seq(E) /\ Len(r) = Len(q) - 2
      /\ \A k \in 1 .. Len(s) - 1 : r[k] = IF k < lo THEN s[k] ELSE s[k + 1]
  <2>1. /\ RemoveAt(s, lo) \in Seq(E) /\ Len(RemoveAt(s, lo)) = Len(s) - 1
        /\ \A k \in 1 .. Len(s) - 1 :
             RemoveAt(s, lo)[k] = IF k < lo THEN s[k] ELSE s[k + 1]
    BY <1>3, <1>4, RemoveOne
  <2>2. (Len(q) - 1) - 1 = Len(q) - 2
    BY <1>0
  <2> QED BY <1>3, <1>6, <2>1, <2>2
\* r's k-th ticket is q's at(k)-th.
<1> DEFINE at(k) == IF k < lo THEN k ELSE IF k + 1 < hi THEN k + 1 ELSE k + 2
<1>8. ASSUME NEW k \in 1 .. Len(r)
      PROVE  at(k) \in 1 .. Len(q) /\ at(k) # lo /\ at(k) # hi /\ r[k] = q[at(k)]
  <2>0. k \in 1 .. Len(s) - 1 /\ k \in Int /\ k <= Len(q) - 2
    BY <1>0, <1>3, <1>7
  <2>1. CASE k < lo
    <3>1. at(k) = k /\ k \in 1 .. Len(q) - 1 /\ k # lo /\ k # hi /\ k \in 1 .. Len(q) /\ k < hi
      BY <1>0, <1>4, <2>0, <2>1
    <3>2. r[k] = s[k] /\ s[k] = q[k]
      BY <1>3, <1>7, <2>0, <2>1, <3>1
    <3> QED BY <3>1, <3>2
  <2>2. CASE k >= lo /\ k + 1 < hi
    <3>1. /\ at(k) = k + 1 /\ k + 1 \in 1 .. Len(q) - 1 /\ k + 1 # lo /\ k + 1 # hi
          /\ k + 1 \in 1 .. Len(q) /\ ~(k < lo)
      BY <1>0, <1>4, <2>0, <2>2
    <3>2. r[k] = s[k + 1] /\ s[k + 1] = q[k + 1]
      BY <1>3, <1>7, <2>0, <2>2, <3>1
    <3> QED BY <3>1, <3>2
  <2>3. CASE k >= lo /\ k + 1 >= hi
    <3>1. /\ at(k) = k + 2 /\ k + 1 \in 1 .. Len(q) - 1 /\ k + 2 # lo /\ k + 2 # hi
          /\ k + 2 \in 1 .. Len(q) /\ ~(k < lo) /\ ~(k + 1 < hi) /\ (k + 1) + 1 = k + 2
      BY <1>0, <1>4, <2>0, <2>3
    <3>2. r[k] = s[k + 1] /\ s[k + 1] = q[k + 2]
      BY <1>3, <1>7, <2>0, <3>1
    <3> QED BY <3>1, <3>2
  <2> QED BY <1>4, <2>0, <2>1, <2>2, <2>3
<1>9. ASSUME NEW k \in 1 .. Len(r), NEW l \in 1 .. Len(r), at(k) = at(l) PROVE k = l
  BY <1>0, <1>4, <1>7, <1>9
<1>10. ASSUME NEW m \in 1 .. Len(q), m # lo, m # hi
       PROVE  \E k \in 1 .. Len(r) : at(k) = m
  <2>1. CASE m < lo
    <3>1. m \in 1 .. Len(r) /\ at(m) = m
      BY <1>0, <1>4, <1>7, <2>1
    <3> QED BY <3>1
  <2>2. CASE m > lo /\ m < hi
    <3>1. m - 1 \in 1 .. Len(r) /\ at(m - 1) = m
      BY <1>0, <1>4, <1>7, <2>2
    <3> QED BY <3>1
  <2>3. CASE m > hi
    <3>1. m - 2 \in 1 .. Len(r) /\ at(m - 2) = m
      BY <1>0, <1>4, <1>7, <2>3
    <3> QED BY <3>1
  <2>4. m < lo \/ (m > lo /\ m < hi) \/ m > hi
    BY <1>0, <1>4, <1>10
  <2> QED BY <2>1, <2>2, <2>3, <2>4
<1> HIDE DEF at
<1>11. OnePerAccount(q) => OnePerAccount(r)
  <2> SUFFICES ASSUME OnePerAccount(q), NEW k \in 1 .. Len(r), NEW l \in 1 .. Len(r),
                      r[k].account = r[l].account
               PROVE  k = l
    BY DEF OnePerAccount
  <2>1. q[at(k)].account = q[at(l)].account /\ at(k) \in 1 .. Len(q) /\ at(l) \in 1 .. Len(q)
    BY <1>8
  <2>2. at(k) = at(l)
    BY <2>1 DEF OnePerAccount
  <2> QED BY <1>9, <2>2
<1>12. \A k \in 1 .. Len(r) : \E m \in 1 .. Len(q) : m # lo /\ m # hi /\ r[k] = q[m]
  BY <1>8
<1>13. \A m \in 1 .. Len(q) : m # lo /\ m # hi => \E k \in 1 .. Len(r) : r[k] = q[m]
  BY <1>8, <1>10
<1> QED BY <1>7, <1>11, <1>12, <1>13 DEF WithoutTwo

-----------------------------------------------------------------------------
(* What find_pair may come to *)

LEMMA CandidateIs ==
  ASSUME NEW q \in Seq(Ticket)
  PROVE  /\ \A x \in Candidates(q) :
              /\ x[1] \in 1 .. Len(q) /\ x[3] \in 1 .. Len(q) /\ x[1] # x[3]
              /\ Pairable(q[x[1]], q[x[3]])
         /\ \A i, j \in 1 .. Len(q) :
              i # j /\ Pairable(q[i], q[j]) => \E k : <<i, k, j>> \in Candidates(q)
<1>1. DOMAIN q = 1 .. Len(q) /\ \A i \in 1 .. Len(q) : q[i] \in ToSet(q)
  BY ToSetIs
<1>2. ASSUME NEW x \in Candidates(q)
      PROVE  /\ x[1] \in 1 .. Len(q) /\ x[3] \in 1 .. Len(q) /\ x[1] # x[3]
             /\ Pairable(q[x[1]], q[x[3]])
  BY <1>1 DEF Candidates
<1>3. ASSUME NEW i \in 1 .. Len(q), NEW j \in 1 .. Len(q), i # j, Pairable(q[i], q[j])
      PROVE  \E k : <<i, k, j>> \in Candidates(q)
  <2>1. PICK key : key \in Keys(q[i]) /\ key \in Keys(q[j])
    BY <1>3 DEF Pairable
  <2>2. PICK k \in DOMAIN q[i].profile.keys : q[i].profile.keys[k] = key
    BY <2>1 DEF Keys, ToSet
  <2>3. k \in UNION {DOMAIN t.profile.keys : t \in ToSet(q)}
    BY <1>1, <2>2
  <2>4. <<i, k, j>> \in Candidates(q)
    BY <1>1, <1>3, <2>1, <2>2, <2>3 DEF Candidates
  <2> QED BY <2>4
<1> QED BY <1>2, <1>3

\* find_pair takes a candidate; new opponents if there are any, and of these the
\* foremost.
LEMMA FindPairIs ==
  ASSUME NEW q \in Seq(Ticket), NEW x \in find_pair(q)
  PROVE  /\ x \in Candidates(q)
         /\ \A i, j \in 1 .. Len(q) :
              i # j /\ NewOpponents(q[i], q[j]) =>
                /\ NewOpponents(q[x[1]], q[x[3]])
                /\ x[1] <= i
<1>1. x \in Candidates(q)
  BY DEF find_pair, FirstOf, Found
<1>2. ASSUME NEW i \in 1 .. Len(q), NEW j \in 1 .. Len(q), i # j, NewOpponents(q[i], q[j])
      PROVE  NewOpponents(q[x[1]], q[x[3]]) /\ x[1] <= i
  <2>1. PICK k : <<i, k, j>> \in Candidates(q)
    BY <1>2, CandidateIs DEF NewOpponents
  <2>2. <<i, k, j>> \in Found(q, FALSE)
    BY <1>2, <2>1 DEF Found, NewOpponents
  <2>3. x \in FirstOf(Found(q, FALSE))
    BY <2>2 DEF find_pair
  <2>4. x \in Found(q, FALSE) /\ Before(x, <<i, k, j>>)
    BY <2>2, <2>3 DEF FirstOf
  <2>5. rematch_ok(q[x[1]], q[x[3]])
    BY <2>4 DEF Found
  <2>6. x[1] < i \/ x[1] = i
    BY <2>4 DEF Before
  <2>7. x[1] \in Int /\ i \in Int
    BY <1>1, CandidateIs
  <2> QED BY <1>1, <2>5, <2>6, <2>7, CandidateIs DEF NewOpponents
<1> QED BY <1>1, <1>2

\* The loops of find_pair_pass come to one of any candidates first.
LEMMA FirstExists ==
  ASSUME NEW q \in Seq(Ticket), NEW S, S \subseteq Candidates(q), S # {}
  PROVE  FirstOf(S) # {}
<1>1. ASSUME NEW x \in S PROVE x[1] \in Nat /\ x[2] \in Nat /\ x[3] \in Nat
  <2>1. x \in Candidates(q) /\ x[1] \in 1 .. Len(q) /\ x[3] \in 1 .. Len(q)
    BY CandidateIs
  <2>2. x[2] \in DOMAIN q[x[1]].profile.keys /\ q[x[1]] \in Ticket
    BY <2>1 DEF Candidates
  <2>3. PICK k \in Queuer : q[x[1]].profile \in ProfilesOf[k]
    BY <2>2 DEF Ticket, Profile
  <2>4. PICK keys : keys = q[x[1]].profile.keys
    OBVIOUS
  <2>5. keys \in Seq(ToSet(keys))
    BY <2>3, <2>4, PairConstants
  <2> QED BY <2>1, <2>2, <2>4, <2>5
<1>2. PICK i \in {x[1] : x \in S} : \A m \in {x[1] : x \in S} : i <= m
  <2>1. {x[1] : x \in S} \in SUBSET Nat /\ {x[1] : x \in S} # {}
    BY <1>1
  <2> QED BY <2>1, LeastNumber
<1> DEFINE T == {x \in S : x[1] = i}
<1>3. PICK k \in {x[2] : x \in T} : \A m \in {x[2] : x \in T} : k <= m
  <2>1. {x[2] : x \in T} \in SUBSET Nat /\ {x[2] : x \in T} # {}
    BY <1>1, <1>2
  <2> QED BY <2>1, LeastNumber
<1> DEFINE U == {x \in T : x[2] = k}
<1>4. PICK j \in {x[3] : x \in U} : \A m \in {x[3] : x \in U} : j <= m
  <2>1. {x[3] : x \in U} \in SUBSET Nat /\ {x[3] : x \in U} # {}
    BY <1>1, <1>3
  <2> QED BY <2>1, LeastNumber
<1>5. PICK x \in S : x[1] = i /\ x[2] = k /\ x[3] = j
  BY <1>4
<1>6. ASSUME NEW y \in S PROVE Before(x, y)
  <2>1. i <= y[1] /\ i \in Nat /\ y[1] \in Nat
    BY <1>1, <1>2, <1>5
  <2>2. y[1] = i => k <= y[2] /\ k \in Nat /\ y[2] \in Nat
    BY <1>1, <1>3, <1>5
  <2>3. y[1] = i /\ y[2] = k => j <= y[3]
    BY <1>4
  <2> QED BY <1>5, <2>1, <2>2, <2>3 DEF Before
<1> QED BY <1>5, <1>6 DEF FirstOf

\* find_pair finds somebody if anybody may be paired.
LEMMA RoundAnswers ==
  ASSUME NEW s, s.queue \in Seq(Ticket)
  PROVE  Round(s) # {}
<1>1. CASE Candidates(s.queue) = {}
  BY <1>1 DEF Round
<1>2. CASE Candidates(s.queue) # {}
  <2>1. /\ Found(s.queue, FALSE) \subseteq Candidates(s.queue)
        /\ Found(s.queue, TRUE) \subseteq Candidates(s.queue)
        /\ Found(s.queue, TRUE) # {}
    BY <1>2 DEF Found
  <2>2. find_pair(s.queue) # {}
    BY <2>1, FirstExists DEF find_pair
  <2> QED BY <1>2, <2>2 DEF Round
<1> QED BY <1>1, <1>2

-----------------------------------------------------------------------------
(* The rounds of Queue::pair *)

Run == [queue : Seq(Ticket), offers : SUBSET Offer]

\* s is what rounds may make of the queue q: who is on offer waits no more, and
\* is in one offer; no ticket is lost.
MadeOf(q, s) ==
  /\ s \in Run
  /\ OnePerAccount(s.queue)
  /\ ToSet(s.queue) \subseteq ToSet(q)
  /\ \A o \in s.offers : \E a, b \in ToSet(q) \ ToSet(s.queue) :
       a.account # b.account /\ o.pair = {a, b}
  /\ \A o, p \in s.offers : o # p => o.pair \cap p.pair = {}
  /\ \A t \in ToSet(q) : t \in ToSet(s.queue) \/ \E o \in s.offers : t \in o.pair

\* t is s with a and b put on offer.
PutOnOffer(s, t, a, b) ==
  /\ Len(t.queue) = Len(s.queue) - 2
  /\ t.offers = s.offers \cup {[pair |-> {a, b}]}
  /\ ToSet(s.queue) \subseteq ToSet(t.queue) \cup {a, b}

\* One round with an offer.
LEMMA TakeMakes ==
  ASSUME NEW q \in Seq(Ticket), NEW s, MadeOf(q, s), NEW x \in Candidates(s.queue),
         NEW t, t = Take(s, x),
         NEW a, a = s.queue[x[1]], NEW b, b = s.queue[x[3]]
  PROVE  MadeOf(q, t) /\ PutOnOffer(s, t, a, b) /\ Pairable(a, b)
<1>0. PICK u : u = s.queue
  OBVIOUS
<1>1. u \in Seq(Ticket) /\ s.offers \subseteq Offer /\ OnePerAccount(u)
  BY <1>0 DEF MadeOf, Run
<1>2. /\ x[1] \in 1 .. Len(u) /\ x[3] \in 1 .. Len(u) /\ x[1] # x[3]
      /\ Pairable(u[x[1]], u[x[3]])
  BY <1>0, <1>1, CandidateIs
<1>3. PICK r : r = RemoveAt(RemoveAt(u, Max({x[1], x[3]})), Min({x[1], x[3]}))
  OBVIOUS
<1>4. t.queue = r /\ t.offers = s.offers \cup {[pair |-> {a, b}]}
      /\ t = [queue |-> r, offers |-> s.offers \cup {[pair |-> {a, b}]}]
  BY <1>0, <1>3 DEF Take
<1>5. /\ r \in Seq(Ticket) /\ Len(r) = Len(u) - 2
      /\ \A k \in 1 .. Len(r) : \E m \in 1 .. Len(u) : m # x[1] /\ m # x[3] /\ r[k] = u[m]
      /\ \A m \in 1 .. Len(u) : m # x[1] /\ m # x[3] => \E k \in 1 .. Len(r) : r[k] = u[m]
      /\ OnePerAccount(r)
  <2>1. PICK hi \in 1 .. Len(u), lo \in 1 .. Len(u) :
          /\ hi = Max({x[1], x[3]}) /\ lo = Min({x[1], x[3]}) /\ lo < hi
          /\ (lo = x[1] /\ hi = x[3]) \/ (lo = x[3] /\ hi = x[1])
    <3>1. x[1] \in Int /\ x[3] \in Int
      BY <1>2
    <3>2. PICK hi, lo : hi = Max({x[1], x[3]}) /\ lo = Min({x[1], x[3]})
      OBVIOUS
    <3>3. /\ hi = (IF x[1] >= x[3] THEN x[1] ELSE x[3])
          /\ lo = (IF x[1] <= x[3] THEN x[1] ELSE x[3])
      BY <3>1, <3>2, PairMax
    <3>4. /\ hi \in 1 .. Len(u) /\ lo \in 1 .. Len(u) /\ lo < hi
          /\ (lo = x[1] /\ hi = x[3]) \/ (lo = x[3] /\ hi = x[1])
      BY <1>2, <3>1, <3>3
    <3> QED BY <3>2, <3>4
  <2>2. r = RemoveAt(RemoveAt(u, hi), lo)
    BY <1>3, <2>1
  <2>3. u \in Seq(Ticket)
    BY <1>1
  <2>4. WithoutTwo(Ticket, u, lo, hi, r)
    BY <2>1, <2>2, <2>3, RemoveTwo
  <2>5. \A m : (m # lo /\ m # hi) <=> (m # x[1] /\ m # x[3])
    BY <2>1
  <2>6. /\ r \in Seq(Ticket) /\ Len(r) = Len(u) - 2
        /\ \A k \in 1 .. Len(r) : \E m \in 1 .. Len(u) : m # lo /\ m # hi /\ r[k] = u[m]
        /\ \A m \in 1 .. Len(u) : m # lo /\ m # hi => \E k \in 1 .. Len(r) : r[k] = u[m]
        /\ OnePerAccount(u) => OnePerAccount(r)
    BY <2>4 DEF WithoutTwo
  <2>7. OnePerAccount(r)
    BY <1>1, <2>6
  <2>8. ASSUME NEW k \in 1 .. Len(r)
        PROVE  \E m \in 1 .. Len(u) : m # x[1] /\ m # x[3] /\ r[k] = u[m]
    <3>1. PICK m \in 1 .. Len(u) : m # lo /\ m # hi /\ r[k] = u[m]
      BY <2>6
    <3>2. m # x[1] /\ m # x[3]
      BY <2>5, <3>1
    <3> QED BY <3>1, <3>2
  <2>9. ASSUME NEW m \in 1 .. Len(u), m # x[1], m # x[3] PROVE \E k \in 1 .. Len(r) : r[k] = u[m]
    BY <2>5, <2>6, <2>9
  <2> QED BY <2>6, <2>7, <2>8, <2>9
<1>6. a = u[x[1]] /\ b = u[x[3]]
  BY <1>0
<1>7. ToSet(r) \subseteq ToSet(u) \ {a, b}
  <2>1. ASSUME NEW e \in ToSet(r) PROVE e \in ToSet(u) \ {a, b}
    <3>1. PICK k \in 1 .. Len(r) : e = r[k]
      BY <1>5, <2>1, ToSetIs
    <3>2. PICK m \in 1 .. Len(u) : m # x[1] /\ m # x[3] /\ e = u[m]
      BY <1>5, <3>1
    <3>3. e \in ToSet(u)
      BY <1>1, <3>2, ToSetIs
    <3>4. e # a /\ e # b
      BY <1>1, <1>2, <1>6, <3>2 DEF OnePerAccount
    <3> QED BY <3>3, <3>4
  <2> QED BY <2>1
<1>8. ToSet(u) \subseteq ToSet(r) \cup {a, b}
  <2>1. ASSUME NEW e \in ToSet(u), e # a, e # b PROVE e \in ToSet(r)
    <3>1. PICK m \in 1 .. Len(u) : e = u[m]
      BY <1>1, ToSetIs
    <3>2. m # x[1] /\ m # x[3]
      BY <1>6, <2>1, <3>1
    <3>3. PICK k \in 1 .. Len(r) : r[k] = e
      BY <1>5, <3>1, <3>2
    <3> QED BY <1>5, <3>3, ToSetIs
  <2> QED BY <2>1
<1>9. /\ a \in ToSet(u) /\ b \in ToSet(u) /\ a \in Ticket /\ b \in Ticket
      /\ a.account # b.account
  <2>1. a \in ToSet(u) /\ b \in ToSet(u) /\ a \in Ticket /\ b \in Ticket
    BY <1>1, <1>2, <1>6, ToSetIs
  <2>2. a.account # b.account
    BY <1>2, <1>6 DEF Pairable, Hard
  <2> QED BY <2>1, <2>2
<1>10. /\ ToSet(u) \subseteq ToSet(q)
       /\ \A o \in s.offers : \E c, d \in ToSet(q) \ ToSet(u) :
            c.account # d.account /\ o.pair = {c, d}
       /\ \A o, p \in s.offers : o # p => o.pair \cap p.pair = {}
       /\ \A e \in ToSet(q) : e \in ToSet(u) \/ \E o \in s.offers : e \in o.pair
  BY <1>0 DEF MadeOf
<1>11. ASSUME NEW o \in t.offers
       PROVE  \E c, d \in ToSet(q) \ ToSet(r) : c.account # d.account /\ o.pair = {c, d}
  <2>1. CASE o \in s.offers
    BY <1>7, <1>10, <2>1
  <2>2. CASE o = [pair |-> {a, b}]
    <3>1. a \in ToSet(q) \ ToSet(r) /\ b \in ToSet(q) \ ToSet(r)
      BY <1>7, <1>9, <1>10
    <3> QED BY <1>9, <2>2, <3>1
  <2> QED BY <1>4, <2>1, <2>2
<1>12. ASSUME NEW o \in t.offers, NEW p \in t.offers, o # p
       PROVE  o.pair \cap p.pair = {}
  <2>1. ASSUME NEW w \in s.offers PROVE w.pair \cap {a, b} = {}
    <3>1. PICK c \in ToSet(q) \ ToSet(u), d \in ToSet(q) \ ToSet(u) : w.pair = {c, d}
      BY <1>10
    <3>2. c # a /\ c # b /\ d # a /\ d # b
      BY <1>9
    <3> QED BY <3>1, <3>2
  <2>2. [pair |-> {a, b}].pair = {a, b}
    OBVIOUS
  <2>3. CASE o \in s.offers /\ p \in s.offers
    BY <1>10, <1>12, <2>3
  <2>4. CASE o = [pair |-> {a, b}] /\ p \in s.offers
    BY <2>1, <2>2, <2>4
  <2>5. CASE p = [pair |-> {a, b}] /\ o \in s.offers
    BY <2>1, <2>2, <2>5
  <2> QED BY <1>4, <1>12, <2>3, <2>4, <2>5
<1>13. t \in Run
  <2>1. [pair |-> {a, b}] \in Offer
    BY <1>9 DEF Offer
  <2> QED BY <1>1, <1>4, <1>5, <2>1 DEF Run
<1>14. MadeOf(q, t)
  <2>1. t.queue = r /\ ToSet(r) \subseteq ToSet(q)
    BY <1>4, <1>7, <1>10
  <2>2. \A o \in t.offers : \E c, d \in ToSet(q) \ ToSet(t.queue) :
          c.account # d.account /\ o.pair = {c, d}
    BY <1>11, <2>1
  <2>3. OnePerAccount(t.queue) /\ ToSet(t.queue) \subseteq ToSet(q)
    BY <1>5, <2>1
  <2>4. ASSUME NEW e \in ToSet(q), e \notin ToSet(t.queue) PROVE \E o \in t.offers : e \in o.pair
    <3>1. PICK o : o = [pair |-> {a, b}]
      OBVIOUS
    <3>2. o \in t.offers /\ o.pair = {a, b} /\ s.offers \subseteq t.offers
      BY <1>4, <3>1
    <3>3. e \in ToSet(u) => e \in {a, b}
      BY <1>8, <2>1, <2>4
    <3> QED BY <1>10, <3>2, <3>3
  <2> QED BY <1>12, <1>13, <2>2, <2>3, <2>4 DEF MadeOf
<1>15. PutOnOffer(s, t, a, b)
  BY <1>0, <1>4, <1>5, <1>8 DEF PutOnOffer
<1> QED BY <1>2, <1>6, <1>14, <1>15

\* What the n-th round may come to, from what the one before may have come to.
RoundOf(f, q, n) ==
  IF n = 0 THEN {[queue |-> q, offers |-> {}]} ELSE UNION {Round(s) : s \in f[n - 1]}

\* Such a function as Rounds is defined by exists.
LEMMA RoundsExist ==
  ASSUME NEW q, NEW N \in Nat
  PROVE  \E f : f = [n \in 0 .. N |-> RoundOf(f, q, n)]
<1> DEFINE Upto(m) == \E f : /\ f = [n \in 0 .. m |-> f[n]]
                             /\ \A n \in 0 .. m : f[n] = RoundOf(f, q, n)
           S == {m \in Nat : Upto(m)}
<1>1. 0 \in S
  <2>1. PICK f : f = [n \in 0 .. 0 |-> {[queue |-> q, offers |-> {}]}]
    OBVIOUS
  <2>2. \A n \in 0 .. 0 : f[n] = RoundOf(f, q, n)
    BY <2>1 DEF RoundOf
  <2>3. f = [n \in 0 .. 0 |-> f[n]]
    BY <2>1
  <2>4. Upto(0)
    BY <2>2, <2>3
  <2> QED BY <2>4
<1>2. ASSUME NEW m \in S PROVE m + 1 \in S
  <2>1. PICK f : \A n \in 0 .. m : f[n] = RoundOf(f, q, n)
    OBVIOUS
  <2>2. PICK g : g = [n \in 0 .. m + 1 |-> IF n = m + 1 THEN RoundOf(f, q, m + 1) ELSE f[n]]
    OBVIOUS
  <2>3. \A n \in 0 .. m : g[n] = f[n]
    BY <2>2
  <2>4. ASSUME NEW n \in 0 .. m + 1 PROVE g[n] = RoundOf(g, q, n)
    <3>1. n # 0 => g[n - 1] = f[n - 1]
      BY <2>3
    <3>2. RoundOf(g, q, n) = RoundOf(f, q, n)
      BY <3>1 DEF RoundOf
    <3>3. CASE n = m + 1
      BY <2>2, <3>2, <3>3
    <3>4. CASE n # m + 1
      BY <2>1, <2>3, <3>2, <3>4
    <3> QED BY <3>3, <3>4
  <2>5. g = [n \in 0 .. m + 1 |-> g[n]]
    BY <2>2
  <2>6. Upto(m + 1)
    BY <2>4, <2>5
  <2> QED BY <2>6
<1>3. S = Nat
  <2> HIDE DEF S
  <2>1. S \in SUBSET Nat
    BY DEF S
  <2> QED BY <1>1, <1>2, <2>1, EveryCount
<1>4. Upto(N)
  BY <1>3
<1>5. PICK f : /\ f = [n \in 0 .. N |-> f[n]]
               /\ \A n \in 0 .. N : f[n] = RoundOf(f, q, n)
  BY <1>4
<1>6. f = [n \in 0 .. N |-> RoundOf(f, q, n)]
  BY <1>5
<1> QED BY <1>6

\* What holds before the first round, and after each round if it held before it,
\* holds of all that Rounds may come to: G[n] are the states it holds of after n.
\* If a round always comes to something, so does Rounds.
LEMMA EveryRound ==
  ASSUME NEW q, NEW N \in Nat, N = Len(q) \div 2, NEW G,
         [queue |-> q, offers |-> {}] \in G[0],
         \A n \in 1 .. N : \A s \in G[n - 1] : Round(s) \subseteq G[n]
  PROVE  /\ Rounds(q) \subseteq G[N]
         /\ (\A n \in 1 .. N : \A s \in G[n - 1] : Round(s) # {}) => Rounds(q) # {}
<1> DEFINE Answers == \A n \in 1 .. N : \A s \in G[n - 1] : Round(s) # {}
<1> DEFINE f == CHOOSE h : h = [n \in 0 .. N |-> RoundOf(h, q, n)]
<1>0. Rounds(q) = f[N]
  BY DEF Rounds, RoundOf
<1>1. f = [n \in 0 .. N |-> RoundOf(f, q, n)]
  BY RoundsExist
<1> HIDE DEF f
<1>2. \A n \in 0 .. N : f[n] = RoundOf(f, q, n)
  BY <1>1
<1> DEFINE S == {n \in Nat : n <= N => f[n] \subseteq G[n] /\ (Answers => f[n] # {})}
<1>3. 0 \in S
  <2>1. f[0] = {[queue |-> q, offers |-> {}]}
    <3>1. f[0] = RoundOf(f, q, 0)
      BY <1>2
    <3> QED BY <3>1 DEF RoundOf
  <2> QED BY <2>1
<1>4. ASSUME NEW n \in S PROVE n + 1 \in S
  <2> SUFFICES ASSUME n + 1 <= N
               PROVE  f[n + 1] \subseteq G[n + 1] /\ (Answers => f[n + 1] # {})
    OBVIOUS
  <2>1. f[n] \subseteq G[n] /\ (Answers => f[n] # {}) /\ n + 1 \in 1 .. N /\ n + 1 # 0 /\ (n + 1) - 1 = n
    OBVIOUS
  <2>2. f[n + 1] = UNION {Round(s) : s \in f[n]}
    <3>1. f[n + 1] = RoundOf(f, q, n + 1)
      BY <1>2, <2>1
    <3>2. PICK k : k = n + 1 /\ k # 0 /\ k - 1 = n
      BY <2>1
    <3>3. RoundOf(f, q, k) = UNION {Round(s) : s \in f[n]}
      BY <3>2 DEF RoundOf
    <3> QED BY <3>1, <3>2, <3>3
  <2>3. \A s \in f[n] : Round(s) \subseteq G[n + 1]
    BY <2>1
  <2>4. ASSUME Answers PROVE f[n + 1] # {}
    <3>1. PICK s \in f[n] : TRUE
      BY <2>1, <2>4
    <3>2. Round(s) # {}
      BY <2>1, <2>4
    <3> QED BY <2>2, <3>1, <3>2
  <2> QED BY <2>2, <2>3, <2>4
<1>5. S = Nat
  <2> HIDE DEF S
  <2>1. S \in SUBSET Nat
    BY DEF S
  <2> QED BY <1>3, <1>4, <2>1, EveryCount
<1>6. N \in S
  BY <1>5
<1> QED BY <1>0, <1>6

\* The rounds stop early only when nobody is left to pair.
RunsOut(q, n, s) == Len(s.queue) = Len(q) - 2 * n \/ Candidates(s.queue) = {}

\* An offer that one of a and b is in, and that is between new opponents.
GivesNew(o, a, b) ==
  /\ {a, b} \cap o.pair # {}
  /\ \A c, d \in o.pair : c # d => rematch_ok(c, d)

Preferred(q, s) ==
  \A a, b \in ToSet(q) : NewOpponents(a, b) =>
    (a \in ToSet(s.queue) /\ b \in ToSet(s.queue)) \/ \E o \in s.offers : GivesNew(o, a, b)

\* Ticket i is the foremost that may meet a new opponent.
FirstNew(q, i) ==
  /\ \E b \in ToSet(q) : NewOpponents(q[i], b)
  /\ \A h \in 1 .. i - 1 : \A b \in ToSet(q) : ~NewOpponents(q[h], b)

\* It is served in the first round.
Fronted(q, n, s) ==
  /\ n = 0 => s.queue = q
  /\ n # 0 => \A i \in 1 .. Len(q) : FirstNew(q, i) => \E o \in s.offers : q[i] \in o.pair

RunOK(q, n, s) ==
  MadeOf(q, s) /\ RunsOut(q, n, s) /\ Preferred(q, s) /\ Fronted(q, n, s)

LEMMA RunStart ==
  ASSUME NEW q \in Seq(Ticket), OnePerAccount(q)
  PROVE  RunOK(q, 0, [queue |-> q, offers |-> {}])
<1> DEFINE s == [queue |-> q, offers |-> {}]
<1>1. s.queue = q /\ s.offers = {}
  OBVIOUS
<1>2. MadeOf(q, s)
  BY <1>1 DEF MadeOf, Run
<1>3. Len(s.queue) = Len(q) - 2 * 0
  BY <1>1
<1> QED BY <1>1, <1>2, <1>3 DEF RunOK, RunsOut, Preferred, Fronted

LEMMA RematchBoth ==
  ASSUME NEW a, NEW b, rematch_ok(a, b)
  PROVE  \A c, d \in {a, b} : c # d => rematch_ok(c, d)
<1>1. /\ {a.waited, b.waited} = {b.waited, a.waited}
      /\ {a.account, b.account} = {b.account, a.account}
  OBVIOUS
<1>2. rematch_ok(b, a)
  BY <1>1 DEF rematch_ok, Older
<1> QED BY <1>2

\* Who may be paired has another index.
LEMMA PairableApart ==
  ASSUME NEW q \in Seq(Ticket), NEW i \in 1 .. Len(q), NEW b \in ToSet(q), Pairable(q[i], b)
  PROVE  \E j \in 1 .. Len(q) : j # i /\ b = q[j]
<1>1. PICK j \in 1 .. Len(q) : b = q[j]
  BY ToSetIs
<1>2. j # i
  BY <1>1 DEF Pairable, Hard
<1> QED BY <1>1, <1>2

LEMMA RunRound ==
  ASSUME NEW q \in Seq(Ticket), NEW n \in Nat, n # 0, NEW s, RunOK(q, n - 1, s),
         NEW t \in Round(s)
  PROVE  RunOK(q, n, t)
<1>1. /\ MadeOf(q, s) /\ s.queue \in Seq(Ticket)
      /\ RunsOut(q, n - 1, s) /\ Preferred(q, s) /\ Fronted(q, n - 1, s)
  BY DEF RunOK, MadeOf, Run
<1>2. CASE Candidates(s.queue) = {}
  <2>1. t = s
    BY <1>2 DEF Round
  <2>2. RunsOut(q, n, t)
    BY <1>2, <2>1 DEF RunsOut
  <2>3. ASSUME n - 1 = 0, NEW i \in 1 .. Len(q), FirstNew(q, i) PROVE FALSE
    <3>1. s.queue = q
      BY <1>1, <2>3 DEF Fronted
    <3>2. PICK b \in ToSet(q) : Pairable(q[i], b)
      BY <2>3 DEF FirstNew, NewOpponents
    <3>3. PICK j \in 1 .. Len(q) : j # i /\ Pairable(q[i], q[j])
      BY <3>2, PairableApart
    <3> QED BY <1>2, <3>1, <3>3, CandidateIs
  <2>4. Fronted(q, n, t)
    BY <1>1, <2>1, <2>3 DEF Fronted
  <2> QED BY <1>1, <2>1, <2>2, <2>4 DEF RunOK
<1>3. CASE Candidates(s.queue) # {}
  <2>1. PICK x \in find_pair(s.queue) : t = Take(s, x)
    BY <1>3 DEF Round
  <2>2. PICK a, b : a = s.queue[x[1]] /\ b = s.queue[x[3]]
    OBVIOUS
  <2>3. /\ x \in Candidates(s.queue)
        /\ \A i, j \in 1 .. Len(s.queue) :
              i # j /\ NewOpponents(s.queue[i], s.queue[j]) =>
                /\ NewOpponents(a, b)
                /\ x[1] <= i
    BY <1>1, <2>2, FindPairIs
  <2>4. /\ MadeOf(q, t)
        /\ Len(t.queue) = Len(s.queue) - 2
        /\ t.offers = s.offers \cup {[pair |-> {a, b}]}
        /\ ToSet(s.queue) \subseteq ToSet(t.queue) \cup {a, b}
        /\ Pairable(a, b)
    <3>1. MadeOf(q, t) /\ PutOnOffer(s, t, a, b) /\ Pairable(a, b)
      BY <1>1, <2>1, <2>2, <2>3, TakeMakes
    <3> QED BY <3>1 DEF PutOnOffer
  <2>5. RunsOut(q, n, t)
    <3>1. Len(s.queue) = Len(q) - 2 * (n - 1)
      BY <1>1, <1>3 DEF RunsOut
    <3> QED BY <2>4, <3>1 DEF RunsOut
  <2>6. ASSUME NEW c \in ToSet(q), NEW d \in ToSet(q), NewOpponents(c, d)
        PROVE  \/ c \in ToSet(t.queue) /\ d \in ToSet(t.queue)
               \/ \E o \in t.offers : GivesNew(o, c, d)
    <3>1. CASE c \in ToSet(s.queue) /\ d \in ToSet(s.queue)
      <4>1. PICK i \in 1 .. Len(s.queue) : c = s.queue[i]
        BY <1>1, <3>1, ToSetIs
      <4>2. PICK j \in 1 .. Len(s.queue) : j # i /\ d = s.queue[j]
        BY <1>1, <2>6, <3>1, <4>1, PairableApart DEF NewOpponents
      <4>3. NewOpponents(a, b)
        BY <2>3, <2>6, <4>1, <4>2
      <4>4. PICK o : o = [pair |-> {a, b}] /\ o.pair = {a, b} /\ o \in t.offers
        BY <2>4
      <4>5. \A e, f \in o.pair : e # f => rematch_ok(e, f)
        BY <4>3, <4>4, RematchBoth DEF NewOpponents
      <4>6. CASE c \in {a, b} \/ d \in {a, b}
        BY <4>4, <4>5, <4>6 DEF GivesNew
      <4>7. CASE c \notin {a, b} /\ d \notin {a, b}
        BY <2>4, <3>1, <4>7
      <4> QED BY <4>6, <4>7
    <3>2. CASE \E o \in s.offers : GivesNew(o, c, d)
      BY <2>4, <3>2
    <3> QED BY <1>1, <2>6, <3>1, <3>2 DEF Preferred
  <2>7. ASSUME NEW i \in 1 .. Len(q), FirstNew(q, i)
        PROVE  \E o \in t.offers : q[i] \in o.pair
    <3>1. CASE n - 1 # 0
      BY <1>1, <2>4, <2>7, <3>1 DEF Fronted
    <3>2. CASE n - 1 = 0
      <4>1. s.queue = q
        BY <1>1, <3>2 DEF Fronted
      <4>2. PICK c \in ToSet(q) : NewOpponents(q[i], c)
        BY <2>7 DEF FirstNew
      <4>3. PICK j \in 1 .. Len(q) : j # i /\ c = q[j]
        BY <4>2, PairableApart DEF NewOpponents
      <4>4. NewOpponents(a, b) /\ x[1] <= i
        BY <2>3, <4>1, <4>2, <4>3
      <4>5. x[1] \in 1 .. Len(q) /\ x[3] \in 1 .. Len(q) /\ a = q[x[1]] /\ b = q[x[3]]
        BY <2>2, <2>3, <4>1, CandidateIs
      <4>6. b \in ToSet(q)
        BY <4>5, ToSetIs
      <4>7. ~(x[1] \in 1 .. i - 1)
        BY <2>7, <4>4, <4>5, <4>6 DEF FirstNew
      <4>8. x[1] = i
        BY <4>4, <4>5, <4>7
      <4>9. [pair |-> {a, b}].pair = {a, b} /\ q[i] = a
        BY <4>5, <4>8
      <4> QED BY <2>4, <4>9
    <3> QED BY <3>1, <3>2
  <2>8. Preferred(q, t)
    BY <2>6 DEF Preferred
  <2>9. Fronted(q, n, t)
    BY <2>7 DEF Fronted
  <2> QED BY <2>4, <2>5, <2>8, <2>9 DEF RunOK
<1> QED BY <1>2, <1>3

\* Queue::pair comes to something, and to nothing that RunOK excludes.
LEMMA RoundsRun ==
  ASSUME NEW q \in Seq(Ticket), OnePerAccount(q), NEW N \in Nat, N = Len(q) \div 2
  PROVE  Rounds(q) # {} /\ \A s \in Rounds(q) : RunOK(q, N, s)
<1> DEFINE G == [n \in Nat |-> {r \in Run : RunOK(q, n, r)}]
<1>1. [queue |-> q, offers |-> {}] \in G[0]
  <2>1. [queue |-> q, offers |-> {}] \in Run
    BY DEF Run
  <2> QED BY <2>1, RunStart
<1>2. ASSUME NEW n \in 1 .. N, NEW r \in G[n - 1]
      PROVE  Round(r) \subseteq G[n] /\ Round(r) # {}
  <2>1. n \in Nat /\ n # 0 /\ n - 1 \in Nat
    OBVIOUS
  <2>2. RunOK(q, n - 1, r)
    BY <2>1
  <2>3. ASSUME NEW t \in Round(r) PROVE t \in G[n]
    <3>1. RunOK(q, n, t)
      BY <2>1, <2>2, RunRound
    <3>2. t \in Run
      BY <3>1 DEF RunOK, MadeOf
    <3> QED BY <2>1, <3>1, <3>2
  <2>4. r.queue \in Seq(Ticket)
    BY <2>2 DEF RunOK, MadeOf, Run
  <2> QED BY <2>3, <2>4, RoundAnswers
<1>3. Rounds(q) \subseteq G[N] /\ Rounds(q) # {}
  <2> HIDE DEF G
  <2> QED BY <1>1, <1>2, EveryRound
<1> QED BY <1>3

\* What Queue::pair does to the queue q: nobody is left over, new opponents come
\* first, and of these the foremost.
LEMMA PairingIs ==
  ASSUME NEW q \in Seq(Ticket), OnePerAccount(q), NEW s \in Rounds(q)
  PROVE  /\ MadeOf(q, s)
         /\ \A a, b \in ToSet(s.queue) : ~Pairable(a, b)
         /\ \A a, b \in ToSet(q) : NewOpponents(a, b) => \E o \in s.offers : GivesNew(o, a, b)
         /\ \A i \in 1 .. Len(q) : FirstNew(q, i) => \E o \in s.offers : q[i] \in o.pair
<1>0. Len(q) \in Nat
  BY ToSetIs
<1>1. PICK N \in Nat : N = Len(q) \div 2 /\ Len(q) - 2 * N \in {0, 1}
  BY <1>0
<1>4. RunOK(q, N, s)
  BY <1>1, RoundsRun
<1>5. /\ MadeOf(q, s) /\ s.queue \in Seq(Ticket)
      /\ RunsOut(q, N, s) /\ Preferred(q, s) /\ Fronted(q, N, s)
  BY <1>4 DEF RunOK, MadeOf, Run
<1>6. ASSUME NEW a \in ToSet(s.queue), NEW b \in ToSet(s.queue), Pairable(a, b) PROVE FALSE
  <2>1. PICK i \in 1 .. Len(s.queue) : a = s.queue[i]
    BY <1>5, ToSetIs
  <2>2. PICK j \in 1 .. Len(s.queue) : j # i /\ b = s.queue[j]
    BY <1>5, <1>6, <2>1, PairableApart
  <2>3. Candidates(s.queue) # {}
    BY <1>5, <1>6, <2>1, <2>2, CandidateIs
  <2>4. Len(s.queue) = Len(q) - 2 * N
    BY <1>5, <2>3 DEF RunsOut
  <2>5. Len(s.queue) \in {0, 1}
    BY <1>1, <2>4
  <2> QED BY <2>1, <2>2, <2>5
<1>7. ASSUME NEW a \in ToSet(q), NEW b \in ToSet(q), NewOpponents(a, b)
      PROVE  \E o \in s.offers : GivesNew(o, a, b)
  <2>1. Pairable(a, b)
    BY <1>7 DEF NewOpponents
  <2> QED BY <1>5, <1>6, <1>7, <2>1 DEF Preferred
<1>8. ASSUME NEW i \in 1 .. Len(q), FirstNew(q, i)
      PROVE  \E o \in s.offers : q[i] \in o.pair
  <2>1. PICK b \in ToSet(q) : Pairable(q[i], b)
    BY <1>8 DEF FirstNew, NewOpponents
  <2>2. PICK j \in 1 .. Len(q) : j # i
    BY <2>1, PairableApart
  <2>3. N # 0
    BY <1>0, <1>1, <2>2
  <2> QED BY <1>5, <1>8, <2>3 DEF Fronted
<1> QED BY <1>5, <1>6, <1>7, <1>8

-----------------------------------------------------------------------------
(* The inductive invariant: an account has one ticket *)

\* The offer is of two accounts' tickets.
OfTwo(o) == \E a, b \in Ticket : a.account # b.account /\ o.pair = {a, b}

\* A queue is apart from the tickets in T, and these from the tickets in U.
QueueApart(q, T) == \A i \in 1 .. Len(q) : \A t \in T : q[i].account # t.account

SetsApart(T, U) == \A t \in T, u \in U : t.account # u.account

QueueInv ==
  /\ tickets \in Seq(Ticket) /\ OnePerAccount(tickets)
  /\ offers \subseteq Offer /\ \A o \in offers : OfTwo(o) /\ QueueApart(tickets, o.pair)
  /\ \A o, p \in offers : o # p => SetsApart(o.pair, p.pair)
  /\ returning \subseteq Ticket /\ QueueApart(tickets, returning)
  /\ \A t, u \in returning : t.account = u.account => t = u
  /\ \A o \in offers : SetsApart(o.pair, returning)
  /\ recent \in [Couple -> 0 .. Cooldown]

LEMMA QueueStart == QueueInit => QueueInv
<1> SUFFICES ASSUME QueueInit PROVE QueueInv
  OBVIOUS
<1>1. tickets \in Seq(Ticket) /\ Len(tickets) = 0
  BY DEF QueueInit
<1>2. recent \in [Couple -> 0 .. Cooldown]
  BY PairConstants DEF QueueInit
<1>3. offers = {} /\ returning = {}
  BY DEF QueueInit
<1> QED BY <1>1, <1>2, <1>3 DEF QueueInv, OnePerAccount, QueueApart

LEMMA UnlimitedIs == Unlimited \in Nat
BY PairConstants DEF Unlimited

\* Who waits, by the queue's indices.
LEMMA AccountsIn ==
  ASSUME NEW q \in Seq(Ticket)
  PROVE  \A k : k \in {t.account : t \in ToSet(q)} <=> \E i \in 1 .. Len(q) : q[i].account = k
BY ToSetIs

\* The account of a ticket, where its other fields may change.
LEMMA SameAccounts ==
  ASSUME QueueInv, NEW q \in Seq(Ticket), Len(q) = Len(tickets),
         \A i \in 1 .. Len(q) : q[i].account = tickets[i].account,
         tickets' = q, offers' = offers, returning' = returning,
         recent' \in [Couple -> 0 .. Cooldown]
  PROVE  QueueInv' /\ Waiting' = Waiting
<1>1. OnePerAccount(q)
  BY DEF QueueInv, OnePerAccount
<1>2. \A o \in offers : QueueApart(q, o.pair)
  BY DEF QueueInv, QueueApart
<1>3. QueueApart(q, returning)
  BY DEF QueueInv, QueueApart
<1>4. Waiting' = Waiting
  <2>1. tickets \in Seq(Ticket)
    BY DEF QueueInv
  <2>2. Waiting' = {t.account : t \in ToSet(q)} /\ Waiting = {t.account : t \in ToSet(tickets)}
    BY DEF Waiting
  <2>3. ASSUME NEW k PROVE k \in Waiting' <=> k \in Waiting
    <3>1. k \in Waiting' <=> \E i \in 1 .. Len(q) : q[i].account = k
      BY <2>2, AccountsIn
    <3>2. k \in Waiting <=> \E i \in 1 .. Len(tickets) : tickets[i].account = k
      BY <2>1, <2>2, AccountsIn
    <3> QED BY <3>1, <3>2
  <2> QED BY <2>2, <2>3
<1> QED BY <1>1, <1>2, <1>3, <1>4 DEF QueueInv

\* A new ticket comes in, at the back of the queue.
LEMMA PushKeeps ==
  ASSUME QueueInv, NEW k \in Queuer, Push(k)
  PROVE  QueueInv' /\ Waiting' = Waiting \cup {k}
<1>1. PICK p \in ProfilesOf[k], v \in MeasuredRtt :
        tickets' = Append(tickets, [account |-> k, profile |-> p, rtt |-> v, waited |-> 0])
  BY DEF Push
<1>2. PICK e : e = [account |-> k, profile |-> p, rtt |-> v, waited |-> 0]
  OBVIOUS
<1>3. e \in Ticket /\ e.account = k
  <2>1. p \in Profile
    BY DEF Profile
  <2>2. 0 \in 0 .. Unlimited
    BY UnlimitedIs
  <2> QED BY <1>2, <2>1, <2>2 DEF Ticket
<1>4. tickets \in Seq(Ticket) /\ Len(tickets) \in Nat
  BY DEF QueueInv
<1>5. PICK q : q = Append(tickets, e)
  OBVIOUS
<1>6. /\ q \in Seq(Ticket) /\ Len(q) = Len(tickets) + 1 /\ q[Len(tickets) + 1] = e
      /\ \A i \in 1 .. Len(tickets) : q[i] = tickets[i]
  BY <1>3, <1>4, <1>5, AppendProperties
<1>7. \A i \in 1 .. Len(q) : i \in 1 .. Len(tickets) \/ i = Len(tickets) + 1
  BY <1>4, <1>6
<1>8. /\ \A i \in 1 .. Len(tickets) : tickets[i].account # k
      /\ \A o \in offers : \A t \in o.pair : t.account # k
      /\ \A t \in returning : t.account # k
  <2>1. k \notin Waiting /\ k \notin Elsewhere
    BY DEF Push
  <2>2. \A i \in 1 .. Len(tickets) : tickets[i] \in ToSet(tickets)
    BY <1>4, ToSetIs
  <2>3. \A i \in 1 .. Len(tickets) : tickets[i].account # k
    BY <2>1, <2>2 DEF Waiting
  <2>4. ASSUME NEW o \in offers, NEW t \in o.pair PROVE t.account # k
    <3>1. t.account \in AccountsOf(o)
      BY DEF AccountsOf
    <3>2. t.account \in Elsewhere
      BY <3>1 DEF Elsewhere
    <3> QED BY <2>1, <3>2
  <2>5. ASSUME NEW t \in returning PROVE t.account # k
    <3>1. t.account \in {u.account : u \in returning}
      OBVIOUS
    <3> QED BY <2>1, <3>1 DEF Elsewhere
  <2> QED BY <2>3, <2>4, <2>5
<1>9. OnePerAccount(q)
  BY <1>3, <1>6, <1>7, <1>8 DEF QueueInv, OnePerAccount
<1>10. \A o \in offers : QueueApart(q, o.pair)
  BY <1>3, <1>6, <1>7, <1>8 DEF QueueInv, QueueApart
<1>11. QueueApart(q, returning)
  BY <1>3, <1>6, <1>7, <1>8 DEF QueueInv, QueueApart
<1>12. tickets' = q /\ offers' = offers /\ returning' = returning /\ recent' = recent
  BY <1>1, <1>2, <1>5 DEF Push
<1>13. Waiting' = Waiting \cup {k}
  <2>1. \A a : (\E i \in 1 .. Len(q) : q[i].account = a)
              <=> a = k \/ \E i \in 1 .. Len(tickets) : tickets[i].account = a
    BY <1>3, <1>4, <1>6, <1>7
  <2> QED BY <1>4, <1>6, <1>12, <2>1, AccountsIn DEF Waiting
<1> QED BY <1>6, <1>9, <1>10, <1>11, <1>12, <1>13 DEF QueueInv

LEMMA SetRttKeeps ==
  ASSUME QueueInv, NEW i \in DOMAIN tickets, NEW v \in MeasuredRtt, SetRtt(i, v)
  PROVE  QueueInv' /\ Waiting' = Waiting
<1>1. PICK q : q = [tickets EXCEPT ![i].rtt = v]
  OBVIOUS
<1>2. tickets \in Seq(Ticket) /\ Len(tickets) \in Nat /\ DOMAIN tickets = 1 .. Len(tickets)
  BY DEF QueueInv
<1>3. /\ [tickets[i] EXCEPT !.rtt = v] \in Ticket
      /\ [tickets[i] EXCEPT !.rtt = v].account = tickets[i].account
  <2>1. tickets[i] \in Ticket
    BY <1>2
  <2> QED BY <2>1 DEF Ticket
<1>4. /\ q \in Seq(Ticket) /\ Len(q) = Len(tickets)
      /\ \A j \in 1 .. Len(q) : q[j].account = tickets[j].account
  BY <1>1, <1>2, <1>3
<1> QED BY <1>1, <1>4, SameAccounts DEF SetRtt, QueueInv

LEMMA CancelKeeps ==
  ASSUME QueueInv, NEW i \in DOMAIN tickets, Cancel(i)
  PROVE  QueueInv' /\ Waiting' = Waiting \ {tickets[i].account}
<1>1. tickets \in Seq(Ticket) /\ Len(tickets) \in Nat /\ i \in 1 .. Len(tickets)
  BY DEF QueueInv
<1>2. PICK q : q = RemoveAt(tickets, i)
  OBVIOUS
<1>3. /\ q \in Seq(Ticket) /\ Len(q) = Len(tickets) - 1
      /\ \A k \in 1 .. Len(tickets) - 1 : q[k] = IF k < i THEN tickets[k] ELSE tickets[k + 1]
  BY <1>1, <1>2, RemoveOne
<1> DEFINE at(k) == IF k < i THEN k ELSE k + 1
<1>4. \A k \in 1 .. Len(q) : at(k) \in 1 .. Len(tickets) /\ q[k] = tickets[at(k)]
  BY <1>1, <1>3
<1>5. /\ \A k, l \in 1 .. Len(q) : at(k) = at(l) => k = l
      /\ \A k \in 1 .. Len(q) : at(k) # i
  BY <1>1, <1>3
<1>9. ASSUME NEW k \in 1 .. Len(tickets), k # i
      PROVE  \E l \in 1 .. Len(q) : at(l) = k
  <2>1. CASE k < i
    BY <1>1, <1>3, <2>1
  <2>2. CASE k > i
    <3>1. k - 1 \in 1 .. Len(q) /\ at(k - 1) = k
      BY <1>1, <1>3, <2>2
    <3> QED BY <3>1
  <2> QED BY <1>1, <1>9, <2>1, <2>2
<1> HIDE DEF at
<1>6. OnePerAccount(q)
  BY <1>4, <1>5 DEF QueueInv, OnePerAccount
<1>7. \A o \in offers : QueueApart(q, o.pair)
  BY <1>4 DEF QueueInv, QueueApart
<1>8. QueueApart(q, returning)
  BY <1>4 DEF QueueInv, QueueApart
<1>10. Waiting' = Waiting \ {tickets[i].account}
  <2>1. \A k \in 1 .. Len(tickets) : tickets[k].account = tickets[i].account => k = i
    BY <1>1 DEF QueueInv, OnePerAccount
  <2>2. \A a : (\E k \in 1 .. Len(q) : q[k].account = a)
              <=> a # tickets[i].account /\ \E k \in 1 .. Len(tickets) : tickets[k].account = a
    BY <1>4, <1>5, <1>9, <2>1
  <2>3. Waiting' = {t.account : t \in ToSet(q)} /\ Waiting = {t.account : t \in ToSet(tickets)}
    BY <1>2 DEF Waiting, Cancel
  <2>4. \A a : a \in Waiting' <=> a \in Waiting /\ a # tickets[i].account
    BY <1>1, <1>3, <2>2, <2>3, AccountsIn
  <2> QED BY <2>3, <2>4
<1> QED BY <1>2, <1>3, <1>6, <1>7, <1>8, <1>10 DEF QueueInv, Cancel

\* Tickets come back to the front of the queue.
LEMMA RequeueKeeps ==
  ASSUME QueueInv, NEW t \in returning, Requeue(t)
  PROVE  QueueInv' /\ Waiting' = Waiting \cup {t.account}
<1>1. PICK e : e = [t EXCEPT !.waited = 0]
  OBVIOUS
<1>2. t \in Ticket /\ e \in Ticket /\ e.account = t.account
  <2>1. t \in Ticket
    BY DEF QueueInv
  <2>2. 0 \in 0 .. Unlimited
    BY UnlimitedIs
  <2> QED BY <1>1, <2>1, <2>2 DEF Ticket
<1>3. tickets \in Seq(Ticket) /\ Len(tickets) \in Nat
  BY DEF QueueInv
<1>4. PICK q : q = <<e>> \o tickets
  OBVIOUS
<1>5. /\ q \in Seq(Ticket) /\ Len(q) = Len(tickets) + 1 /\ q[1] = e
      /\ \A k \in 2 .. Len(q) : k - 1 \in 1 .. Len(tickets) /\ q[k] = tickets[k - 1]
  <2>1. PICK f : f = <<e>>
    OBVIOUS
  <2>2. f \in Seq(Ticket) /\ Len(f) = 1 /\ f[1] = e
    BY <1>2, <2>1
  <2>3. /\ q \in Seq(Ticket) /\ Len(q) = 1 + Len(tickets)
        /\ \A k \in 1 .. 1 + Len(tickets) : q[k] = IF k <= 1 THEN f[k] ELSE tickets[k - 1]
    BY <1>3, <1>4, <2>1, <2>2, ConcatProperties
  <2> QED BY <1>3, <2>2, <2>3
<1>6. \A k \in 1 .. Len(q) : k = 1 \/ k \in 2 .. Len(q)
  BY <1>3, <1>5
<1>7. \A k \in 1 .. Len(tickets) : tickets[k].account # t.account
  BY DEF QueueInv, QueueApart
<1>8. OnePerAccount(q)
  <2> SUFFICES ASSUME NEW k \in 1 .. Len(q), NEW l \in 1 .. Len(q), q[k].account = q[l].account
               PROVE  k = l
    BY DEF OnePerAccount
  <2>1. CASE k = 1 /\ l \in 2 .. Len(q)
    BY <1>2, <1>5, <1>7, <2>1
  <2>2. CASE l = 1 /\ k \in 2 .. Len(q)
    BY <1>2, <1>5, <1>7, <2>2
  <2>3. CASE k \in 2 .. Len(q) /\ l \in 2 .. Len(q)
    <3>1. k - 1 = l - 1
      BY <1>5, <2>3 DEF QueueInv, OnePerAccount
    <3> QED BY <2>3, <3>1
  <2> QED BY <1>6, <2>1, <2>2, <2>3
<1>9. \A o \in offers : QueueApart(q, o.pair)
  <2>1. \A o \in offers : \A u \in o.pair : u.account # t.account
    BY DEF QueueInv, SetsApart
  <2> QED BY <1>2, <1>5, <1>6, <2>1 DEF QueueInv, QueueApart
<1>10. QueueApart(q, returning \ {t})
  <2>1. \A u \in returning \ {t} : u.account # t.account
    BY DEF QueueInv
  <2>2. ASSUME NEW k \in 1 .. Len(q), NEW u \in returning \ {t}
        PROVE  q[k].account # u.account
    <3>1. CASE k = 1
      BY <1>2, <1>5, <2>1, <3>1
    <3>2. CASE k \in 2 .. Len(q)
      <4>1. QueueApart(tickets, returning) /\ u \in returning
        BY DEF QueueInv
      <4>2. tickets[k - 1].account # u.account
        BY <1>5, <3>2, <4>1 DEF QueueApart
      <4> QED BY <1>5, <3>2, <4>2
    <3> QED BY <1>6, <3>1, <3>2
  <2> QED BY <2>2 DEF QueueApart
<1>11. \A o \in offers : SetsApart(o.pair, returning \ {t})
  BY DEF QueueInv, SetsApart
<1>12. /\ tickets' = q /\ offers' = offers /\ recent' = recent
       /\ returning' = returning \ {t}
  BY <1>1, <1>4 DEF Requeue, requeue_front
<1>13. Waiting' = Waiting \cup {t.account}
  <2>1. \A k \in 1 .. Len(tickets) : k + 1 \in 2 .. Len(q) /\ q[k + 1] = tickets[k]
    BY <1>3, <1>5
  <2>2. ASSUME NEW a
        PROVE  (\E k \in 1 .. Len(q) : q[k].account = a)
                  <=> a = t.account \/ \E k \in 1 .. Len(tickets) : tickets[k].account = a
    <3>1. ASSUME NEW k \in 1 .. Len(q), q[k].account = a
          PROVE  a = t.account \/ \E l \in 1 .. Len(tickets) : tickets[l].account = a
      BY <1>2, <1>5, <1>6, <3>1
    <3>2. q[1].account = t.account /\ 1 \in 1 .. Len(q)
      BY <1>2, <1>3, <1>5
    <3>3. ASSUME NEW l \in 1 .. Len(tickets), tickets[l].account = a
          PROVE  \E k \in 1 .. Len(q) : q[k].account = a
      <4>1. l + 1 \in 1 .. Len(q) /\ q[l + 1].account = a
        BY <1>3, <2>1, <3>3
      <4> QED BY <4>1
    <3> QED BY <3>1, <3>2, <3>3
  <2> QED BY <1>3, <1>5, <1>12, <2>2, AccountsIn DEF Waiting
<1> QED BY <1>5, <1>8, <1>9, <1>10, <1>11, <1>12, <1>13 DEF QueueInv

\* A ticket is spent.
LEMMA SpendKeeps ==
  ASSUME QueueInv, NEW t \in returning, Spend(t)
  PROVE  QueueInv'
<1>1. /\ tickets' = tickets /\ offers' = offers /\ recent' = recent
      /\ returning' \subseteq returning
  BY DEF Spend
<1>2. QueueApart(tickets, returning')
  BY <1>1 DEF QueueInv, QueueApart
<1>3. \A o \in offers : SetsApart(o.pair, returning')
  BY <1>1 DEF QueueInv, SetsApart
<1> QED BY <1>1, <1>2, <1>3 DEF QueueInv

\* Two tickets leave their offer.
LEMMA SettleKeeps ==
  ASSUME QueueInv, NEW o \in offers, NEW played \in BOOLEAN, Settle(o, played)
  PROVE  QueueInv'
<1>1. tickets' = tickets /\ offers' = offers \ {o} /\ returning' = returning \cup o.pair
  BY DEF Settle
<1>2. PICK a \in Ticket, b \in Ticket : a.account # b.account /\ o.pair = {a, b}
  BY DEF QueueInv, OfTwo
<1>3. recent' \in [Couple -> 0 .. Cooldown]
  <2>1. Cooldown \in 0 .. Cooldown
    BY PairConstants
  <2> QED BY <2>1 DEF Settle, QueueInv
<1>4. QueueApart(tickets, returning')
  BY <1>1 DEF QueueInv, QueueApart
<1>5. ASSUME NEW t \in returning', NEW u \in returning', t.account = u.account PROVE t = u
  <2>1. SetsApart(o.pair, returning)
    BY DEF QueueInv
  <2>2. CASE t \in returning /\ u \in returning
    BY <1>5, <2>2 DEF QueueInv
  <2>3. CASE t \in o.pair /\ u \in o.pair
    BY <1>2, <1>5, <2>3
  <2>4. CASE t \in o.pair /\ u \in returning
    BY <1>5, <2>1, <2>4 DEF SetsApart
  <2>5. CASE t \in returning /\ u \in o.pair
    BY <1>5, <2>1, <2>5 DEF SetsApart
  <2> QED BY <1>1, <2>2, <2>3, <2>4, <2>5
<1>6. ASSUME NEW p \in offers' PROVE SetsApart(p.pair, returning')
  <2>1. p \in offers /\ p # o
    BY <1>1
  <2>2. SetsApart(p.pair, o.pair) /\ SetsApart(p.pair, returning)
    BY <2>1 DEF QueueInv
  <2> QED BY <1>1, <2>2 DEF SetsApart
<1>7. returning' \subseteq Ticket
  BY <1>1, <1>2 DEF QueueInv
<1> QED BY <1>1, <1>3, <1>4, <1>5, <1>6, <1>7 DEF QueueInv

\* A tick makes tickets older and recent opponents less recent.
LEMMA TickKeeps ==
  ASSUME QueueInv, Tick
  PROVE  QueueInv' /\ Waiting' = Waiting
<1>1. tickets \in Seq(Ticket) /\ Len(tickets) \in Nat /\ DOMAIN tickets = 1 .. Len(tickets)
  BY DEF QueueInv
<1> DEFINE aged(t) == [t EXCEPT !.waited = Min({@ + 1, Unlimited})]
<1>2. PICK q : q = [i \in DOMAIN tickets |-> aged(tickets[i])]
  OBVIOUS
<1>3. ASSUME NEW t \in Ticket
      PROVE  aged(t) \in Ticket /\ aged(t).account = t.account
  <2>1. t.waited \in 0 .. Unlimited
    BY DEF Ticket
  <2>2. PICK w : w = Min({t.waited + 1, Unlimited})
    OBVIOUS
  <2>3. w \in 0 .. Unlimited
    <3>1. t.waited + 1 \in Int /\ Unlimited \in Int
      BY <2>1, UnlimitedIs
    <3>2. w = IF t.waited + 1 <= Unlimited THEN t.waited + 1 ELSE Unlimited
      BY <2>2, <3>1, PairMax
    <3> QED BY <2>1, <3>2, UnlimitedIs
  <2>4. [t EXCEPT !.waited = w] \in Ticket /\ [t EXCEPT !.waited = w].account = t.account
    BY <2>3 DEF Ticket
  <2> QED BY <2>2, <2>4
<1>6. tickets' = q /\ offers' = offers /\ returning' = returning
  BY <1>2 DEF Tick
<1> HIDE DEF aged
<1>4. /\ q \in Seq(Ticket) /\ Len(q) = Len(tickets)
      /\ \A i \in 1 .. Len(q) : q[i].account = tickets[i].account
  <2>0. \A i \in 1 .. Len(tickets) : tickets[i] \in Ticket
    BY <1>1
  <2>1. q \in [1 .. Len(tickets) -> Ticket]
    BY <1>1, <1>2, <1>3, <2>0
  <2>2. q \in Seq(Ticket) /\ Len(q) = Len(tickets)
    BY <1>1, <2>1
  <2> QED BY <1>1, <1>2, <1>3, <2>0, <2>2
<1>5. recent' \in [Couple -> 0 .. Cooldown]
  <2>1. ASSUME NEW x \in Couple PROVE Max({recent[x] - 1, 0}) \in 0 .. Cooldown
    <3>1. recent[x] \in 0 .. Cooldown
      BY DEF QueueInv
    <3>2. recent[x] - 1 \in Int /\ Cooldown \in Nat
      BY <3>1, PairConstants
    <3>3. Max({recent[x] - 1, 0}) = IF recent[x] - 1 >= 0 THEN recent[x] - 1 ELSE 0
      BY <3>2, PairMax
    <3> QED BY <3>1, <3>2, <3>3
  <2> QED BY <2>1 DEF Tick
<1> QED BY <1>4, <1>5, <1>6, SameAccounts

\* A ticket of the queue has an account that no other ticket of it has.
LEMMA TicketsDiffer ==
  ASSUME NEW q \in Seq(Ticket), OnePerAccount(q),
         NEW a \in ToSet(q), NEW b \in ToSet(q), a.account = b.account
  PROVE  a = b
<1>1. PICK i \in 1 .. Len(q) : a = q[i]
  BY ToSetIs
<1>2. PICK j \in 1 .. Len(q) : b = q[j]
  BY ToSetIs
<1> QED BY <1>1, <1>2 DEF OnePerAccount

\* The step of Queue::pair, and what it gives.
LEMMA PairUpIs ==
  ASSUME QueueInv, PairUp
  PROVE  \E s : /\ s \in Rounds(tickets) /\ MadeOf(tickets, s)
                /\ tickets' = s.queue /\ offers' = offers \cup s.offers
                /\ s.offers \cap offers = {}
<1>1. PICK s \in Rounds(tickets) : tickets' = s.queue /\ offers' = offers \cup s.offers
  BY DEF PairUp
<1>2. tickets \in Seq(Ticket) /\ OnePerAccount(tickets)
  BY DEF QueueInv
<1>3. MadeOf(tickets, s)
  BY <1>2, PairingIs
<1>4. ASSUME NEW o \in s.offers, o \in offers PROVE FALSE
  <2>1. PICK a \in ToSet(tickets) : a \in o.pair
    BY <1>3 DEF MadeOf
  <2>2. PICK i \in 1 .. Len(tickets) : a = tickets[i]
    BY <1>2, ToSetIs
  <2> QED BY <1>4, <2>1, <2>2 DEF QueueInv, QueueApart
<1> QED BY <1>1, <1>3, <1>4

LEMMA PairUpKeeps ==
  ASSUME QueueInv, PairUp
  PROVE  QueueInv'
<1>1. PICK s : /\ MadeOf(tickets, s)
               /\ tickets' = s.queue /\ offers' = offers \cup s.offers
  BY PairUpIs
<1>2. tickets \in Seq(Ticket) /\ OnePerAccount(tickets)
  BY DEF QueueInv
<1>3. PICK r : r = s.queue
  OBVIOUS
<1>4. /\ r \in Seq(Ticket) /\ s.offers \subseteq Offer
      /\ OnePerAccount(r)
      /\ ToSet(r) \subseteq ToSet(tickets)
      /\ \A o \in s.offers : \E a, b \in ToSet(tickets) \ ToSet(r) :
           a.account # b.account /\ o.pair = {a, b}
      /\ \A o, p \in s.offers : o # p => o.pair \cap p.pair = {}
  BY <1>1, <1>3 DEF MadeOf, Run
<1>5. \A i \in 1 .. Len(r) : r[i] \in ToSet(r) /\ r[i] \in ToSet(tickets)
  BY <1>4, ToSetIs
\* A waiting ticket's account is nowhere else.
<1>6. ASSUME NEW a \in ToSet(tickets)
      PROVE  /\ a \in Ticket
             /\ \A o \in offers : \A t \in o.pair : a.account # t.account
             /\ \A t \in returning : a.account # t.account
  <2>1. PICK i \in 1 .. Len(tickets) : a = tickets[i]
    BY <1>2, ToSetIs
  <2>2. a \in Ticket
    BY <1>2, <2>1
  <2>3. \A o \in offers : \A t \in o.pair : a.account # t.account
    BY <2>1 DEF QueueInv, QueueApart
  <2>4. \A t \in returning : a.account # t.account
    BY <2>1 DEF QueueInv, QueueApart
  <2> QED BY <2>2, <2>3, <2>4
<1>7. ASSUME NEW o \in s.offers
      PROVE  OfTwo(o) /\ o.pair \subseteq ToSet(tickets) /\ QueueApart(r, o.pair)
  <2>1. PICK a \in ToSet(tickets) \ ToSet(r), b \in ToSet(tickets) \ ToSet(r) :
          a.account # b.account /\ o.pair = {a, b}
    BY <1>4
  <2>2. OfTwo(o)
    BY <1>6, <2>1 DEF OfTwo
  <2>3. ASSUME NEW i \in 1 .. Len(r), NEW t \in {a, b} PROVE r[i].account # t.account
    <3>1. r[i] \in ToSet(r) /\ r[i] \in ToSet(tickets) /\ t \in ToSet(tickets) /\ t \notin ToSet(r)
      BY <1>5, <2>1
    <3> QED BY <1>2, <3>1, TicketsDiffer
  <2> QED BY <2>1, <2>2, <2>3 DEF QueueApart
<1>8. \A o \in offers : QueueApart(r, o.pair)
  BY <1>5, <1>6 DEF QueueApart
<1>9. QueueApart(r, returning)
  BY <1>5, <1>6 DEF QueueApart
<1>10. ASSUME NEW o \in s.offers, NEW p \in s.offers, o # p PROVE SetsApart(o.pair, p.pair)
  <2>1. o.pair \cap p.pair = {}
    BY <1>4, <1>10
  <2>2. ASSUME NEW t \in o.pair, NEW u \in p.pair, t.account = u.account PROVE FALSE
    <3>1. t \in ToSet(tickets) /\ u \in ToSet(tickets)
      BY <1>7
    <3>2. t = u
      BY <1>2, <2>2, <3>1, TicketsDiffer
    <3> QED BY <2>1, <3>2
  <2> QED BY <2>2 DEF SetsApart
<1>11. ASSUME NEW o \in s.offers, NEW p \in offers
       PROVE  SetsApart(o.pair, p.pair) /\ SetsApart(p.pair, o.pair)
  BY <1>6, <1>7 DEF SetsApart
<1>12. \A o \in s.offers : SetsApart(o.pair, returning)
  BY <1>6, <1>7 DEF SetsApart
<1>13. \A o, p \in offers' : o # p => SetsApart(o.pair, p.pair)
  BY <1>1, <1>10, <1>11 DEF QueueInv
<1>14. \A o \in offers' : OfTwo(o) /\ QueueApart(r, o.pair)
  BY <1>1, <1>7, <1>8 DEF QueueInv
<1>15. \A o \in offers' : SetsApart(o.pair, returning)
  BY <1>1, <1>12 DEF QueueInv
<1>16. offers' \subseteq Offer
  BY <1>1, <1>4 DEF QueueInv
<1>17. tickets' = r /\ returning' = returning /\ recent' = recent
  BY <1>1, <1>3 DEF PairUp
<1> QED BY <1>4, <1>9, <1>13, <1>14, <1>15, <1>16, <1>17 DEF QueueInv

LEMMA QueueStep == QueueInv /\ [QueueNext]_queueVars => QueueInv'
<1> SUFFICES ASSUME QueueInv, [QueueNext]_queueVars PROVE QueueInv'
  OBVIOUS
<1>1. CASE UNCHANGED queueVars
  BY <1>1 DEF queueVars, QueueInv
<1> QED
  BY <1>1, PushKeeps, CancelKeeps, SetRttKeeps, PairUpKeeps, SettleKeeps, RequeueKeeps,
     SpendKeeps, TickKeeps
  DEF QueueNext

\* The inductive invariant: no account has two tickets, waiting, on offer or on
\* their way back (Queue::pair, remove_player, requeue_front).
THEOREM QueueInvAlways == QueueSpec => []QueueInv
<1> QED BY QueueStart, QueueStep, PTL DEF QueueSpec

-----------------------------------------------------------------------------
(* Types: an account's ticket is in one place *)

LEMMA WaitingCount ==
  ASSUME NEW q \in Seq(Ticket), OnePerAccount(q)
  PROVE  Cardinality({t.account : t \in ToSet(q)}) = Len(q)
<1> DEFINE W == {t.account : t \in ToSet(q)}
           f == [i \in 1 .. Len(q) |-> q[i].account]
<1>0. Len(q) \in Nat
  BY ToSetIs
<1>1. f \in [1 .. Len(q) -> W]
  <2>1. \A i \in 1 .. Len(q) : q[i] \in ToSet(q)
    BY ToSetIs
  <2> QED BY <2>1
<1>2. \A i, j \in 1 .. Len(q) : f[i] = f[j] => i = j
  BY DEF OnePerAccount
<1>3. \A w \in W : \E i \in 1 .. Len(q) : f[i] = w
  BY ToSetIs
<1> HIDE DEF f, W
<1>4. f \in Bijection(1 .. Len(q), W)
  BY <1>1, <1>2, <1>3, Fun_IsBij
<1>5. ExistsBijection(1 .. Len(q), W)
  BY <1>4 DEF ExistsBijection
<1>6. IsFiniteSet(1 .. Len(q)) /\ Cardinality(1 .. Len(q)) = Len(q)
  BY <1>0, FS_Interval
<1>7. Cardinality(W) = Len(q)
  BY <1>5, <1>6, FS_Bijection
<1> QED BY <1>7 DEF W

LEMMA TwoCount ==
  ASSUME NEW o, OfTwo(o)
  PROVE  Cardinality(AccountsOf(o)) = 2
<1>1. PICK a, b : a.account # b.account /\ o.pair = {a, b}
  BY DEF OfTwo
<1>2. AccountsOf(o) = {a.account} \cup {b.account}
  BY <1>1 DEF AccountsOf
<1>3. IsFiniteSet({a.account}) /\ Cardinality({a.account}) = 1
  BY FS_Singleton
<1>4. Cardinality({a.account} \cup {b.account}) = 1 + 1
  BY <1>1, <1>3, FS_AddElement
<1> QED BY <1>2, <1>4

LEMMA QueueTypes == QueueInv => QueueTypeOK
<1> SUFFICES ASSUME QueueInv PROVE QueueTypeOK
  OBVIOUS
<1>1. tickets \in Seq(Ticket) /\ OnePerAccount(tickets)
  BY DEF QueueInv
<1>2. ToSet(tickets) \subseteq Ticket
  BY <1>1, ToSetIs
<1>3. Cardinality(Waiting) = Len(tickets)
  BY <1>1, WaitingCount DEF Waiting
<1>4. \A o \in offers : Cardinality(AccountsOf(o)) = 2
  BY TwoCount DEF QueueInv
<1>5. ASSUME NEW w \in Waiting, w \in Elsewhere PROVE FALSE
  <2>1. PICK t \in ToSet(tickets) : w = t.account
    BY DEF Waiting
  <2>2. PICK i \in 1 .. Len(tickets) : t = tickets[i]
    BY <1>1, ToSetIs
  <2>3. CASE \E o \in offers : w \in AccountsOf(o)
    BY <2>1, <2>2, <2>3 DEF AccountsOf, QueueInv, QueueApart
  <2>4. CASE \E u \in returning : w = u.account
    BY <2>1, <2>2, <2>4 DEF QueueInv, QueueApart
  <2> QED BY <1>5, <2>3, <2>4 DEF Elsewhere
<1> QED BY <1>2, <1>3, <1>4, <1>5 DEF QueueInv, QueueTypeOK

\* The queue, the offers and the tickets on their way back hold tickets, and an
\* account has one of them in one place: what the removals by index of
\* Queue::pair must keep.
THEOREM QueueTypesAlways == QueueSpec => []QueueTypeOK
<1> QED BY QueueInvAlways, QueueTypes, PTL

-----------------------------------------------------------------------------
(* What a step of Queue::pair promises *)

\* Only Queue::pair makes offers.
LEMMA OfferedByPair ==
  ASSUME QueueInv, [QueueNext]_queueVars, Offered
  PROVE  \E s : /\ s \in Rounds(tickets) /\ MadeOf(tickets, s)
                /\ tickets' = s.queue /\ offers' = offers \cup s.offers
                /\ s.offers \cap offers = {} /\ UNCHANGED recent
<1>1. PairUp
  BY DEF QueueNext, queueVars, Offered, Push, Cancel, SetRtt, Settle, Requeue, Spend, Tick
<1> QED BY <1>1, PairUpIs DEF PairUp

LEMMA PairsAllStep == QueueInv /\ [QueueNext]_queueVars => PairsAll
<1> SUFFICES ASSUME QueueInv, [QueueNext]_queueVars, Offered,
                    NEW a \in ToSet(tickets'), NEW b \in ToSet(tickets')
             PROVE  ~Pairable(a, b)
  BY DEF PairsAll
<1>1. PICK s \in Rounds(tickets) : tickets' = s.queue
  BY OfferedByPair
<1>2. tickets \in Seq(Ticket) /\ OnePerAccount(tickets)
  BY DEF QueueInv
<1> QED BY <1>1, <1>2, PairingIs

LEMMA PrefersNewStep == QueueInv /\ [QueueNext]_queueVars => PrefersNew
<1> SUFFICES ASSUME QueueInv, [QueueNext]_queueVars, Offered,
                    NEW a \in ToSet(tickets), NEW b \in ToSet(tickets), NewOpponents(a, b)
             PROVE  \E o \in offers' \ offers :
                      /\ {a, b} \cap o.pair # {}
                      /\ \A c, d \in o.pair : c # d => rematch_ok(c, d)
  BY DEF PrefersNew
<1>1. PICK s \in Rounds(tickets) : /\ offers' = offers \cup s.offers
                                   /\ s.offers \cap offers = {}
  BY OfferedByPair
<1>2. tickets \in Seq(Ticket) /\ OnePerAccount(tickets)
  BY DEF QueueInv
<1>3. PICK o \in s.offers : GivesNew(o, a, b)
  BY <1>2, PairingIs
<1>4. o \in offers' \ offers
  BY <1>1
<1> QED BY <1>3, <1>4 DEF GivesNew

LEMMA ServesFrontStep == QueueInv /\ [QueueNext]_queueVars => ServesFront
<1> SUFFICES ASSUME QueueInv, [QueueNext]_queueVars, Offered,
                    NEW i \in DOMAIN tickets,
                    \E b \in ToSet(tickets) : NewOpponents(tickets[i], b),
                    \A h \in 1 .. i - 1 : \A b \in ToSet(tickets) : ~NewOpponents(tickets[h], b)
             PROVE  \E o \in offers' : tickets[i] \in o.pair
  BY DEF ServesFront
<1>1. PICK s \in Rounds(tickets) : offers' = offers \cup s.offers
  BY OfferedByPair
<1>2. tickets \in Seq(Ticket) /\ OnePerAccount(tickets) /\ i \in 1 .. Len(tickets)
  BY DEF QueueInv
<1>3. FirstNew(tickets, i)
  BY DEF FirstNew
<1>4. PICK o \in s.offers : tickets[i] \in o.pair
  BY <1>2, <1>3, PairingIs
<1> QED BY <1>1, <1>4

\* Queue::pair always comes to something: in every round with somebody to pair,
\* its search finds a pair (find_pair).  So a tick that may pair does.
THEOREM PairingAnswersAlways == QueueSpec => [](Rounds(tickets) # {})
<1>1. QueueInv => Rounds(tickets) # {}
  <2> SUFFICES ASSUME QueueInv PROVE Rounds(tickets) # {}
    OBVIOUS
  <2>1. tickets \in Seq(Ticket) /\ OnePerAccount(tickets) /\ Len(tickets) \in Nat
    BY DEF QueueInv
  <2>2. PICK N \in Nat : N = Len(tickets) \div 2
    BY <2>1
  <2> QED BY <2>1, <2>2, RoundsRun
<1> QED BY <1>1, QueueInvAlways, PTL

\* When Queue::pair has made its offers, no two tickets are left that may be
\* paired (its loop ends only when find_pair finds nobody).
THEOREM NobodyLeftPairableAlways == QueueSpec => NobodyLeftPairable
<1>1. QueueInv /\ [QueueNext]_queueVars => [PairsAll]_queueVars
  BY PairsAllStep
<1> QED BY <1>1, QueueInvAlways, PTL DEF QueueSpec, NobodyLeftPairable

\* Of two players who may meet as new opponents, one at least is given a new
\* opponent (find_pair's first pass).
THEOREM NewOpponentsFirstAlways == QueueSpec => NewOpponentsFirst
<1>1. QueueInv /\ [QueueNext]_queueVars => [PrefersNew]_queueVars
  BY PrefersNewStep
<1> QED BY <1>1, QueueInvAlways, PTL DEF QueueSpec, NewOpponentsFirst

\* The first of the queue that may meet a new opponent gets an offer
\* (find_pair_pass).
THEOREM FrontIsServedAlways == QueueSpec => FrontIsServed
<1>1. QueueInv /\ [QueueNext]_queueVars => [ServesFront]_queueVars
  BY ServesFrontStep
<1> QED BY <1>1, QueueInvAlways, PTL DEF QueueSpec, FrontIsServed

-----------------------------------------------------------------------------
(* No ticket is lost or put back twice: TicketLedger *)

QueueLedgerStep == [Ledger!Next]_(Ledger!vars)

\* Where the accounts are, before and after a step.
LEMMA PlacesAre ==
  /\ \A k : k \in Elsewhere <=> \/ \E o \in offers : \E t \in o.pair : t.account = k
                              \/ \E t \in returning : t.account = k
  /\ \A k : k \in Elsewhere' <=> \/ \E o \in offers' : \E t \in o.pair : t.account = k
                               \/ \E t \in returning' : t.account = k
BY DEF Elsewhere, AccountsOf

LEMMA PlacesApart ==
  ASSUME QueueInv
  PROVE  Waiting \subseteq Queuer /\ Elsewhere \subseteq Queuer /\ Waiting \cap Elsewhere = {}
<1>1. Waiting \cap Elsewhere = {} /\ ToSet(tickets) \subseteq Ticket
  BY QueueTypes DEF QueueTypeOK
<1>2. Waiting \subseteq Queuer
  BY <1>1 DEF Waiting, Ticket
<1>3. (\A o \in offers : o.pair \subseteq Ticket) /\ returning \subseteq Ticket
  BY DEF QueueInv, OfTwo
<1>4. Elsewhere \subseteq Queuer
  BY <1>3, PlacesAre DEF Ticket
<1> QED BY <1>1, <1>2, <1>4

\* What the ledger sees of a step is told by where accounts go.
LEMMA PlacesTell ==
  ASSUME QueueInv, QueueInv'
  PROVE  /\ Waiting' = Waiting /\ Elsewhere' \subseteq Elsewhere => QueueLedgerStep
         /\ \A k \in Queuer :
              /\ Waiting' = Waiting \cup {k} /\ Elsewhere' = Elsewhere
                   /\ k \notin Waiting \cup Elsewhere => QueueLedgerStep
              /\ Waiting' = Waiting \cup {k} /\ Elsewhere' = Elsewhere \ {k}
                   /\ k \in Elsewhere => QueueLedgerStep
              /\ Waiting' = Waiting \ {k} /\ Elsewhere' = Elsewhere => QueueLedgerStep
         /\ \A K \in SUBSET Waiting :
              Waiting' = Waiting \ K /\ Elsewhere' = Elsewhere \cup K => QueueLedgerStep
<1>0. /\ Waiting \subseteq Queuer /\ Elsewhere \subseteq Queuer /\ Waiting \cap Elsewhere = {}
  BY PlacesApart
<1>1. ASSUME Waiting' = Waiting, Elsewhere' \subseteq Elsewhere PROVE QueueLedgerStep
  <2> DEFINE S == (Elsewhere \ Elsewhere') \X {"match"}
  <2>1. waitingBar' = waitingBar
    BY <1>1 DEF waitingBar
  <2>2. outBar' = outBar \ S /\ S \in SUBSET (Queuer \X {"match"})
    BY <1>0, <1>1 DEF outBar
  <2>3. askingBar' \in SUBSET Queuer
    BY DEF askingBar
  <2>4. Ledger!Spend(S)
    BY <2>1, <2>2, <2>3 DEF Ledger!Spend
  <2> QED BY <2>2, <2>4 DEF Ledger!Next, QueueLedgerStep
<1>2. ASSUME NEW k \in Queuer, Waiting' = Waiting \cup {k}, Elsewhere' = Elsewhere,
             k \notin Waiting \cup Elsewhere
      PROVE  QueueLedgerStep
  <2>1. waitingBar' = [waitingBar EXCEPT ![k] = @ + 1]
    <3>1. waitingBar[k] + 1 = 1
      BY <1>2 DEF waitingBar
    <3>2. waitingBar' = [waitingBar EXCEPT ![k] = 1]
      BY <1>2 DEF waitingBar
    <3> QED BY <3>1, <3>2
  <2>2. outBar' = outBar
    BY <1>2 DEF outBar
  <2>3. k \in askingBar /\ askingBar' = askingBar \ {k}
    BY <1>2 DEF askingBar
  <2>4. Ledger!Enqueue(k)
    BY <2>1, <2>2, <2>3 DEF Ledger!Enqueue
  <2> QED BY <2>4 DEF Ledger!Next, QueueLedgerStep
<1>3. ASSUME NEW k \in Queuer, Waiting' = Waiting \cup {k}, Elsewhere' = Elsewhere \ {k},
             k \in Elsewhere
      PROVE  QueueLedgerStep
  <2>0. k \notin Waiting
    BY <1>0, <1>3
  <2>1. waitingBar' = [waitingBar EXCEPT ![k] = @ + 1]
    <3>1. waitingBar[k] + 1 = 1
      BY <1>3, <2>0 DEF waitingBar
    <3>2. waitingBar' = [waitingBar EXCEPT ![k] = 1]
      BY <1>3 DEF waitingBar
    <3> QED BY <3>1, <3>2
  <2>2. <<k, "match">> \in outBar /\ outBar' = outBar \ {<<k, "match">>}
    BY <1>3 DEF outBar
  <2>3. askingBar' = askingBar
    BY <1>3 DEF askingBar
  <2>4. Ledger!PutBack(k, "match")
    BY <2>1, <2>2, <2>3 DEF Ledger!PutBack
  <2> QED BY <2>4 DEF Ledger!Next, QueueLedgerStep
<1>4. ASSUME NEW k \in Queuer, Waiting' = Waiting \ {k}, Elsewhere' = Elsewhere
      PROVE  QueueLedgerStep
  <2>1. waitingBar' = [waitingBar EXCEPT ![k] = 0]
    BY <1>4 DEF waitingBar
  <2>2. outBar' = outBar \ {}
    BY <1>4 DEF outBar
  <2>3. askingBar' \in SUBSET Queuer
    BY DEF askingBar
  <2>4. Ledger!Withdraw(k, {})
    BY <2>1, <2>2, <2>3 DEF Ledger!Withdraw
  <2> QED BY <2>4 DEF Ledger!Next, QueueLedgerStep
<1>5. ASSUME NEW K \in SUBSET Waiting, Waiting' = Waiting \ K, Elsewhere' = Elsewhere \cup K
      PROVE  QueueLedgerStep
  <2> DEFINE S == K \X {"match"}
  <2>1. Ledger!Drawn(S) = K
    <3>1. \A w \in K : <<w, "match">> \in S /\ <<w, "match">>[1] = w
      OBVIOUS
    <3>2. \A s \in S : s[1] \in K
      OBVIOUS
    <3> HIDE DEF S
    <3> QED BY <3>1, <3>2 DEF Ledger!Drawn
  <2>2. waitingBar' = [w \in Queuer |-> IF w \in K THEN waitingBar[w] - 1 ELSE waitingBar[w]]
    BY <1>5 DEF waitingBar
  <2>3. /\ outBar' = outBar \cup S /\ S \cap outBar = {} /\ S \in SUBSET (Queuer \X {"match"})
        /\ \A s, t \in S : s[1] = t[1] => s = t
    BY <1>0, <1>5 DEF outBar
  <2>4. askingBar' = askingBar
    BY <1>5 DEF askingBar
  <2>5. \A w \in K : waitingBar[w] > 0
    BY <1>0, <1>5 DEF waitingBar
  <2> HIDE DEF S
  <2>6. Ledger!Draw(S)
    BY <2>1, <2>2, <2>3, <2>4, <2>5 DEF Ledger!Draw
  <2> QED BY <2>3, <2>6 DEF Ledger!Next, QueueLedgerStep
<1> QED BY <1>1, <1>2, <1>3, <1>4, <1>5

\* Who is put on offer has waited, and who waits no more is on offer.
LEMMA PairUpMoves ==
  ASSUME QueueInv, PairUp
  PROVE  \E K \in SUBSET Waiting : Waiting' = Waiting \ K /\ Elsewhere' = Elsewhere \cup K
<1>1. PICK s : /\ MadeOf(tickets, s)
               /\ tickets' = s.queue /\ offers' = offers \cup s.offers
  BY PairUpIs
<1>2. tickets \in Seq(Ticket) /\ OnePerAccount(tickets) /\ returning' = returning
  BY DEF QueueInv, PairUp
<1> DEFINE K == {t.account : t \in ToSet(tickets) \ ToSet(s.queue)}
<1>3. Waiting = {t.account : t \in ToSet(tickets)} /\ Waiting' = {t.account : t \in ToSet(s.queue)}
  BY <1>1 DEF Waiting
<1>4. K \in SUBSET Waiting
  BY <1>3
<1>5. Waiting' = Waiting \ K
  <2>1. ToSet(s.queue) \subseteq ToSet(tickets)
    BY <1>1 DEF MadeOf
  <2>2. \A a, b \in ToSet(tickets) : a.account = b.account => a = b
    BY <1>2, TicketsDiffer
  <2> QED BY <1>3, <2>1, <2>2
<1>6. \A k : k \in K <=> \E o \in s.offers : \E t \in o.pair : t.account = k
  <2>1. ASSUME NEW t \in ToSet(tickets) \ ToSet(s.queue) PROVE \E o \in s.offers : t \in o.pair
    BY <1>1 DEF MadeOf
  <2>2. ASSUME NEW o \in s.offers, NEW t \in o.pair PROVE t \in ToSet(tickets) \ ToSet(s.queue)
    <3>1. PICK a \in ToSet(tickets) \ ToSet(s.queue), b \in ToSet(tickets) \ ToSet(s.queue) :
            o.pair = {a, b}
      BY <1>1 DEF MadeOf
    <3> QED BY <2>2, <3>1
  <2> QED BY <2>1, <2>2
<1> HIDE DEF K
<1>7. \A k : k \in Elsewhere' <=> k \in Elsewhere \/ k \in K
  BY <1>1, <1>2, <1>6, PlacesAre
<1>8. Elsewhere' = Elsewhere \cup K
  BY <1>7 DEF Elsewhere
<1> QED BY <1>4, <1>5, <1>8

\* Every step is one of the ledger's, or leaves it alone.
LEMMA QueueLedger ==
  ASSUME QueueInv, [QueueNext]_queueVars
  PROVE  QueueLedgerStep
<1>0. QueueInv'
  BY QueueStep
<1>1. ASSUME NEW k \in Queuer, Push(k) PROVE QueueLedgerStep
  <2>1. Waiting' = Waiting \cup {k} /\ k \notin Waiting \cup Elsewhere
    BY <1>1, PushKeeps DEF Push
  <2>2. Elsewhere' = Elsewhere
    BY <1>1 DEF Push, Elsewhere, AccountsOf
  <2> QED BY <1>0, <2>1, <2>2, PlacesTell
<1>2. ASSUME NEW i \in DOMAIN tickets, Cancel(i) PROVE QueueLedgerStep
  <2>1. Waiting' = Waiting \ {tickets[i].account}
    BY <1>2, CancelKeeps
  <2>2. Elsewhere' = Elsewhere
    BY <1>2 DEF Cancel, Elsewhere, AccountsOf
  <2>3. tickets[i].account \in Queuer
    <3>1. tickets \in Seq(Ticket)
      BY DEF QueueInv
    <3>2. tickets[i] \in Ticket
      BY <3>1
    <3> QED BY <3>2 DEF Ticket
  <2> QED BY <1>0, <2>1, <2>2, <2>3, PlacesTell
<1>3. CASE Tick \/ \E i \in DOMAIN tickets, v \in MeasuredRtt : SetRtt(i, v)
  <2>1. Waiting' = Waiting
    BY <1>3, TickKeeps, SetRttKeeps
  <2>2. Elsewhere' = Elsewhere
    BY <1>3 DEF Tick, SetRtt, Elsewhere, AccountsOf
  <2> QED BY <1>0, <2>1, <2>2, PlacesTell
<1>4. CASE PairUp
  BY <1>0, <1>4, PairUpMoves, PlacesTell
<1>5. ASSUME NEW o \in offers, NEW played \in BOOLEAN, Settle(o, played) PROVE QueueLedgerStep
  <2>1. Waiting' = Waiting
    BY <1>5 DEF Settle, Waiting
  <2>2. \A k : k \in Elsewhere' => k \in Elsewhere
    BY <1>5, PlacesAre DEF Settle
  <2>3. Elsewhere' \subseteq Elsewhere
    BY <2>2
  <2> QED BY <1>0, <2>1, <2>3, PlacesTell
<1>6. ASSUME NEW t \in returning, Requeue(t) PROVE QueueLedgerStep
  <2>1. Waiting' = Waiting \cup {t.account}
    BY <1>6, RequeueKeeps
  <2>2. t.account \in Elsewhere /\ t.account \in Queuer
    BY PlacesAre, PlacesApart
  <2>3. \A k : k \in Elsewhere' <=> k \in Elsewhere /\ k # t.account
    <3>1. /\ \A u \in returning : u.account = t.account => u = t
          /\ \A o \in offers : \A u \in o.pair : u.account # t.account
      BY DEF QueueInv, SetsApart
    <3>2. offers' = offers /\ returning' = returning \ {t}
      BY <1>6 DEF Requeue
    <3> QED BY <3>1, <3>2, PlacesAre
  <2>4. Elsewhere' = Elsewhere \ {t.account}
    BY <2>3 DEF Elsewhere
  <2> QED BY <1>0, <2>1, <2>2, <2>4, PlacesTell
<1>7. ASSUME NEW t \in returning, Spend(t) PROVE QueueLedgerStep
  <2>1. Waiting' = Waiting
    BY <1>7 DEF Spend, Waiting
  <2>2. \A k : k \in Elsewhere' => k \in Elsewhere
    BY <1>7, PlacesAre DEF Spend
  <2>3. Elsewhere' \subseteq Elsewhere
    BY <2>2
  <2> QED BY <1>0, <2>1, <2>3, PlacesTell
<1>8. CASE UNCHANGED queueVars
  <2>1. Waiting' = Waiting /\ Elsewhere' = Elsewhere
    BY <1>8 DEF queueVars, Waiting, Elsewhere, AccountsOf
  <2> QED BY <1>0, <2>1, PlacesTell
<1> QED BY <1>1, <1>2, <1>3, <1>4, <1>5, <1>6, <1>7, <1>8 DEF QueueNext

\* Each ticket a run of Queue::pair takes from the queue is in one of its offers,
\* nobody else's is, and it comes back at most once, whatever the rules, the order
\* of the queue and the clock decide.
THEOREM ImplementsTicketLedgerAlways == QueueSpec => ImplementsTicketLedger
<1>1. QueueInit => Ledger!Init
  <2> SUFFICES ASSUME QueueInit PROVE Ledger!Init
    OBVIOUS
  <2>1. ToSet(tickets) = {} /\ offers = {} /\ returning = {}
    BY DEF QueueInit, ToSet
  <2>2. Waiting = {} /\ Elsewhere = {}
    BY <2>1 DEF Waiting, Elsewhere
  <2> QED BY <2>2 DEF Ledger!Init, askingBar, waitingBar, outBar
<1>2. QueueInv /\ [QueueNext]_queueVars => [Ledger!Next]_(Ledger!vars)
  BY QueueLedger DEF QueueLedgerStep
<1> QED BY <1>1, <1>2, QueueInvAlways, PTL
        DEF QueueSpec, ImplementsTicketLedger, Ledger!Spec

=============================================================================
