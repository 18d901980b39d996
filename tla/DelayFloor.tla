----------------------------- MODULE DelayFloor -----------------------------
(***************************************************************************)
(* The input delay and the prediction runway of a match, from the round    *)
(* trips its players report and the numbers its ruleset authors            *)
(* (src/src/automatch.rs, delay_floor and the tables it is built from).    *)
(*                                                                         *)
(* The state is one offer: what the two tickets hold when the floor is     *)
(* computed, for the offer's message and again for its room.  A report     *)
(* replaces the round trip of its sender.                                  *)
(*                                                                         *)
(* frame_ms is a float in the code and a number of microseconds here.      *)
(* Nothing checks an authored number when a ruleset is loaded; the sums of *)
(* the code are u32, and Authored is taken to leave them room.             *)
(***************************************************************************)
EXTENDS Integers

CONSTANTS
  Reported,  \* what clients send as rtt_ms
  FrameUs,   \* frame lengths, in microseconds
  Authored   \* input_delay and input_prediction of rulesets

ASSUME FloorConstants ==
  /\ Reported \subseteq Int
  /\ FrameUs \subseteq Nat \ {0}
  /\ Authored \subseteq Nat

VARIABLE offer

MIN_DELAY == 2
MAX_DELAY == 20
MIN_PREDICTION == 2
MAX_PREDICTION == 16
JITTER_MARGIN_FRAMES == 1
MAX_REPORTED_RTT_MS == 2000

Larger(a, b) == IF a >= b THEN a ELSE b
Clamp(x, low, high) == IF x < low THEN low ELSE IF x > high THEN high ELSE x

\* Unmeasured is -1.
sanitize_rtt(raw) ==
  IF raw < 0 THEN -1 ELSE IF raw > MAX_REPORTED_RTT_MS THEN MAX_REPORTED_RTT_MS ELSE raw

\* rtt_a / 2 + rtt_b / 2 of one-way distance, in frames, rounded up.
frames_needed(a, b, frame) ==
  IF a < 0 \/ b < 0
  THEN 0
  ELSE ((a + b) * 500 + frame - 1) \div frame + JITTER_MARGIN_FRAMES

hosted_rollback_delay(rtt) ==
  CASE rtt < 50  -> 3
    [] rtt >= 50  /\ rtt < 80  -> 4
    [] rtt >= 80  /\ rtt < 120 -> 6
    [] rtt >= 120 /\ rtt < 160 -> 7
    [] rtt >= 160 /\ rtt < 200 -> 8
    [] rtt >= 200 /\ rtt < 260 -> 9
    [] OTHER -> 10

hosted_rollback_prediction(d) == Clamp(4 + Larger(d, 2), 6, MAX_PREDICTION)

hosted_delay_only(rtt) ==
  Clamp(Larger((Larger(rtt, 0) + 32) \div 33, 1) + 3, 3, MAX_DELAY)

-----------------------------------------------------------------------------
(* delay_floor *)

Needed(o) == frames_needed(o.a, o.b, o.frame)

\* D by the tier table and P by D, each at least what was authored.
Tier(o) == Larger(hosted_rollback_delay(o.a + o.b), o.delay)
Runway(o, d) == Larger(hosted_rollback_prediction(d), o.prediction)

Shortfall(o) == Larger(Needed(o) - (Tier(o) + Runway(o, Tier(o))), 0)

\* Mutant of RollbackDelay: the runway is trusted to cover any link.
RollbackDelay_tier(o) == Tier(o)

\* What D + P cannot cover, D takes.
RollbackDelay(o) == Tier(o) + Shortfall(o)

RollbackRunway(o) == Runway(o, RollbackDelay(o))

Unclamped(o) ==
  CASE Needed(o) = 0 -> [d |-> o.delay, p |-> o.prediction]
    [] Needed(o) # 0 /\ o.rollback -> [d |-> RollbackDelay(o), p |-> RollbackRunway(o)]
    [] OTHER -> [d |-> Larger(Larger(hosted_delay_only(o.a + o.b), Needed(o)), o.delay),
                 p |-> o.prediction]

delay_floor(o) ==
  [input_delay      |-> Clamp(Unclamped(o).d, MIN_DELAY, MAX_DELAY),
   input_prediction |-> Clamp(Unclamped(o).p, MIN_PREDICTION, MAX_PREDICTION)]

-----------------------------------------------------------------------------
(* Reports *)

Rtt == {sanitize_rtt(raw) : raw \in Reported}

OfferedLink == [a : Rtt \cup {-1}, b : Rtt \cup {-1}, frame : FrameUs,
                delay : Authored, prediction : Authored, rollback : BOOLEAN]

\* Both tickets may have been measured before they were paired.
FloorInit == offer \in OfferedLink

\* handle_automatch_rtt, while the tickets wait
Report ==
  \E raw \in Reported :
    offer' \in {[offer EXCEPT !.a = sanitize_rtt(raw)], [offer EXCEPT !.b = sanitize_rtt(raw)]}

FloorSpec == FloorInit /\ [][Report]_offer

-----------------------------------------------------------------------------
(* Properties *)

\* A measured match runs at a delay and a runway that cover the trip of an
\* input, as far as the launcher's limits allow, and never below what its
\* ruleset authored; with rollback the runway is sized for the delay being run
\* and not for a shorter one (delay_floor).  An authored runway past
\* MAX_PREDICTION is left out: the shortfall counts it in full, and the clamp
\* then takes it away.
FloorCoversTrip ==
  LET f == delay_floor(offer) IN
  /\ f.input_delay >= Clamp(offer.delay, MIN_DELAY, MAX_DELAY)
  /\ Needed(offer) > 0 =>
       IF offer.rollback
       THEN /\ \/ offer.prediction > MAX_PREDICTION
               \/ f.input_delay + f.input_prediction >= Needed(offer)
               \/ f.input_delay = MAX_DELAY /\ f.input_prediction = MAX_PREDICTION
            /\ f.input_prediction >= hosted_rollback_prediction(f.input_delay)
       ELSE f.input_delay >= Needed(offer) \/ f.input_delay = MAX_DELAY
=============================================================================
