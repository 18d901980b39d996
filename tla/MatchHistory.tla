---------------------------- MODULE MatchHistory ----------------------------
(***************************************************************************)
(* The rows automatch keeps about players, and the sweep that deletes them *)
(* (src/src/automatch.rs): strikes, from which a cooldown is computed,     *)
(* pairings, and the desync reports the hub takes.                         *)
(*                                                                         *)
(* The rows outlive the process, and everything here is one statement of   *)
(* the database, so that restarts and interleavings show only in when a    *)
(* sweep runs.  Times are in a unit of the caller's choice.  Abstracted:   *)
(* what a row says, but for its table, its player and its time.            *)
(***************************************************************************)
EXTENDS Naturals, Sequences, FiniteSetsExt

CONSTANTS
  PlayerId,
  LADDER,            \* Config.automatch_cooldowns, not empty
  STRIKE_WINDOW,     \* STRIKE_WINDOW_SECS
  RETENTION,         \* Config.automatch_retention_days
  REMATCH_COOLDOWN,
  MaxAge, MaxRows    \* bounds: time; rows inserted

ASSUME HistoryConstants ==
  /\ LADDER \in Seq(Nat) /\ LADDER # <<>>
  /\ STRIKE_WINDOW \in Nat /\ RETENTION \in Nat /\ REMATCH_COOLDOWN \in Nat
  /\ MaxAge \in Nat /\ MaxRows \in Nat

VARIABLES
  time,
  history,   \* automatch_strikes, automatch_pairings and desync_reports
  written    \* rows inserted so far

historyVars == <<time, history, written>>

-----------------------------------------------------------------------------
(* State *)

HistoryRow == [table : {"strike", "pairing", "desync"}, who : PlayerId, n : Nat, at : Nat]

HistoryInit == time = 0 /\ history = {} /\ written = 0

-----------------------------------------------------------------------------
(* record_strike, record_pairing, record_desync *)

\* One statement each; a row that is not taken is only logged.
WriteRow(table, a) ==
  /\ written < MaxRows
  /\ written' = written + 1
  /\ history' = history \cup {[table |-> table, who |-> a, n |-> written, at |-> time]}
  /\ UNCHANGED time

-----------------------------------------------------------------------------
(* cooldown_secs *)

Counted(a) ==
  {x \in history : x.table = "strike" /\ x.who = a /\ x.at + STRIKE_WINDOW >= time}

Latest(a) == Max({x.at : x \in Counted(a)})

\* A strike past the end of the ladder counts as its last rung.
Penalty(n) == IF n <= Len(LADDER) THEN LADDER[n] ELSE LADDER[Len(LADDER)]

LeftOf(penalty, elapsed) == IF penalty <= elapsed THEN 0 ELSE penalty - elapsed

cooldown_secs(a) ==
  IF Counted(a) = {} THEN 0
  ELSE LeftOf(Penalty(Cardinality(Counted(a))), time - Latest(a))

-----------------------------------------------------------------------------
(* prune *)

LongerOf(a, b) == IF a >= b THEN a ELSE b

\* Mutant of cutoff_secs: the retention alone.
cutoff_secs_retention(window) == RETENTION

cutoff_secs(window) == LongerOf(RETENTION, window)

Cutoff(table) ==
  CASE table = "strike"  -> cutoff_secs(STRIKE_WINDOW)
    [] table = "pairing" -> cutoff_secs(REMATCH_COOLDOWN)
    [] table = "desync"  -> RETENTION

Kept(x) == x.at + Cutoff(x.table) >= time

\* At boot and daily from then on: at any time, as boots go.  Each table is
\* swept by a statement of its own, and the sweep ends at the first that fails.
Prune ==
  /\ \E swept \in {{"strike"}, {"strike", "pairing"}, {"strike", "pairing", "desync"}} :
       history' = {x \in history : x.table \in swept => Kept(x)}
  /\ UNCHANGED <<time, written>>

-----------------------------------------------------------------------------
(* The specification *)

TimePasses ==
  /\ time < MaxAge
  /\ time' = time + 1
  /\ UNCHANGED <<history, written>>

HistoryNext ==
  \/ \E a \in PlayerId : WriteRow("strike", a) \/ WriteRow("pairing", a) \/ WriteRow("desync", a)
  \/ Prune
  \/ TimePasses

HistorySpec == HistoryInit /\ [][HistoryNext]_historyVars

-----------------------------------------------------------------------------
(* Properties *)

HistoryTypeOK ==
  /\ time \in Nat
  /\ history \subseteq HistoryRow
  /\ written \in Nat

\* A ladder that does not fall, as the default one.
Rising == \A i, j \in DOMAIN LADDER : i <= j => LADDER[i] <= LADDER[j]

\* Nothing but time shortens a cooldown: not a sweep, whatever retention the
\* operator asks for, not a restart, not one strike more (prune, cutoff_secs,
\* cooldown_secs).
OnlyTimeFrees ==
  [][Rising /\ time' = time => \A a \in PlayerId : cooldown_secs(a)' >= cooldown_secs(a)]_historyVars

=============================================================================
