----------------------------- MODULE ChatReports -----------------------------
(***************************************************************************)
(* The ring of relayed chat lines (src/src/ws_lobby.rs) and the reports    *)
(* filed about them (src/src/moderation.rs).                               *)
(*                                                                         *)
(* The ring and its numbering are in memory and start anew with the        *)
(* process; the rows are in the database and stay.  A report resolves its  *)
(* line under the hub's lock, counts the rows of the last hour in one      *)
(* statement and inserts in another; other connections, of the same        *)
(* account too, run in between.                                            *)
(*                                                                         *)
(* Abstracted: the text of lines, reports and notes, the further lines a   *)
(* report carries along, the copy of a report on disk.                     *)
(***************************************************************************)
EXTENDS Naturals, Sequences, FiniteSets

CONSTANTS
  Account, Nobody,
  Socket,
  Holder,            \* Holder[s]: the account signed in on s, Nobody for a guest
  CHAT_RING_MAX,
  REPORTS_PER_HOUR, HOUR,
  MaxHours,          \* bounds: time, in the unit of HOUR;
  MaxSaid, MaxBoots  \* lines relayed since the start of the process; restarts

ASSUME ReportConstants ==
  /\ Nobody \notin Account
  /\ Holder \in [Socket -> Account \cup {Nobody}]
  /\ IsFiniteSet(Socket)
  /\ CHAT_RING_MAX \in Nat \ {0}
  /\ REPORTS_PER_HOUR \in Nat \ {0} /\ HOUR \in Nat
  /\ MaxHours \in Nat /\ MaxSaid \in Nat /\ MaxBoots \in Nat

VARIABLES
  now,
  boot,      \* how often the process has been started again
  nextId,    \* HubInner.next_chat_id
  ring,      \* HubInner.chat_ring
  report,    \* report[s]: the report the task of s is filing
  filed,     \* chat_reports
  thanked,   \* reports answered with chat_report_ok
  uncounted  \* the accounts for which a count has failed

reportVars == <<now, boot, nextId, ring, report, filed, thanked, uncounted>>

-----------------------------------------------------------------------------
(* State *)

\* Two lines may carry one id, if the process was started again in between.
Line == [id : Nat, boot : Nat, by : Account \cup {Nobody}]

Filing == [step : {"idle", "counting", "inserting"}, line : Line]

NoLine == [id |-> 0, boot |-> 0, by |-> Nobody]

Quiet == [step |-> "idle", line |-> NoLine]

Claim == [reporter : Account, line : Line]

ReportRow == [reporter : Account, line : Line, at : Nat]

ReportsInit ==
  /\ now = 0 /\ boot = 0
  /\ nextId = 1 /\ ring = <<>>
  /\ report = [s \in Socket |-> Quiet]
  /\ filed = {} /\ thanked = {} /\ uncounted = {}

-----------------------------------------------------------------------------
(* The chat ring *)

\* remember_chat
SayLine(s) ==
  /\ nextId <= MaxSaid
  /\ LET said == Append(ring, [id |-> nextId, boot |-> boot, by |-> Holder[s]]) IN
     ring' = IF Len(said) > CHAT_RING_MAX THEN Tail(said) ELSE said
  /\ nextId' = nextId + 1
  /\ UNCHANGED <<now, boot, report, filed, thanked, uncounted>>

-----------------------------------------------------------------------------
(* handle_chat_report, moderation::record *)

\* A guest may not report, and nobody himself or a guest; an id that is no
\* longer in the ring is answered message_expired.
ReportLine(s) ==
  /\ report[s].step = "idle"
  /\ Holder[s] # Nobody
  /\ \E i \in DOMAIN ring :
       /\ ring[i].by \notin {Nobody, Holder[s]}
       /\ report' = [report EXCEPT ![s] = [step |-> "counting", line |-> ring[i]]]
  /\ UNCHANGED <<now, boot, nextId, ring, filed, thanked, uncounted>>

Recent(a) == {x \in filed : x.reporter = a /\ x.at + HOUR >= now}

\* Mutant of Exhausted: one report more.
Exhausted_late(a) == Cardinality(Recent(a)) > REPORTS_PER_HOUR

Exhausted(a) == Cardinality(Recent(a)) >= REPORTS_PER_HOUR

\* recent_report_count; a count the database does not answer is a count of 0.
CountRecent(s) ==
  /\ report[s].step = "counting"
  /\ \/ /\ report' = [report EXCEPT ![s] =
            IF Exhausted(Holder[s]) THEN Quiet ELSE [report[s] EXCEPT !.step = "inserting"]]
        /\ UNCHANGED uncounted
     \/ /\ report' = [report EXCEPT ![s].step = "inserting"]
        /\ uncounted' = uncounted \cup {Holder[s]}
  /\ UNCHANGED <<now, boot, nextId, ring, filed, thanked>>

\* UNIQUE (reporter_id, message_id)
AlreadyReported(a, line) == \E x \in filed : x.reporter = a /\ x.line.id = line.id

\* A duplicate is answered as if it had been filed; a row the database does
\* not take is answered report_failed.
FileReport(s) ==
  LET a    == Holder[s]
      line == report[s].line
  IN  /\ report[s].step = "inserting"
      /\ report' = [report EXCEPT ![s] = Quiet]
      /\ \/ /\ thanked' = thanked \cup {[reporter |-> a, line |-> line]}
            /\ filed' = IF AlreadyReported(a, line) THEN filed
                        ELSE filed \cup {[reporter |-> a, line |-> line, at |-> now]}
         \/ UNCHANGED <<filed, thanked>>
      /\ UNCHANGED <<now, boot, nextId, ring, uncounted>>

-----------------------------------------------------------------------------
(* Time and restarts *)

AnHourPart ==
  /\ now < MaxHours
  /\ now' = now + 1
  /\ UNCHANGED <<boot, nextId, ring, report, filed, thanked, uncounted>>

ServerRestart ==
  /\ boot < MaxBoots
  /\ boot' = boot + 1
  /\ nextId' = 1 /\ ring' = <<>>
  /\ report' = [s \in Socket |-> Quiet]
  /\ UNCHANGED <<now, filed, thanked, uncounted>>

ReportsNext ==
  \/ \E s \in Socket : SayLine(s) \/ ReportLine(s) \/ CountRecent(s) \/ FileReport(s)
  \/ AnHourPart \/ ServerRestart

ReportsSpec == ReportsInit /\ [][ReportsNext]_reportVars

-----------------------------------------------------------------------------
(* Properties *)

ReportsTypeOK ==
  /\ now \in Nat /\ boot \in Nat /\ nextId \in Nat \ {0}
  /\ ring \in Seq(Line)
  /\ report \in [Socket -> Filing]
  /\ filed \subseteq ReportRow
  /\ thanked \subseteq Claim
  /\ uncounted \subseteq Account

SocketsOf(a) == {s \in Socket : Holder[s] = a}

\* The limit on reports counts in one statement and inserts in another: an
\* account whose counts are answered gets past it by no more than its further
\* connections, however the tasks of all of them interleave
\* (moderation::record).
ReportsCapped ==
  \A a \in Account \ uncounted :
    Cardinality(Recent(a)) <= REPORTS_PER_HOUR - 1 + Cardinality(SocketsOf(a))

\* "Already reported by this account. [...] they did what they meant to": a
\* report answered with chat_report_ok is in the table (Submitted::Duplicate).
ThankedIsFiled ==
  \A t \in thanked : \E x \in filed : x.reporter = t.reporter /\ x.line = t.line
=============================================================================
