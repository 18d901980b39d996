---------------------------- MODULE ServicesProofs ----------------------------
(***************************************************************************)
(* The parts of the server that share no state, side by side (MCServices): *)
(* a behaviour of all of them is a behaviour of each, so that whatever is  *)
(* proved of a part holds of the server they make up.                      *)
(***************************************************************************)
EXTENDS MCServices, HubServicesProofs, AccountsProofs, HttpRoomsProofs, MatchRulesProofs

allVars == <<part, talkVars, relayVars, offer, accountVars, reportVars, historyVars,
             httpVars, queueVars>>

EveryInit ==
  /\ TalkInit /\ RelayInit /\ FloorInit /\ AccountsInit /\ ReportsInit /\ HistoryInit
  /\ HttpInit /\ QueueInit

\* A step of every part, if only a stuttering one.
EveryStep ==
  /\ [TalkNext]_talkVars /\ [RelayNext]_relayVars /\ [Report]_offer
  /\ [AccountsNext]_accountVars /\ [ReportsNext]_reportVars
  /\ [HistoryNext]_historyVars /\ [HttpNext]_httpVars /\ [QueueNext]_queueVars

LEMMA OneMoves == [Next]_allVars => EveryStep
<1> SUFFICES ASSUME [Next]_allVars PROVE EveryStep
  OBVIOUS
<1>1. CASE UNCHANGED allVars
  BY <1>1 DEF allVars, EveryStep
<1>2. CASE Next
  BY <1>2 DEF Next, EveryStep
<1> QED
  BY <1>1, <1>2

\* The parts side by side keep what each of them promises alone: no step of one
\* is anything but a stuttering step of another, sharing no state with it.
THEOREM ServicesCompose ==
  Spec => /\ TalkSpec /\ RelaySpec /\ FloorSpec /\ AccountsSpec
          /\ ReportsSpec /\ HistorySpec /\ HttpSpec /\ QueueSpec
<1>1. Init => EveryInit
  BY DEF Init, EveryInit
<1> QED
  BY <1>1, OneMoves, PTL
     DEF Spec, allVars, EveryInit, EveryStep, TalkSpec, RelaySpec, FloorSpec,
         AccountsSpec, ReportsSpec, HistorySpec, HttpSpec, QueueSpec

\* The state of every part has the shape of its data structures; no mailbox is
\* over its limit (SignalStore::push_to) and no account's ticket in two places
\* (Queue::pair).
THEOREM ServicesTypes == Spec => []TypeOK
<1>1. /\ TalkInv => TalkTypeOK
      /\ RelayInv => RelayTypeOK
      /\ AccountsInv => AccountsTypeOK
      /\ ReportsInv => ReportsTypeOK
      /\ HistoryInv => HistoryTypeOK
      /\ FloorTypeOK => offer \in OfferedLink
  BY DEF TalkInv, RelayInv, AccountsInv, ReportsInv, HistoryInv, FloorTypeOK
<1>2. /\ TalkTypeOK /\ RelayTypeOK /\ AccountsTypeOK /\ ReportsTypeOK /\ HistoryTypeOK
      /\ offer \in OfferedLink
      /\ HttpTypeOK /\ QueueTypeOK
      => TypeOK
  BY DEF TypeOK
<1> QED
  BY <1>1, <1>2, ServicesCompose, TalkInvAlways, RelayInvAlways, AccountsInvAlways,
     ReportsInvAlways, HistoryInvAlways, FloorTypesAlways, HttpTypesAlways,
     QueueTypesAlways, PTL

\* What the parts promise of their states, of the server they make up.
THEOREM ServicesSafe ==
  Spec => /\ []NewestUnderWay /\ []NoGaps
          /\ []WithinRate /\ []ProbesSolicited
          /\ []CredentialsHold /\ []OneAccountEach
          /\ []ReportsCapped /\ []FloorCoversTrip /\ []SignalsInOrder
BY ServicesCompose, NewestUnderWayAlways, NoGapsAlways, WithinRateAlways,
   ProbesSolicitedAlways, CredentialsHoldAlways, OneAccountEachAlways,
   ReportsCappedAlways, FloorCoversTripAlways, SignalsInOrderAlways, PTL

\* What the parts promise of their steps, of the server they make up.
THEOREM ServicesSteps ==
  Spec => /\ SignalsKept /\ OnlyTimeFrees
          /\ NobodyLeftPairable /\ NewOpponentsFirst /\ FrontIsServed
BY ServicesCompose, SignalsKeptAlways, OnlyTimeFreesAlways, NobodyLeftPairableAlways,
   NewOpponentsFirstAlways, FrontIsServedAlways, PTL
=============================================================================
