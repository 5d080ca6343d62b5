--------------------------- MODULE ServicesProofs ---------------------------
(***************************************************************************)
(* The properties of the Services, for any areas, aircraft, ships,         *)
(* threads, buttons, jobs and bounds.                                      *)
(*                                                                         *)
(* Each part moves as its own specification says while the others rest.    *)
(* What is proved of that part alone, with the names of this composition   *)
(* put for its own, then holds of the composition.                         *)
(***************************************************************************)
EXTENDS Services, TLAPS

MilitaryP ==
  INSTANCE MilitaryRelayProofs WITH
    Areas <- Aois, TTL <- RelayTTL, MaxTime <- RelayTime,
    NoEntry <- Off, NoList <- Off, NoAnswer <- Off

AisP ==
  INSTANCE AisRelayProofs WITH
    clock <- aisClock, MaxTime <- ListenerTime, NoShip <- Off

Cr360P ==
  INSTANCE Cr360ProxyProofs WITH
    clock <- proxyClock, cache <- proxyCache,
    TTL <- ProxyTTL, MaxTime <- ProxyTime, NoEntry <- Off

PanelP == INSTANCE RefreshPanelProofs WITH NoJob <- Off, NoId <- Off

-----------------------------------------------------------------------------
(***************************************************************************)
(* A step of the composition is one of each part, or one that changes      *)
(* nothing of it.                                                          *)
(***************************************************************************)

LEMMA InitOfParts ==
  Init => Military!Init /\ Ais!Init /\ Cr360!Init /\ Panel!Init
  BY DEF Init

LEMMA StepOfParts ==
  [Next]_parts => /\ [Military!Next]_Military!vars
                  /\ [Ais!Next]_Ais!vars
                  /\ [Cr360!Next]_Cr360!vars
                  /\ [Panel!Next]_Panel!vars
  BY DEF Next, MilitaryStep, AisStep, Cr360Step, PanelStep,
         parts, relay, ais, proxy, panel,
         Military!vars, Ais!vars, Cr360!vars, Panel!vars, Panel!panel

LEMMA MilitaryImplemented == Spec => Military!Spec
  BY InitOfParts, StepOfParts, PTL DEF Spec, Military!Spec

LEMMA AisImplemented == Spec => Ais!Spec
  BY InitOfParts, StepOfParts, PTL DEF Spec, Ais!Spec

LEMMA Cr360Implemented == Spec => Cr360!Spec
  BY InitOfParts, StepOfParts, PTL DEF Spec, Cr360!Spec

LEMMA PanelImplemented == Spec => Panel!Spec
  BY InitOfParts, StepOfParts, PTL DEF Spec, Panel!Spec

-----------------------------------------------------------------------------
(***************************************************************************)
(* Each proof module says the same of its part as the composition does:    *)
(* every definition is that of the part's module, under the same names.    *)
(***************************************************************************)

LEMMA SameMilitary == Military!Spec => MilitaryP!Spec
<1>1. Military!Init => MilitaryP!Init
  BY DEF Military!Init, MilitaryP!Init, Military!Idle, MilitaryP!Idle,
         Military!Files, MilitaryP!Files
<1>2. [Military!Next]_Military!vars => [MilitaryP!Next]_MilitaryP!vars
  BY DEF
      Military!vars, MilitaryP!vars,
      Military!Idle, MilitaryP!Idle,
      Military!Next, MilitaryP!Next, Military!Tick, MilitaryP!Tick,
      Military!Handler, MilitaryP!Handler, Military!Updater,
      MilitaryP!Updater, Military!Restart, MilitaryP!Restart,
      Military!ServeCached, MilitaryP!ServeCached, Military!Miss,
      MilitaryP!Miss, Military!AskSource, MilitaryP!AskSource,
      Military!SourceAnswers, MilitaryP!SourceAnswers,
      Military!SourceRefuses, MilitaryP!SourceRefuses,
      Military!SourceFails, MilitaryP!SourceFails, Military!ReadList,
      MilitaryP!ReadList, Military!KeepList, MilitaryP!KeepList,
      Military!Respond, MilitaryP!Respond, Military!UpdaterSkips,
      MilitaryP!UpdaterSkips, Military!DownloadFails,
      MilitaryP!DownloadFails, Military!WriteList, MilitaryP!WriteList,
      Military!CloseList, MilitaryP!CloseList, Military!ClearMemo,
      MilitaryP!ClearMemo, Military!Fresh, MilitaryP!Fresh,
      Military!Expired, MilitaryP!Expired, Military!Age, MilitaryP!Age,
      Military!FromCache, MilitaryP!FromCache, Military!Filter,
      MilitaryP!Filter, Military!Nothing, MilitaryP!Nothing,
      Military!NeedsList, MilitaryP!NeedsList, Military!Military,
      MilitaryP!Military, Military!Trail, MilitaryP!Trail,
      Military!Reports, MilitaryP!Reports
<1> QED BY <1>1, <1>2, PTL DEF Military!Spec, MilitaryP!Spec

LEMMA SameAis == Ais!Spec => AisP!Spec
<1>1. Ais!Init => AisP!Init
  BY DEF Ais!Init, AisP!Init
<1>2. [Ais!Next]_Ais!vars => [AisP!Next]_AisP!vars
  BY DEF
      Ais!vars, AisP!vars, Ais!Next, AisP!Next, Ais!Tick, AisP!Tick,
      Ais!Listener, AisP!Listener, Ais!Route, AisP!Route, Ais!Connects,
      AisP!Connects, Ais!Receive, AisP!Receive, Ais!Drops, AisP!Drops,
      Ais!Closes, AisP!Closes, Ais!Wakes, AisP!Wakes, Ais!Ask, AisP!Ask,
      Ais!Fetch, AisP!Fetch, Ais!Merge, AisP!Merge, Ais!Id, AisP!Id,
      Ais!InArea, AisP!InArea, Ais!Listings, AisP!Listings
<1>3. Ais!Fairness => AisP!Fairness
  BY PTL DEF
      Ais!Fairness, AisP!Fairness, Ais!vars, AisP!vars, Ais!Wakes,
      AisP!Wakes
<1> QED BY <1>1, <1>2, <1>3, PTL DEF Ais!Spec, AisP!Spec

LEMMA SameCr360 == Cr360!Spec => Cr360P!Spec
<1>1. Cr360!Init => Cr360P!Init
  BY DEF Cr360!Init, Cr360P!Init, Cr360!Idle, Cr360P!Idle
<1>2. [Cr360!Next]_Cr360!vars => [Cr360P!Next]_Cr360P!vars
  BY DEF
      Cr360!vars, Cr360P!vars, Cr360!Idle, Cr360P!Idle, Cr360!Next, Cr360P!Next, Cr360!Tick, Cr360P!Tick,
      Cr360!Begin, Cr360P!Begin, Cr360!Hit, Cr360P!Hit, Cr360!Call,
      Cr360P!Call, Cr360!Store, Cr360P!Store, Cr360!Fail, Cr360P!Fail,
      Cr360!Finish, Cr360P!Finish, Cr360!Kept, Cr360P!Kept, Cr360!Served,
      Cr360P!Served
<1> QED BY <1>1, <1>2, PTL DEF Cr360!Spec, Cr360P!Spec

LEMMA SamePanel == Panel!Spec => PanelP!Spec
<1>1. Panel!Init => PanelP!Init
  BY DEF Panel!Init, PanelP!Init, Panel!SlotsInit, PanelP!SlotsInit
<1>2. [Panel!Next]_Panel!vars => [PanelP!Next]_PanelP!vars
  BY DEF
      Panel!vars, PanelP!vars, Panel!panel, PanelP!panel, Panel!slots,
      PanelP!slots, Panel!Job, PanelP!Job, Panel!Next, PanelP!Next,
      Panel!Click, PanelP!Click, Panel!PollStep, PanelP!PollStep,
      Panel!AnswerStep, PanelP!AnswerStep, Panel!Reset, PanelP!Reset,
      Panel!Unmount, PanelP!Unmount, Panel!SlotsNext, PanelP!SlotsNext,
      Panel!StartJob, PanelP!StartJob, Panel!EndJob, PanelP!EndJob,
      Panel!ForgetJobs, PanelP!ForgetJobs, Panel!RunsAs, PanelP!RunsAs,
      Panel!Enabled, PanelP!Enabled, Panel!Free, PanelP!Free, Panel!Sent,
      PanelP!Sent, Panel!Running, PanelP!Running, Panel!Api, PanelP!Api,
      Panel!Cleared, PanelP!Cleared, Panel!Kept, PanelP!Kept,
      Panel!Schedule, PanelP!Schedule, Panel!Follow, PanelP!Follow,
      Panel!ResetAfter, PanelP!ResetAfter, Panel!Fails, PanelP!Fails,
      Panel!AskStatus, PanelP!AskStatus, Panel!Status, PanelP!Status,
      Panel!StillRuns, PanelP!StillRuns, Panel!Again, PanelP!Again,
      Panel!Outcome, PanelP!Outcome, Panel!Ended, PanelP!Ended,
      Panel!PollFails, PanelP!PollFails
<1>3. Panel!Fairness => PanelP!Fairness
  BY PTL DEF
      Panel!Fairness, PanelP!Fairness,
      Panel!vars, PanelP!vars, Panel!panel, PanelP!panel, Panel!slots,
      PanelP!slots, Panel!Job, PanelP!Job, Panel!Next, PanelP!Next,
      Panel!Click, PanelP!Click, Panel!PollStep, PanelP!PollStep,
      Panel!AnswerStep, PanelP!AnswerStep, Panel!Reset, PanelP!Reset,
      Panel!Unmount, PanelP!Unmount, Panel!SlotsNext, PanelP!SlotsNext,
      Panel!StartJob, PanelP!StartJob, Panel!EndJob, PanelP!EndJob,
      Panel!ForgetJobs, PanelP!ForgetJobs, Panel!RunsAs, PanelP!RunsAs,
      Panel!Enabled, PanelP!Enabled, Panel!Free, PanelP!Free, Panel!Sent,
      PanelP!Sent, Panel!Running, PanelP!Running, Panel!Api, PanelP!Api,
      Panel!Cleared, PanelP!Cleared, Panel!Kept, PanelP!Kept,
      Panel!Schedule, PanelP!Schedule, Panel!Follow, PanelP!Follow,
      Panel!ResetAfter, PanelP!ResetAfter, Panel!Fails, PanelP!Fails,
      Panel!AskStatus, PanelP!AskStatus, Panel!Status, PanelP!Status,
      Panel!StillRuns, PanelP!StillRuns, Panel!Again, PanelP!Again,
      Panel!Outcome, PanelP!Outcome, Panel!Ended, PanelP!Ended,
      Panel!PollFails, PanelP!PollFails
<1> QED BY <1>1, <1>2, <1>3, PTL DEF Panel!Spec, PanelP!Spec

-----------------------------------------------------------------------------
(***************************************************************************)
(* The assumptions about the constants are those of the parts.             *)
(***************************************************************************)

LEMMA MilitaryAssumptions ==
  MilitaryP!BoundsAreNatural /\ MilitaryP!NoneIsNoEntry
  BY Bounds, OffIsNothing
  DEF Military!BoundsAreNatural, MilitaryP!BoundsAreNatural,
      Military!Files, MilitaryP!Files, MilitaryP!NoneIsNoEntry,
      Military!Entries, MilitaryP!Entries

LEMMA AisAssumptions == AisP!Assumptions
  BY Bounds, AreasOfShips, OffIsNothing
  DEF AisP!Assumptions, Ais!BoundsAreNatural, AisP!BoundsAreNatural,
      Ais!AreasAreOfPlaces, AisP!AreasAreOfPlaces,
      Ais!NothingHeardIsNoVessel, AisP!NothingHeardIsNoVessel,
      Ais!Vessel, AisP!Vessel

LEMMA Cr360Assumptions == Cr360P!BoundsAreNatural /\ Cr360P!NoneIsNoEntry
  BY Bounds, OffIsNothing
  DEF Cr360!BoundsAreNatural, Cr360P!BoundsAreNatural, Cr360P!NoneIsNoEntry,
      Cr360!Entries, Cr360P!Entries

LEMMA PanelAssumptions == PanelP!BoundsAreNatural
  BY Bounds DEF Panel!BoundsAreNatural, PanelP!BoundsAreNatural

-----------------------------------------------------------------------------
(***************************************************************************)
(* The types.                                                              *)
(***************************************************************************)

LEMMA MilitaryTyped == Spec => []Military!TypeOK
<1>1. MilitaryP!TypeOK => Military!TypeOK
  BY DEF Military!TypeOK, MilitaryP!TypeOK, Military!Entries,
         MilitaryP!Entries, Military!Files, MilitaryP!Files,
         Military!Handlers, MilitaryP!Handlers, Military!Reports,
         MilitaryP!Reports, Military!Answers, MilitaryP!Answers
<1> QED
  BY <1>1, MilitaryImplemented, SameMilitary, MilitaryAssumptions,
     MilitaryP!TypeCorrect, PTL

LEMMA AisTyped == Spec => []Ais!TypeOK
<1>1. AisP!TypeOK => Ais!TypeOK
  BY DEF Ais!TypeOK, AisP!TypeOK, Ais!Vessel, AisP!Vessel, Ais!Calls,
         AisP!Calls
<1> QED
  BY <1>1, AisImplemented, SameAis, AisAssumptions, AisP!TypeCorrect, PTL

LEMMA Cr360Typed == Spec => []Cr360!TypeOK
<1>1. Cr360P!TypeOK => Cr360!TypeOK
  BY DEF Cr360!TypeOK, Cr360P!TypeOK, Cr360!Entries, Cr360P!Entries,
         Cr360!Requests, Cr360P!Requests
<1> QED
  BY <1>1, Cr360Implemented, SameCr360, Cr360Assumptions,
     Cr360P!TypeCorrect, PTL

LEMMA PanelTyped == Spec => []Panel!TypeOK
<1>1. PanelP!TypeOK => Panel!TypeOK
  BY DEF Panel!TypeOK, PanelP!TypeOK, Panel!Job, PanelP!Job, Panel!States,
         PanelP!States, Panel!Answers, PanelP!Answers, Panel!Polls,
         PanelP!Polls, Panel!Resets, PanelP!Resets
<1> QED
  BY <1>1, PanelImplemented, SamePanel, PanelAssumptions,
     PanelP!TypeCorrect, PTL

-----------------------------------------------------------------------------
(***************************************************************************)
(* The theorems.                                                           *)
(***************************************************************************)

(* Every variable of every part has its type at all times: no trail beyond *)
(* its length, no answer younger than nothing, no waiting time beyond the  *)
(* longest, no id in the panel but one the API has drawn.                  *)
THEOREM TypeCorrect == Spec => []TypeOK
  BY MilitaryTyped, AisTyped, Cr360Typed, PanelTyped, PTL DEF TypeOK

(* The military relay's answers, as the API hands them on, are as recent   *)
(* as their mark says, whatever areas are asked for in whatever order.     *)
THEOREM HandedOutAsDated == Spec => []NothingOutdated
<1>1. MilitaryP!NothingOutdated => NothingOutdated
  BY DEF NothingOutdated, Military!NothingOutdated, MilitaryP!NothingOutdated,
         Military!Forwarded, MilitaryP!Forwarded
<1> QED
  BY <1>1, MilitaryImplemented, SameMilitary, MilitaryAssumptions,
     MilitaryP!HandedOutAsDated, PTL

(* The relay spends no call of the source's quota on an area whose last    *)
(* answer it may still serve.                                              *)
THEOREM CallsSpared == Spec => SourceSpared
<1>1. MilitaryP!SourceSpared => SourceSpared
  BY PTL DEF SourceSpared, Military!SourceSpared, MilitaryP!SourceSpared,
             Military!vars, MilitaryP!vars
<1> QED
  BY <1>1, MilitaryImplemented, SameMilitary, MilitaryAssumptions,
     MilitaryP!CallsSpared, PTL

(* The listener waits for the base time after any connection it has had.   *)
THEOREM Renewal == Spec => PatienceRenewed
<1>1. AisP!PatienceRenewed => PatienceRenewed
  BY PTL DEF PatienceRenewed, Ais!PatienceRenewed, AisP!PatienceRenewed,
             Ais!vars, AisP!vars
<1> QED BY <1>1, AisImplemented, SameAis, AisAssumptions, AisP!Renewal, PTL

(* The route's answer has every id that a call for an area brought, once.  *)
THEOREM MergedOnce == Spec => NoVesselLost
<1>1. AisP!NoVesselLost => NoVesselLost
  BY PTL DEF NoVesselLost, Ais!NoVesselLost, AisP!NoVesselLost,
             Ais!vars, AisP!vars, Ais!Id, AisP!Id
<1> QED BY <1>1, AisImplemented, SameAis, AisAssumptions, AisP!MergedOnce, PTL

(* What the proxy's cache answers is younger than the time to live and one *)
(* call together, whatever order the threads store their answers in.       *)
THEOREM CachedIsRecent == Spec => []PayloadRecent
<1>1. Cr360P!PayloadRecent => PayloadRecent
  BY DEF PayloadRecent, Cr360!PayloadRecent, Cr360P!PayloadRecent
<1> QED
  BY <1>1, Cr360Implemented, SameCr360, Cr360Assumptions,
     Cr360P!CachedIsRecent, PTL

(* Only requests under way when an answer was stored call upstream again   *)
(* within the time to live.                                                *)
THEOREM WarmCacheCallsNobody == Spec => WarmNoCall
<1>1. Cr360P!WarmNoCall => WarmNoCall
  BY PTL DEF WarmNoCall, Cr360!WarmNoCall, Cr360P!WarmNoCall,
             Cr360!vars, Cr360P!vars
<1> QED
  BY <1>1, Cr360Implemented, SameCr360, Cr360Assumptions,
     Cr360P!WarmCacheCallsNobody, PTL

(* A button of the panel that spins has a poll or an answer under way.     *)
THEOREM Followed == Spec => []RunningIsFollowed
<1>1. PanelP!RunningIsFollowed => RunningIsFollowed
  BY DEF RunningIsFollowed, Panel!RunningIsFollowed, PanelP!RunningIsFollowed
<1> QED
  BY <1>1, PanelImplemented, SamePanel, PanelAssumptions, PanelP!Followed, PTL

(* The panel says DONE only of a job of the button's name that the API     *)
(* says is completed.                                                      *)
THEOREM DoneIsDone == Spec => SuccessIsTrue
<1>1. PanelP!SuccessIsTrue => SuccessIsTrue
  BY PTL DEF SuccessIsTrue, Panel!SuccessIsTrue, PanelP!SuccessIsTrue,
             Panel!vars, PanelP!vars, Panel!slots, PanelP!slots,
             Panel!panel, PanelP!panel
<1> QED
  BY <1>1, PanelImplemented, SamePanel, PanelAssumptions, PanelP!DoneIsDone, PTL
=============================================================================
