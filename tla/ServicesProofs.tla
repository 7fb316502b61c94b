----------------------------- MODULE ServicesProofs -----------------------------
(***************************************************************************)
(* Theorems about what serves one case: the switch of the models it runs   *)
(* on, the hand-off of its report to a writer, and the queue for the GPUs; *)
(* and the types of all the services, side by side as MCServices runs them.*)
(***************************************************************************)
EXTENDS MCServices, CaseNumbersProofs, IntakeProofs, CalendarProofs, SheriffProofs, TLAPS

(***************************************************************************)
(* The lanes.  While nobody applies a switch and none was cut short, the   *)
(* lanes file says what runs; so it does while a switch that was not cut   *)
(* short before comes up to the script, and again from the lanes file on.  *)
(* In between the record in the applier's hands says it.  What is on disk  *)
(* does not count: the deputy may replace it in the middle.                *)
(***************************************************************************)

LaneRuns == script.target = lanes.split[lanes.current]

FromServices == {t.service : t \in Targets} \cup {""}
SwitchRecs   == [state : {"none", "requested", "applying"}, from : FromServices,
                 to : Targets, lane : LaneNames \cup {""},
                 origin : {"", "deputy", "followup"}]

SwTypes ==
    /\ lanes \in [split : Splits, current : LaneNames]
    /\ switch \in SwitchRecs
    /\ script \in [target : Runnable, sid : SessionIds]
    /\ applier \in [who : {"none", "watchdog", "inbox"},
                    step : {"", "script", "aside", "generate", "lanes", "unlink", "relaunch"},
                    rec : SwitchRecs, again : BOOLEAN]
    /\ deputy \in [up : BOOLEAN, sid : SessionIds, captures : BOOLEAN, outrun : BOOLEAN]
    /\ strayed \in BOOLEAN

InHand ==
    /\ applier.step = "" <=> applier = Resting
    /\ applier.step # "" => applier.rec.state = "applying"

WhatRuns ==
    ~strayed =>
       /\ applier.step = "" /\ switch.state # "applying" => LaneRuns
       /\ applier.step \in {"script", "aside", "generate"} /\ ~applier.again => LaneRuns
       /\ At("lanes") => /\ applier.rec.lane # ""
                         /\ script.target = applier.rec.to
                         /\ applier.rec.to = lanes.split[applier.rec.lane]
       /\ At("unlink") \/ At("relaunch") => LaneRuns

LEMMA TargetsAre ==
  /\ (CHOOSE t \in Targets : TRUE) \in Targets
  /\ \A s \in Splits, l \in LaneNames : s[l] \in Targets
  /\ \A t \in Targets : /\ t = [service |-> t.service, model |-> t.model]
                        /\ t \in Runnable /\ t.service \in FromServices
  /\ \A t \in Runnable : /\ t = [service |-> t.service, model |-> t.model]
                         /\ t.service \in FromServices
  /\ \A t \in Runnable, u \in Targets : [t EXCEPT !.model = u.model] \in Runnable
<1>1. PICK s \in Splits : TRUE
  BY SwAssumption
<1>2. s["work"] \in Targets
  BY DEF Targets, LaneNames
<1>3. \A t \in Targets : t = [service |-> t.service, model |-> t.model]
  BY SwAssumption DEF Targets, LaneNames
<1>4. \A t \in Targets : t \in Runnable /\ t.service \in FromServices
  <2> SUFFICES ASSUME NEW t \in Targets PROVE t \in Runnable /\ t.service \in FromServices
    OBVIOUS
  <2>1. [service |-> t.service, model |-> t.model] \in Runnable
    BY DEF Runnable
  <2> QED BY <1>3, <2>1 DEF FromServices
<1>5. \A t \in Runnable : /\ t = [service |-> t.service, model |-> t.model]
                          /\ t.service \in FromServices
  <2> SUFFICES ASSUME NEW t \in Runnable
               PROVE  /\ t = [service |-> t.service, model |-> t.model]
                      /\ t.service \in FromServices
    OBVIOUS
  <2>1. /\ t = [service |-> t.service, model |-> t.model]
        /\ t.service \in {u.service : u \in Targets}
    BY DEF Runnable
  <2> QED BY <2>1 DEF FromServices
<1>6. ASSUME NEW r \in Runnable, NEW u \in Targets
      PROVE  [r EXCEPT !.model = u.model] \in Runnable
  BY DEF Runnable
<1> QED BY <1>2, <1>3, <1>4, <1>5, <1>6 DEF Targets

LEMMA NoSwitchIs ==
  /\ NoSwitch \in SwitchRecs /\ NoSwitch.state = "none"
  /\ Resting \in [who : {"none", "watchdog", "inbox"},
                  step : {"", "script", "aside", "generate", "lanes", "unlink", "relaunch"},
                  rec : SwitchRecs, again : BOOLEAN]
  /\ Resting.step = ""
  /\ NotUp \in [up : BOOLEAN, sid : SessionIds, captures : BOOLEAN, outrun : BOOLEAN]
  /\ ~NotUp.up
<1>1. NoSwitch \in SwitchRecs /\ NoSwitch.state = "none"
  BY TargetsAre DEF NoSwitch, SwitchRecs, FromServices
<1>2. 1 \in SessionIds
  BY SwAssumption DEF SessionIds
<1> QED BY <1>1, <1>2 DEF Resting, NotUp

\* What a relaunch, of whoever, does to the deputy.
LEMMA ScriptStarts ==
  ASSUME ScriptRuns
  PROVE  \E s \in SessionIds :
            /\ IF ~Cold THEN s = Resumed ELSE IF Codex THEN Fresh(s) ELSE s = script.sid
            /\ deputy' = [up |-> TRUE, sid |-> s, captures |-> Codex /\ Cold, outrun |-> FALSE]
            /\ transcripts' = [t \in DOMAIN transcripts \cup {s} |->
                                 IF t \in DOMAIN transcripts THEN transcripts[t] ELSE {}]
BY DEF ScriptRuns

LEMMA StartedTypes ==
  ASSUME ScriptRuns
  PROVE  deputy' \in [up : BOOLEAN, sid : SessionIds, captures : BOOLEAN, outrun : BOOLEAN]
<1>1. PICK s \in SessionIds :
        deputy' = [up |-> TRUE, sid |-> s, captures |-> Codex /\ Cold, outrun |-> FALSE]
  BY ScriptStarts
<1>2. (Codex /\ Cold) \in BOOLEAN
  BY DEF Codex, Cold
<1> QED BY <1>1, <1>2

LEMMA RegeneratedTypes ==
  ASSUME SwTypes, Regenerates
  PROVE  /\ script'.target = applier.rec.to
         /\ script' \in [target : Runnable, sid : SessionIds]
<1>1. PICK s \in SessionIds : script' = [target |-> applier.rec.to, sid |-> s]
  BY DEF Regenerates
<1>2. applier.rec.to \in Runnable
  BY TargetsAre DEF SwTypes, SwitchRecs
<1> QED BY <1>1, <1>2

LEMMA SwTypesStep == SwTypes /\ InHand /\ [SwNext]_swVars => SwTypes' /\ InHand'
<1> SUFFICES ASSUME SwTypes, InHand, [SwNext]_swVars PROVE SwTypes' /\ InHand'
  OBVIOUS
<1>a. /\ lanes.split \in Splits /\ switch.to \in Targets
      /\ script.target.service \in FromServices
  BY TargetsAre DEF SwTypes, SwitchRecs
<1>b. \A s \in Splits, l \in LaneNames : s[l] \in Targets
  BY TargetsAre
<1> USE NoSwitchIs, <1>a, <1>b DEF SwTypes, InHand, At, ApplyGoes
<1>1. ASSUME NEW to \in Targets, NEW lane \in LaneNames \cup {""}, AsksToSwitch(to, lane)
      PROVE SwTypes' /\ InHand'
  <2>1. switch' \in SwitchRecs
    BY <1>1 DEF AsksToSwitch, SwitchRecs
  <2> QED BY <1>1, <2>1 DEF AsksToSwitch, CutShort
<1>2. ASSUME NEW done \in BOOLEAN, LeavesRun(done) PROVE SwTypes' /\ InHand'
  BY <1>2 DEF LeavesRun
<1>3. ASSUME NEW who, RevivedBy(who) PROVE SwTypes' /\ InHand'
  <2>1. deputy' \in [up : BOOLEAN, sid : SessionIds, captures : BOOLEAN, outrun : BOOLEAN]
    BY <1>3, StartedTypes DEF RevivedBy
  <2>2. UNCHANGED <<lanes, switch, script, applier, strayed>>
    BY <1>3 DEF RevivedBy
  <2> QED BY <2>1, <2>2
<1>4. CASE DoesATurn BY <1>4 DEF DoesATurn
<1>5. CASE CancelsSwitch BY <1>5 DEF CancelsSwitch, CutShort
<1>6. CASE WrapperKilled BY <1>6 DEF WrapperKilled
<1>7. CASE WatchdogApplies
  <2>1. switch' \in SwitchRecs /\ switch'.state = "applying"
    BY <1>7 DEF WatchdogApplies, SwitchRecs
  <2>2. /\ applier' = [who |-> "watchdog", step |-> "script", rec |-> switch',
                       again |-> switch.state = "applying"]
        /\ UNCHANGED <<lanes, script, deputy, strayed>>
    BY <1>7 DEF WatchdogApplies
  <2> QED BY <2>1, <2>2
<1>8. CASE InboxRestores
  <2>1. switch' \in SwitchRecs /\ switch'.state = "applying"
    BY <1>8 DEF InboxRestores, SwitchRecs, LaneNames
  <2>2. /\ applier' = [who |-> "inbox", step |-> "script", rec |-> switch', again |-> FALSE]
        /\ UNCHANGED <<lanes, script, deputy, strayed>>
    BY <1>8 DEF InboxRestores
  <2> QED BY <2>1, <2>2
<1>9. CASE RewritesScript
  <2>1. script' \in [target : Runnable, sid : SessionIds]
    <3>1. applier.rec.to \in Targets
      BY DEF SwitchRecs
    <3>2. [script.target EXCEPT !.model = applier.rec.to.model] \in Runnable
      BY <3>1, TargetsAre
    <3>3. script' = [script EXCEPT !.target = [script.target EXCEPT !.model = applier.rec.to.model]]
      BY <1>9 DEF RewritesScript
    <3> QED BY <3>2, <3>3
  <2>2. strayed' \in BOOLEAN /\ UNCHANGED <<lanes, switch, deputy>>
    BY <1>9 DEF RewritesScript, NotTheLanes
  <2>3. applier' = [applier EXCEPT !.step = "lanes"] /\ applier.step = "script"
    BY <1>9 DEF RewritesScript
  <2> QED BY <2>1, <2>2, <2>3
<1>10. CASE WritesSeed BY <1>10 DEF WritesSeed
<1>11. CASE SetsCodexAside BY <1>11 DEF SetsCodexAside, Codex
<1>12. CASE Regenerates
  <2>1. script' \in [target : Runnable, sid : SessionIds]
    BY <1>12, RegeneratedTypes
  <2>2. /\ strayed' \in BOOLEAN /\ UNCHANGED <<lanes, switch>>
        /\ deputy' = [deputy EXCEPT !.outrun = deputy.up]
    BY <1>12 DEF Regenerates, NotTheLanes
  <2>3. applier' = [applier EXCEPT !.step = "lanes"] /\ applier.step = "generate"
    BY <1>12 DEF Regenerates
  <2> QED BY <2>1, <2>2, <2>3
<1>13. CASE RegenerateFails BY <1>13 DEF RegenerateFails
<1>14. CASE WritesLane
  <2>1. lanes' \in [split : Splits, current : LaneNames]
    <3>1. applier.rec.lane \in LaneNames \cup {""}
      BY DEF SwitchRecs
    <3> QED BY <1>14, <3>1 DEF WritesLane
  <2>2. /\ UNCHANGED <<switch, script, deputy, strayed>> /\ applier.step = "lanes"
        /\ applier' = [applier EXCEPT !.step = "unlink"]
    BY <1>14 DEF WritesLane
  <2> QED BY <2>1, <2>2
<1>15. CASE EndsSwitch BY <1>15 DEF EndsSwitch
<1>16. CASE RelaunchesSwitched
  <2>1. deputy' \in [up : BOOLEAN, sid : SessionIds, captures : BOOLEAN, outrun : BOOLEAN]
    BY <1>16, StartedTypes DEF RelaunchesSwitched
  <2>2. UNCHANGED <<lanes, switch, script, strayed>> /\ applier' = Resting
    BY <1>16 DEF RelaunchesSwitched
  <2> QED BY <2>1, <2>2
<1>17. CASE ApplierDies BY <1>17 DEF ApplierDies
<1>18. CASE UNCHANGED swVars BY <1>18 DEF swVars
<1> QED
  BY <1>1, <1>2, <1>3, <1>4, <1>5, <1>6, <1>7, <1>8, <1>9, <1>10, <1>11, <1>12, <1>13,
     <1>14, <1>15, <1>16, <1>17, <1>18
  DEF SwNext

LaneInv == SwTypes /\ InHand /\ WhatRuns

LEMMA LaneInvStep == LaneInv /\ [SwNext]_swVars => LaneInv'
<1> SUFFICES ASSUME LaneInv, [SwNext]_swVars PROVE LaneInv'
  OBVIOUS
<1>a. SwTypes' /\ InHand'
  BY SwTypesStep DEF LaneInv
<1> SUFFICES WhatRuns'
  BY <1>a DEF LaneInv
<1>b. SwTypes /\ InHand /\ WhatRuns
  BY DEF LaneInv
<1>c. ASSUME UNCHANGED <<lanes, script, strayed, switch>>,
             \/ UNCHANGED applier
             \/ /\ applier' = [applier EXCEPT !.step = "aside"]
                /\ applier.step = "script"
             \/ /\ applier' = [applier EXCEPT !.step = "generate"]
                /\ applier.step = "aside"
      PROVE  WhatRuns'
  BY <1>b, <1>c, NoSwitchIs DEF WhatRuns, SwTypes, LaneRuns, At
<1> USE NoSwitchIs, <1>b DEF SwTypes, InHand, WhatRuns, LaneRuns, At, ApplyGoes
<1>1. ASSUME NEW to \in Targets, NEW lane \in LaneNames \cup {""}, AsksToSwitch(to, lane)
      PROVE WhatRuns'
  BY <1>1 DEF AsksToSwitch, CutShort
<1>2. ASSUME NEW done \in BOOLEAN, LeavesRun(done) PROVE WhatRuns'
  BY <1>2, <1>c DEF LeavesRun
<1>3. ASSUME NEW who, RevivedBy(who) PROVE WhatRuns'
  BY <1>3, <1>c DEF RevivedBy
<1>4. CASE DoesATurn BY <1>4, <1>c DEF DoesATurn
<1>5. CASE CancelsSwitch BY <1>5 DEF CancelsSwitch, CutShort
<1>6. CASE WrapperKilled BY <1>6, <1>c DEF WrapperKilled
<1>7. CASE WatchdogApplies BY <1>7 DEF WatchdogApplies
<1>8. CASE InboxRestores BY <1>8 DEF InboxRestores
<1>9. CASE RewritesScript
  <2> SUFFICES ASSUME ~strayed' PROVE WhatRuns'
    BY DEF WhatRuns
  <2>1. /\ applier.rec.to \in Targets /\ script.target \in Runnable
        /\ applier.rec.lane \in LaneNames \cup {""}
    BY DEF SwitchRecs
  <2>2. /\ script.target.service = applier.rec.to.service /\ applier.rec.lane # ""
        /\ applier.rec.to = lanes.split[applier.rec.lane]
    BY <1>9 DEF RewritesScript, NotTheLanes
  <2>3. script'.target = [script.target EXCEPT !.model = applier.rec.to.model]
    BY <1>9 DEF RewritesScript
  <2>4. script'.target = applier.rec.to
    <3>1. /\ script.target = [service |-> script.target.service, model |-> script.target.model]
          /\ applier.rec.to = [service |-> applier.rec.to.service,
                               model |-> applier.rec.to.model]
      BY <2>1, TargetsAre
    <3> QED BY <2>2, <2>3, <3>1
  <2>5. /\ applier'.step = "lanes" /\ applier'.rec = applier.rec
        /\ UNCHANGED <<lanes, switch>>
    BY <1>9 DEF RewritesScript
  <2> QED BY <2>2, <2>4, <2>5
<1>10. CASE WritesSeed BY <1>10, <1>c DEF WritesSeed
<1>11. CASE SetsCodexAside BY <1>11, <1>c DEF SetsCodexAside
<1>12. CASE Regenerates
  <2> SUFFICES ASSUME ~strayed' PROVE WhatRuns'
    BY DEF WhatRuns
  <2>1. script'.target = applier.rec.to
    BY <1>12, RegeneratedTypes
  <2>2. applier.rec.lane # "" /\ applier.rec.to = lanes.split[applier.rec.lane]
    BY <1>12 DEF Regenerates, NotTheLanes
  <2>3. /\ applier'.step = "lanes" /\ applier'.rec = applier.rec
        /\ UNCHANGED <<lanes, switch>>
    BY <1>12 DEF Regenerates
  <2> QED BY <2>1, <2>2, <2>3
<1>13. CASE RegenerateFails BY <1>13 DEF RegenerateFails
<1>14. CASE WritesLane BY <1>14 DEF WritesLane
<1>15. CASE EndsSwitch BY <1>15 DEF EndsSwitch
<1>16. CASE RelaunchesSwitched BY <1>16 DEF RelaunchesSwitched
<1>17. CASE ApplierDies
  <2>1. /\ applier' = Resting /\ UNCHANGED <<lanes, script, switch>>
        /\ applier.step # ""
        /\ strayed' = (strayed \/ (~At("relaunch") /\ switch # applier.rec))
    BY <1>17 DEF ApplierDies
  <2>2. CASE At("relaunch") BY <2>1, <2>2
  <2>3. CASE switch = applier.rec BY <2>1, <2>3
  <2>4. CASE ~At("relaunch") /\ switch # applier.rec BY <2>1, <2>4
  <2> QED BY <2>2, <2>3, <2>4
<1>18. CASE UNCHANGED swVars BY <1>18, <1>c DEF swVars
<1> QED
  BY <1>1, <1>2, <1>3, <1>4, <1>5, <1>6, <1>7, <1>8, <1>9, <1>10, <1>11, <1>12, <1>13,
     <1>14, <1>15, <1>16, <1>17, <1>18
  DEF SwNext

LEMMA SwTypesInit == SwInit => SwTypes /\ InHand
<1> SUFFICES ASSUME SwInit PROVE SwTypes /\ InHand
  OBVIOUS
<1>1. 1 \in SessionIds
  BY SwAssumption DEF SessionIds
<1>2. PICK s \in Splits : /\ lanes = [split |-> s, current |-> "work"]
                          /\ script = [target |-> s["work"], sid |-> 1]
  BY DEF SwInit
<1>3. s["work"] \in Runnable
  BY TargetsAre DEF LaneNames
<1>4. /\ switch = NoSwitch /\ applier = Resting /\ strayed = FALSE
      /\ deputy = [up |-> TRUE, sid |-> 1, outrun |-> FALSE,
                   captures |-> script.target.service = "chatgpt"]
  BY DEF SwInit
<1> QED BY <1>1, <1>2, <1>3, <1>4, NoSwitchIs DEF SwTypes, InHand, LaneNames

\* Nobody applying and none cut short, the lanes file is right about what runs, for any
\* splits, sessions and faults, whoever relaunches and whatever is asked for meanwhile.
THEOREM LanesAreRight == SwSpec => []LaneIsWhatRuns
<1>1. ASSUME SwInit PROVE LaneInv
  <2>1. lanes.split[lanes.current] = script.target
    BY <1>1 DEF SwInit
  <2>2. applier = Resting
    BY <1>1 DEF SwInit
  <2> QED
    BY <1>1, <2>1, <2>2, SwTypesInit, NoSwitchIs
    DEF LaneInv, WhatRuns, LaneRuns, At
<1>2. LaneInv => LaneIsWhatRuns
  BY NoSwitchIs DEF LaneInv, InHand, WhatRuns, LaneRuns, LaneIsWhatRuns
<1> QED BY <1>1, <1>2, LaneInvStep, PTL DEF SwSpec

(***************************************************************************)
(* The session that a relaunch would resume knows the turns since the      *)
(* script was last regenerated or a codex session set aside, or there are  *)
(* none.  A deputy that runs is in that session, or its wrapper is going   *)
(* to note the session it is in, unless a switch overtook it.              *)
(***************************************************************************)

SessionInv ==
    /\ SwTypes /\ InHand
    /\ DOMAIN transcripts \subseteq SessionIds /\ codexSession \in SessionIds \cup {0}
    /\ deputy.up => deputy.sid \in DOMAIN transcripts
    /\ deputy.up /\ deputy.outrun => carried = {}
    /\ deputy.up /\ ~deputy.outrun =>
          /\ carried \subseteq transcripts[deputy.sid]
          /\ IF Codex THEN deputy.captures \/ codexSession = deputy.sid
                      ELSE ~deputy.captures /\ deputy.sid = script.sid
    /\ ~deputy.up => \/ carried = {}
                     \/ /\ Resumed \in DOMAIN transcripts
                        /\ carried \subseteq transcripts[Resumed]

\* After the script ran, the deputy is in a session with the turns that were kept.
LEMMA ScriptRunsIn ==
  ASSUME SessionInv, ScriptRuns, SwTypes', InHand', UNCHANGED <<script, codexSession>>,
         NEW kept, carried' = kept,
         \/ kept = {}
         \/ Resumed \in DOMAIN transcripts /\ kept \subseteq transcripts[Resumed]
  PROVE  SessionInv'
<1>1. PICK s \in SessionIds :
        /\ IF ~Cold THEN s = Resumed ELSE IF Codex THEN Fresh(s) ELSE s = script.sid
        /\ deputy' = [up |-> TRUE, sid |-> s, captures |-> Codex /\ Cold, outrun |-> FALSE]
        /\ transcripts' = [t \in DOMAIN transcripts \cup {s} |->
                             IF t \in DOMAIN transcripts THEN transcripts[t] ELSE {}]
  BY ScriptStarts
<1>2. /\ DOMAIN transcripts' = DOMAIN transcripts \cup {s}
      /\ s \in DOMAIN transcripts => transcripts'[s] = transcripts[s]
      /\ Codex' <=> Codex
  BY <1>1 DEF Codex
<1>3. /\ deputy'.up /\ deputy'.sid = s /\ ~deputy'.outrun
      /\ deputy'.captures <=> Codex /\ Cold
  BY <1>1 DEF Codex, Cold
<1>4. DOMAIN transcripts' \subseteq SessionIds /\ codexSession' \in SessionIds \cup {0}
  BY <1>2 DEF SessionInv
<1>5. CASE Cold
  <2>1. kept = {}
    BY <1>5 DEF Cold
  <2>2. ~Codex => s = script.sid
    BY <1>1, <1>5
  <2> QED BY <1>2, <1>3, <1>4, <1>5, <2>1, <2>2 DEF SessionInv
<1>6. CASE ~Cold
  <2>1. s = Resumed /\ s \in DOMAIN transcripts
    BY <1>1, <1>6 DEF Cold
  <2>2. kept \subseteq transcripts'[s]
    BY <1>2, <2>1
  <2>3. IF Codex THEN s = codexSession ELSE s = script.sid
    BY <2>1 DEF Resumed
  <2> QED BY <1>2, <1>3, <1>4, <1>6, <2>2, <2>3 DEF SessionInv
<1> QED BY <1>5, <1>6

LEMMA SessionInvStep == SessionInv /\ [SwNext]_swVars => SessionInv'
<1> SUFFICES ASSUME SessionInv, [SwNext]_swVars PROVE SessionInv'
  OBVIOUS
<1>a. SwTypes' /\ InHand'
  BY SwTypesStep DEF SessionInv
<1>b. 0 \notin SessionIds /\ ~NotUp.up
  BY DEF SessionIds, NotUp
<1>c. ASSUME UNCHANGED <<script, codexSession, transcripts, deputy, carried>>
      PROVE  SessionInv'
  BY <1>a, <1>c DEF SessionInv, Codex, Resumed
<1> USE <1>a, <1>b DEF SessionInv, Codex, Resumed
<1>1. ASSUME NEW to \in Targets, NEW lane \in LaneNames \cup {""}, AsksToSwitch(to, lane)
      PROVE SessionInv'
  BY <1>1, <1>c DEF AsksToSwitch
<1>2. ASSUME NEW done \in BOOLEAN, LeavesRun(done) PROVE SessionInv'
  BY <1>2 DEF LeavesRun, SwTypes
<1>3. ASSUME NEW who, RevivedBy(who) PROVE SessionInv'
  <2>1. /\ ~deputy.up /\ ScriptRuns /\ UNCHANGED <<script, codexSession>>
        /\ carried' = carried
    BY <1>3 DEF RevivedBy
  <2> QED BY <2>1, ScriptRunsIn
<1>4. CASE DoesATurn BY <1>4 DEF DoesATurn
<1>5. CASE CancelsSwitch BY <1>5, <1>c DEF CancelsSwitch
<1>6. CASE WrapperKilled BY <1>6 DEF WrapperKilled, KeptAtAKill
<1>7. CASE WatchdogApplies BY <1>7, <1>c DEF WatchdogApplies
<1>8. CASE InboxRestores BY <1>8, <1>c DEF InboxRestores
<1>9. CASE RewritesScript
  <2>1. /\ script'.target.service = script.target.service /\ script'.sid = script.sid
        /\ UNCHANGED <<codexSession, transcripts, deputy, carried>>
    <3>1. PICK t : /\ t = [script.target EXCEPT !.model = applier.rec.to.model]
                   /\ script' = [script EXCEPT !.target = t]
      BY <1>9 DEF RewritesScript
    <3>2. t.service = script.target.service
      <4>1. script.target = [service |-> script.target.service,
                             model |-> script.target.model]
        BY TargetsAre DEF SwTypes
      <4> QED BY <3>1, <4>1
    <3> QED BY <1>9, <3>1, <3>2 DEF RewritesScript, SwTypes
  <2>2. Resumed' = Resumed /\ (Codex' <=> Codex)
    BY <2>1
  <2> QED BY <2>1, <2>2
<1>10. CASE WritesSeed BY <1>10, <1>c DEF WritesSeed
<1>11. CASE SetsCodexAside BY <1>11 DEF SetsCodexAside, SwTypes
<1>12. CASE Regenerates
  <2>1. /\ carried' = {} /\ deputy' = [deputy EXCEPT !.outrun = deputy.up]
        /\ UNCHANGED <<codexSession, transcripts>>
    BY <1>12 DEF Regenerates
  <2> QED BY <2>1 DEF SwTypes
<1>13. CASE RegenerateFails BY <1>13, <1>c DEF RegenerateFails
<1>14. CASE WritesLane BY <1>14, <1>c DEF WritesLane
<1>15. CASE EndsSwitch BY <1>15, <1>c DEF EndsSwitch
<1>16. CASE RelaunchesSwitched
  <2>1. /\ ScriptRuns /\ UNCHANGED <<script, codexSession>>
        /\ carried' = KeptAtAKill
    BY <1>16 DEF RelaunchesSwitched
  <2>2. \/ KeptAtAKill = {}
        \/ Resumed \in DOMAIN transcripts /\ KeptAtAKill \subseteq transcripts[Resumed]
    BY DEF KeptAtAKill
  <2> QED BY <2>1, <2>2, ScriptRunsIn
<1>17. CASE ApplierDies BY <1>17, <1>c DEF ApplierDies
<1>18. CASE UNCHANGED swVars BY <1>18, <1>c DEF swVars
<1> QED
  BY <1>1, <1>2, <1>3, <1>4, <1>5, <1>6, <1>7, <1>8, <1>9, <1>10, <1>11, <1>12, <1>13,
     <1>14, <1>15, <1>16, <1>17, <1>18
  DEF SwNext

LEMMA SessionInvInit == SwInit => SessionInv
<1> SUFFICES ASSUME SwInit PROVE SessionInv
  OBVIOUS
<1>1. /\ transcripts = [s \in {1} |-> {}]
      /\ deputy = [up |-> TRUE, sid |-> 1, outrun |-> FALSE,
                   captures |-> script.target.service = "chatgpt"]
      /\ carried = {} /\ codexSession = 0 /\ script.sid = 1
  BY DEF SwInit
<1>2. 1 \in SessionIds
  BY SwAssumption DEF SessionIds
<1> QED BY <1>1, <1>2, SwTypesInit DEF SessionInv, Codex

\* Between the switches that regenerate the script no turn is lost, for any splits,
\* turns, sessions and faults, and whoever relaunches in the middle of a switch.
THEOREM SessionsAreKept == SwSpec => []SessionIsKept
<1>1. SessionInv => SessionIsKept
  BY DEF SessionInv, SessionIsKept
<1> QED BY <1>1, SessionInvInit, SessionInvStep, PTL DEF SwSpec

\* The seed is made of turns, since the sessions know of nothing else.
SwBounds ==
    /\ seedPrompt \subseteq Turns /\ \A s \in DOMAIN transcripts : transcripts[s] \subseteq Turns
    /\ turns \in 0 .. MaxTurns /\ switchFaults \in 0 .. MaxSwitchFaults

LEMMA SwBoundsInit == SwInit => SwBounds
BY SwAssumption DEF SwInit, SwBounds

LEMMA SwBoundsStep == ASSUME SwBounds, SessionInv, [SwNext]_swVars PROVE SwBounds'
<1> USE SwAssumption DEF SwBounds, Turns
<1>1. ASSUME UNCHANGED <<seedPrompt, transcripts, turns>>,
             \/ switchFaults' = switchFaults
             \/ /\ switchFaults < MaxSwitchFaults
                /\ switchFaults' = switchFaults + 1
      PROVE  SwBounds'
  BY <1>1
<1>2. CASE DoesATurn
  <2>1. turns + 1 \in 1 .. MaxTurns
    BY <1>2 DEF DoesATurn
  <2>2. \A s \in DOMAIN transcripts' : /\ s \in DOMAIN transcripts
                                       /\ transcripts'[s] \subseteq transcripts[s] \cup {turns + 1}
    BY <1>2 DEF DoesATurn
  <2> QED BY <1>2, <2>1, <2>2 DEF DoesATurn
<1>3. ASSUME ScriptRuns, UNCHANGED <<turns, switchFaults>> PROVE SwBounds'
  <2>1. \A s \in DOMAIN transcripts' :
           \/ transcripts'[s] = {}
           \/ s \in DOMAIN transcripts /\ transcripts'[s] = transcripts[s]
    BY <1>3, ScriptStarts
  <2>2. seedPrompt' \in {seedPrompt, {}}
    BY <1>3 DEF ScriptRuns
  <2> QED BY <1>3, <2>1, <2>2
<1>4. CASE WritesSeed
  BY <1>4 DEF WritesSeed, Rendered
<1>5. CASE \/ CancelsSwitch \/ WrapperKilled \/ WatchdogApplies \/ InboxRestores
           \/ RewritesScript \/ SetsCodexAside \/ Regenerates \/ RegenerateFails
           \/ WritesLane \/ EndsSwitch \/ ApplierDies
  BY <1>5, <1>1 DEF CancelsSwitch, WrapperKilled, WatchdogApplies, InboxRestores,
                    RewritesScript, SetsCodexAside, Regenerates, RegenerateFails, WritesLane,
                    EndsSwitch, ApplierDies
<1>6. ASSUME NEW to, NEW lane, AsksToSwitch(to, lane) PROVE SwBounds'
  BY <1>6, <1>1 DEF AsksToSwitch
<1>7. ASSUME NEW done \in BOOLEAN, LeavesRun(done) PROVE SwBounds'
  BY <1>7, <1>1 DEF LeavesRun
<1>8. ASSUME NEW who, RevivedBy(who) PROVE SwBounds'
  BY <1>8, <1>3 DEF RevivedBy
<1>9. CASE RelaunchesSwitched
  BY <1>9, <1>3 DEF RelaunchesSwitched
<1>10. CASE UNCHANGED swVars
  BY <1>10, <1>1 DEF swVars
<1> QED BY <1>2, <1>4, <1>5, <1>6, <1>7, <1>8, <1>9, <1>10 DEF SwNext

LEMMA SwTypesFit == SessionInv /\ SwBounds => SwTypeOK
BY DEF SessionInv, SwBounds, SwTypes, SwitchRecs, SwTypeOK

-----------------------------------------------------------------------------
(***************************************************************************)
(* The hand-off.  The last good round of a call is the newest of those it  *)
(* ended with a document, which are all before its present round; of a     *)
(* call that has not begun nothing is handed over or seen.                 *)
(***************************************************************************)

HybridTypes ==
    /\ document \in [WriterRounds -> BOOLEAN]
    /\ handoff \in [call : Nat, step : {"idle", "round", "poll"},
                    round : 0 .. MaxWriterRounds, lastGood : 0 .. MaxWriterRounds]
    /\ handed \in [DOMAIN HandoffCalls -> [status : Ended \cup {"none"},
                                           report : 0 .. MaxWriterRounds]]
    /\ DOMAIN seen = DOMAIN HandoffCalls
    /\ \A c \in DOMAIN seen :
          seen[c] = [documents |-> seen[c].documents, round |-> seen[c].round,
                     last |-> seen[c].last]

CallUnderWay ==
    handoff.step # "idle" =>
       LET docs == seen[handoff.call].documents
       IN  /\ handoff.call \in DOMAIN HandoffCalls /\ handoff.round \in WriterRounds
           /\ handoff.round <= LastRound
           /\ handoff.lastGood \in docs \cup {Draft}
           /\ \A d \in docs : d \in WriterRounds /\ d < handoff.round /\ d <= handoff.lastGood

IdleHasNone == handoff.step = "idle" => handoff.lastGood = Draft

CallsToCome ==
    \A c \in DOMAIN HandoffCalls :
       /\ c >= handoff.call => handed[c].status = "none"
       /\ c > handoff.call \/ (c = handoff.call /\ handoff.step = "idle") =>
             seen[c].documents = {}

HandoffInv ==
    /\ HybridTypes /\ CallUnderWay /\ IdleHasNone /\ CallsToCome
    /\ NewestReportIsHandedOver /\ ReadyIsTheWriters

LEMMA MaxIs ==
  ASSUME NEW S \in SUBSET Nat, NEW m \in S, \A y \in S : y <= m
  PROVE  Max(S) = m
<1>1. \A x \in S : (\A y \in S : x >= y) => x = m
  OBVIOUS
<1>2. \E x \in S : \A y \in S : x >= y
  OBVIOUS
<1> DEFINE P(x) == x \in S /\ \A y \in S : x >= y
<1>3. P(CHOOSE x : P(x))
  <2>1. \E x : P(x) BY <1>2
  <2> QED BY <2>1
<1>4. Max(S) = CHOOSE x : P(x)
  BY DEF Max
<1> QED BY <1>1, <1>3, <1>4

\* The round that a call hands over is the newest it has seen a document of.
LEMMA LastGoodIsNewest ==
  ASSUME HybridTypes, CallUnderWay, handoff.step # "idle"
  PROVE  LET docs == seen[handoff.call].documents \cup
                        (IF document[handoff.round] THEN {handoff.round} ELSE {})
         IN  /\ LastGood(handoff.round) \in docs \cup {Draft}
             /\ \A d \in docs : /\ d \in WriterRounds /\ d <= handoff.round
                                /\ d <= LastGood(handoff.round)
             /\ Max(docs \cup {Draft}) = LastGood(handoff.round)
<1> DEFINE docs == seen[handoff.call].documents \cup
                      (IF document[handoff.round] THEN {handoff.round} ELSE {})
<1> DEFINE good == LastGood(handoff.round)
<1>1. /\ good \in docs \cup {Draft}
      /\ \A d \in docs : d \in WriterRounds /\ d <= handoff.round /\ d <= good
  BY DEF HybridTypes, CallUnderWay, LastGood, WriterRounds, Draft
<1>2. /\ docs \cup {Draft} \in SUBSET Nat /\ \A d \in docs \cup {Draft} : d <= good
  BY <1>1 DEF WriterRounds, Draft
<1> HIDE DEF good, docs
<1>3. Max(docs \cup {Draft}) = good
  BY <1>1, <1>2, MaxIs
<1> QED BY <1>1, <1>3 DEF good, docs

LEMMA CallsFit ==
  \A c \in DOMAIN HandoffCalls :
     /\ c \in Nat /\ HandoffCalls[c].start \in Nat /\ HandoffCalls[c].rounds \in Nat
     /\ HandoffCalls[c].start \in WriterRounds
     /\ HandoffCalls[c].start <= HandoffCalls[c].start + HandoffCalls[c].rounds - 1
     /\ HandoffCalls[c].start + HandoffCalls[c].rounds - 1 <= MaxWriterRounds
<1> SUFFICES ASSUME NEW c \in DOMAIN HandoffCalls
             PROVE  /\ c \in Nat
                    /\ HandoffCalls[c].start \in Nat \ {0}
                    /\ HandoffCalls[c].rounds \in Nat \ {0}
                    /\ HandoffCalls[c].start + HandoffCalls[c].rounds - 1 <= MaxWriterRounds
  BY HybridAssumption DEF WriterRounds
<1>1. c \in 1 .. Len(HandoffCalls)
  BY HybridAssumption
<1>2. HandoffCalls[c] \in [start : Nat \ {0}, rounds : Nat \ {0}, polished : BOOLEAN]
  <2> DEFINE R == [start : Nat \ {0}, rounds : Nat \ {0}, polished : BOOLEAN]
  <2>1. HandoffCalls \in Seq(R)
    BY HybridAssumption
  <2> HIDE DEF R
  <2>2. HandoffCalls[c] \in R
    BY <1>1, <2>1
  <2> QED BY <2>2 DEF R
<1> QED BY <1>1, <1>2, HybridAssumption

\* What ends a round: what its directory says, or that the writer failed.
Saying(parsed) ==
    parsed = RoundSays \/ parsed = [status |-> "blocked", queries |-> FALSE]

\* A round that ends READY has a response that says so and asks nothing that blocks.
LEMMA SayingIs ==
  ASSUME NEW parsed, Saying(parsed), RoundSays.status # "none" \/ parsed.status = "blocked"
  PROVE  /\ parsed.status \in WriterStatuses
         /\ parsed.status = "ready" =>
               /\ response[handoff.round].status = "ready"
               /\ response[handoff.round].asks # "blocking"
BY DEF Saying, RoundSays, Parsed, Responses, WriterStatuses

LEMMA RoundEndsStep ==
  ASSUME HandoffInv, handoff.step = "poll", NEW parsed, Saying(parsed),
         RoundSays.status # "none" \/ parsed.status = "blocked",
         RoundEnds(parsed)
  PROVE  HandoffInv'
<1>1. PICK r, c, docs, good :
         /\ r = handoff.round /\ c = handoff.call /\ good = LastGood(r)
         /\ docs = seen[c].documents \cup (IF document[r] THEN {r} ELSE {})
  OBVIOUS
<1>2. /\ HybridTypes /\ CallUnderWay /\ CallsToCome
      /\ NewestReportIsHandedOver /\ ReadyIsTheWriters
  BY DEF HandoffInv
<1>3. /\ c \in DOMAIN HandoffCalls /\ c \in Nat /\ r \in WriterRounds /\ r <= LastRound
      /\ LastRound \in Nat /\ LastRound <= MaxWriterRounds
  BY <1>1, <1>2, CallsFit DEF CallUnderWay, LastRound, Call, HybridTypes
<1>4. /\ good \in docs \cup {Draft} /\ Max(docs \cup {Draft}) = good
      /\ \A d \in docs : d \in WriterRounds /\ d <= r /\ d <= good
  BY <1>1, <1>2, LastGoodIsNewest
<1>5. /\ seen' = [seen EXCEPT ![c] = [documents |-> docs, round |-> r,
                                     last |-> response[r]]]
      /\ UNCHANGED <<document, response>>
  BY <1>1 DEF RoundEnds
<1>6. /\ DOMAIN seen' = DOMAIN HandoffCalls
      /\ seen'[c] = [documents |-> docs, round |-> r, last |-> response[r]]
      /\ \A x \in DOMAIN HandoffCalls : x # c => seen'[x] = seen[x]
  BY <1>2, <1>3, <1>5 DEF HybridTypes
<1>7. good \in 0 .. MaxWriterRounds
  BY <1>4, HybridAssumption DEF WriterRounds, Draft
<1>8. CASE ~(parsed.status = "ready" /\ document[r]) /\ parsed.queries /\ r < LastRound
  <2>1. /\ handoff' = [handoff EXCEPT !.step = "round", !.round = r + 1, !.lastGood = good]
        /\ handed' = handed
    BY <1>1, <1>8 DEF RoundEnds
  <2>2. r + 1 \in WriterRounds /\ r + 1 \in 0 .. MaxWriterRounds /\ r + 1 <= LastRound
    BY <1>3, <1>8, HybridAssumption DEF WriterRounds
  <2>3. /\ handoff' \in [call : Nat, step : {"idle", "round", "poll"},
                         round : 0 .. MaxWriterRounds, lastGood : 0 .. MaxWriterRounds]
        /\ handoff'.call = c /\ handoff'.step = "round"
        /\ handoff'.round = r + 1 /\ handoff'.lastGood = good
    BY <1>1, <1>2, <1>7, <2>1, <2>2 DEF HybridTypes
  <2>4. HybridTypes'
    BY <1>2, <1>5, <1>6, <2>1, <2>3 DEF HybridTypes
  <2>5. LastRound' = LastRound
    BY <1>1, <2>3 DEF LastRound, Call
  <2>6. CallUnderWay'
    <3>1. \A d \in docs : d \in WriterRounds /\ d < r + 1 /\ d <= good
      BY <1>3, <1>4 DEF WriterRounds
    <3> QED BY <1>3, <1>4, <1>6, <2>2, <2>3, <2>5, <3>1 DEF CallUnderWay
  <2>7. IdleHasNone'
    BY <2>3 DEF IdleHasNone
  <2>8. CallsToCome'
    BY <1>1, <1>2, <1>3, <1>6, <2>1, <2>3 DEF CallsToCome
  <2>9. NewestReportIsHandedOver' /\ ReadyIsTheWriters'
    <3>1. handed[c].status = "none"
      BY <1>1, <1>2, <1>3 DEF CallsToCome, HybridTypes
    <3> QED
      BY <1>2, <1>6, <2>1, <3>1
      DEF NewestReportIsHandedOver, ReadyIsTheWriters, HybridTypes, WriterStatuses
  <2> QED BY <2>4, <2>6, <2>7, <2>8, <2>9 DEF HandoffInv
<1>9. CASE ~(~(parsed.status = "ready" /\ document[r]) /\ parsed.queries /\ r < LastRound)
  <2>1. PICK status : status = parsed.status /\ EndCall(status, good)
    BY <1>1, <1>9 DEF RoundEnds
  <2>2. /\ status \in WriterStatuses
        /\ status = "ready" => response[r].status = "ready" /\ response[r].asks # "blocking"
    BY <1>1, <2>1, SayingIs
  <2>3. /\ handed' = [handed EXCEPT ![c] = [status |-> status, report |-> good]]
        /\ handoff' = [call |-> c + 1, step |-> "idle", round |-> 0, lastGood |-> Draft]
    BY <1>1, <2>1 DEF EndCall
  <2>4. /\ DOMAIN handed' = DOMAIN HandoffCalls
        /\ handed'[c] = [status |-> status, report |-> good]
        /\ \A x \in DOMAIN HandoffCalls : x # c => handed'[x] = handed[x]
    BY <1>2, <1>3, <2>3 DEF HybridTypes
  <2>5. HybridTypes'
    <3>1. [status |-> status, report |-> good]
             \in [status : Ended \cup {"none"}, report : 0 .. MaxWriterRounds]
      BY <1>7, <2>2 DEF Ended, WriterStatuses
    <3>2. handoff' \in [call : Nat, step : {"idle", "round", "poll"},
                        round : 0 .. MaxWriterRounds, lastGood : 0 .. MaxWriterRounds]
      BY <1>3, <2>3, HybridAssumption DEF Draft
    <3>3. handed' \in [DOMAIN HandoffCalls -> [status : Ended \cup {"none"},
                                               report : 0 .. MaxWriterRounds]]
      BY <1>2, <1>3, <2>3, <3>1 DEF HybridTypes
    <3> QED BY <1>2, <1>5, <1>6, <3>2, <3>3 DEF HybridTypes
  <2>6. CallUnderWay' /\ IdleHasNone'
    BY <2>3 DEF CallUnderWay, IdleHasNone
  <2>7. CallsToCome'
    BY <1>1, <1>2, <1>3, <1>6, <2>3, <2>4, CallsFit DEF CallsToCome
  <2>8. NewestReportIsHandedOver'
    <3> SUFFICES ASSUME NEW x \in DOMAIN HandoffCalls,
                        handed'[x].status \in WriterStatuses
                 PROVE  handed'[x].report = Max(seen'[x].documents \cup {Draft})
      BY <2>4 DEF NewestReportIsHandedOver
    <3>1. CASE x = c
      <4>1. seen'[x].documents = docs /\ handed'[x].report = good
        BY <1>6, <2>4, <3>1
      <4> QED BY <1>4, <4>1
    <3>2. CASE x # c
      <4>1. seen'[x] = seen[x] /\ handed'[x] = handed[x] /\ x \in DOMAIN handed
        BY <1>2, <1>6, <2>4, <3>2 DEF HybridTypes
      <4>2. handed[x].report = Max(seen[x].documents \cup {Draft})
        BY <1>2, <4>1 DEF NewestReportIsHandedOver
      <4> QED BY <4>1, <4>2
    <3> QED BY <3>1, <3>2
  <2>9. ReadyIsTheWriters'
    <3>1. r \in docs => good = r
      <4>1. r \in Nat \ {0} /\ (good = 0 \/ good \in docs)
        BY <1>3, <1>4 DEF WriterRounds, Draft
      <4>2. good \in docs => good \in Nat /\ good <= r
        BY <1>4 DEF WriterRounds
      <4> QED BY <1>4, <4>1, <4>2
    <3> QED
      BY <1>2, <1>6, <2>2, <2>4, <3>1 DEF ReadyIsTheWriters, HybridTypes
  <2> QED BY <2>5, <2>6, <2>7, <2>8, <2>9 DEF HandoffInv
<1> QED BY <1>8, <1>9

LEMMA HandoffInvStep == HandoffInv /\ [HybridNext]_hybridVars => HandoffInv'
<1> SUFFICES ASSUME HandoffInv, [HybridNext]_hybridVars PROVE HandoffInv'
  OBVIOUS
<1> USE DEF HandoffInv, HybridTypes, CallUnderWay, IdleHasNone, CallsToCome, NewestReportIsHandedOver,
            ReadyIsTheWriters, hybridDisk
<1>a. \A c \in DOMAIN HandoffCalls :
         /\ c \in Nat /\ HandoffCalls[c].start \in WriterRounds
         /\ HandoffCalls[c].start <= HandoffCalls[c].start + HandoffCalls[c].rounds - 1
  BY CallsFit
<1>b. ASSUME NEW status \in {"skipped", "killed"}, EndCall(status, Draft),
             handoff.call \in DOMAIN HandoffCalls, UNCHANGED <<document, response, seen>>
      PROVE  HandoffInv'
  <2>1. /\ handed' = [handed EXCEPT ![handoff.call] = [status |-> status, report |-> Draft]]
        /\ handoff' = [call |-> handoff.call + 1, step |-> "idle", round |-> 0,
                       lastGood |-> Draft]
    BY <1>b DEF EndCall
  <2>2. 0 \in 0 .. MaxWriterRounds /\ handoff.call \in Nat
    BY HybridAssumption
  <2>3. HybridTypes'
    BY <1>b, <2>1, <2>2 DEF Draft, Ended
  <2>4. CallUnderWay' /\ IdleHasNone'
    BY <2>1
  <2>5. CallsToCome'
    BY <1>a, <1>b, <2>1, <2>2
  <2>6. NewestReportIsHandedOver' /\ ReadyIsTheWriters'
    BY <1>b, <2>1 DEF WriterStatuses
  <2> QED BY <2>3, <2>4, <2>5, <2>6
<1>1. CASE HandoffBegins
  <2>1. CASE Call.polished
    <3>1. /\ handoff' = [handoff EXCEPT !.step = "round", !.round = Call.start]
          /\ handoff.step = "idle" /\ handoff.call \in DOMAIN HandoffCalls
          /\ UNCHANGED <<document, response, handed, seen>>
      BY <1>1, <2>1 DEF HandoffBegins
    <3>2. Call.start \in WriterRounds /\ Call.start <= LastRound
      BY <1>a, <3>1 DEF Call, LastRound
    <3>3. Call.start \in 0 .. MaxWriterRounds
      BY <3>2, HybridAssumption DEF WriterRounds
    <3>4. /\ handoff' \in [call : Nat, step : {"idle", "round", "poll"},
                           round : 0 .. MaxWriterRounds, lastGood : 0 .. MaxWriterRounds]
          /\ handoff'.call = handoff.call /\ handoff'.step = "round"
          /\ handoff'.round = Call.start /\ handoff'.lastGood = handoff.lastGood
      BY <3>1, <3>3
    <3>5. HybridTypes'
      BY <3>1, <3>4
    <3>6. seen[handoff.call].documents = {} /\ handoff.lastGood = Draft
      BY <3>1
    <3>7. LastRound' = LastRound
      BY <3>4 DEF LastRound, Call
    <3>8. CallUnderWay'
      BY <3>1, <3>2, <3>4, <3>6, <3>7
    <3> QED BY <3>1, <3>4, <3>5, <3>8
  <2>2. CASE ~Call.polished
    <3>1. /\ EndCall("skipped", Draft) /\ UNCHANGED <<document, response, seen>>
          /\ handoff.step = "idle" /\ handoff.call \in DOMAIN HandoffCalls
      BY <1>1, <2>2 DEF HandoffBegins
    <3> QED BY <1>b, <3>1
  <2> QED BY <2>1, <2>2
<1>2. CASE RoundSpawns BY <1>2 DEF RoundSpawns, LastRound, Call
<1>3. CASE RoundAnswered
  BY <1>3, RoundEndsStep DEF RoundAnswered, Saying
<1>4. CASE RoundFails
  BY <1>4, RoundEndsStep DEF RoundFails, Saying
<1>5. CASE HandoffKilled
  <2>1. /\ EndCall("killed", Draft) /\ UNCHANGED <<document, response, seen>>
        /\ handoff.call \in DOMAIN HandoffCalls
    BY <1>5 DEF HandoffKilled
  <2> QED BY <1>b, <2>1
<1>6. ASSUME NEW r \in WriterRounds,
             \/ WriterTearsResponse(r) \/ WriterEnds(r)
             \/ \E file \in {"document", "response"} : WriterWrites(r, file)
      PROVE HandoffInv'
  <2>1. /\ document' \in [WriterRounds -> BOOLEAN] /\ UNCHANGED <<handoff, handed, seen>>
    BY <1>6 DEF WriterTearsResponse, WriterEnds, WriterWrites
  <2>2. LastRound' = LastRound
    BY <2>1 DEF LastRound, Call
  <2> QED BY <2>1, <2>2
<1>7. CASE UNCHANGED hybridVars BY <1>7 DEF hybridVars, LastRound, Call
<1> QED BY <1>1, <1>2, <1>3, <1>4, <1>5, <1>6, <1>7 DEF HybridNext

LEMMA HandoffInvInit == HybridInit => HandoffInv
<1> SUFFICES ASSUME HybridInit PROVE HandoffInv
  OBVIOUS
<1>1. 0 \in 0 .. MaxWriterRounds
  BY HybridAssumption
<1>2. \A c \in DOMAIN HandoffCalls : c \in Nat
  BY CallsFit
<1> QED
  BY <1>1, <1>2
  DEF HybridInit, HandoffInv, HybridTypes, CallUnderWay, IdleHasNone, CallsToCome,
      NewestReportIsHandedOver, ReadyIsTheWriters, Draft, WriterStatuses

LEMMA HandoffInvHolds == HybridSpec => []HandoffInv
BY HandoffInvInit, HandoffInvStep, PTL DEF HybridSpec

\* A call hands over the newest of the documents its own rounds left, and the
\* deputy's draft only when they left none, for any calls, rounds and kills.
THEOREM NewestIsHandedOver == HybridSpec => []NewestReportIsHandedOver
<1>1. HandoffInv => NewestReportIsHandedOver
  BY DEF HandoffInv
<1> QED BY <1>1, HandoffInvHolds, PTL

\* A call ends READY only on the word of the writer of its last round, who asked nothing
\* that blocks, and with that round's document if there is one, for any calls, rounds
\* and kills; if there is none, the report is an earlier round's or the draft.
THEOREM ReadyIsEarned == HybridSpec => []ReadyIsTheWriters
<1>1. HandoffInv => ReadyIsTheWriters
  BY DEF HandoffInv
<1> QED BY <1>1, HandoffInvHolds, PTL

\* A call is of a round of the case, and there is one call under way.
HybridBounds ==
    /\ writerDirs \subseteq WriterRounds
    /\ response \in [WriterRounds -> Responses \cup {NoResponse, TornResponse}]
    /\ writer \in [WriterRounds -> [alive : BOOLEAN,
                                    left : SUBSET {"document", "response"}]]
    /\ handoff.call \in 1 .. Len(HandoffCalls) + 1
    /\ \A c \in DOMAIN seen : /\ seen[c].documents \subseteq WriterRounds
                              /\ seen[c].round \in 0 .. MaxWriterRounds
    /\ deputyKills \in 0 .. MaxDeputyKills

LEMMA HybridBoundsInit == HybridInit => HybridBounds
<1> SUFFICES ASSUME HybridInit PROVE HybridBounds
  OBVIOUS
<1>1. Len(HandoffCalls) \in Nat
  BY HybridAssumption
<1>2. handoff.call = 1 /\ writer = [r \in WriterRounds |-> NoWriter]
  BY DEF HybridInit
<1>3. NoWriter \in [alive : BOOLEAN, left : SUBSET {"document", "response"}]
  BY DEF NoWriter
<1> QED BY <1>1, <1>2, <1>3, HybridAssumption DEF HybridInit, HybridBounds

LEMMA HybridBoundsStep ==
  ASSUME HybridBounds, HandoffInv, [HybridNext]_hybridVars PROVE HybridBounds'
<1> DEFINE Sessions == [alive : BOOLEAN, left : SUBSET {"document", "response"}]
<1> DEFINE InDir == Responses \cup {NoResponse, TornResponse}
<1> USE DEF HybridBounds, hybridDisk
<1>a. /\ DOMAIN HandoffCalls = 1 .. Len(HandoffCalls) /\ Len(HandoffCalls) \in Nat
      /\ MaxDeputyKills \in Nat
  BY HybridAssumption
<1>b. handoff.step # "idle" =>
         handoff.call \in DOMAIN HandoffCalls /\ handoff.round \in WriterRounds
  BY DEF HandoffInv, CallUnderWay
<1>c. DOMAIN seen = DOMAIN HandoffCalls
  BY DEF HandoffInv, HybridTypes
<1>d. NoWriter \in Sessions
  BY DEF NoWriter
<1>1. ASSUME NEW status, NEW report, EndCall(status, report),
             handoff.call \in DOMAIN HandoffCalls
      PROVE  handoff'.call \in 1 .. Len(HandoffCalls) + 1
  <2>1. handoff'.call = handoff.call + 1
    BY <1>1 DEF EndCall
  <2> QED BY <1>1, <1>a, <2>1
<1>2. CASE HandoffBegins
  <2>1. /\ UNCHANGED <<writerDirs, response, writer, seen, deputyKills>>
        /\ handoff.call \in DOMAIN HandoffCalls
        /\ EndCall("skipped", Draft)
           \/ handoff' = [handoff EXCEPT !.step = "round", !.round = Call.start]
    BY <1>2 DEF HandoffBegins
  <2>2. handoff'.call \in 1 .. Len(HandoffCalls) + 1
    BY <1>1, <1>a, <2>1 DEF HandoffInv, HybridTypes
  <2> QED BY <2>1, <2>2
<1>3. CASE RoundSpawns
  <2>1. /\ writerDirs' = writerDirs \cup {handoff.round} /\ handoff.step = "round"
        /\ UNCHANGED <<response, seen, deputyKills>>
        /\ handoff' = [handoff EXCEPT !.step = "poll"]
    BY <1>3 DEF RoundSpawns
  <2>2. \/ writer' = writer
        \/ writer' = [writer EXCEPT ![handoff.round] =
                         [alive |-> TRUE, left |-> {"document", "response"}]]
    BY <1>3 DEF RoundSpawns
  <2>3. writer' \in [WriterRounds -> Sessions]
    <3>1. [alive |-> TRUE, left |-> {"document", "response"}] \in Sessions
      OBVIOUS
    <3> HIDE DEF Sessions
    <3>2. writer \in [WriterRounds -> Sessions]
      BY DEF Sessions
    <3>3. \/ writer' = writer
          \/ \E session \in Sessions : writer' = [writer EXCEPT ![handoff.round] = session]
      BY <2>2, <3>1
    <3> QED BY <3>2, <3>3
  <2>4. handoff'.call = handoff.call
    BY <2>1 DEF HandoffInv, HybridTypes
  <2> QED BY <1>b, <2>1, <2>3, <2>4
<1>4. ASSUME NEW parsed, handoff.step = "poll", RoundEnds(parsed) PROVE HybridBounds'
  <2>1. UNCHANGED <<writerDirs, response, writer, deputyKills>>
    BY <1>4 DEF RoundEnds
  <2>2. handoff'.call \in 1 .. Len(HandoffCalls) + 1
    <3>1. \/ \E status, report : EndCall(status, report)
          \/ handoff' = [handoff EXCEPT !.step = "round", !.round = handoff.round + 1,
                                        !.lastGood = LastGood(handoff.round)]
      BY <1>4 DEF RoundEnds
    <3> QED BY <1>1, <1>4, <1>b, <3>1 DEF HandoffInv, HybridTypes
  <2>3. PICK docs, last :
          /\ seen' = [seen EXCEPT ![handoff.call] =
                        [documents |-> docs, round |-> handoff.round, last |-> last]]
          /\ docs \subseteq seen[handoff.call].documents \cup {handoff.round}
    BY <1>4 DEF RoundEnds
  <2>4. docs \subseteq WriterRounds
    BY <1>4, <1>b, <1>c, <2>3
  <2>5. \A c \in DOMAIN seen' : /\ seen'[c].documents \subseteq WriterRounds
                                /\ seen'[c].round \in 0 .. MaxWriterRounds
    BY <1>4, <1>b, <2>3, <2>4, HybridAssumption DEF WriterRounds
  <2> QED BY <2>1, <2>2, <2>5
<1>5. CASE HandoffKilled
  <2>1. /\ UNCHANGED <<writerDirs, response, writer, seen>> /\ deputyKills' = deputyKills + 1
        /\ deputyKills < MaxDeputyKills /\ handoff'.call \in 1 .. Len(HandoffCalls) + 1
    BY <1>1, <1>5, <1>b DEF HandoffKilled
  <2>2. deputyKills' \in 0 .. MaxDeputyKills
    BY <1>a, <2>1
  <2> QED BY <2>1, <2>2
<1>6. ASSUME NEW r \in WriterRounds, WriterEnds(r) PROVE HybridBounds'
  BY <1>6, <1>d DEF WriterEnds
<1>7. ASSUME NEW r \in WriterRounds, WriterTearsResponse(r) PROVE HybridBounds'
  <2>1. /\ response' = [response EXCEPT ![r] = TornResponse]
        /\ UNCHANGED <<writerDirs, writer, handoff, seen, deputyKills>>
    BY <1>7 DEF WriterTearsResponse
  <2>2. response' \in [WriterRounds -> InDir]
    BY <2>1
  <2> QED BY <2>1, <2>2
<1>8. ASSUME NEW r \in WriterRounds, NEW file \in {"document", "response"},
             WriterWrites(r, file)
      PROVE  HybridBounds'
  <2>1. /\ writer' = [writer EXCEPT ![r].left = @ \ {file}]
        /\ \/ response' = response
           \/ \E says \in Responses : response' = [response EXCEPT ![r] = says]
        /\ UNCHANGED <<writerDirs, handoff, seen, deputyKills>>
    BY <1>8 DEF WriterWrites
  <2>2. writer[r] \in Sessions
    OBVIOUS
  <2>3. writer' \in [WriterRounds -> Sessions]
    BY <2>1, <2>2
  <2>4. response' \in [WriterRounds -> InDir]
    <3> HIDE DEF InDir
    <3>1. response \in [WriterRounds -> InDir] /\ Responses \subseteq InDir
      BY DEF InDir
    <3> QED BY <2>1, <3>1
  <2> QED BY <2>1, <2>3, <2>4
<1>9. CASE UNCHANGED hybridVars
  BY <1>9 DEF hybridVars
<1> QED BY <1>2, <1>3, <1>4, <1>5, <1>6, <1>7, <1>8, <1>9 DEF HybridNext, RoundAnswered, RoundFails

LEMMA HybridTypesFit == HandoffInv /\ HybridBounds => HybridTypeOK
BY DEF HandoffInv, HybridTypes, HybridBounds, HybridTypeOK

-----------------------------------------------------------------------------
(***************************************************************************)
(* Nothing is unlinked before its result is there: a job that the manager  *)
(* waits for or is about to publish has been started, so that what         *)
(* publish writes is a result, and one that is about to be unlinked has    *)
(* its result in done/.                                                    *)
(***************************************************************************)

StartedBeforePublished ==
    manager.phase \in {"waiting", "over"} => gpuRuns[manager.job] # 0

PublishedBeforeUnlinked ==
    manager.phase = "published" => gpuDone[manager.job] # 0

GpuInv ==
    /\ gpuRuns \in [GpuJobs -> Nat] /\ gpuDone \in [GpuJobs -> Nat]
    /\ DOMAIN submits = GpuJobs
    /\ StartedBeforePublished /\ PublishedBeforeUnlinked
    /\ GpuJobKept

LEMMA GpuInvInit == GpuInit => GpuInv
BY DEF GpuInit, GpuInv, StartedBeforePublished, PublishedBeforeUnlinked, GpuJobKept

LEMMA GpuInvStep == GpuInv /\ [GpuNext]_gpuVars => GpuInv'
<1> SUFFICES ASSUME GpuInv, [GpuNext]_gpuVars PROVE GpuInv'
  OBVIOUS
<1> USE DEF GpuInv, StartedBeforePublished, PublishedBeforeUnlinked, GpuJobKept,
            Manager, queueFiles, processes, submitters
<1>1. ASSUME NEW j \in GpuJobs, SubmitGpu(j) PROVE GpuInv'
  BY <1>1 DEF SubmitGpu
<1>2. ASSUME NEW j \in GpuJobs, Answer(j) PROVE GpuInv'
  BY <1>2 DEF Answer
<1>3. ASSUME NEW j \in GpuJobs, GiveUp(j) PROVE GpuInv'
  BY <1>3 DEF GiveUp
<1>4. ASSUME NEW j \in GpuJobs, TimeOut(j) PROVE GpuInv'
  BY <1>4 DEF TimeOut
<1>5. CASE ManagerStart BY <1>5 DEF ManagerStart
<1>6. CASE Claim
  <2> DEFINE first == Min(gpuPending)
  <2>1. /\ manager' = [phase |-> "claimed", job |-> first]
        /\ gpuPending' = gpuPending \ {first} /\ gpuRunning' = gpuRunning \cup {first}
        /\ UNCHANGED <<gpuDone, gpuRuns, submits>>
    BY <1>6 DEF Claim
  <2> HIDE DEF first
  <2> QED BY <2>1
<1>7. ASSUME NEW j \in GpuJobs, Launch(j) PROVE GpuInv'
  BY <1>7 DEF Launch
<1>8. ASSUME NEW j \in GpuJobs, Quarantine(j) PROVE GpuInv'
  BY <1>8 DEF Quarantine
<1>9. ASSUME NEW j \in GpuJobs, Waited(j) PROVE GpuInv'
  BY <1>9 DEF Waited
<1>10. ASSUME NEW j \in GpuJobs, Publish(j) PROVE GpuInv'
  BY <1>10 DEF Publish
<1>11. ASSUME NEW j \in GpuJobs, Unlink(j) PROVE GpuInv'
  BY <1>11 DEF Unlink
<1>12. CASE ManagerDies BY <1>12 DEF ManagerDies
<1>13. CASE Exit BY <1>13 DEF Exit
<1>14. CASE UNCHANGED gpuVars BY <1>14 DEF gpuVars
<1> QED
  BY <1>1, <1>2, <1>3, <1>4, <1>5, <1>6, <1>7, <1>8, <1>9, <1>10, <1>11, <1>12,
     <1>13, <1>14 DEF GpuNext, ManagerStep

\* A job that was submitted is in pending/, in running/ or has its result, whatever
\* its manager was killed over and however many times.
THEOREM JobsKept == GpuSpec => []GpuJobKept
<1>1. GpuInv => GpuJobKept BY DEF GpuInv
<1> QED BY <1>1, GpuInvInit, GpuInvStep, PTL DEF GpuSpec

-----------------------------------------------------------------------------
(***************************************************************************)
(* The types of the queue.  A job's runs are numbered up to one more than  *)
(* the deaths of the manager: it starts a job that it has claimed, and a   *)
(* job that it has started is not pending again before it has died.        *)
(***************************************************************************)

RunsAreCounted ==
    /\ \A j \in GpuJobs : gpuRuns[j] <= managerDeaths + 1
    /\ \A j \in gpuPending : gpuRuns[j] <= managerDeaths
    /\ manager.phase = "down" => \A j \in GpuJobs : gpuRuns[j] <= managerDeaths
    /\ manager.phase = "claimed" =>
           manager.job \notin gpuPending /\ gpuRuns[manager.job] <= managerDeaths
UnsubmittedIsNowhere ==
    \A j \in GpuJobs : submits[j] = "not_yet" =>
        /\ gpuRuns[j] = 0 /\ j \notin gpuPending \cup gpuRunning
        /\ manager.phase = "claimed" => manager.job # j
GpuTypes ==
    /\ GpuTypeOK /\ RunsAreCounted /\ UnsubmittedIsNowhere
    /\ manager.phase \notin {"down", "idle"} => manager.job \in GpuJobs

LEMMA GpuTypesInit == GpuInit => GpuTypes
BY GpuAssumption DEF GpuInit, GpuTypes, GpuTypeOK, Phases, RunNos, RunsAreCounted,
                     UnsubmittedIsNowhere

LEMMA GpuTypesStep == ASSUME GpuTypes, [GpuNext]_gpuVars PROVE GpuTypes'
<1> USE GpuAssumption DEF GpuTypes, GpuTypeOK, Phases, RunNos, RunsAreCounted,
        UnsubmittedIsNowhere, Manager, Latest, queueFiles, processes, submitters
<1>1. ASSUME NEW j \in GpuJobs, SubmitGpu(j) PROVE GpuTypes'
  BY <1>1 DEF SubmitGpu
<1>2. ASSUME NEW j \in GpuJobs, Answer(j) PROVE GpuTypes'
  BY <1>2 DEF Answer
<1>3. ASSUME NEW j \in GpuJobs, GiveUp(j) PROVE GpuTypes'
  BY <1>3 DEF GiveUp
<1>4. ASSUME NEW j \in GpuJobs, TimeOut(j) PROVE GpuTypes'
  BY <1>4 DEF TimeOut, KillGroup
<1>5. CASE ManagerStart BY <1>5 DEF ManagerStart
<1>6. CASE Claim
  <2> DEFINE first == Min(gpuPending)
  <2>1. first \in gpuPending
    <3>1. gpuPending \in SUBSET Nat /\ gpuPending # {} BY <1>6 DEF Claim
    <3> QED BY <3>1, LeastOf DEF Min
  <2>2. /\ manager' = [phase |-> "claimed", job |-> first]
        /\ gpuPending' = gpuPending \ {first} /\ gpuRunning' = gpuRunning \cup {first}
        /\ UNCHANGED <<gpuDone, gpuRuns, shells, tails, submits, answers, managerDeaths>>
    BY <1>6 DEF Claim
  <2> HIDE DEF first
  <2> QED BY <2>1, <2>2
<1>7. ASSUME NEW j \in GpuJobs, Launch(j) PROVE GpuTypes'
  <2>1. /\ gpuRuns[j] \in Nat /\ gpuRuns[j] <= managerDeaths /\ j \notin gpuPending
        /\ gpuRuns' = [gpuRuns EXCEPT ![j] = gpuRuns[j] + 1]
        /\ submits[j] # "not_yet" /\ manager' = [phase |-> "waiting", job |-> j]
        /\ UNCHANGED <<gpuPending, gpuRunning, gpuDone, submits, answers, managerDeaths>>
    BY <1>7 DEF Launch
  <2>2. gpuRuns'[j] \in 0 .. MaxManagerDeaths + 1
    BY <2>1
  <2>3. gpuRuns' \in [GpuJobs -> 0 .. MaxManagerDeaths + 1]
    BY <2>1, <2>2
  <2>4. shells' \subseteq GpuJobs \X RunNos /\ tails' \subseteq GpuJobs \X RunNos
    BY <1>7, <2>2 DEF Launch
  <2> QED BY <2>1, <2>2, <2>3, <2>4
<1>8. ASSUME NEW j \in GpuJobs, Quarantine(j) PROVE GpuTypes'
  BY <1>8 DEF Quarantine
<1>9. ASSUME NEW j \in GpuJobs, Waited(j) PROVE GpuTypes'
  BY <1>9 DEF Waited
<1>10. ASSUME NEW j \in GpuJobs, Publish(j) PROVE GpuTypes'
  BY <1>10 DEF Publish
<1>11. ASSUME NEW j \in GpuJobs, Unlink(j) PROVE GpuTypes'
  BY <1>11 DEF Unlink
<1>12. CASE ManagerDies BY <1>12 DEF ManagerDies
<1>13. CASE Exit BY <1>13 DEF Exit
<1>14. CASE UNCHANGED gpuVars BY <1>14 DEF gpuVars
<1> QED
  BY <1>1, <1>2, <1>3, <1>4, <1>5, <1>6, <1>7, <1>8, <1>9, <1>10, <1>11, <1>12,
     <1>13, <1>14 DEF GpuNext, ManagerStep

-----------------------------------------------------------------------------
(***************************************************************************)
(* The types of the case numbers.  A bridge that is past the number holds  *)
(* one, and the bridge of the task forces has one for each slot that it    *)
(* fills, and one for the group.                                           *)
(***************************************************************************)

Slots(g) == Len(ResolveSlots(Groups[g]))

WebHasItsNumber ==
    /\ web.step # "idle" => web.record \in WebRecords
    /\ web.step \notin {"idle", "number"} => web.case \in Numbers

JtfHasItsNumbers ==
    /\ jtf = [step |-> jtf.step, record |-> jtf.record, cases |-> jtf.cases,
              filled |-> jtf.filled]
    /\ jtf.cases \in Seq(Numbers) /\ jtf.filled \in Nat
    /\ jtf.step # "idle" => jtf.record \in DOMAIN Groups \ Malformed
    /\ jtf.step = "number" => jtf.filled = 0 /\ Len(jtf.cases) <= Slots(jtf.record)
    /\ jtf.step = "fill" =>
           jtf.filled < Slots(jtf.record) /\ Len(jtf.cases) = Slots(jtf.record) + 1
    /\ seqLock.by = "jtf" => jtf.step = "number"

\* The numbers of an allocation are within the bound.
BatchFits == seqLock.by # Nobody => Batch(seqLock.by, seqLock.start) \subseteq Numbers

CaseTypes == CaseTypeOK /\ WebHasItsNumber /\ JtfHasItsNumbers

LEMMA CaseTypesInit == CaseInit => CaseTypes
BY CasesAssumption, CaseBoundsAssumption
DEF CaseInit, CaseTypes, CaseTypeOK, WebHasItsNumber, JtfHasItsNumbers, Idle, IdleJtf,
    Numbers, Clients, Handlers

LEMMA BatchFitsInit == CaseInit => BatchFits
BY DEF CaseInit, BatchFits

LEMMA BatchFitsStep == ASSUME BatchFits, [CaseNext]_caseVars PROVE BatchFits'
<1>1. ASSUME seqLock' = seqLock \/ seqLock'.by = Nobody PROVE BatchFits'
  BY <1>1 DEF BatchFits
<1>2. ASSUME NEW c \in Clients, AllocateBegin(c) PROVE BatchFits'
  <2>1. PICK n \in Numbers : /\ seqLock' = [by |-> c, start |-> n]
                             /\ Batch(c, n) \subseteq Numbers
    BY <1>2 DEF AllocateBegin
  <2>2. seqLock'.by = c /\ seqLock'.start = n
    BY <2>1
  <2> QED BY <2>1, <2>2 DEF BatchFits
<1>3. CASE AllocateEnd BY <1>1, <1>3 DEF AllocateEnd
<1>4. CASE BridgeDies BY <1>1, <1>4 DEF BridgeDies
<1>5. CASE LoseCounter \/ Reseed BY <1>1, <1>5 DEF LoseCounter, Reseed
<1>6. ASSUME NEW n, Reserve(n) \/ FileByUid(n) PROVE BatchFits'
  BY <1>1, <1>6 DEF Reserve, FileByUid
<1>7. ASSUME NEW h, UidBegin(h) \/ UidLink(h) \/ HandlerDies(h) \/ DropEmailCase(h)
      PROVE  BatchFits'
  BY <1>1, <1>7 DEF UidBegin, UidLink, HandlerDies, DropEmailCase, seqVars
<1>8. ASSUME NEW r, SubmitForm(r) \/ SubmitTaskForce(r) \/ WebTake(r) \/ JtfTake(r)
      PROVE  BatchFits'
  BY <1>1, <1>8 DEF SubmitForm, SubmitTaskForce, WebTake, JtfTake, seqVars
<1>9. CASE WebSpec \/ WebSpawn \/ WebAck \/ WebPublish \/ WebUnlink
  BY <1>1, <1>9 DEF WebSpec, WebSpawn, WebAck, WebPublish, WebUnlink, seqVars
<1>10. CASE JtfFill \/ JtfAck \/ JtfPublish \/ JtfUnlink
  BY <1>1, <1>10 DEF JtfFill, ParticipantSpec, AssignmentMessage, JtfAck, JtfPublish,
                     JtfUnlink, seqVars
<1>11. CASE UNCHANGED caseVars BY <1>1, <1>11 DEF caseVars, seqVars
<1> QED
  BY <1>2, <1>3, <1>4, <1>5, <1>6, <1>7, <1>8, <1>9, <1>10, <1>11
  DEF CaseNext, WebStep, JtfStep

\* A task force that the bridge takes has a slot at least.
LEMMA SlotsFit == \A g \in DOMAIN Groups \ Malformed : Slots(g) \in Nat \ {0}
<1> SUFFICES ASSUME NEW g \in DOMAIN Groups \ Malformed PROVE Slots(g) \in Nat \ {0}
  OBVIOUS
<1> DEFINE raw == Groups[g]
           Again(i) == raw[i].kind = "deputy" /\ \E k \in 1 .. i - 1 : raw[k] = raw[i]
           keep == {i \in DOMAIN raw : ~Again(i)}
           n == Cardinality(keep)
<1>1. DOMAIN raw = 1 .. Len(raw) /\ Len(raw) \in Nat \ {0}
  BY CaseBoundsAssumption
<1>2. 1 \in keep
  <2>1. 1 \in DOMAIN raw /\ 1 .. 1 - 1 = {}
    BY <1>1
  <2> QED BY <2>1
<1>3. keep \subseteq 1 .. Len(raw)
  BY <1>1
<1> HIDE DEF keep
<1>4. IsFiniteSet(keep)
  <2>1. IsFiniteSet(1 .. Len(raw))
    <3>1. 1 \in Int /\ Len(raw) \in Int
      BY <1>1
    <3> QED BY <3>1, FS_Interval
  <2> QED BY <1>3, <2>1, FS_Subset
<1>5. n \in Nat /\ n # 0
  BY <1>2, <1>4, FS_CardinalityType, FS_EmptySet
<1>6. ResolveSlots(raw) = [i \in 1 .. n |-> raw[SetToSortSeq(keep, <)[i]]]
  BY DEF ResolveSlots, keep
<1> HIDE DEF n
<1>7. Len(ResolveSlots(raw)) = n
  <2> DEFINE s == [i \in 1 .. n |-> raw[SetToSortSeq(keep, <)[i]]]
  <2>1. Len(s) = n
    BY <1>5
  <2> QED BY <1>6, <2>1
<1> QED BY <1>5, <1>7 DEF Slots

LEMMA CaseTypesStep ==
  ASSUME CaseTypes, BatchFits, SeqInv, DeputyInv, [CaseNext]_caseVars
  PROVE  CaseTypes'
<1> USE DEF CaseTypes, CaseTypeOK, WebHasItsNumber, JtfHasItsNumbers, seqVars, webVars,
            jtfVars
<1>a. /\ "web" # "jtf" /\ Nobody \notin Clients
      /\ {"web", "jtf"} \cap (Handlers \cup Forms \cup BatchCalls) = {}
      /\ \A h \in Handlers : MailOf[h] \in Uids
      /\ MaxNumber \in Nat /\ MaxDeaths \in Nat /\ Foreign \subseteq Numbers
      /\ Numbers = 1 .. MaxNumber
  BY CasesAssumption, CaseBoundsAssumption DEF Clients, Numbers
<1>b. seqLock.by \in Clients \cup {Nobody} /\ seqLock.start \in Numbers \cup {0}
  OBVIOUS
<1>1. ASSUME NEW c \in Clients, AllocateBegin(c) PROVE CaseTypes'
  <2>1. PICK n \in Numbers : seqLock' = [by |-> c, start |-> n]
    BY <1>1 DEF AllocateBegin
  <2>2. /\ UNCHANGED <<nextCase, uidLock, uidCase, reservedCases, filed, holders, webVars,
                       jtfVars, handlers, bridgeDeaths>>
        /\ c = "jtf" => jtf.step = "number"
    BY <1>1, <1>a DEF AllocateBegin, AsksForCase
  <2> QED BY <2>1, <2>2
<1>2. CASE AllocateEnd
  <2>1. PICK c \in Clients, n \in Numbers : seqLock.by = c /\ seqLock.start = n
    BY <1>2, LockTaken DEF AllocateEnd, SeqInv
  <2>2. /\ seqLock' = [by |-> Nobody, start |-> 0] /\ nextCase' = n + SizeOf(c)
        /\ holders' = holders \cup NewHolders
        /\ UNCHANGED <<uidLock, uidCase, reservedCases, filed, webPending, webDone, webFailed,
                       webDeputies, jtfPending, jtfDone, jtfFailed, bridgeDeaths>>
    BY <1>2, <2>1 DEF AllocateEnd
  <2>3. Deliver(c, n)
    BY <1>2, <2>1 DEF AllocateEnd
  <2>4. Claimant(c) \in Clients \cup WebRecords \cup DOMAIN Groups
    <3>1. c = "web" => web.record \in WebRecords
      BY <2>1 DEF DeputyInv, BridgeHasItsRecord
    <3>2. c = "jtf" => jtf.record \in DOMAIN Groups
      BY <2>1
    <3> QED BY <3>1, <3>2, <1>a DEF Claimant
  <2>a. /\ nextCase' \in Nat
        /\ NewHolders \subseteq
              Numbers \X (Clients \cup WebRecords \cup DOMAIN Groups) \X Numbers
    <3>1. Batch(c, n) \subseteq Numbers
      BY <1>a, <2>1 DEF BatchFits
    <3>2. nextCase' \in Nat
      BY <1>a, <2>1, <2>2, SizeIsPositive
    <3> QED BY <2>1, <2>4, <3>1, <3>2 DEF NewHolders
  <2>5. handlers' \in [Handlers -> [step : {"new", "locked", "allocated", "linked", "done"},
                                    case : Numbers \cup {0}]]
    BY <2>3 DEF Deliver
  <2>6. formCase' \in [Forms -> Numbers \cup {0}]
    BY <2>3 DEF Deliver
  <2>7. WebHasItsNumber' /\ web'.step \in {"idle", "number", "numbered", "written", "spawned",
                                           "acked", "published"}
    BY <2>1, <2>3 DEF Deliver, DeputyInv, BridgeHasItsRecord
  <2>8. JtfHasItsNumbers' /\ jtf'.step \in {"idle", "number", "fill", "filled", "acked",
                                            "published"}
    <3>1. CASE c # "jtf"
      BY <2>2, <2>3, <3>1, <1>a DEF Deliver, Clients
    <3>2. CASE c = "jtf"
      <4>1. /\ jtf.step = "number" /\ jtf.record \in DOMAIN Groups \ Malformed
            /\ jtf.filled = 0 /\ Len(jtf.cases) <= Slots(jtf.record)
            /\ Slots(jtf.record) \in Nat \ {0}
        BY <2>1, <3>2, SlotsFit
      <4>2. jtf' = [step |-> IF Len(jtf.cases) = Slots(jtf.record) THEN "fill" ELSE "number",
                    record |-> jtf.record, cases |-> Append(jtf.cases, n), filled |-> 0]
        BY <2>3, <3>2, <4>1 DEF Deliver, Slots
      <4>3. /\ Append(jtf.cases, n) \in Seq(Numbers) /\ Len(jtf.cases) \in Nat
            /\ Len(Append(jtf.cases, n)) = Len(jtf.cases) + 1
        OBVIOUS
      <4>4. seqLock'.by # "jtf"
        BY <2>2, <1>a DEF Clients
      <4> HIDE DEF Slots
      <4> QED BY <4>1, <4>2, <4>3, <4>4
    <3> QED BY <3>1, <3>2
  <2> QED BY <1>a, <2>2, <2>a, <2>5, <2>6, <2>7, <2>8
<1>3. ASSUME NEW n \in Foreign, Reserve(n) \/ FileByUid(n) PROVE CaseTypes'
  BY <1>3, <1>a DEF Reserve, FileByUid
<1>4. CASE LoseCounter
  BY <1>4 DEF LoseCounter
<1>5. CASE Reseed
  <2> DEFINE known == filed \cup {0}
  <2>1. known \in SUBSET (0 .. MaxNumber) /\ known # {}
    BY <1>a
  <2>2. Max(known) \in known
    <3> HIDE DEF known
    <3>1. \E x \in known : \A y \in known : y <= x
      BY <1>a, <2>1, GreatestOf
    <3>2. \A x, y : x \in known /\ y \in known => (x >= y <=> y <= x)
      BY <2>1
    <3>3. \E x \in known : \A y \in known : x >= y
      BY <3>1, <3>2
    <3> QED BY <3>3 DEF Max
  <2>3. nextCase' = Max(known) + 1 /\ UNCHANGED <<seqLock, uidLock, uidCase, reservedCases,
          filed, holders, webVars, jtfVars, handlers, bridgeDeaths>>
    BY <1>5 DEF Reseed
  <2>4. nextCase' \in Nat
    BY <2>1, <2>2, <2>3
  <2> HIDE DEF known
  <2> QED BY <2>3, <2>4
<1>6. ASSUME NEW h \in Handlers, UidBegin(h) PROVE CaseTypes'
  <2>1. uidCase[MailOf[h]] \in Numbers \cup {0}
    BY <1>a
  <2>2. UNCHANGED <<nextCase, seqLock, uidCase, reservedCases, filed, holders, webVars,
                    jtfVars, bridgeDeaths>>
    BY <1>6 DEF UidBegin
  <2>3. uidLock' \in Handlers \cup {Nobody}
    BY <1>6 DEF UidBegin
  <2>4. handlers' \in [Handlers -> [step : {"new", "locked", "allocated", "linked", "done"},
                                    case : Numbers \cup {0}]]
    BY <1>6, <2>1 DEF UidBegin, CaseHandlerStep
  <2> QED BY <2>2, <2>3, <2>4
<1>7. ASSUME NEW h \in Handlers,
             UidLink(h) \/ HandlerDies(h) \/ DropEmailCase(h)
      PROVE  CaseTypes'
  <2>1. /\ handlers[h].case \in Numbers \cup {0} /\ MailOf[h] \in WebRecords
        /\ bridgeDeaths < MaxDeaths => bridgeDeaths + 1 \in 0 .. MaxDeaths
    BY <1>a DEF WebRecords
  <2>2. CASE UidLink(h)
    BY <2>1, <2>2 DEF UidLink, CaseHandlerStep
  <2>3. CASE HandlerDies(h)
    BY <2>1, <2>3 DEF HandlerDies, CaseHandlerStep
  <2>4. CASE DropEmailCase(h)
    BY <2>1, <2>4 DEF DropEmailCase, CaseHandlerStep
  <2> QED BY <1>7, <2>2, <2>3, <2>4
<1>8. ASSUME NEW f \in Forms, SubmitForm(f) PROVE CaseTypes'
  BY <1>8 DEF SubmitForm, WebRecords
<1>9. ASSUME NEW g \in DOMAIN Groups, SubmitTaskForce(g) PROVE CaseTypes'
  BY <1>9 DEF SubmitTaskForce
<1>10. ASSUME NEW r \in WebRecords, WebTake(r) PROVE CaseTypes'
  <2>1. RecordCase(r) \in Numbers \cup {0}
    BY DEF RecordCase, WebRecords
  <2>2. UNCHANGED <<seqVars, webDone, webDeputies, formCase, jtfVars, handlers, bridgeDeaths>>
    BY <1>10 DEF WebTake
  <2>3. CASE r \in Malformed
    BY <1>10, <2>2, <2>3 DEF WebTake
  <2>4. CASE r \notin Malformed
    BY <1>10, <2>1, <2>2, <2>4 DEF WebTake
  <2> QED BY <2>3, <2>4
<1>11. CASE WebSpec \/ WebSpawn \/ WebAck \/ WebPublish \/ WebUnlink
  <2>1. web.record \in WebRecords /\ web.case \in Numbers
    BY <1>11 DEF WebSpec, WebSpawn, WebAck, WebPublish, WebUnlink
  <2>2. web = [step |-> web.step, record |-> web.record, case |-> web.case]
    BY DEF DeputyInv
  <2>3. CASE WebSpec BY <2>1, <2>2, <2>3 DEF WebSpec
  <2>4. CASE WebSpawn
    <3>1. webDeputies' \in {webDeputies, webDeputies \cup {<<web.record, web.case>>}}
      BY <2>4 DEF WebSpawn
    <3>2. \/ web' = [web EXCEPT !.step = "spawned"] /\ UNCHANGED <<webPending, webFailed>>
          \/ WebFail
      BY <2>4 DEF WebSpawn
    <3>3. UNCHANGED <<seqVars, webDone, formCase, jtfVars, handlers, bridgeDeaths>>
      BY <2>4 DEF WebSpawn
    <3>4. webDeputies' \subseteq WebRecords \X Numbers
      BY <2>1, <3>1
    <3>5. /\ WebHasItsNumber' /\ web'.step \in {"idle", "spawned"}
          /\ (webPending \cup webFailed)' \subseteq WebRecords
      BY <2>1, <2>2, <3>2 DEF WebFail, Idle
    <3> QED BY <3>3, <3>4, <3>5
  <2>5. CASE WebAck BY <2>1, <2>2, <2>5 DEF WebAck, WebFail, Idle
  <2>6. CASE WebPublish BY <2>1, <2>2, <2>6 DEF WebPublish
  <2>7. CASE WebUnlink BY <2>1, <2>2, <2>7 DEF WebUnlink, Idle
  <2> QED BY <1>11, <2>3, <2>4, <2>5, <2>6, <2>7
<1>12. ASSUME NEW g \in DOMAIN Groups, JtfTake(g) PROVE CaseTypes'
  <2>1. UNCHANGED <<seqVars, webVars, jtfDone, handlers, bridgeDeaths>>
    BY <1>12 DEF JtfTake
  <2>2. CASE g \in Malformed
    BY <1>12, <2>1, <2>2 DEF JtfTake
  <2>3. CASE g \notin Malformed
    <3>1. /\ jtf' = [step |-> "number", record |-> g, cases |-> <<>>, filled |-> 0]
          /\ UNCHANGED <<jtfPending, jtfFailed>>
      BY <1>12, <2>3 DEF JtfTake, IdleJtf
    <3>2. Len(<<>>) <= Slots(g) /\ <<>> \in Seq(Numbers)
      BY <2>3, SlotsFit
    <3> QED BY <2>1, <2>3, <3>1, <3>2
  <2> QED BY <2>2, <2>3
<1>13. CASE JtfFill
  <2> DEFINE slots == Slots(jtf.record)
             i == jtf.filled + 1
  <2>1. /\ jtf.step = "fill" /\ jtf.filled < slots /\ Len(jtf.cases) = slots + 1
        /\ slots \in Nat \ {0} /\ jtf.filled \in Nat
        /\ jtf.record \in DOMAIN Groups \ Malformed
    BY <1>13, SlotsFit DEF JtfFill
  <2>2. /\ filed' \in {filed, filed \cup {jtf.cases[i + 1]}}
        /\ jtf' = [step |-> IF i = slots THEN "filled" ELSE "fill", record |-> jtf.record,
                   cases |-> jtf.cases, filled |-> i]
        /\ UNCHANGED <<nextCase, seqLock, uidLock, uidCase, reservedCases, holders, webVars,
                       jtfPending, jtfDone, jtfFailed, handlers, bridgeDeaths>>
    BY <1>13, <2>1 DEF JtfFill, ParticipantSpec, AssignmentMessage, Slots
  <2>3. jtf.cases[i + 1] \in Numbers /\ i \in Nat /\ (i # slots => i < slots)
    BY <2>1
  <2> HIDE DEF slots, i
  <2>4. JtfHasItsNumbers'
    BY <2>1, <2>2, <2>3 DEF slots
  <2> QED BY <2>2, <2>3, <2>4
<1>14. CASE JtfAck \/ JtfPublish \/ JtfUnlink
  <2>1. /\ jtf.record \in DOMAIN Groups \ Malformed /\ seqLock.by # "jtf"
        /\ UNCHANGED <<seqVars, webVars, jtfPosts, handlers, bridgeDeaths>>
    BY <1>14 DEF JtfAck, JtfPublish, JtfUnlink
  <2>2. <<>> \in Seq(Numbers)
    OBVIOUS
  <2>3. \/ jtf' = IdleJtf
        \/ \E step \in {"acked", "published"} : jtf' = [jtf EXCEPT !.step = step]
    BY <1>14 DEF JtfAck, JtfPublish, JtfUnlink
  <2>4. JtfHasItsNumbers' /\ jtf'.step \in {"idle", "acked", "published"}
    <3>1. CASE jtf' = IdleJtf
      BY <2>1, <2>2, <3>1 DEF IdleJtf
    <3>2. ASSUME NEW step \in {"acked", "published"},
                 jtf' = [step |-> step, record |-> jtf.record, cases |-> jtf.cases,
                         filled |-> jtf.filled]
          PROVE  JtfHasItsNumbers' /\ jtf'.step \in {"idle", "acked", "published"}
      BY <2>1, <3>2
    <3> QED BY <2>3, <3>1, <3>2
  <2>5. (jtfPending \cup jtfDone \cup jtfFailed)' \subseteq DOMAIN Groups
    BY <1>14, <2>1 DEF JtfAck, JtfPublish, JtfUnlink
  <2> QED BY <2>1, <2>4, <2>5
<1>15. CASE BridgeDies
  <2>1. /\ bridgeDeaths' = bridgeDeaths + 1 /\ bridgeDeaths < MaxDeaths
        /\ web' \in {web, Idle} /\ jtf' \in {jtf, IdleJtf}
        /\ jtf' = jtf \/ seqLock'.by # "jtf"
        /\ seqLock' \in {seqLock, [by |-> Nobody, start |-> 0]}
        /\ UNCHANGED <<nextCase, uidLock, uidCase, reservedCases, filed, holders, webPending,
                       webDone, webFailed, webDeputies, formCase, jtfPending, jtfDone,
                       jtfFailed, handlers>>
    BY <1>15, <1>a DEF BridgeDies, Clients
  <2>2. bridgeDeaths' \in 0 .. MaxDeaths
    BY <1>a, <2>1
  <2>3. Nobody # "jtf"
    BY <1>a DEF Clients
  <2>4. WebHasItsNumber' /\ web'.step \in {"idle", web.step}
    BY <2>1 DEF Idle
  <2>5. JtfHasItsNumbers' /\ jtf'.step \in {"idle", jtf.step}
    <3>1. CASE jtf' = jtf
      BY <2>1, <2>3, <3>1
    <3>2. CASE jtf' = IdleJtf /\ seqLock'.by # "jtf"
      BY <3>2 DEF IdleJtf
    <3> QED BY <2>1, <3>1, <3>2
  <2>6. seqLock' \in [by : Clients \cup {Nobody}, start : Numbers \cup {0}]
    BY <2>1
  <2> QED BY <2>1, <2>2, <2>4, <2>5, <2>6
<1>16. CASE UNCHANGED caseVars
  BY <1>16 DEF caseVars
<1> QED
  BY <1>1, <1>2, <1>3, <1>4, <1>5, <1>6, <1>7, <1>8, <1>9, <1>10, <1>11, <1>12, <1>13,
     <1>14, <1>15, <1>16
  DEF CaseNext, WebStep, JtfStep

-----------------------------------------------------------------------------
(* The types of the inbox.  The faults are numbered, so that there are no   *)
(* more of them than the bound, and a deferral is counted once.            *)

LEMMA IntakeTypesInit == IntakeInit => IntakeTypeOK
BY IntakeAssumption, DefersAssumption DEF IntakeInit, IntakeTypeOK, LoopOff, SwitchedOff

LEMMA IntakeTypesStep ==
  ASSUME IntakeTypeOK, KeptInv, TokenInv, [IntakeNext]_intakeVars
  PROVE  IntakeTypeOK'
<1> USE IntakeAssumption, DefersAssumption DEF IntakeTypeOK, outcomes
<1>a. /\ loop = [step |-> loop.step, mail |-> loop.mail, ids |-> loop.ids,
                 blocked |-> loop.blocked]
      /\ loop.step \in {"routed", "mark"} => loop.mail \in Mails
      /\ \A h \in HandlerIds :
            handlerOf[h].step # "off" => handlerOf[h].mail \in Mails
  BY DEF KeptInv, LoopKnowsItsMail, HandlersKnowTheirMail
<1>b. ASSUME NEW kind, NEW m \in Mails \cup {0}, Fault(kind, m)
      PROVE  faults' \subseteq IntakeFaults \X (Mails \cup {0}) \X (1 .. MaxFaults)
  <2>1. Cardinality(faults) \in Nat
    BY FS_CardinalityType DEF TokenInv, FaultsAreNumbered
  <2>2. Cardinality(faults) + 1 \in 1 .. MaxFaults
    BY <1>b, <2>1 DEF Fault
  <2>3. <<kind, m, Cardinality(faults) + 1>>
           \in IntakeFaults \X (Mails \cup {0}) \X (1 .. MaxFaults)
    BY <1>b, <2>2 DEF Fault
  <2> QED BY <1>b, <2>3 DEF Fault
<1>c. loop.mail \in Mails \cup {0} /\ \A h \in HandlerIds : handlerOf[h].mail \in Mails \cup {0}
  OBVIOUS
<1>1. CASE LoopSearch
  BY <1>1 DEF LoopSearch
<1>2. CASE LoopFetch
  <2>1. PICK first \in SUBSET loop.ids, empty \in SUBSET loop.ids :
          /\ seenFlag' \subseteq seenFlag \cup empty \cup first
          /\ dropped' \in {dropped, dropped \cup first}
          /\ loop' = LoopOff
             \/ \E m \in first : loop' = [LoopOff EXCEPT !.step = "routed", !.mail = m]
    <3> DEFINE real   == {m \in Eligible : ~MailHas[m].empty}
               passed == {m \in loop.ids : \A r \in real : m <= r}
               f      == passed \cap real
               e      == {m \in Eligible \cap passed : MailHas[m].empty}
    <3>1. /\ seenFlag' \subseteq seenFlag \cup e \cup f
          /\ dropped' \in {dropped, dropped \cup f}
          /\ loop' = LoopOff
             \/ \E m \in f : loop' = [LoopOff EXCEPT !.step = "routed", !.mail = m]
      BY <1>2 DEF LoopFetch
    <3>2. f \in SUBSET loop.ids /\ e \in SUBSET loop.ids
      OBVIOUS
    <3> HIDE DEF f, e
    <3> QED BY <3>1, <3>2
  <2>2. blockedMail' \subseteq blockedMail \cup loop.blocked
    BY <1>2 DEF LoopFetch, SaveBlocked
  <2>3. UNCHANGED <<blockOver, handlerOf, deferCount, inMailbox, confirmed, answered,
                    deadLetters, faults>>
    BY <1>2 DEF LoopFetch
  <2>4. loop' \in [step : {"idle", "fetch", "routed", "mark"}, mail : Mails \cup {0},
                   ids : SUBSET Mails, blocked : SUBSET Mails]
    <3>1. CASE loop' = LoopOff
      BY <3>1 DEF LoopOff
    <3>2. ASSUME NEW m \in first, loop' = [LoopOff EXCEPT !.step = "routed", !.mail = m]
          PROVE  loop' \in [step : {"idle", "fetch", "routed", "mark"},
                            mail : Mails \cup {0}, ids : SUBSET Mails,
                            blocked : SUBSET Mails]
      <4>1. m \in Mails
        OBVIOUS
      <4> QED BY <3>2, <4>1 DEF LoopOff
    <3> QED BY <2>1, <3>1, <3>2
  <2> QED BY <2>1, <2>2, <2>3, <2>4
<1>3. CASE LoopConfirm \/ LoopDeliver
  BY <1>3, <1>a DEF LoopConfirm, LoopDeliver, LoopTo
<1>4. ASSUME NEW h \in HandlerIds, LoopHandler(h) PROVE IntakeTypeOK'
  BY <1>4, <1>a DEF LoopHandler, LoopTo
<1>5. CASE LoopMark
  BY <1>5, <1>a, <1>b DEF LoopMark, LoopOff
<1>6. CASE LoopDies
  BY <1>6, <1>b, <1>c DEF LoopDies, LoopOff
<1>7. ASSUME NEW h \in HandlerIds, Block(h), handlerOf[h].step # "off"
      PROVE  /\ blockedMail' \subseteq Mails /\ blockOver' \subseteq Mails
             /\ handlerOf' \in [HandlerIds -> [mail : Mails \cup {0},
                                  step : {"off", "waiting", "running", "unmark"}]]
  BY <1>7, <1>a DEF Block
<1>8. ASSUME NEW h \in HandlerIds, HandlerEnds(h)
      PROVE  /\ blockedMail' \subseteq Mails /\ blockOver' \subseteq Mails
             /\ handlerOf' \in [HandlerIds -> [mail : Mails \cup {0},
                                  step : {"off", "waiting", "running", "unmark"}]]
  BY <1>8 DEF HandlerEnds, SwitchedOff
<1>9. ASSUME NEW h \in HandlerIds, HandlerRuns(h) PROVE IntakeTypeOK'
  BY <1>9 DEF HandlerRuns
\* What the mail's answers and the faults become.
<1>d. ASSUME NEW h \in HandlerIds, handlerOf[h].step # "off", Handled(h)
      PROVE  answered' \in [Mails -> Nat]
  <2> DEFINE m == handlerOf[h].mail
  <2>1. m \in Mails
    BY <1>a, <1>d
  <2>2. PICK n \in Nat : n = answered[m]
    BY <2>1
  <2>3. answered' = [answered EXCEPT ![m] = n] \/ answered' = [answered EXCEPT ![m] = n + 1]
    BY <1>d, <2>1, <2>2 DEF Handled
  <2> HIDE DEF m
  <2> QED BY <2>2, <2>3
<1>e. ASSUME NEW h \in HandlerIds, handlerOf[h].step # "off", MayHaveAnswered(h)
      PROVE  /\ answered' \in [Mails -> Nat]
             /\ faults' \subseteq IntakeFaults \X (Mails \cup {0}) \X (1 .. MaxFaults)
  BY <1>b, <1>c, <1>d, <1>e DEF MayHaveAnswered, Relapses
<1>10. ASSUME NEW h \in HandlerIds,
              HandlerLockTimeout(h) \/ HandlerHitsLimit(h) \/ HandlerTryFails(h)
       PROVE  IntakeTypeOK'
  <2>1. CASE HandlerLockTimeout(h)
    BY <1>7, <2>1 DEF HandlerLockTimeout
  <2>2. CASE HandlerHitsLimit(h)
    <3>1. /\ handlerOf[h].step # "off" /\ MayHaveAnswered(h) /\ Block(h)
          /\ UNCHANGED <<seenFlag, loop, deferCount, inMailbox, dropped, confirmed,
                         deadLetters>>
      BY <2>2 DEF HandlerHitsLimit
    <3> QED BY <1>7, <1>e, <3>1
  <2>3. CASE HandlerTryFails(h)
    <3>1. /\ handlerOf[h].step # "off" /\ MayHaveAnswered(h)
          /\ UNCHANGED <<seenFlag, blockedMail, blockOver, loop, handlerOf, deferCount,
                         inMailbox, dropped, confirmed, deadLetters>>
      BY <2>3 DEF HandlerTryFails, MayHaveAnswered
    <3> QED BY <1>e, <3>1
  <2> QED BY <1>10, <2>1, <2>2, <2>3
<1>11. ASSUME NEW h \in HandlerIds, HandlerSucceeds(h) PROVE IntakeTypeOK'
  <2>1. /\ handlerOf[h].step # "off" /\ Handled(h) /\ (Block(h) \/ HandlerEnds(h))
        /\ handlerOf[h].mail \in Mails
        /\ UNCHANGED <<seenFlag, loop, inMailbox, dropped, confirmed, deadLetters, faults>>
    BY <1>11, <1>a DEF HandlerSucceeds
  <2>2. deferCount' \in [Mails -> 0 .. MaxDefers + 1]
    BY <1>11, <2>1 DEF HandlerSucceeds
  <2> QED BY <1>7, <1>8, <1>d, <2>1, <2>2
<1>12. ASSUME NEW h \in HandlerIds, HandlerFails(h) PROVE IntakeTypeOK'
  <2>1. /\ handlerOf[h].step # "off" /\ MayHaveAnswered(h) /\ (Block(h) \/ HandlerEnds(h))
        /\ UNCHANGED <<seenFlag, loop, inMailbox, dropped, confirmed>>
    BY <1>12 DEF HandlerFails, DeferOrGiveUp
  <2>2. /\ deadLetters' \subseteq deadLetters \cup {handlerOf[h].mail}
        /\ handlerOf[h].mail \in Mails
    BY <1>12, <1>a, <2>1 DEF HandlerFails, DeferOrGiveUp
  <2>3. deferCount' \in [Mails -> 0 .. MaxDefers + 1]
    <3> DEFINE m == handlerOf[h].mail
               n == IF deferCount[m] + 1 <= MaxDefers THEN deferCount[m] + 1 ELSE 0
    <3>1. n \in 0 .. MaxDefers + 1
      <4>1. deferCount[m] \in 0 .. MaxDefers + 1 /\ MaxDefers \in Nat
        BY <2>2
      <4> HIDE DEF m
      <4> QED BY <4>1
    <3>2. deferCount' = [deferCount EXCEPT ![m] = n]
      BY <1>12 DEF HandlerFails
    <3> HIDE DEF m, n
    <3> QED BY <3>1, <3>2
  <2> QED BY <1>7, <1>8, <1>e, <2>1, <2>2, <2>3
<1>13. ASSUME NEW h \in HandlerIds, HandlerUnmarks(h) PROVE IntakeTypeOK'
  BY <1>13, <1>b, <1>c DEF HandlerUnmarks, SwitchedOff
<1>14. ASSUME NEW h \in HandlerIds, HandlerDiesAt(h) PROVE IntakeTypeOK'
  <2>1. /\ handlerOf[h].step # "off" /\ Fault("handler", handlerOf[h].mail)
        /\ Handled(h) \/ UNCHANGED answered
        /\ handlerOf' = [handlerOf EXCEPT ![h] = SwitchedOff]
        /\ UNCHANGED <<seenFlag, blockedMail, blockOver, loop, deferCount, inMailbox, dropped,
                       confirmed, deadLetters>>
    BY <1>14 DEF HandlerDiesAt
  <2>2. answered' \in [Mails -> Nat]
    BY <1>d, <2>1
  <2>3. faults' \subseteq IntakeFaults \X (Mails \cup {0}) \X (1 .. MaxFaults)
    BY <1>b, <1>c, <2>1
  <2> QED BY <2>1, <2>2, <2>3 DEF SwitchedOff
<1>15. ASSUME NEW m \in Mails, TimeComes(m) PROVE IntakeTypeOK'
  BY <1>15 DEF TimeComes
<1>16. CASE UNCHANGED intakeVars
  BY <1>16 DEF intakeVars
<1> QED
  BY <1>1, <1>2, <1>3, <1>4, <1>5, <1>6, <1>9, <1>10, <1>11, <1>12, <1>13, <1>14, <1>15,
     <1>16
  DEF IntakeNext, LoopStep, HandlerStep

-----------------------------------------------------------------------------
(* The types of the docket.                                                *)

DocketBounds ==
    /\ clock \in 1 .. Horizon /\ armedAfter \in Nat
    /\ paused \in BOOLEAN /\ cancelled \in BOOLEAN
    /\ pass.by \in {"nobody", "runner", "operator"}
    /\ edits \in 0 .. MaxEdits /\ docketDeaths \in 0 .. MaxDocketDeaths

LEMMA DocketBoundsInit == DocketInit => DocketBounds
<1>1. Horizon \in Nat \ {0} /\ MaxEdits \in Nat /\ MaxDocketDeaths \in Nat
  BY DocketAssumption
<1>2. NoPass.by = "nobody"
  BY DEF NoPass
<1> SUFFICES ASSUME DocketInit PROVE DocketBounds
  OBVIOUS
<1>3. /\ clock = 1 /\ armedAfter = 1 /\ pass = NoPass /\ edits = 0 /\ docketDeaths = 0
      /\ paused = FALSE /\ cancelled = FALSE
  BY DEF DocketInit
<1>4. /\ clock \in 1 .. Horizon /\ armedAfter \in Nat
      /\ edits \in 0 .. MaxEdits /\ docketDeaths \in 0 .. MaxDocketDeaths
  BY <1>1, <1>3
<1>5. paused \in BOOLEAN /\ cancelled \in BOOLEAN
  BY <1>3
<1> QED BY <1>2, <1>3, <1>4, <1>5 DEF DocketBounds

LEMMA DocketBoundsStep ==
  ASSUME DocketBounds, FiredInv, [DocketNext]_docketVars
  PROVE  DocketBounds'
<1> USE DEF DocketBounds
<1>a. /\ Horizon \in Nat /\ MaxEdits \in Nat /\ MaxDocketDeaths \in Nat
      /\ pass.slot \in Nat /\ pass.now \in Nat
  BY DocketAssumption DEF FiredInv, DocketTypes
<1>b. Edit => edits' \in 0 .. MaxEdits
  BY <1>a DEF Edit
<1>1. CASE Tick \/ RunDue \/ RunDueInVain \/ RunDueRecord \/ DocketDies
  BY <1>1, <1>a DEF Tick, RunDue, RunDueInVain, RunDueRecord, DocketDies, Rearm, NoPass
<1>2. ASSUME NEW e \in Schedules, Save(e) PROVE DocketBounds'
  BY <1>2, <1>b DEF Save
<1>3. CASE Pause \/ Resume \/ Cancel \/ RunNow
  <2>1. CASE Pause BY <2>1, <1>b DEF Pause
  <2>2. CASE Resume
    <3>1. /\ paused' = FALSE /\ armedAfter' = clock /\ Edit
          /\ UNCHANGED <<clock, cancelled, pass, docketDeaths>>
      BY <2>2 DEF Resume, Rearm
    <3>2. armedAfter' \in Nat
      BY <1>a, <3>1
    <3> QED BY <3>1, <3>2, <1>b
  <2>3. CASE Cancel BY <2>3, <1>b DEF Cancel
  <2>4. CASE RunNow
    <3>1. pass'.by = "operator"
      BY <2>4 DEF RunNow
    <3> QED BY <2>4, <3>1, <1>b DEF RunNow
  <2> QED BY <1>3, <2>1, <2>2, <2>3, <2>4
<1>4. CASE RunNowRecord
  <2>1. AtLeast(pass.slot, pass.now) \in Nat
    BY <1>a DEF AtLeast
  <2> QED BY <1>4, <2>1 DEF RunNowRecord, NoPass
<1>5. CASE UNCHANGED docketVars
  BY <1>5 DEF docketVars
<1> QED BY <1>1, <1>2, <1>3, <1>4, <1>5 DEF DocketNext

LEMMA DocketTypesFit == FiredInv /\ DocketBounds => DocketTypeOK
BY DEF FiredInv, DocketTypes, DocketBounds, DocketTypeOK

-----------------------------------------------------------------------------
(* The types of the register of judges, the reviews' are part of ReviewInv. *)

ActorOK(actor) ==
    /\ actor.op \in {"none", "seed", "register", "update", "remove"}
    /\ actor.id \in Judges

RegisterTypes ==
    /\ judgePrompt \subseteq Judges /\ charter \in BOOLEAN
    /\ ActorOK(seeder) /\ ActorOK(keeper)

LEMMA RegisterTypesInit == JudgeInit => RegisterTypes
<1>1. AtRest.op = "none" /\ AtRest.id \in Judges
  BY JudgesAssumption DEF AtRest
<1> QED BY <1>1 DEF JudgeInit, RegisterTypes, ActorOK

LEMMA RegisterTypesStep ==
  ASSUME RegisterTypes, [JudgeNext]_judgeVars
  PROVE  RegisterTypes'
<1> USE DEF RegisterTypes, ActorOK
<1>a. ActorOK(AtRest)
  BY JudgesAssumption DEF AtRest
<1>1. ASSUME NEW force \in BOOLEAN, SeedBegin(force) PROVE RegisterTypes'
  BY <1>1, JudgesAssumption DEF SeedBegin, AtRest
<1>2. CASE SeedWrite \/ KeeperWrite \/ KeeperDies
  BY <1>2, <1>a DEF SeedWrite, KeeperWrite, KeeperDies
<1>3. ASSUME NEW op \in {"register", "update", "remove"}, NEW j \in Judges, NEW status,
             NEW prompts \in SUBSET {j}, NEW seeds \in BOOLEAN,
             KeeperOp(op, j, status, prompts, seeds)
      PROVE  RegisterTypes'
  BY <1>3 DEF KeeperOp
<1>4. ASSUME NEW j \in Judges, Register(j) \/ Retire(j) PROVE RegisterTypes'
  BY <1>3, <1>4 DEF Register, Retire
<1>5. ASSUME NEW j \in Judges, Update(j) PROVE RegisterTypes'
  BY <1>3, <1>5 DEF Update
<1>6. ASSUME UNCHANGED registry PROVE RegisterTypes'
  BY <1>6 DEF registry
<1>7. ASSUME NEW c \in DOMAIN ReviewCalls,
             ReviewBegin(c) \/ ReviewSpawn(c) \/ ReviewVerdict(c) \/ ReviewError(c)
      PROVE  RegisterTypes'
  BY <1>6, <1>7 DEF ReviewBegin, ReviewSpawn, ReviewVerdict, ReviewError
<1>8. ASSUME NEW s \in DOMAIN critic,
             \/ CriticTearsJson(s) \/ CriticWritesJson(s)
             \/ CriticWritesMd(s) \/ CriticEnds(s)
      PROVE  RegisterTypes'
  BY <1>6, <1>8 DEF CriticTearsJson, CriticWritesJson, CriticWritesMd, CriticEnds
<1>9. CASE UNCHANGED judgeVars
  BY <1>6, <1>9 DEF judgeVars, registry
<1> QED BY <1>1, <1>2, <1>4, <1>5, <1>7, <1>8, <1>9 DEF JudgeNext

LEMMA PromptsFirstInit == JudgeInit => PromptsFirst
BY DEF JudgeInit, PromptsFirst, Statuses, AtRest

LEMMA JudgeTypesFit == RegisterTypes /\ PromptsFirst /\ ReviewInv => JudgeTypeOK
BY DEF RegisterTypes, ActorOK, PromptsFirst, ReviewInv, ReviewsOK, ReviewRecords, Critics,
       JudgeTypeOK

-----------------------------------------------------------------------------
(* The types of the Field Guide: a rewrite goes no further than the lessons *)
(* there were when it began, and there are none but the numbered ones.     *)

GuideBounds ==
    /\ lessons \in [Categories -> 0 .. MaxLessons]
    /\ incorporated \in [Categories -> 0 .. MaxLessons]
    /\ claim \in [Categories -> {"none", "fresh", "stale"}]
    /\ rewriteRequest \in [Categories -> {"none", "deputy-request", "operator-manual"}]
    /\ guideSheriff.step \in {"none", "model", "commit", "error", "history", "move"}
    /\ guideSheriff.step # "none" => guideSheriff.category \in Categories
    /\ guideSheriff.through \in 0 .. MaxLessons
    /\ guideHistory \subseteq Categories \X (0 .. MaxLessons)
    /\ reviewed \in [Categories -> SUBSET (1 .. MaxLessons)]
    /\ guideFaults \in 0 .. MaxGuideFaults

LEMMA GuideBoundsInit == GuideInit => GuideBounds
BY GuideAssumption DEF GuideInit, GuideBounds, NoRewrite, Unclaimed

LEMMA GuideBoundsStep ==
  ASSUME GuideBounds, GuideInv, [GuideNext]_guideVars
  PROVE  GuideBounds'
<1> USE GuideAssumption DEF GuideBounds, Unclaimed, guideFiles
<1>a. NoRewrite.step = "none" /\ NoRewrite.through = 0
  BY DEF NoRewrite
<1>b. IsARewrite(guideSheriff)
  BY DEF GuideInv
<1>1. ASSUME NEW c \in Categories, AddLesson(c) PROVE GuideBounds'
  BY <1>1 DEF AddLesson
<1>2. ASSUME NEW c \in Categories, NEW request \in BOOLEAN, Claims(c, request)
      PROVE  GuideBounds'
  <2> DEFINE last == IF PendingLessons(c) = {} THEN incorporated[c] ELSE lessons[c]
  <2>1. /\ guideSheriff' = [step |-> "model", category |-> c, request |-> request,
                            prompt |-> PendingLessons(c), through |-> last]
        /\ claim' = [claim EXCEPT ![c] = "fresh"]
        /\ UNCHANGED <<lessons, incorporated, rewriteRequest, guideHistory, reviewed,
                       guideFaults>>
    BY <1>2 DEF Claims
  <2>2. last \in 0 .. MaxLessons
    OBVIOUS
  <2> HIDE DEF last
  <2> QED BY <2>1, <2>2
<1>3. ASSUME NEW c \in Categories, RequestedRewrite(c) \/ AutomaticRewrite(c)
      PROVE  GuideBounds'
  BY <1>2, <1>3 DEF RequestedRewrite, AutomaticRewrite
<1>4. ASSUME NEW c \in Categories, ClaimAges(c) \/ ClearStale(c) PROVE GuideBounds'
  BY <1>4 DEF ClaimAges, ClearStale
<1>5. ASSUME NEW c \in Categories, NEW trigger \in {"deputy-request", "operator-manual"},
             QueueRewrite(c, trigger)
      PROVE  GuideBounds'
  BY <1>5 DEF QueueRewrite
<1>6. ASSUME NEW step \in {"commit", "error"}, ModelReturns(step) PROVE GuideBounds'
  <2>1. guideSheriff' = [step |-> step, category |-> guideSheriff.category,
                         request |-> guideSheriff.request, prompt |-> guideSheriff.prompt,
                         through |-> guideSheriff.through]
    BY <1>6, <1>b DEF ModelReturns, IsARewrite
  <2>2. guideFaults' \in 0 .. MaxGuideFaults
    BY <1>6 DEF ModelReturns
  <2> QED BY <1>6, <2>1, <2>2 DEF ModelReturns
<1>7. CASE Commit
  <2>1. guideSheriff' = [step |-> "history", category |-> guideSheriff.category,
                         request |-> guideSheriff.request, prompt |-> guideSheriff.prompt,
                         through |-> guideSheriff.through]
    BY <1>7, <1>b DEF Commit, IsARewrite
  <2>2. guideSheriff.prompt \subseteq 1 .. MaxLessons
    BY <1>7 DEF Commit, GuideInv, AtWork, SnapshotMeetsCursor
  <2> QED BY <1>7, <2>1, <2>2 DEF Commit
<1>8. CASE Defers
  BY <1>8, <1>a DEF Defers
<1>9. CASE RecordsRewrite
  <2>1. \/ guideSheriff' = NoRewrite
        \/ guideSheriff' = [step |-> "move", category |-> guideSheriff.category,
                            request |-> guideSheriff.request,
                            prompt |-> guideSheriff.prompt,
                            through |-> guideSheriff.through]
    BY <1>9, <1>b DEF RecordsRewrite, IsARewrite
  <2>2. <<guideSheriff.category, guideSheriff.through>> \in Categories \X (0 .. MaxLessons)
    BY <1>9 DEF RecordsRewrite
  <2> QED BY <1>9, <1>a, <2>1, <2>2 DEF RecordsRewrite
<1>10. CASE CompletesRequest
  BY <1>10, <1>a DEF CompletesRequest
<1>11. CASE GuideSheriffDies
  BY <1>11, <1>a DEF GuideSheriffDies
<1>12. CASE UNCHANGED guideVars
  BY <1>12 DEF guideVars
<1> QED
  BY <1>1, <1>3, <1>4, <1>5, <1>6, <1>7, <1>8, <1>9, <1>10, <1>11, <1>12 DEF GuideNext

LEMMA GuideTypesFit == GuideBounds => GuideTypeOK
BY DEF GuideBounds, GuideTypeOK

LEMMA LawTypesFit == LawInv => LawTypeOK
BY DEF LawInv, SheriffOK, QueueOK, Token, RecordInv, RecordForm, LawTypeOK

-----------------------------------------------------------------------------
(***************************************************************************)
(* The services side by side, as the run checks them: the step of one      *)
(* keeps its own invariant, and leaves the variables of the others alone.  *)
(***************************************************************************)

CaseInv   == CaseTypes /\ BatchFits /\ SeqInv /\ UidInv /\ DeputyInv
DocketInv == FiredInv /\ DocketBounds
InboxInv  == IntakeTypeOK /\ KeptInv /\ TokenInv
JudgeInv  == RegisterTypes /\ PromptsFirst /\ ReviewInv
SwitchInv == SessionInv /\ SwBounds
HybridInv == HandoffInv /\ HybridBounds
FieldInv  == GuideInv /\ GuideBounds

ServicesInv ==
    /\ service \in Services
    /\ GpuTypes /\ CaseInv /\ DocketInv /\ InboxInv /\ JudgeInv /\ LawInv
    /\ SwitchInv /\ HybridInv /\ FieldInv /\ LimitInv

LEMMA ServicesInvInit == Init => ServicesInv
<1> SUFFICES ASSUME Init PROVE ServicesInv
  OBVIOUS
<1>1. /\ service \in Services
      /\ GpuInit /\ IntakeInit /\ JudgeInit /\ LawInit /\ HybridInit /\ GuideInit
      /\ CaseInit /\ DocketInit /\ SwInit /\ LimitInit
  BY DEF Init
<1>2. GpuTypes /\ LawInv
  BY <1>1, GpuTypesInit, LawInvInit
<1>3. CaseInv
  BY <1>1, CaseTypesInit, BatchFitsInit, SeqInvInit, UidInvInit, DeputyInvInit DEF CaseInv
<1>4. DocketInv
  BY <1>1, FiredInit, DocketBoundsInit DEF DocketInv
<1>5. InboxInv
  BY <1>1, IntakeTypesInit, KeptInvInit, TokenInvInit DEF InboxInv
<1>6. JudgeInv
  BY <1>1, RegisterTypesInit, PromptsFirstInit, ReviewInvInit DEF JudgeInv
<1>7. SwitchInv
  BY <1>1, SessionInvInit, SwBoundsInit DEF SwitchInv
<1>8. HybridInv
  BY <1>1, HandoffInvInit, HybridBoundsInit DEF HybridInv
<1>9. FieldInv
  BY <1>1, GuideInvInit, GuideBoundsInit DEF FieldInv
<1>10. LimitInv
  BY <1>1 DEF LimitInit, LimitInv
<1> QED
  BY <1>1, <1>2, <1>3, <1>4, <1>5, <1>6, <1>7, <1>8, <1>9, <1>10 DEF ServicesInv

LEMMA ServicesInvStep == ServicesInv /\ [Next]_servicesVars => ServicesInv'
<1> SUFFICES ASSUME ServicesInv, [Next]_servicesVars PROVE ServicesInv'
  OBVIOUS
<1>1. /\ service' = service
      /\ [GpuNext]_gpuVars /\ [CaseNext]_caseVars /\ [DocketNext]_docketVars
      /\ [IntakeNext]_intakeVars /\ [JudgeNext]_judgeVars /\ [LawNext]_lawVars
      /\ [SwNext]_swVars /\ [HybridNext]_hybridVars /\ [GuideNext]_guideVars
      /\ [LimitNext]_limitVars
  BY DEF Next, Others, servicesVars
<1>2. service' \in Services
  BY <1>1 DEF ServicesInv
<1>3. GpuTypes' /\ LawInv'
  BY <1>1, GpuTypesStep, LawInvStep DEF ServicesInv
<1>4. CaseInv'
  BY <1>1, CaseTypesStep, BatchFitsStep, SeqInvStep, UidInvStep, DeputyInvStep
  DEF ServicesInv, CaseInv
<1>5. DocketInv'
  BY <1>1, FiredNext, DocketBoundsStep DEF ServicesInv, DocketInv
<1>6. InboxInv'
  BY <1>1, IntakeTypesStep, KeptInvStep, TokenInvStep DEF ServicesInv, InboxInv
<1>7. JudgeInv'
  BY <1>1, RegisterTypesStep, PromptsFirstStep, ReviewInvStep DEF ServicesInv, JudgeInv
<1>8. SwitchInv'
  BY <1>1, SessionInvStep, SwBoundsStep DEF ServicesInv, SwitchInv
<1>9. HybridInv'
  BY <1>1, HandoffInvStep, HybridBoundsStep DEF ServicesInv, HybridInv
<1>10. FieldInv'
  BY <1>1, GuideInvStep, GuideBoundsStep DEF ServicesInv, FieldInv
<1>11. LimitInv'
  BY <1>1 DEF ServicesInv, LimitInv, LimitNext, LimitParsed, limitVars
<1> QED
  BY <1>2, <1>3, <1>4, <1>5, <1>6, <1>7, <1>8, <1>9, <1>10, <1>11 DEF ServicesInv

\* Every service stays in a state that its code can be in, for any values of the
\* constants: no number, slot, round, lesson or job is out of the range that the
\* bounds on the faults give it, and no process is left with a record it has not.
THEOREM ServicesHaveTypes == Spec => []ServicesTypeOK
<1>1. ServicesInv => ServicesTypeOK
  <2> SUFFICES ASSUME ServicesInv PROVE ServicesTypeOK
    OBVIOUS
  <2>1. GpuTypeOK /\ LawTypeOK
    BY LawTypesFit DEF ServicesInv, GpuTypes
  <2>2. CaseTypeOK /\ IntakeTypeOK
    BY DEF ServicesInv, CaseInv, CaseTypes, InboxInv
  <2>3. DocketTypeOK
    BY DocketTypesFit DEF ServicesInv, DocketInv
  <2>4. JudgeTypeOK
    BY JudgeTypesFit DEF ServicesInv, JudgeInv
  <2>5. SwTypeOK
    BY SwTypesFit DEF ServicesInv, SwitchInv
  <2>6. HybridTypeOK
    BY HybridTypesFit DEF ServicesInv, HybridInv
  <2>7. GuideTypeOK
    BY GuideTypesFit DEF ServicesInv, FieldInv
  <2>8. LimitTypeOK
    BY ResetIsATime DEF ServicesInv
  <2>9. service \in Services
    BY DEF ServicesInv
  <2> QED
    BY <2>1, <2>2, <2>3, <2>4, <2>5, <2>6, <2>7, <2>8, <2>9 DEF ServicesTypeOK, Services
<1> QED BY <1>1, ServicesInvInit, ServicesInvStep, PTL DEF Spec

===============================================================================
