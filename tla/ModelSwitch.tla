----------------------------- MODULE ModelSwitch -----------------------------
(***************************************************************************)
(* scratch_model_switch.py: one case, one deputy, several models.          *)
(*                                                                         *)
(* A case's lanes file names the model of the work and of the report lane  *)
(* and the lane the case is in.  The deputy writes a switch request and    *)
(* exits; the watchdog, once it is gone, applies it: it repoints the       *)
(* relaunch script, in place when the service stays the same, else by      *)
(* regenerating it for a session of the other service, and then writes     *)
(* the lanes file.  The inbox loop does the same to a closed case that is  *)
(* not in its work lane before it revives it.  Each write is a step, and   *)
(* whoever applies may be killed between two.  The inbox loop, an          *)
(* interrupt and the job manager start a deputy that is gone whenever they *)
(* have something for it, a switch under way or not.                       *)
(*                                                                         *)
(* A turn of the deputy is a number; a session knows the turns that are in *)
(* its transcript.  The wrapper around a codex run notes the session's id  *)
(* when the run ends, and not when it is killed with it.  Watchdog models  *)
(* when a request is honoured; scratch_gen_relaunch.sh what a relaunch     *)
(* starts: a session that is not on disk is started cold, from the launch  *)
(* prompt.                                                                 *)
(***************************************************************************)
EXTENDS Naturals, FiniteSets

CONSTANTS
    Splits,             \* the splits of a case: the target of "work" and "report"
    MaxTurns, MaxSessions, MaxSwitchFaults

ASSUME SwAssumption ==
    /\ Splits # {}
    /\ \A s \in Splits :
          /\ DOMAIN s = {"work", "report"}
          /\ \A l \in DOMAIN s : s[l] = [service |-> s[l].service, model |-> s[l].model]
    /\ MaxTurns \in Nat /\ MaxSessions \in Nat \ {0} /\ MaxSwitchFaults \in Nat

VARIABLES
    lanes,              \* the lanes file: the targets, and the current lane
    switch,             \* the .switch file
    script,             \* what the relaunch script runs: service, model and session
    codexSession,       \* the file with the codex session's id; 0: none
    seedPrompt,         \* the turns rendered into the seed
    transcripts,        \* the sessions on disk and what each of them knows
    deputy,             \* whether it runs, in which session, whether the wrapper is
                        \* to note that session, and whether the script was taken
                        \* away from under the run
    caseDone,           \* the done-sentinel
    applier,            \* who applies a switch, at which step, the record it read,
                        \* and whether that was cut short before
    \* For the properties only.
    turns,
    carried,            \* the turns since the script was last regenerated, or a codex
                        \* session set aside
    strayed,            \* whether the last switch left the script in no lane: it named
                        \* none, or not the lane's model, or was cut short and then
                        \* replaced, dropped or applied in vain
    switchFaults

swVars == <<lanes, switch, script, codexSession, seedPrompt, transcripts, deputy,
            caseDone, applier, turns, carried, strayed, switchFaults>>

LaneNames  == {"work", "report"}
SessionIds == 1 .. MaxSessions
Targets    == UNION {{s[l] : l \in LaneNames} : s \in Splits}   \* [service, model]
Runnable   == [service : {t.service : t \in Targets}, model : {t.model : t \in Targets}]
NoSwitch   == [state |-> "none", from |-> "", to |-> CHOOSE t \in Targets : TRUE,
               lane |-> "", origin |-> ""]
Resting    == [who |-> "none", step |-> "", rec |-> NoSwitch, again |-> FALSE]
NotUp      == [up |-> FALSE, sid |-> 1, captures |-> FALSE, outrun |-> FALSE]
Turns      == 1 .. MaxTurns

SwTypeOK ==
    /\ lanes.split \in Splits /\ lanes.current \in LaneNames
    /\ switch.state \in {"none", "requested", "applying"} /\ switch.to \in Targets
    /\ switch.lane \in LaneNames \cup {""}
    /\ switch.origin \in {"", "deputy", "followup"}
    /\ script.target \in Runnable /\ script.sid \in SessionIds
    /\ codexSession \in SessionIds \cup {0}
    /\ seedPrompt \subseteq Turns
    /\ DOMAIN transcripts \subseteq SessionIds
    /\ deputy.up \in BOOLEAN /\ deputy.sid \in SessionIds
    /\ deputy.captures \in BOOLEAN /\ deputy.outrun \in BOOLEAN
    /\ applier.who \in {"none", "watchdog", "inbox"} /\ applier.rec.to \in Targets
    /\ turns \in 0 .. MaxTurns /\ switchFaults \in 0 .. MaxSwitchFaults

\* write_lanes at the spawn: every case starts in its work lane.
SwInit ==
    /\ \E s \in Splits :
          /\ lanes = [split |-> s, current |-> "work"]
          /\ script = [target |-> s["work"], sid |-> 1]
    /\ switch = NoSwitch /\ codexSession = 0 /\ seedPrompt = {}
    /\ transcripts = [s \in {1} |-> {}]
    /\ deputy = [up |-> TRUE, sid |-> 1, outrun |-> FALSE,
                 captures |-> script.target.service = "chatgpt"]
    /\ caseDone = FALSE /\ applier = Resting
    /\ turns = 0 /\ carried = {} /\ strayed = FALSE /\ switchFaults = 0

Codex    == script.target.service = "chatgpt"
Fresh(s) == s \in SessionIds \ (DOMAIN transcripts \cup {script.sid})

-----------------------------------------------------------------------------
(* The deputy, and the script that starts it.                              *)

DoesATurn ==
    /\ deputy.up /\ turns < MaxTurns
    /\ turns' = turns + 1
    /\ carried' = IF deputy.outrun THEN carried ELSE carried \cup {turns + 1}
    /\ transcripts' = [transcripts EXCEPT ![deputy.sid] = @ \cup {turns + 1}]
    /\ UNCHANGED <<lanes, switch, script, codexSession, seedPrompt, deputy, caseDone,
                   applier, strayed, switchFaults>>

\* A switch that was cut short is not going to be finished.
CutShort == switch.state = "applying" /\ applier = Resting

\* request(): for any lane, whatever lane the target is of (--lane), and not to what
\* runs already.  It replaces a request that is pending.
AsksToSwitch(to, lane) ==
    /\ deputy.up /\ to # script.target
    /\ switch' = [state |-> "requested", from |-> script.target.service, to |-> to,
                  lane |-> lane, origin |-> "deputy"]
    /\ strayed' = (strayed \/ CutShort)
    /\ UNCHANGED <<lanes, script, codexSession, seedPrompt, transcripts, deputy,
                   caseDone, applier, turns, carried, switchFaults>>

CancelsSwitch ==
    /\ deputy.up /\ switch.state # "none"
    /\ switch' = NoSwitch
    /\ strayed' = (strayed \/ CutShort)
    /\ UNCHANGED <<lanes, script, codexSession, seedPrompt, transcripts, deputy,
                   caseDone, applier, turns, carried, switchFaults>>

LeavesUncaptured(done) ==                                             \* mutant
    /\ deputy.up
    /\ deputy' = NotUp /\ caseDone' = done
    /\ UNCHANGED <<lanes, switch, script, codexSession, seedPrompt, transcripts,
                   applier, turns, carried, strayed, switchFaults>>

\* The run ends, with the done-sentinel or without.  capture_codex_session, of a run
\* that was started cold and whatever became of the script since.
LeavesRun(done) ==
    /\ deputy.up
    /\ deputy' = NotUp /\ caseDone' = done
    /\ codexSession' = IF deputy.captures THEN deputy.sid ELSE codexSession
    /\ UNCHANGED <<lanes, switch, script, seedPrompt, transcripts, applier, turns,
                   carried, strayed, switchFaults>>

\* The turns of a codex session that was never noted are lost with its wrapper.
KeptAtAKill == IF deputy.up /\ deputy.captures THEN {} ELSE carried

WrapperKilled ==
    /\ deputy.up /\ switchFaults < MaxSwitchFaults
    /\ deputy' = NotUp /\ switchFaults' = switchFaults + 1
    /\ carried' = KeptAtAKill
    /\ UNCHANGED <<lanes, switch, script, codexSession, seedPrompt, transcripts,
                   caseDone, applier, turns, strayed>>

\* The session the script resumes, if it exists.
Resumed == IF Codex THEN codexSession ELSE script.sid
Cold    == Resumed \notin DOMAIN transcripts

\* The relaunch script: COLD unless the session it names exists.  A seed is
\* retired when it does, and nothing reads it when it does not.
ScriptRuns ==
    /\ \E s \in SessionIds :
          /\ IF ~Cold THEN s = Resumed ELSE IF Codex THEN Fresh(s) ELSE s = script.sid
          /\ deputy' = [up |-> TRUE, sid |-> s, captures |-> Codex /\ Cold, outrun |-> FALSE]
          /\ transcripts' = [t \in DOMAIN transcripts \cup {s} |->
                               IF t \in DOMAIN transcripts THEN transcripts[t] ELSE {}]
    /\ seedPrompt' = IF Cold THEN seedPrompt ELSE {}

\* A relaunch of a deputy that is gone.  The watchdog revives one that is not done and
\* asked for nothing, and not in the middle of its own apply.  The inbox loop does it
\* for mail, after restore_lane if that does not fail, and leaves the sentinel when it
\* finds the mail in the mailbox.  An interrupt and the job manager's wakes, which
\* interrupt, do it whenever they are called.
RevivedBy(who) ==
    /\ ~deputy.up /\ applier.who # who
    /\ who = "watchdog" => ~caseDone /\ (switch.state = "none" \/ switch.origin = "followup")
    /\ caseDone' \in IF who = "inbox" THEN {FALSE, caseDone} ELSE {FALSE}
    /\ ScriptRuns
    /\ UNCHANGED <<lanes, switch, script, codexSession, applier, turns, carried, strayed,
                   switchFaults>>

-----------------------------------------------------------------------------
(* apply().                                                                *)

At(step) == applier.step = step

ApplyGoes(step) == applier' = [applier EXCEPT !.step = step]

\* handle_switch, of a deputy that is gone: it is not done, whatever the sentinel
\* says.  A switch that was being applied when the watchdog died is applied again.
WatchdogApplies ==
    /\ ~deputy.up /\ applier = Resting
    /\ switch.state # "none" /\ switch.origin = "deputy"
    /\ switch' = [switch EXCEPT !.state = "applying"]
    /\ caseDone' = FALSE
    /\ applier' = [who |-> "watchdog", step |-> "script", rec |-> switch',
                   again |-> switch.state = "applying"]
    /\ UNCHANGED <<lanes, script, codexSession, seedPrompt, transcripts, deputy, turns,
                   carried, strayed, switchFaults>>

\* restore_lane, of a closed case whose lanes differ and that is out of its work lane.
InboxRestores ==
    LET to == lanes.split["work"]
    IN  /\ ~deputy.up /\ caseDone /\ applier = Resting /\ switch = NoSwitch
        /\ to # lanes.split["report"] /\ lanes.current # "work" /\ script.target # to
        /\ switch' = [state |-> "applying", from |-> script.target.service, to |-> to,
                      lane |-> "work", origin |-> "followup"]
        /\ applier' = [who |-> "inbox", step |-> "script", rec |-> switch', again |-> FALSE]
        /\ UNCHANGED <<lanes, script, codexSession, seedPrompt, transcripts, deputy,
                       caseDone, turns, carried, strayed, switchFaults>>

\* By what the record says, whatever the script runs by now.
SameService == applier.rec.from = applier.rec.to.service

\* The model the lane of the switch names is not the one it is to.
NotTheLanes == applier.rec.lane = "" \/ applier.rec.to # lanes.split[applier.rec.lane]

\* Another model, the same session.
RewritesScript ==
    /\ At("script") /\ SameService
    /\ script' = [script EXCEPT !.target.model = applier.rec.to.model]
    /\ strayed' = (NotTheLanes \/ script.target.service # applier.rec.to.service)
    /\ ApplyGoes("lanes")
    /\ UNCHANGED <<lanes, switch, codexSession, seedPrompt, transcripts, deputy,
                   caseDone, turns, carried, switchFaults>>

\* _session_id_for: the session of the service that the switch leaves.
SessionLeft == IF applier.rec.from = "chatgpt" THEN codexSession ELSE script.sid

\* render_transcript: nothing when there is no such session.
Rendered(sid) == IF sid \in DOMAIN transcripts THEN transcripts[sid] ELSE {}

\* build_seed.
WritesSeed ==
    /\ At("script") /\ ~SameService
    /\ seedPrompt' = Rendered(SessionLeft)
    /\ ApplyGoes("aside")
    /\ UNCHANGED <<lanes, switch, script, codexSession, transcripts, deputy,
                   caseDone, turns, carried, strayed, switchFaults>>

\* In both directions.  A codex session that is set aside is not resumed.
SetsCodexAside ==
    /\ At("aside")
    /\ codexSession' = 0
    /\ carried' = IF Codex THEN {} ELSE carried
    /\ deputy' = [deputy EXCEPT !.outrun = @ \/ (deputy.up /\ Codex)]
    /\ ApplyGoes("generate")
    /\ UNCHANGED <<lanes, switch, script, seedPrompt, transcripts, caseDone, turns,
                   strayed, switchFaults>>

\* scratch_gen_relaunch.sh, for a minted session when the target is claude; and anew
\* when the switch was cut short after it, so that what was done since is left behind.
Regenerates ==
    /\ At("generate")
    /\ \E s \in SessionIds :
          /\ IF applier.rec.to.service = "claude" THEN Fresh(s) ELSE s = script.sid
          /\ script' = [target |-> applier.rec.to, sid |-> s]
    /\ carried' = {} /\ strayed' = NotTheLanes
    /\ deputy' = [deputy EXCEPT !.outrun = deputy.up]
    /\ ApplyGoes("lanes")
    /\ UNCHANGED <<lanes, switch, codexSession, seedPrompt, transcripts, caseDone,
                   turns, switchFaults>>

\* Or it fails: whatever request is on disk is dropped, and the case goes on with the
\* script it has.
RegenerateFails ==
    /\ At("generate") /\ switchFaults < MaxSwitchFaults
    /\ switchFaults' = switchFaults + 1
    /\ switch' = NoSwitch /\ applier' = Resting
    /\ strayed' = (strayed \/ applier.again)
    /\ UNCHANGED <<lanes, script, codexSession, seedPrompt, transcripts, deputy,
                   caseDone, turns, carried>>

LanesForgotten ==                                                     \* mutant
    /\ At("lanes")
    /\ ApplyGoes("unlink")
    /\ UNCHANGED <<lanes, switch, script, codexSession, seedPrompt, transcripts, deputy,
                   caseDone, turns, carried, strayed, switchFaults>>

WritesLane ==
    /\ At("lanes")
    /\ lanes' = IF applier.rec.lane = "" THEN lanes
                ELSE [lanes EXCEPT !.current = applier.rec.lane]
    /\ ApplyGoes("unlink")
    /\ UNCHANGED <<switch, script, codexSession, seedPrompt, transcripts, deputy,
                   caseDone, turns, carried, strayed, switchFaults>>

\* Unlinks whatever request is on disk by now.  The watchdog relaunches after it.
EndsSwitch ==
    /\ At("unlink")
    /\ switch' = NoSwitch
    /\ IF applier.who = "watchdog" THEN ApplyGoes("relaunch") ELSE applier' = Resting
    /\ UNCHANGED <<lanes, script, codexSession, seedPrompt, transcripts, deputy,
                   caseDone, turns, carried, strayed, switchFaults>>

\* relaunch(): a session of the deputy's that somebody started meanwhile is killed.
RelaunchesSwitched ==
    /\ At("relaunch")
    /\ ScriptRuns
    /\ carried' = KeptAtAKill
    /\ applier' = Resting
    /\ UNCHANGED <<lanes, switch, script, codexSession, caseDone, turns, strayed,
                   switchFaults>>

\* The record the applier leaves on disk is its own, unless the deputy wrote since.
ApplierDies ==
    /\ applier # Resting /\ switchFaults < MaxSwitchFaults
    /\ applier' = Resting /\ switchFaults' = switchFaults + 1
    /\ strayed' = (strayed \/ (~At("relaunch") /\ switch # applier.rec))
    /\ UNCHANGED <<lanes, switch, script, codexSession, seedPrompt, transcripts, deputy,
                   caseDone, turns, carried>>

SwNext ==
    \/ DoesATurn \/ CancelsSwitch \/ WrapperKilled
    \/ \E to \in Targets, lane \in LaneNames \cup {""} : AsksToSwitch(to, lane)
    \/ \E done \in BOOLEAN : LeavesRun(done)
    \/ \E who \in {"watchdog", "inbox", "interrupt"} : RevivedBy(who)
    \/ WatchdogApplies \/ InboxRestores \/ RewritesScript \/ WritesSeed
    \/ SetsCodexAside \/ Regenerates \/ RegenerateFails \/ WritesLane
    \/ EndsSwitch \/ RelaunchesSwitched \/ ApplierDies

SwSpec == SwInit /\ [][SwNext]_swVars

-----------------------------------------------------------------------------
(* Properties.                                                             *)

\* While no switch is on disk or being applied, the lane that the lanes file says the
\* case is in is the one whose model the relaunch script runs: whoever was killed while
\* applying, whatever failed, and whoever started the deputy or asked for something
\* else in the middle of it.  A switch that named no lane, or a lane and not its model,
\* says so itself; and one that was cut short and then replaced, dropped or applied in
\* vain is half done.
LaneIsWhatRuns ==
    switch.state = "none" /\ applier = Resting /\ ~strayed =>
       script.target = lanes.split[lanes.current]

\* Within a service nothing is lost: a deputy that runs has in its session every turn
\* since a switch last began or regenerated the script, however often it was relaunched,
\* by whom, or its model switched; but for a run that a switch overtook, and a cold
\* codex run that was killed with its wrapper.
SessionIsKept == deputy.up /\ ~deputy.outrun => carried \subseteq transcripts[deputy.sid]

\* "The switch writes a SEED (the rendered handoff) and this script starts a FRESH
\* session with it" (scratch_gen_relaunch.sh:154), so that a deputy that changed
\* service still has the turns before.  Does not hold: nothing reads the seed.
ContextIsCarried == deputy.up => \A t \in 1 .. turns : t \in transcripts[deputy.sid]

=============================================================================
