----------------------------- MODULE MCServices -----------------------------
(***************************************************************************)
(* Instances for TLC of the services that share no state in the model: a   *)
(* behaviour is one of one service, which `service` names, and the others  *)
(* stay where they began.  One run checks them all.                        *)
(***************************************************************************)
EXTENDS GpuQueue, CaseNumbers, Docket, Intake, Judges, Sheriff, ModelSwitch, Hybrid,
        FieldGuide, LimitNotice, TLC

VARIABLE service

Services == {"gpu", "cases", "docket", "intake", "judges", "sheriff", "switch", "hybrid",
             "guide", "limit"}

servicesVars == <<service, gpuVars, caseVars, docketVars, intakeVars, judgeVars, lawVars,
                  swVars, hybridVars, guideVars, limitVars>>

-----------------------------------------------------------------------------
(* The constants.                                                          *)

\* CaseNumbers: two handlers of one mail, a form, task forces; malformed records;
\* three numbers at once from the command line.
Specific(name)   == [kind |-> "deputy", name |-> name]
InPrecinct(name) == [kind |-> "precinct", name |-> name]
TaskForces == [g1 |-> <<Specific("a"), InPrecinct("p"), Specific("a")>>,
               g2 |-> <<>>,
               g3 |-> <<InPrecinct("p")>>]
OneMail    == [h1 |-> "u1", h2 |-> "u1"]
BatchOfThree == [cli |-> 3]
Arrivals   == {{"h1", "h2"}, {"h1", "f1"}, {"g1"}, {"f2", "g2"}, {"cli", "f1"}}

\* Docket: a schedule of each frequency, in months of three and two days.
Entry(freq, at, dow, dom, start) ==
    [freq |-> freq, at |-> at, dow |-> dow, dom |-> dom, start |-> start]
DocketEntries == {Entry("hourly", 1, 0, 1, 0), Entry("daily", 3, 0, 1, 0),
                  Entry("weekly", 3, 2, 1, 0), Entry("monthly", 2, 0, 3, 0),
                  Entry("once", 0, 0, 1, 9)}
ShortMonths   == <<3, 2>>

\* Intake: a stranger's mail, an empty one, one for a legacy deputy, an answer to a
\* confirmation, one each for a deputy that ended and for a live precinct, and one
\* whose answer speaks of limits.
APlainMail == [allowed |-> TRUE, empty |-> FALSE, thread |-> NoOne, tag |-> NoOne,
               reply |-> FALSE, case |-> 0, token |-> FALSE, aboutLimits |-> FALSE]
SomeMails  == <<[APlainMail EXCEPT !.allowed = FALSE],
                [APlainMail EXCEPT !.empty = TRUE],
                [APlainMail EXCEPT !.thread = "old"],
                [APlainMail EXCEPT !.token = TRUE],
                [APlainMail EXCEPT !.reply = TRUE, !.case = 7],
                [APlainMail EXCEPT !.reply = TRUE, !.case = 8],
                [APlainMail EXCEPT !.aboutLimits = TRUE]>>
SomeDeputies == [old |-> "legacy", dep |-> "ended"]
SomeCases  == 7 :> [deputy |-> "dep", precinct |-> "lab"]
           @@ 8 :> [deputy |-> "gone", precinct |-> "lab"]

\* Judges: two reviews of one case.
TwoReviews == [a |-> [judge |-> "anonymous", round |-> 0],
               b |-> [judge |-> "vyas", round |-> 0]]

\* Sheriff: one request of each kind about one precinct, where nobody files anything.
Request(op, force, authorized) ==
    [op |-> op, p |-> "p", case |-> "c", force |-> force, authorized |-> authorized]
SomeRequests == <<Request("precinct_delete", TRUE, TRUE),
                  Request("precinct_restore", FALSE, TRUE),
                  Request("precinct_create", FALSE, TRUE),
                  Request("ledger_modify", FALSE, TRUE),
                  Request("log_remove", FALSE, TRUE),
                  Request("case_number", FALSE, FALSE)>>
NoCases      == [c \in {} |-> "p"]

\* ModelSwitch: the report on the other service.
TheSplit == {[work   |-> [service |-> "claude", model |-> "opus"],
              report |-> [service |-> "chatgpt", model |-> "sol"]]}

\* Hybrid: a plain file, a hand-off, and its continuation.
Handoffs == <<[start |-> 1, rounds |-> 1, polished |-> FALSE],
              [start |-> 1, rounds |-> 2, polished |-> TRUE],
              [start |-> 2, rounds |-> 1, polished |-> TRUE]>>

\* LimitNotice: every hour of a year; a zone on either side of the host's.
AYearOfHours == 24 .. 47
EastAndWest  == {-1, 2}

-----------------------------------------------------------------------------
(* The specification.                                                      *)

\* A service that is not the behaviour's begins in one of its initial states.
Fixed(s, choice) == service = s \/ choice

Init ==
    /\ service \in Services
    /\ GpuInit /\ IntakeInit /\ JudgeInit /\ LawInit /\ SwInit /\ HybridInit /\ GuideInit
    /\ CaseInit   /\ Fixed("cases", arrivals = {"h1", "h2"})
    /\ DocketInit /\ Fixed("docket", schedule.freq = "hourly")
    /\ LimitInit  /\ Fixed("limit", notice.form = "none" /\ notice.zone = NoZone
                                       /\ now = 24)

Others(s) ==
    /\ service = s /\ UNCHANGED service
    /\ IF s = "gpu" THEN TRUE ELSE UNCHANGED gpuVars
    /\ IF s = "cases" THEN TRUE ELSE UNCHANGED caseVars
    /\ IF s = "docket" THEN TRUE ELSE UNCHANGED docketVars
    /\ IF s = "intake" THEN TRUE ELSE UNCHANGED intakeVars
    /\ IF s = "judges" THEN TRUE ELSE UNCHANGED judgeVars
    /\ IF s = "sheriff" THEN TRUE ELSE UNCHANGED lawVars
    /\ IF s = "switch" THEN TRUE ELSE UNCHANGED swVars
    /\ IF s = "hybrid" THEN TRUE ELSE UNCHANGED hybridVars
    /\ IF s = "guide" THEN TRUE ELSE UNCHANGED guideVars
    /\ IF s = "limit" THEN TRUE ELSE UNCHANGED limitVars

Next ==
    \/ service = "gpu"     /\ GpuNext    /\ Others("gpu")
    \/ service = "cases"   /\ CaseNext   /\ Others("cases")
    \/ service = "docket"  /\ DocketNext /\ Others("docket")
    \/ service = "intake"  /\ IntakeNext /\ Others("intake")
    \/ service = "judges"  /\ JudgeNext  /\ Others("judges")
    \/ service = "sheriff" /\ LawNext    /\ Others("sheriff")
    \/ service = "switch"  /\ SwNext     /\ Others("switch")
    \/ service = "hybrid"  /\ HybridNext /\ Others("hybrid")
    \/ service = "guide"   /\ GuideNext  /\ Others("guide")
    \/ service = "limit"   /\ LimitNext  /\ Others("limit")

\* The manager's loop goes on by itself, and every command ends or is timed out.
Fairness ==
    /\ WF_gpuVars(service = "gpu" /\ ManagerStep /\ Others("gpu"))
    /\ WF_gpuVars(service = "gpu" /\ Exit /\ Others("gpu"))

Spec == Init /\ [][Next]_servicesVars /\ Fairness

\* The service's state is one it can be in.
ServicesTypeOK ==
    CASE service = "gpu"     -> GpuTypeOK
      [] service = "cases"   -> CaseTypeOK
      [] service = "docket"  -> DocketTypeOK
      [] service = "intake"  -> IntakeTypeOK
      [] service = "judges"  -> JudgeTypeOK
      [] service = "sheriff" -> LawTypeOK
      [] service = "switch"  -> SwTypeOK
      [] service = "hybrid"  -> HybridTypeOK
      [] service = "guide"   -> GuideTypeOK
      [] service = "limit"   -> LimitTypeOK

=============================================================================
