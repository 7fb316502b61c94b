------------------------------ MODULE FieldGuide ------------------------------
(***************************************************************************)
(* scratch_field_guide.py and the field guide's part of                    *)
(* scratch_sheriff.py: the standing guidelines and the deputies' lessons.  *)
(*                                                                         *)
(* Deputies append lessons, numbered per category under the lock of the    *)
(* category's file; only the sheriff rewrites a guideline, on a request or *)
(* when AutoThreshold lessons wait.  It claims the category in             *)
(* standing.json, asks the model outside the lock for at most five         *)
(* minutes, and commits under the lock: lessons keep coming meanwhile.     *)
(* There is one sheriff (its daemon holds a lock of its own), so a claim   *)
(* it does not own is that of one that was killed, and is stale after 20   *)
(* minutes.  The guidelines' texts are left out.                           *)
(***************************************************************************)
EXTENDS Naturals, FiniteSets

CONSTANTS Categories, AutoThreshold, MaxLessons, MaxRequests, MaxGuideFaults

ASSUME GuideAssumption == MaxLessons \in Nat /\ MaxGuideFaults \in Nat

VARIABLES
    lessons,        \* the number of lessons of each category, the last one's seq
    incorporated,   \* standing.json: incorporated_through
    claim,          \* and active_rewrite
    rewriteRequest, \* the trigger of the request that waits for each category
    guideSheriff,   \* the sheriff's rewrite: its step, category, whether it is a
                    \* request's, the lessons in its prompt and the last one's seq
    guideHistory,   \* the rewrites in the history, by category and last seq
    reviewed,       \* the lessons that a rewrite which was committed has seen
    rewriteRequests, guideFaults

guideVars == <<lessons, incorporated, claim, rewriteRequest, guideSheriff, guideHistory,
               reviewed, rewriteRequests, guideFaults>>
guideFiles == <<lessons, incorporated, claim, rewriteRequest, guideHistory, reviewed,
                rewriteRequests>>

Unclaimed == "none"
NoRewrite == [step |-> "none", category |-> CHOOSE c \in Categories : TRUE,
              request |-> FALSE, prompt |-> {}, through |-> 0]

GuideTypeOK ==
    /\ lessons \in [Categories -> 0 .. MaxLessons]
    /\ incorporated \in [Categories -> 0 .. MaxLessons]
    /\ claim \in [Categories -> {"none", "fresh", "stale"}]
    /\ rewriteRequest \in [Categories -> {"none", "deputy-request", "operator-manual"}]
    /\ guideSheriff.step \in {"none", "model", "commit", "error", "history", "move"}
    /\ guideSheriff.through \in 0 .. MaxLessons
    /\ guideHistory \subseteq Categories \X (0 .. MaxLessons)
    /\ reviewed \in [Categories -> SUBSET (1 .. MaxLessons)]
    /\ guideFaults \in 0 .. MaxGuideFaults

\* The packaged guidelines: read while there is no standing.json, and what the
\* sheriff's first pass writes into it.
GuideInit ==
    /\ lessons = [c \in Categories |-> 0]
    /\ incorporated = [c \in Categories |-> 0]
    /\ claim = [c \in Categories |-> Unclaimed]
    /\ rewriteRequest = [c \in Categories |-> "none"]
    /\ guideSheriff = NoRewrite
    /\ guideHistory = {}
    /\ reviewed = [c \in Categories |-> {}]
    /\ rewriteRequests = 0 /\ guideFaults = 0

\* _pending_rows: the lessons behind the cursor.
PendingLessons(c) == incorporated[c] + 1 .. lessons[c]

-----------------------------------------------------------------------------
(* The deputies and the operator.                                          *)

\* add_lesson, by a deputy that is who it says and a lesson that is new.
AddLesson(c) ==
    /\ lessons[c] < MaxLessons
    /\ lessons' = [lessons EXCEPT ![c] = @ + 1]
    /\ UNCHANGED <<incorporated, claim, rewriteRequest, guideSheriff, guideHistory,
                   reviewed, rewriteRequests, guideFaults>>

\* queue_rewrite: one request waits for a category, the check and the submission
\* under one lock.
QueueRewrite(c, trigger) ==
    /\ rewriteRequest[c] = "none" /\ rewriteRequests < MaxRequests
    /\ rewriteRequest' = [rewriteRequest EXCEPT ![c] = trigger]
    /\ rewriteRequests' = rewriteRequests + 1
    /\ UNCHANGED <<lessons, incorporated, claim, guideSheriff, guideHistory, reviewed,
                   guideFaults>>

-----------------------------------------------------------------------------
(* The sheriff.                                                            *)

\* The claim, unless the category has one that is not stale (RewriteBusy: the
\* request waits), and the snapshot of the lessons that go into the prompt.
Claims(c, request) ==
    LET pending == PendingLessons(c)
    IN  /\ guideSheriff.step = "none" /\ claim[c] # "fresh"
        /\ claim' = [claim EXCEPT ![c] = "fresh"]
        /\ guideSheriff' = [step |-> "model", category |-> c, request |-> request,
                            prompt |-> pending,
                            through |-> IF pending = {} THEN incorporated[c]
                                                        ELSE lessons[c]]
        /\ UNCHANGED <<lessons, incorporated, rewriteRequest, guideHistory, reviewed,
                       rewriteRequests, guideFaults>>

\* A request's rewrite, with pending lessons or without.
RequestedRewrite(c) == rewriteRequest[c] # "none" /\ Claims(c, TRUE)

\* field_guide_pass: a category that has reached the threshold.
AutomaticRewrite(c) ==
    /\ Cardinality(PendingLessons(c)) >= AutoThreshold
    /\ Claims(c, FALSE)

\* The model: a guideline, or an error (no wrapper, too short, a time-out).
ModelReturns(step) ==
    /\ guideSheriff.step = "model"
    /\ step = "error" => guideFaults < MaxGuideFaults
    /\ guideFaults' = guideFaults + IF step = "error" THEN 1 ELSE 0
    /\ guideSheriff' = [guideSheriff EXCEPT !.step = step]
    /\ UNCHANGED guideFiles

CommitThroughNow ==                                                   \* mutant
    LET c == guideSheriff.category
    IN  /\ guideSheriff.step = "commit"
        /\ incorporated' = [incorporated EXCEPT ![c] = lessons[c]]
        /\ reviewed' = [reviewed EXCEPT ![c] = @ \cup guideSheriff.prompt]
        /\ claim' = [claim EXCEPT ![c] = Unclaimed]
        /\ guideSheriff' = [guideSheriff EXCEPT !.step = "history"]
        /\ UNCHANGED <<lessons, rewriteRequest, guideHistory, rewriteRequests, guideFaults>>

\* The cursor moves to the snapshot's last lesson, whatever has come since.
Commit ==
    LET c == guideSheriff.category
    IN  /\ guideSheriff.step = "commit"
        /\ incorporated' = [incorporated EXCEPT ![c] = guideSheriff.through]
        /\ reviewed' = [reviewed EXCEPT ![c] = @ \cup guideSheriff.prompt]
        /\ claim' = [claim EXCEPT ![c] = Unclaimed]
        /\ guideSheriff' = [guideSheriff EXCEPT !.step = "history"]
        /\ UNCHANGED <<lessons, rewriteRequest, guideHistory, rewriteRequests, guideFaults>>

\* RewriteDeferred: the claim is given back and the request stays pending.
Defers ==
    /\ guideSheriff.step = "error"
    /\ claim' = [claim EXCEPT ![guideSheriff.category] = Unclaimed]
    /\ guideSheriff' = NoRewrite
    /\ UNCHANGED <<lessons, incorporated, rewriteRequest, guideHistory, reviewed,
                   rewriteRequests, guideFaults>>

RecordsRewrite ==
    /\ guideSheriff.step = "history"
    /\ guideHistory' = guideHistory \cup {<<guideSheriff.category, guideSheriff.through>>}
    /\ guideSheriff' = IF guideSheriff.request
                       THEN [guideSheriff EXCEPT !.step = "move"] ELSE NoRewrite
    /\ UNCHANGED <<lessons, incorporated, claim, rewriteRequest, reviewed, rewriteRequests,
                   guideFaults>>

CompletesRequest ==
    /\ guideSheriff.step = "move"
    /\ rewriteRequest' = [rewriteRequest EXCEPT ![guideSheriff.category] = "none"]
    /\ guideSheriff' = NoRewrite
    /\ UNCHANGED <<lessons, incorporated, claim, guideHistory, reviewed, rewriteRequests,
                   guideFaults>>

\* Its claim stays behind; another sheriff is up ten seconds later.
GuideSheriffDies ==
    /\ guideSheriff.step # "none" /\ guideFaults < MaxGuideFaults
    /\ guideSheriff' = NoRewrite /\ guideFaults' = guideFaults + 1
    /\ UNCHANGED guideFiles

\* 20 minutes pass over a claim: more than a rewrite that runs can take.
ClaimAges(c) ==
    /\ claim[c] = "fresh"
    /\ guideSheriff.step \in {"model", "commit", "error"} => guideSheriff.category # c
    /\ claim' = [claim EXCEPT ![c] = "stale"]
    /\ UNCHANGED <<lessons, incorporated, rewriteRequest, guideSheriff, guideHistory,
                   reviewed, rewriteRequests, guideFaults>>

\* automatic_categories clears it, below the threshold too.
ClearStale(c) ==
    /\ guideSheriff.step = "none" /\ claim[c] = "stale"
    /\ claim' = [claim EXCEPT ![c] = Unclaimed]
    /\ UNCHANGED <<lessons, incorporated, rewriteRequest, guideSheriff, guideHistory,
                   reviewed, rewriteRequests, guideFaults>>

GuideNext ==
    \/ \E c \in Categories :
          \/ AddLesson(c) \/ RequestedRewrite(c) \/ AutomaticRewrite(c)
          \/ ClaimAges(c) \/ ClearStale(c)
          \/ \E trigger \in {"deputy-request", "operator-manual"} : QueueRewrite(c, trigger)
    \/ \E step \in {"commit", "error"} : ModelReturns(step)
    \/ Commit \/ Defers \/ RecordsRewrite \/ CompletesRequest \/ GuideSheriffDies

GuideSpec == GuideInit /\ [][GuideNext]_guideVars

-----------------------------------------------------------------------------
(* Properties.                                                             *)

\* A lesson counts as reviewed only when a rewrite that was committed had it in
\* its prompt, however many came while the model was at work, failed, or died with
\* the sheriff; and no committed review is undone.
LessonsAreReviewed == \A c \in Categories : 1 .. incorporated[c] = reviewed[c]

=============================================================================
