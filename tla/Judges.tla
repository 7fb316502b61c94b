-------------------------------- MODULE Judges --------------------------------
(***************************************************************************)
(* scratch_critic.py: the register of the judges and the review rounds.    *)
(*                                                                         *)
(* The register, critics.json, names the judges; each one's prompt is a    *)
(* file of its own.  The sheriff's daemon adds, changes and retires        *)
(* judges; the installer seeds the packaged ones.  Both read the whole     *)
(* register, and write the whole of it back some time later: only the      *)
(* write is under the lock.                                                *)
(*                                                                         *)
(* A review makes a directory for its round, spawns an anonymous critic    *)
(* that has to leave verdict.json and verdict.md in it, and polls.  One    *)
(* case is modelled; its reviews may overlap.  A verdict is what a critic  *)
(* said: that it signs off, that it signs off but lists what must be       *)
(* fixed, that the work is to be revised (or rejected), or something that  *)
(* is no verdict.  A critic writes its two files in either order, leaves   *)
(* out either, and may leave a verdict.json that cannot be read.           *)
(***************************************************************************)
EXTENDS Naturals, FiniteSets, FiniteSetsExt

CONSTANTS
    Judges, Packaged,       \* the ids, and those the repository ships
    DefaultJudge,
    ReviewCalls,            \* calls of review(): each one's judge and --round,
                            \* 0 when it is not given
    MaxRounds, MaxJudgeOps, MaxSheriffDeaths

ASSUME JudgesAssumption ==
    /\ Packaged \subseteq Judges /\ DefaultJudge \in Judges
    /\ \A c \in DOMAIN ReviewCalls : /\ ReviewCalls[c].judge \in Judges
                                     /\ ReviewCalls[c].round \in Nat
    /\ MaxRounds \in Nat /\ MaxJudgeOps \in Nat /\ MaxSheriffDeaths \in Nat

VARIABLES
    register,       \* critics.json: the status of each judge
    judgePrompt,    \* the judges whose prompt file is there
    charter,        \* whether CHARTER.md is there
    seeder, keeper, \* the installer and the sheriff: what each of them does and
                    \* the register it is going to write
    roundDirs,      \* the round directories that exist
    verdictJson, verdictMd,     \* what is in each one
    critic,         \* the critics' sessions, by judge and round
    reviews,        \* each call: its step, round and result, and for the properties
                    \* the file the result was read from
    judged,         \* what the critics of each round were going to say
    judgeOps, sheriffDeaths

judgeVars == <<register, judgePrompt, charter, seeder, keeper, roundDirs, verdictJson,
               verdictMd, critic, reviews, judged, judgeOps, sheriffDeaths>>
registry  == <<register, judgePrompt, charter, seeder, keeper, judgeOps, sheriffDeaths>>
rounds    == <<roundDirs, verdictJson, verdictMd, critic, reviews, judged>>

Rounds   == 1 .. MaxRounds
Said     == {"sign_off", "sign_off_but", "revise", "no_verdict"}
Statuses == {"absent", "active", "retired"}
AtRest   == [op |-> "none", id |-> DefaultJudge, write |-> [j \in Judges |-> "absent"]]
NoCritic == [alive |-> FALSE, says |-> "no_verdict", left |-> {}]

JudgeTypeOK ==
    /\ register \in [Judges -> Statuses]
    /\ judgePrompt \subseteq Judges /\ charter \in BOOLEAN
    /\ \A actor \in {seeder, keeper} :
          /\ actor.op \in {"none", "seed", "register", "update", "remove"}
          /\ actor.id \in Judges /\ actor.write \in [Judges -> Statuses]
    /\ roundDirs \subseteq Rounds
    /\ verdictJson \in [Rounds -> Said \cup {"none", "torn"}]
    /\ verdictMd \in [Rounds -> Said \cup {"none"}]
    /\ \A s \in DOMAIN critic : critic[s].says \in Said
    /\ judged \in [Rounds -> SUBSET Said]
    /\ \A c \in DOMAIN reviews :
          /\ reviews[c].step \in {"new", "round", "poll", "over"}
          /\ reviews[c].result \in {"none", "refused", "SIGN-OFF", "REVISE", "error"}
          /\ reviews[c].by \in {"json", "md"}

JudgeInit ==
    /\ register = [j \in Judges |-> "absent"] /\ judgePrompt = {} /\ charter = FALSE
    /\ seeder = AtRest /\ keeper = AtRest
    /\ roundDirs = {}
    /\ verdictJson = [r \in Rounds |-> "none"] /\ verdictMd = [r \in Rounds |-> "none"]
    /\ critic = [s \in Judges \X Rounds |-> NoCritic]
    /\ reviews = [c \in DOMAIN ReviewCalls |-> [step |-> "new", round |-> 0,
                                                result |-> "none", by |-> "json"]]
    /\ judged = [r \in Rounds |-> {}]
    /\ judgeOps = 0 /\ sheriffDeaths = 0

-----------------------------------------------------------------------------
(* The register.                                                           *)

IsCritic(j) == register[j] = "active"

\* seed_critics() up to the write: the packaged judges the register does not
\* hold, whatever was decided about the others; all of them with --force.
SeedBegin(force) ==
    LET new == {j \in Packaged : register[j] = "absent" \/ force}
    IN  /\ seeder.op = "none" /\ new # {} /\ judgeOps < MaxJudgeOps
        /\ judgePrompt' = judgePrompt \cup new
        /\ charter' = TRUE
        /\ seeder' = [AtRest EXCEPT !.op = "seed",
                        !.write = [j \in Judges |-> IF j \in new THEN "active"
                                                                 ELSE register[j]]]
        /\ judgeOps' = judgeOps + 1
        /\ UNCHANGED <<register, keeper, sheriffDeaths, rounds>>

SeedWrite ==
    /\ seeder.op = "seed"
    /\ register' = seeder.write
    /\ seeder' = AtRest
    /\ UNCHANGED <<judgePrompt, charter, keeper, judgeOps, sheriffDeaths, rounds>>

\* What the sheriff's daemon may do to a judge, by the register it reads: the
\* prompt is in place before the register names it.
KeeperOp(op, j, status, prompts, seedsCharter) ==
    /\ keeper.op = "none" /\ judgeOps < MaxJudgeOps
    /\ keeper' = [op |-> op, id |-> j, write |-> [register EXCEPT ![j] = status]]
    /\ judgePrompt' = judgePrompt \cup prompts
    /\ charter' = (charter \/ seedsCharter)
    /\ judgeOps' = judgeOps + 1
    /\ UNCHANGED <<register, seeder, sheriffDeaths, rounds>>

RegisterPromptless(j) ==                                              \* mutant
    /\ register[j] # "active"
    /\ KeeperOp("register", j, "active", {}, TRUE)

\* A retired id may be registered again.
Register(j) ==
    /\ register[j] # "active"
    /\ KeeperOp("register", j, "active", {j}, TRUE)

\* With or without a text; the status may be set either way, the default's too.
Update(j) ==
    /\ register[j] # "absent"
    /\ \E status \in {"active", "retired"}, prompts \in {{}, {j}} :
          KeeperOp("update", j, status, prompts, FALSE)

Retire(j) ==
    /\ j # DefaultJudge /\ register[j] # "absent"
    /\ KeeperOp("remove", j, "retired", {}, FALSE)

KeeperWrite ==
    /\ keeper.op # "none"
    /\ register' = keeper.write
    /\ keeper' = AtRest
    /\ UNCHANGED <<judgePrompt, charter, seeder, judgeOps, sheriffDeaths, rounds>>

\* Between the prompt and the register.
KeeperDies ==
    /\ keeper.op # "none" /\ sheriffDeaths < MaxSheriffDeaths
    /\ keeper' = AtRest /\ sheriffDeaths' = sheriffDeaths + 1
    /\ UNCHANGED <<register, judgePrompt, charter, seeder, judgeOps, rounds>>

-----------------------------------------------------------------------------
(* review().                                                               *)

ParseLenient(json, md) ==                                             \* mutant
    LET said == IF json \in Said THEN json ELSE md
    IN  CASE said = "none" -> "none"
          [] said \in {"sign_off", "sign_off_but"} -> "SIGN-OFF"
          [] OTHER -> "REVISE"

\* parse_verdict: the json, and without one that can be read the headline of the
\* prose, where nobody looks for what must be fixed.  A token outside the
\* vocabulary, and a json that signs off but lists what must be fixed, is a REVISE.
Parse(json, md) ==
    LET said == IF json \in Said THEN json ELSE md
    IN  CASE said = "none" -> "none"
          [] said = "sign_off" -> "SIGN-OFF"
          [] OTHER -> "REVISE"

Verdict(r) == Parse(verdictJson[r], verdictMd[r])
Source(r)  == IF verdictJson[r] \in Said THEN "json" ELSE "md"

\* signed_off(): the latest round that signed off, whatever came after it.
SignedOff == {r \in roundDirs : Verdict(r) = "SIGN-OFF"}

Step(c, step, round, result) ==
    reviews' = [reviews EXCEPT ![c].step = step, ![c].round = round, ![c].result = result]

\* is_critic and next_round: the directory is made later.
ReviewBegin(c) ==
    /\ reviews[c].step = "new"
    /\ IF IsCritic(ReviewCalls[c].judge)
       THEN LET r == IF ReviewCalls[c].round # 0 THEN ReviewCalls[c].round
                                                 ELSE Max(roundDirs \cup {0}) + 1
            IN  r \in Rounds /\ Step(c, "round", r, "none")
       ELSE Step(c, "over", 0, "refused")
    /\ UNCHANGED <<registry, roundDirs, verdictJson, verdictMd, critic, judged>>

\* compose: the charter, the judge's own prompt, the assignment; it raises when the
\* judge's file is not there.
Composable(j) == j \in judgePrompt

\* The directory, the prompt, meta.json and the spawn, which does nothing when a
\* session of that name lives.  What the critic will say is up to it.
ReviewSpawn(c) ==
    LET s == <<ReviewCalls[c].judge, reviews[c].round>>
    IN  /\ reviews[c].step = "round"
        /\ roundDirs' = roundDirs \cup {s[2]}
        /\ IF ~Composable(s[1])
           THEN Step(c, "over", s[2], "refused") /\ UNCHANGED <<critic, judged>>
           ELSE /\ Step(c, "poll", s[2], "none")
                /\ IF critic[s].alive
                   THEN UNCHANGED <<critic, judged>>
                   ELSE \E says \in Said :
                          /\ critic' = [critic EXCEPT ![s] =
                                [alive |-> TRUE, says |-> says, left |-> {"json", "md"}]]
                          /\ judged' = [judged EXCEPT ![s[2]] = @ \cup {says}]
        /\ UNCHANGED <<registry, verdictJson, verdictMd>>

Critic(c) == critic[<<ReviewCalls[c].judge, reviews[c].round>>]

\* A verdict: with the prose, or without it once its critic is gone or has had
\* its 45 seconds; the harness then writes the prose.
ReviewVerdict(c) ==
    LET r == reviews[c].round
    IN  /\ reviews[c].step = "poll" /\ Verdict(r) # "none"
        /\ reviews' = [reviews EXCEPT ![c] = [step |-> "over", round |-> r,
                            result |-> Verdict(r), by |-> Source(r)]]
        /\ verdictMd' = IF verdictMd[r] # "none" THEN verdictMd
                        ELSE [verdictMd EXCEPT ![r] = IF Verdict(r) = "SIGN-OFF"
                                                      THEN "sign_off" ELSE "revise"]
        /\ UNCHANGED <<registry, roundDirs, verdictJson, critic, judged>>

\* The critic is gone without one, or the time is over.
ReviewError(c) ==
    LET r == reviews[c].round
    IN  /\ reviews[c].step = "poll" /\ Verdict(r) = "none"
        /\ Step(c, "over", r, "error")
        /\ UNCHANGED <<registry, roundDirs, verdictJson, verdictMd, critic, judged>>

-----------------------------------------------------------------------------
(* The critics.                                                            *)

Leaves(s, file) ==
    critic' = [critic EXCEPT ![s].left = @ \ {file}]

\* Not an atomic write: a poll may meet half of it, or what is no json at all and
\* stays so.
CriticTearsJson(s) ==
    /\ critic[s].alive /\ "json" \in critic[s].left
    /\ verdictJson[s[2]] # "torn"
    /\ verdictJson' = [verdictJson EXCEPT ![s[2]] = "torn"]
    /\ UNCHANGED <<registry, roundDirs, verdictMd, critic, reviews, judged>>

CriticWritesJson(s) ==
    /\ critic[s].alive /\ "json" \in critic[s].left
    /\ verdictJson' = [verdictJson EXCEPT ![s[2]] = critic[s].says]
    /\ Leaves(s, "json")
    /\ UNCHANGED <<registry, roundDirs, verdictMd, reviews, judged>>

\* The headline is the token alone, and counts for nothing when it is none; what
\* must be fixed stands further down.
CriticWritesMd(s) ==
    /\ critic[s].alive /\ "md" \in critic[s].left
    /\ verdictMd' = [verdictMd EXCEPT ![s[2]] =
                       CASE critic[s].says = "no_verdict"   -> "none"
                         [] critic[s].says = "sign_off_but" -> "sign_off"
                         [] OTHER                           -> critic[s].says]
    /\ Leaves(s, "md")
    /\ UNCHANGED <<registry, roundDirs, verdictJson, reviews, judged>>

\* At the end of its turns, or before.
CriticEnds(s) ==
    /\ critic[s].alive
    /\ critic' = [critic EXCEPT ![s].alive = FALSE]
    /\ UNCHANGED <<registry, roundDirs, verdictJson, verdictMd, reviews, judged>>

JudgeNext ==
    \/ \E force \in BOOLEAN : SeedBegin(force)
    \/ SeedWrite \/ KeeperWrite \/ KeeperDies
    \/ \E j \in Judges : Register(j) \/ Update(j) \/ Retire(j)
    \/ \E c \in DOMAIN ReviewCalls :
          ReviewBegin(c) \/ ReviewSpawn(c) \/ ReviewVerdict(c) \/ ReviewError(c)
    \/ \E s \in DOMAIN critic :
          \/ CriticTearsJson(s) \/ CriticWritesJson(s)
          \/ CriticWritesMd(s) \/ CriticEnds(s)

JudgeSpec == JudgeInit /\ [][JudgeNext]_judgeVars

-----------------------------------------------------------------------------
(* Properties.                                                             *)

\* A judge the register names has its prompt, whenever the sheriff is killed and
\* whoever overwrote the register of whom: a review never fails for want of it.
JudgeHasAPrompt == \A j \in Judges : register[j] # "absent" => j \in judgePrompt

\* By a json that was complete; or by the headline alone, that some critic wrote.
SaidInJson(r)     == "sign_off" \in judged[r]
SaidInHeadline(r) == judged[r] \cap {"sign_off", "sign_off_but"} # {}
Backs(r, by)      == IF by = "json" THEN SaidInJson(r) ELSE SaidInHeadline(r)

\* The gate fails closed: `status` and a review say that a round is signed off only
\* on the word of a critic that was at work in that round, whatever was torn, timed
\* out, died or was overwritten by an overlapping review.  Where a json can be read,
\* that word was without a reservation; the headline of a prose is taken as it is.
SignOffIsTheJudges ==
    /\ \A r \in SignedOff : Backs(r, Source(r))
    /\ \A c \in DOMAIN reviews :
          reviews[c].result = "SIGN-OFF" => Backs(reviews[c].round, reviews[c].by)

=============================================================================
