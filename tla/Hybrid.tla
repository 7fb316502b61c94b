-------------------------------- MODULE Hybrid --------------------------------
(***************************************************************************)
(* scratch_hybrid.py: the hand-off of a case's report to a ChatGPT writer. *)
(*                                                                         *)
(* A deputy calls `handoff` in the foreground.  Each round of the call has *)
(* a directory; an anonymous writer is spawned for it and has to leave its *)
(* document and response.json there, and the call polls for them.  The     *)
(* call hands over the last document a round of it left, or the deputy's   *)
(* own draft.  A deputy is killed in the middle of a call or calls again,  *)
(* at the round it likes: writers outlive the call, and the directories    *)
(* keep what is in them.                                                   *)
(*                                                                         *)
(* What a response says is its status, and whether it asks something that  *)
(* blocks or does not; the texts are left out, the answers to what was     *)
(* asked among them: answers.md is written for the reader and read by      *)
(* nothing.  That a query blocks matters only to a READY.                  *)
(***************************************************************************)
EXTENDS Naturals, Sequences, FiniteSetsExt

CONSTANTS
    HandoffCalls,       \* the calls, one after another: their --start-round and
                        \* --rounds, and whether the target is a .pdf or .tex
    MaxWriterRounds,
    MaxDeputyKills

ASSUME HybridAssumption ==
    /\ MaxWriterRounds \in Nat /\ MaxDeputyKills \in Nat
    /\ HandoffCalls \in Seq([start : Nat \ {0}, rounds : Nat \ {0}, polished : BOOLEAN])
    /\ \A c \in DOMAIN HandoffCalls :
          HandoffCalls[c].start + HandoffCalls[c].rounds - 1 <= MaxWriterRounds

VARIABLES
    writerDirs,         \* the round directories
    document,           \* the document in each one: whether it is there
    response,           \* response.json: what is in it
    writer,             \* the writers' sessions and what they have yet to write
    handoff,            \* the call under way: its number, step, round and last
                        \* good round
    handed,             \* how each call ended
    seen,               \* of each call: the rounds it ended with a document there,
                        \* and the last one and what the response of it was
    deputyKills

hybridVars == <<writerDirs, document, response, writer, handoff, handed,
                seen, deputyKills>>
hybridDisk == <<writerDirs, document, response>>

WriterRounds == 1 .. MaxWriterRounds
WriterStatuses == {"ready", "needs_input", "blocked"}
Responses    == [status : WriterStatuses, asks : {"nothing", "queries"}]
                  \cup {[status |-> "ready", asks |-> "blocking"]}
NoResponse   == [status |-> "none", asks |-> "nothing"]
TornResponse == [status |-> "torn", asks |-> "nothing"]
Ended        == {"skipped", "ready", "needs_input", "blocked", "killed"}
NoWriter     == [alive |-> FALSE, left |-> {}]
Draft        == 0       \* the round of a document that is the deputy's own

HybridTypeOK ==
    /\ writerDirs \subseteq WriterRounds
    /\ document \in [WriterRounds -> BOOLEAN]
    /\ response \in [WriterRounds -> Responses \cup {NoResponse, TornResponse}]
    /\ \A r \in WriterRounds : /\ writer[r].alive \in BOOLEAN
                               /\ writer[r].left \subseteq {"document", "response"}
    /\ handoff.call \in 1 .. Len(HandoffCalls) + 1
    /\ handoff.step \in {"idle", "round", "poll"}
    /\ handoff.round \in 0 .. MaxWriterRounds
    /\ handoff.lastGood \in 0 .. MaxWriterRounds
    /\ \A c \in DOMAIN handed : /\ handed[c].status \in Ended \cup {"none"}
                                /\ handed[c].report \in 0 .. MaxWriterRounds
    /\ \A c \in DOMAIN seen : /\ seen[c].documents \subseteq WriterRounds
                              /\ seen[c].round \in 0 .. MaxWriterRounds
    /\ deputyKills \in 0 .. MaxDeputyKills

HybridInit ==
    /\ writerDirs = {}
    /\ document = [r \in WriterRounds |-> FALSE]
    /\ response = [r \in WriterRounds |-> NoResponse]
    /\ writer = [r \in WriterRounds |-> NoWriter]
    /\ handoff = [call |-> 1, step |-> "idle", round |-> 0, lastGood |-> Draft]
    /\ handed = [c \in DOMAIN HandoffCalls |-> [status |-> "none", report |-> Draft]]
    /\ seen = [c \in DOMAIN HandoffCalls |->
                [documents |-> {}, round |-> 0, last |-> NoResponse]]
    /\ deputyKills = 0

Call      == HandoffCalls[handoff.call]
OneRoundTooMany == Call.start + Call.rounds                           \* mutant
LastRound == Call.start + Call.rounds - 1

-----------------------------------------------------------------------------
(* What a round's directory says.                                          *)

ParsedAsItStands(doc, resp) ==                                        \* mutant
    IF resp \in Responses THEN [status |-> resp.status, queries |-> resp.asks # "nothing"]
    ELSE [status |-> IF doc THEN "needs_input" ELSE "none", queries |-> FALSE]

\* _parse_response: a READY with a blocking query is none; a document without a
\* response that can be read is a NEEDS_INPUT that asks nothing.
Parsed(doc, resp) ==
    IF resp \in Responses
    THEN [status  |-> IF resp.status = "ready" /\ resp.asks = "blocking"
                      THEN "needs_input" ELSE resp.status,
          queries |-> resp.asks # "nothing"]
    ELSE [status |-> IF doc THEN "needs_input" ELSE "none", queries |-> FALSE]

\* history() and final_report(): the newest round of the case that has a
\* document, whichever call it was of.
FinalReport == Max({r \in writerDirs : document[r]} \cup {Draft})

-----------------------------------------------------------------------------
(* The call.                                                               *)

EndCall(status, report) ==
    /\ handed' = [handed EXCEPT ![handoff.call] = [status |-> status, report |-> report]]
    /\ handoff' = [call |-> handoff.call + 1, step |-> "idle", round |-> 0,
                   lastGood |-> Draft]

\* should_handoff: a plain file the deputy writes itself.
HandoffBegins ==
    /\ handoff.step = "idle" /\ handoff.call \in DOMAIN HandoffCalls
    /\ IF Call.polished
       THEN /\ handoff' = [handoff EXCEPT !.step = "round", !.round = Call.start]
            /\ UNCHANGED handed
       ELSE EndCall("skipped", Draft)
    /\ UNCHANGED <<hybridDisk, writer, seen, deputyKills>>

\* write_round up to its loop: the directory is made or taken as it is, and the
\* spawn does nothing when a session of that name lives.
RoundSpawns ==
    LET r == handoff.round
    IN  /\ handoff.step = "round"
        /\ writerDirs' = writerDirs \cup {r}
        /\ IF writer[r].alive
           THEN UNCHANGED writer
           ELSE writer' = [writer EXCEPT ![r] =
                              [alive |-> TRUE, left |-> {"document", "response"}]]
        /\ handoff' = [handoff EXCEPT !.step = "poll"]
        /\ UNCHANGED <<document, response, handed, seen, deputyKills>>

LastGoodOverwritten(r) == IF document[r] THEN r ELSE Draft            \* mutant

\* The last document that is one: a round that left none keeps the one before.
LastGood(r) == IF document[r] THEN r ELSE handoff.lastGood

\* The end of a round in run().  A READY with its document ends the call; else, with
\* queries, answered or not, there is a next round, whatever the status; else the call
\* ends with the status of this round and the last document of any, a READY without a
\* document of its own too.
RoundEnds(parsed) ==
    LET r     == handoff.round
        ready == parsed.status = "ready" /\ document[r]
    IN  /\ seen' = [seen EXCEPT ![handoff.call] =
                      [documents |-> IF document[r] THEN @.documents \cup {r}
                                                    ELSE @.documents,
                       round |-> r, last |-> response[r]]]
        /\ IF ~ready /\ parsed.queries /\ r < LastRound
           THEN /\ handoff' = [handoff EXCEPT !.step = "round", !.round = r + 1,
                                              !.lastGood = LastGood(r)]
                /\ UNCHANGED handed
           ELSE EndCall(parsed.status, LastGood(r))
        /\ UNCHANGED <<writerDirs, document, response, writer, deputyKills>>

RoundSays == Parsed(document[handoff.round], response[handoff.round])

\* A poll finds a response, or a document without one; a response alone waits
\* for the document, 45 seconds at most and only while the writer lives.
RoundAnswered ==
    /\ handoff.step = "poll" /\ RoundSays.status # "none"
    /\ RoundEnds(RoundSays)

\* The writer is gone, or the time is over.
RoundFails ==
    /\ handoff.step = "poll" /\ RoundSays.status = "none"
    /\ RoundEnds([status |-> "blocked", queries |-> FALSE])

HandoffKilled ==
    /\ handoff.step # "idle" /\ deputyKills < MaxDeputyKills
    /\ EndCall("killed", Draft)
    /\ deputyKills' = deputyKills + 1
    /\ UNCHANGED <<hybridDisk, writer, seen>>

-----------------------------------------------------------------------------
(* The writers, who write the two files in either order, or not at all.    *)

WriterWrites(r, file) ==
    /\ writer[r].alive /\ file \in writer[r].left
    /\ \/ file = "document" /\ document' = [document EXCEPT ![r] = TRUE]
          /\ UNCHANGED response
       \/ /\ file = "response" /\ UNCHANGED document
          /\ \E says \in Responses : response' = [response EXCEPT ![r] = says]
    /\ writer' = [writer EXCEPT ![r].left = @ \ {file}]
    /\ UNCHANGED <<writerDirs, handoff, handed, seen, deputyKills>>

WriterTearsResponse(r) ==
    /\ writer[r].alive /\ "response" \in writer[r].left /\ response[r] # TornResponse
    /\ response' = [response EXCEPT ![r] = TornResponse]
    /\ UNCHANGED <<writerDirs, document, writer, handoff, handed, seen,
                   deputyKills>>

WriterEnds(r) ==
    /\ writer[r].alive
    /\ writer' = [writer EXCEPT ![r] = NoWriter]
    /\ UNCHANGED <<hybridDisk, handoff, handed, seen, deputyKills>>

HybridNext ==
    \/ HandoffBegins \/ RoundSpawns \/ RoundAnswered \/ RoundFails \/ HandoffKilled
    \/ \E r \in WriterRounds :
          \/ WriterTearsResponse(r) \/ WriterEnds(r)
          \/ \E file \in {"document", "response"} : WriterWrites(r, file)

HybridSpec == HybridInit /\ [][HybridNext]_hybridVars

-----------------------------------------------------------------------------
(* Properties.                                                             *)

\* "the tool falls back to YOUR draft and says so" only when no round of the call
\* left a document; a later round that fails, or a writer of an earlier call that
\* is still at work, never costs the call the document it had.
NewestReportIsHandedOver ==
    \A c \in DOMAIN handed : handed[c].status \in WriterStatuses =>
       handed[c].report = Max(seen[c].documents \cup {Draft})

\* A hand-off is READY only when the writer that answered its last round said so and
\* asked nothing that blocks; and what is handed over with it is that writer's document,
\* unless it left none.
ReadyIsTheWriters ==
    \A c \in DOMAIN handed : handed[c].status = "ready" =>
       /\ seen[c].last.status = "ready" /\ seen[c].last.asks # "blocking"
       /\ seen[c].round \in seen[c].documents => handed[c].report = seen[c].round

=============================================================================
