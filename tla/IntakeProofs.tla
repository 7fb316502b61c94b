---------------------------- MODULE IntakeProofs ----------------------------
(* Theorems about Intake, for any mails, handlers and faults.              *)
EXTENDS Intake, FiniteSetTheorems, TLAPS

USE IntakeAssumption DEF IntakeAssumption

(***************************************************************************)
(* The loop dispatches before it marks: what it is about to mark has been  *)
(* dispatched, and its handler, if it has one, is at work or has brought   *)
(* it to an end.  A handler that puts a mail off keeps it until it has     *)
(* cleared the flag; if it does so before the loop sets it, that is a      *)
(* fault.                                                                  *)
(***************************************************************************)

LoopKnowsItsMail ==
    /\ loop.ids \subseteq Mails
    /\ loop.step \in {"routed", "mark"} => loop.mail \in Mails

HandlersKnowTheirMail ==
    \A h \in HandlerIds :
        IF handlerOf[h].step = "off" THEN handlerOf[h].mail = 0
                                     ELSE handlerOf[h].mail \in Mails

KeptBeforeMarked == \A m \in Mails : loop.step = "mark" /\ loop.mail = m => Kept(m)

KeptInv ==
    /\ seenFlag \subseteq Mails
    /\ loop = [step |-> loop.step, mail |-> loop.mail, ids |-> loop.ids,
               blocked |-> loop.blocked]
    /\ handlerOf \in [HandlerIds -> [mail : Nat,
                                     step : {"off", "waiting", "running", "unmark"}]]
    /\ answered \in [Mails -> Nat]
    /\ LoopKnowsItsMail /\ HandlersKnowTheirMail
    /\ KeptBeforeMarked
    /\ MailKept

LEMMA KeptInvInit == IntakeInit => KeptInv
BY DEF IntakeInit, KeptInv, LoopKnowsItsMail, HandlersKnowTheirMail, KeptBeforeMarked,
       MailKept, LoopOff, SwitchedOff

\* A mail stays kept while no handler lets go of it.
LEMMA KeptStays ==
  ASSUME NEW m,
         inMailbox \subseteq inMailbox', dropped \subseteq dropped',
         confirmed \subseteq confirmed', deadLetters \subseteq deadLetters',
         faults \subseteq faults',
         answered[m] > 0 => answered'[m] > 0,
         \A h \in HandlerIds : handlerOf[h].mail = m => handlerOf'[h].mail = m
  PROVE  Kept(m) => Kept(m)'
BY DEF Kept, Settled

LEMMA FaultKeeps ==
  ASSUME NEW m, NEW kind \in {"handler", "unmark", "late_mark"}, NEW n,
         <<kind, m, n>> \in faults'
  PROVE  Kept(m)'
<1>1. <<kind, m, n>>[1] = kind /\ <<kind, m, n>>[2] = m OBVIOUS
<1> QED BY <1>1 DEF Kept

\* A claude that ends badly may have answered; that takes nothing back.
LEMMA AnswersStay ==
  ASSUME answered \in [Mails -> Nat], NEW h \in HandlerIds,
         Relapses(h) \/ MayHaveAnswered(h) \/ Handled(h)
  PROVE  /\ answered' \in [Mails -> Nat]
         /\ \A m \in Mails : answered'[m] \in {answered[m], answered[m] + 1}
         /\ \A m \in Mails : m # handlerOf[h].mail => answered'[m] = answered[m]
BY DEF Relapses, MayHaveAnswered, Handled

LEMMA AnsweredStays ==
  ASSUME answered \in [Mails -> Nat], NEW h \in HandlerIds,
         Relapses(h) \/ MayHaveAnswered(h)
  PROVE  /\ answered' \in [Mails -> Nat] /\ faults \subseteq faults'
         /\ \A m \in Mails : answered[m] > 0 => answered'[m] > 0
<1>1. faults \subseteq faults'
  BY DEF Relapses, MayHaveAnswered, Fault
<1>2. \A m \in Mails : answered[m] \in Nat
  OBVIOUS
<1> QED BY <1>1, <1>2, AnswersStay

LEMMA KeptInvStep == KeptInv /\ [IntakeNext]_intakeVars => KeptInv'
<1> SUFFICES ASSUME KeptInv, [IntakeNext]_intakeVars PROVE KeptInv'
  OBVIOUS
<1> USE DEF KeptInv, LoopKnowsItsMail, HandlersKnowTheirMail, KeptBeforeMarked
\* Steps that leave the handlers and what is settled alone, or add to it.
<1>1. ASSUME UNCHANGED <<handlerOf, answered>>,
             inMailbox \subseteq inMailbox', dropped \subseteq dropped',
             confirmed \subseteq confirmed', deadLetters \subseteq deadLetters',
             faults \subseteq faults'
      PROVE  \A m : Kept(m) => Kept(m)'
  BY <1>1, KeptStays
<1>2. CASE LoopSearch
  <2>1. \A m : Kept(m) => Kept(m)' BY <1>1, <1>2 DEF LoopSearch, outcomes
  <2>2. /\ loop' = [step |-> "fetch", mail |-> 0, ids |-> Mails \ seenFlag,
                     blocked |-> blockedMail]
        /\ UNCHANGED <<seenFlag, handlerOf, answered>>
    BY <1>2 DEF LoopSearch, outcomes
  <2> QED BY <2>1, <2>2 DEF MailKept
<1>3. CASE LoopFetch
  <2> DEFINE real   == {m \in Eligible : ~MailHas[m].empty}
             passed == {m \in loop.ids : \A r \in real : m <= r}
             first  == passed \cap real
             empty  == {m \in Eligible \cap passed : MailHas[m].empty}
  <2>1. /\ first \subseteq Mails /\ empty \subseteq Mails
        /\ \A m \in empty : MailHas[m].empty
    BY DEF Eligible
  <2> HIDE DEF real, passed, first, empty
  <2>2. /\ UNCHANGED <<handlerOf, answered, inMailbox, confirmed, deadLetters, faults>>
        /\ \/ /\ \E m \in first : loop' = [LoopOff EXCEPT !.step = "routed", !.mail = m]
              /\ seenFlag' = seenFlag \cup empty /\ dropped' = dropped
           \/ /\ loop' = LoopOff
              /\ seenFlag' = seenFlag \cup empty \cup first
              /\ dropped' = dropped \cup first
    BY <1>3 DEF LoopFetch, real, passed, first, empty
  <2>3. \A m : Kept(m) => Kept(m)' BY <1>1, <2>2
  <2>4. MailKept' BY <2>1, <2>2, <2>3 DEF MailKept, Kept, Settled
  <2>5. /\ seenFlag' \subseteq Mails
        /\ \/ loop' = [step |-> "idle", mail |-> 0, ids |-> {}, blocked |-> {}]
           \/ \E m \in Mails :
                 loop' = [step |-> "routed", mail |-> m, ids |-> {}, blocked |-> {}]
    <3>1. CASE \E m \in first : /\ loop' = [LoopOff EXCEPT !.step = "routed", !.mail = m]
                                /\ seenFlag' = seenFlag \cup empty
      BY <2>1, <3>1 DEF LoopOff
    <3>2. CASE loop' = LoopOff /\ seenFlag' = seenFlag \cup empty \cup first
      BY <2>1, <3>2 DEF LoopOff
    <3> QED BY <2>2, <3>1, <3>2
  <2>6. /\ loop' = [step |-> loop'.step, mail |-> loop'.mail, ids |-> loop'.ids,
                     blocked |-> loop'.blocked]
        /\ loop'.ids = {} /\ loop'.step # "mark"
        /\ loop'.step = "routed" => loop'.mail \in Mails
    BY <2>5
  <2> QED BY <2>2, <2>4, <2>5, <2>6
<1>4. CASE LoopConfirm \/ LoopDeliver
  <2>1. \A m : Kept(m) => Kept(m)'
    BY <1>1, <1>4 DEF LoopConfirm, LoopDeliver
  <2>2. PICK m \in Mails : m = loop.mail
    BY <1>4 DEF LoopConfirm, LoopDeliver
  <2>3. Kept(m)'
    BY <1>4, <2>2 DEF LoopConfirm, LoopDeliver, Kept, Settled
  <2>4. loop' = [loop EXCEPT !.step = "mark"] /\ UNCHANGED <<seenFlag, handlerOf, answered>>
    BY <1>4 DEF LoopConfirm, LoopDeliver, LoopTo
  <2> QED BY <2>1, <2>2, <2>3, <2>4 DEF MailKept
<1>5. ASSUME NEW h \in HandlerIds, LoopHandler(h) PROVE KeptInv'
  <2>1. /\ loop.mail \in Mails /\ loop.mail # 0 /\ handlerOf[h].mail = 0
        /\ handlerOf' = [handlerOf EXCEPT ![h] = [mail |-> loop.mail, step |-> "waiting"]]
        /\ loop' = [loop EXCEPT !.step = "mark"]
        /\ UNCHANGED <<seenFlag, inMailbox, dropped, confirmed, answered, deadLetters,
                       faults>>
    BY <1>5 DEF LoopHandler, LoopTo, outcomes
  <2>2. \A m \in Mails : Kept(m) => Kept(m)'
    <3>1. \A m \in Mails, k \in HandlerIds :
              handlerOf[k].mail = m => handlerOf'[k].mail = m
      BY <2>1
    <3> QED BY <2>1, <3>1, KeptStays
  <2>3. \A m \in Mails : m = loop.mail => Kept(m)' BY <2>1 DEF Kept
  <2> QED BY <2>1, <2>2, <2>3 DEF MailKept
<1>6. CASE LoopMark \/ LoopDies
  <2>1. /\ UNCHANGED <<handlerOf, answered, inMailbox, dropped, confirmed, deadLetters>>
        /\ faults \subseteq faults' /\ loop' = LoopOff
        /\ seenFlag' \subseteq seenFlag \cup (IF loop.step = "mark" THEN {loop.mail} ELSE {})
    BY <1>6 DEF LoopMark, LoopDies, outcomes, Fault
  <2>2. \A m : Kept(m) => Kept(m)' BY <1>1, <2>1
  <2> QED BY <2>1, <2>2 DEF MailKept, LoopOff
<1>7. ASSUME NEW h \in HandlerIds, NEW step \in {"running", "unmark"},
             handlerOf' = [handlerOf EXCEPT ![h].step = step],
             handlerOf[h].step # "off",
             UNCHANGED <<seenFlag, loop, inMailbox, dropped, confirmed, deadLetters>>,
             faults \subseteq faults', answered' \in [Mails -> Nat],
             \A m \in Mails : answered[m] > 0 => answered'[m] > 0
      PROVE  KeptInv'
  <2>1. \A k \in HandlerIds : handlerOf'[k].mail = handlerOf[k].mail
    BY <1>7
  <2>2. \A m \in Mails : Kept(m) => Kept(m)' BY <1>7, <2>1, KeptStays
  <2> QED BY <1>7, <2>1, <2>2 DEF MailKept
\* A handler that lets go of its mail: it is settled, or no longer marked and not
\* going to be, or the handler went wrong.
<1>8. ASSUME NEW h \in HandlerIds, NEW m \in Mails, m = handlerOf[h].mail,
             handlerOf' = [handlerOf EXCEPT ![h] = SwitchedOff],
             UNCHANGED <<loop, inMailbox, dropped, confirmed>>,
             seenFlag' \subseteq seenFlag,
             deadLetters \subseteq deadLetters', faults \subseteq faults',
             answered' \in [Mails -> Nat],
             \A n \in Mails : answered[n] > 0 => answered'[n] > 0,
             \/ Kept(m)'
             \/ m \notin seenFlag' /\ ~(loop.step = "mark" /\ loop.mail = m)
      PROVE  KeptInv'
  <2>1. \A n \in Mails \ {m} : Kept(n) => Kept(n)'
    <3>1. \A n \in Mails \ {m}, k \in HandlerIds :
              handlerOf[k].mail = n => handlerOf'[k].mail = n
      BY <1>8
    <3> QED BY <1>8, <3>1, KeptStays
  <2> QED BY <1>8, <2>1 DEF MailKept, SwitchedOff
<1>9. ASSUME NEW h \in HandlerIds, HandlerRuns(h) PROVE KeptInv'
  BY <1>7, <1>9 DEF HandlerRuns, outcomes
<1>10. ASSUME NEW h \in HandlerIds, HandlerLockTimeout(h) PROVE KeptInv'
  BY <1>7, <1>10 DEF HandlerLockTimeout, Block, outcomes
<1>11. ASSUME NEW h \in HandlerIds, HandlerHitsLimit(h) PROVE KeptInv'
  BY <1>7, <1>11, AnsweredStays DEF HandlerHitsLimit, Block
<1>12. ASSUME NEW h \in HandlerIds, HandlerSucceeds(h) PROVE KeptInv'
  <2>1. PICK m \in Mails : m = handlerOf[h].mail /\ handlerOf[h].step # "off"
    BY <1>12 DEF HandlerSucceeds
  <2>2. /\ answered' \in [Mails -> Nat] /\ answered'[m] > 0
        /\ \A n \in Mails : answered[n] > 0 => answered'[n] > 0
    BY <1>12, <2>1 DEF HandlerSucceeds, Handled
  <2>3. CASE Block(h)
    BY <1>7, <1>12, <2>1, <2>2, <2>3 DEF HandlerSucceeds, Block
  <2>4. CASE HandlerEnds(h)
    <3>1. Kept(m)' BY <1>12, <2>1, <2>2, <2>4 DEF Kept, Settled
    <3> QED BY <1>8, <1>12, <2>1, <2>2, <2>4, <3>1 DEF HandlerSucceeds, HandlerEnds
  <2> QED BY <1>12, <2>3, <2>4 DEF HandlerSucceeds
<1>13. ASSUME NEW h \in HandlerIds, HandlerFails(h) PROVE KeptInv'
  <2>1. PICK m \in Mails :
            /\ m = handlerOf[h].mail /\ handlerOf[h].step # "off"
            /\ UNCHANGED <<seenFlag, loop, inMailbox, dropped, confirmed>>
            /\ MayHaveAnswered(h)
    BY <1>13 DEF HandlerFails
  <2>2. CASE Block(h) /\ UNCHANGED deadLetters
    BY <1>7, <2>1, <2>2, AnsweredStays DEF Block
  <2>3. CASE HandlerEnds(h) /\ deadLetters' = deadLetters \cup {m}
    <3>1. Kept(m)' BY <2>3 DEF Kept, Settled
    <3> QED BY <1>8, <2>1, <2>3, <3>1, AnsweredStays DEF HandlerEnds
  <2> QED BY <1>13, <2>1, <2>2, <2>3 DEF HandlerFails, DeferOrGiveUp
<1>14. ASSUME NEW h \in HandlerIds, HandlerUnmarks(h) PROVE KeptInv'
  <2>1. PICK m \in Mails :
            /\ m = handlerOf[h].mail
            /\ handlerOf' = [handlerOf EXCEPT ![h] = SwitchedOff]
            /\ UNCHANGED <<loop, inMailbox, dropped, confirmed, answered, deadLetters>>
    BY <1>14 DEF HandlerUnmarks, outcomes
  <2>2. PICK n :
          \/ /\ seenFlag' = seenFlag \ {m} /\ UNCHANGED faults
             /\ ~(loop.step = "mark" /\ loop.mail = m)
          \/ seenFlag' = seenFlag \ {m} /\ faults' = faults \cup {<<"late_mark", m, n>>}
          \/ seenFlag' = seenFlag /\ faults' = faults \cup {<<"unmark", m, n>>}
    BY <1>14, <2>1 DEF HandlerUnmarks, Fault
  <2>3. \/ Kept(m)'
        \/ m \notin seenFlag' /\ ~(loop.step = "mark" /\ loop.mail = m)
    BY <2>2, FaultKeeps
  <2> QED BY <1>8, <2>1, <2>2, <2>3
<1>15. ASSUME NEW h \in HandlerIds, HandlerDiesAt(h) PROVE KeptInv'
  <2>1. PICK m \in Mails :
            /\ m = handlerOf[h].mail
            /\ handlerOf' = [handlerOf EXCEPT ![h] = SwitchedOff]
            /\ \E n : faults' = faults \cup {<<"handler", m, n>>}
            /\ UNCHANGED <<seenFlag, loop, inMailbox, dropped, confirmed, deadLetters>>
            /\ Handled(h) \/ UNCHANGED answered
    BY <1>15 DEF HandlerDiesAt, Fault
  <2>2. Kept(m)' BY <2>1, FaultKeeps
  <2>3. /\ answered' \in [Mails -> Nat]
        /\ \A n \in Mails : answered[n] > 0 => answered'[n] > 0
    BY <2>1, AnswersStay
  <2> QED BY <1>8, <2>1, <2>2, <2>3
<1>16. ASSUME NEW m \in Mails, TimeComes(m) PROVE KeptInv'
  <2>1. \A n : Kept(n) => Kept(n)' BY <1>1, <1>16 DEF TimeComes, outcomes
  <2> QED BY <1>16, <2>1 DEF TimeComes, outcomes, MailKept
<1>17. CASE UNCHANGED intakeVars
  <2>1. \A n : Kept(n) => Kept(n)' BY <1>1, <1>17 DEF intakeVars
  <2> QED BY <1>17, <2>1 DEF intakeVars, MailKept
<1>18. ASSUME NEW h \in HandlerIds, HandlerTryFails(h) PROVE KeptInv'
  <2>1. /\ UNCHANGED <<seenFlag, loop, handlerOf, inMailbox, dropped, confirmed, deadLetters>>
        /\ Relapses(h)
    BY <1>18 DEF HandlerTryFails
  <2>2. /\ answered' \in [Mails -> Nat] /\ faults \subseteq faults'
        /\ \A n \in Mails : answered[n] > 0 => answered'[n] > 0
    BY <2>1, AnsweredStays
  <2>3. \A m \in Mails : Kept(m) => Kept(m)' BY <2>1, <2>2, KeptStays
  <2> QED BY <2>1, <2>2, <2>3 DEF MailKept
<1> QED
  BY <1>2, <1>3, <1>4, <1>5, <1>6, <1>9, <1>10, <1>11, <1>12, <1>13, <1>14, <1>15,
     <1>16, <1>17, <1>18 DEF IntakeNext, LoopStep, HandlerStep

\* A mail that nobody will look at again has reached somebody, has a handler, or its
\* sender knows, unless its handler was killed or could not clear the flag in time.
THEOREM NoMailForgotten == IntakeSpec => []MailKept
<1>1. KeptInv => MailKept BY DEF KeptInv
<1> QED BY <1>1, KeptInvInit, KeptInvStep, PTL DEF IntakeSpec

-----------------------------------------------------------------------------
(***************************************************************************)
(* A mail's tokens.  It has one to begin with and gets one for every time  *)
(* the loop could not mark it or was killed over it, and for every claude  *)
(* that ended badly after it had answered.  It spends one on an answer;    *)
(* otherwise the token is with a handler, or with the unread mail, or lost.*)
(* The loop only holds mail that is unread until it is marked.             *)
(***************************************************************************)

Repeats == {"mark", "loop", "relapse"}
RepeatsOf(m)  == {f \in faults : f[2] = m /\ f[1] \in Repeats}
Handling(m)   == {h \in HandlerIds : handlerOf[h].mail = m}
ToDispatch(m) == m \notin seenFlag /\ ~(loop.step = "mark" /\ loop.mail = m)

LoopHoldsUnread ==
    /\ loop.step = "fetch" => loop.ids \cap seenFlag = {}
    /\ loop.step = "routed" => loop.mail \notin seenFlag

FaultsAreNumbered ==
    /\ IsFiniteSet(faults)
    /\ \A f \in faults : f[3] \in 1 .. Cardinality(faults)

Unread(m)     == IF ToDispatch(m) THEN 1 ELSE 0

TokensLast ==
    \A m \in Mails : ~MailHas[m].aboutLimits =>
        /\ IsFiniteSet(Handling(m))
        /\ answered[m] + Cardinality(Handling(m)) + Unread(m)
              <= 1 + Cardinality(RepeatsOf(m))

TokenInv == LoopHoldsUnread /\ FaultsAreNumbered /\ TokensLast

LEMMA TokenInvInit == IntakeInit => TokenInv
<1> SUFFICES ASSUME IntakeInit PROVE TokenInv
  OBVIOUS
<1>1. /\ faults = {} /\ loop.step = "idle" /\ handlerOf = [h \in HandlerIds |-> SwitchedOff]
      /\ answered = [m \in Mails |-> 0]
  BY DEF IntakeInit, LoopOff
<1>2. \A m \in Mails : Handling(m) = {} /\ RepeatsOf(m) = {}
  BY <1>1 DEF Handling, RepeatsOf, SwitchedOff
<1>3. \A m \in Mails : Unread(m) \in {0, 1}
  BY DEF Unread
<1> QED
  BY <1>1, <1>2, <1>3, FS_EmptySet
  DEF TokenInv, LoopHoldsUnread, FaultsAreNumbered, TokensLast

LEMMA HandlerLetsGo ==
  ASSUME KeptInv, NEW h \in HandlerIds, NEW x \in Mails, x = handlerOf[h].mail,
         handlerOf' = [handlerOf EXCEPT ![h] = SwitchedOff],
         NEW m \in Mails, IsFiniteSet(Handling(m))
  PROVE  /\ IsFiniteSet(Handling(m)') /\ Cardinality(Handling(m)) \in Nat
         /\ Cardinality(Handling(m)') = Cardinality(Handling(m)) - IF m = x THEN 1 ELSE 0
<1>1. Handling(m)' = IF m = x THEN Handling(m) \ {h} ELSE Handling(m)
  BY DEF Handling, SwitchedOff, KeptInv
<1>2. m = x <=> h \in Handling(m)
  BY DEF Handling
<1> QED BY <1>1, <1>2, FS_RemoveElement, FS_CardinalityType

LEMMA FaultCounts ==
  ASSUME FaultsAreNumbered, NEW kind, NEW x,
         faults' = faults \cup {<<kind, x, Cardinality(faults) + 1>>}
  PROVE  /\ FaultsAreNumbered'
         /\ \A m : /\ Cardinality(RepeatsOf(m)) \in Nat
                   /\ Cardinality(RepeatsOf(m)') = Cardinality(RepeatsOf(m))
                        + IF m = x /\ kind \in Repeats THEN 1 ELSE 0
<1>1. IsFiniteSet(faults) /\ Cardinality(faults) \in Nat
  BY FS_CardinalityType DEF FaultsAreNumbered
<1>2. PICK n \in Nat : n = Cardinality(faults) + 1 /\ n > Cardinality(faults)
  BY <1>1
<1>3. PICK new : new = <<kind, x, n>>
  OBVIOUS
<1>4. new[1] = kind /\ new[2] = x /\ new[3] = n
  BY <1>3
<1>5. faults' = faults \cup {new}
  BY <1>2, <1>3
<1>6. new \notin faults
  BY <1>1, <1>2, <1>4 DEF FaultsAreNumbered
<1>7. IsFiniteSet(faults') /\ Cardinality(faults') = n
  BY <1>1, <1>2, <1>5, <1>6, FS_AddElement
<1>8. FaultsAreNumbered'
  <2> SUFFICES ASSUME NEW f \in faults' PROVE f[3] \in 1 .. n
    BY <1>7 DEF FaultsAreNumbered
  <2>1. CASE f = new
    BY <1>1, <1>2, <1>4, <2>1
  <2>2. CASE f \in faults
    BY <1>1, <1>2, <2>2 DEF FaultsAreNumbered
  <2> QED BY <1>5, <2>1, <2>2
<1>9. ASSUME NEW m
      PROVE  /\ Cardinality(RepeatsOf(m)) \in Nat
             /\ Cardinality(RepeatsOf(m)') = Cardinality(RepeatsOf(m))
                  + IF m = x /\ kind \in Repeats THEN 1 ELSE 0
  <2>1. IsFiniteSet(RepeatsOf(m)) /\ new \notin RepeatsOf(m)
    BY <1>1, <1>6, FS_Subset DEF RepeatsOf
  <2>2. RepeatsOf(m)' = IF m = x /\ kind \in Repeats
                         THEN RepeatsOf(m) \cup {new} ELSE RepeatsOf(m)
    BY <1>4, <1>5 DEF RepeatsOf
  <2>3. Cardinality(RepeatsOf(m)) \in Nat
    BY <2>1, FS_CardinalityType
  <2>4. CASE m = x /\ kind \in Repeats
    BY <2>1, <2>2, <2>3, <2>4, FS_AddElement
  <2>5. CASE ~(m = x /\ kind \in Repeats)
    BY <2>2, <2>3, <2>5
  <2> QED BY <2>4, <2>5
<1> QED BY <1>8, <1>9

\* A step that adds at most k answers to a mail beyond those it gives a token for.
Spends(m, k) ==
    /\ answered'[m] \in Nat /\ Cardinality(RepeatsOf(m)') \in Nat
    /\ answered'[m] + Cardinality(RepeatsOf(m))
          <= answered[m] + Cardinality(RepeatsOf(m)') + k

LEMMA NothingSpent ==
  ASSUME FaultsAreNumbered, UNCHANGED faults, answered' \in [Mails -> Nat],
         NEW m \in Mails
  PROVE  /\ FaultsAreNumbered'
         /\ answered'[m] = answered[m] => Spends(m, 0)
         /\ answered[m] \in Nat /\ answered'[m] \in {answered[m], answered[m] + 1}
               => Spends(m, 1)
<1>1. FaultsAreNumbered' /\ RepeatsOf(m)' = RepeatsOf(m)
  BY DEF FaultsAreNumbered, RepeatsOf
<1>2. IsFiniteSet(RepeatsOf(m))
  BY FS_Subset DEF RepeatsOf, FaultsAreNumbered
<1> QED BY <1>1, <1>2, FS_CardinalityType DEF Spends

\* An answer before a bad end comes with its token.
LEMMA RelapsePays ==
  ASSUME FaultsAreNumbered, answered \in [Mails -> Nat], NEW h \in HandlerIds,
         Relapses(h) \/ MayHaveAnswered(h)
  PROVE  FaultsAreNumbered' /\ \A m \in Mails : Spends(m, 0)
<1>1. CASE UNCHANGED <<answered, faults>>
  <2>1. UNCHANGED faults /\ answered' \in [Mails -> Nat]
    BY <1>1
  <2>2. \A m \in Mails : answered'[m] = answered[m]
    BY <1>1
  <2>3. FaultsAreNumbered'
    BY <2>1 DEF FaultsAreNumbered
  <2> QED BY <2>1, <2>2, <2>3, NothingSpent
<1>2. CASE Relapses(h)
  <2>1. PICK x : x = handlerOf[h].mail
    OBVIOUS
  <2>2. faults' = faults \cup {<<"relapse", x, Cardinality(faults) + 1>>}
    BY <1>2, <2>1 DEF Relapses, Fault
  <2>3. /\ FaultsAreNumbered'
        /\ \A m : /\ Cardinality(RepeatsOf(m)) \in Nat
                  /\ Cardinality(RepeatsOf(m)') = Cardinality(RepeatsOf(m))
                       + IF m = x THEN 1 ELSE 0
    BY <2>2, FaultCounts DEF Repeats
  <2> QED BY <1>2, <2>1, <2>3, AnswersStay DEF Spends
<1> QED BY <1>1, <1>2 DEF MayHaveAnswered

LEMMA TokenInvStep == KeptInv /\ TokenInv /\ [IntakeNext]_intakeVars => TokenInv'
<1> SUFFICES ASSUME KeptInv, TokenInv, [IntakeNext]_intakeVars PROVE TokenInv'
  OBVIOUS
<1> USE DEF TokenInv
<1>a. ASSUME NEW m \in Mails, ~MailHas[m].aboutLimits
      PROVE  /\ IsFiniteSet(Handling(m)) /\ Cardinality(Handling(m)) \in Nat
             /\ Cardinality(RepeatsOf(m)) \in Nat /\ answered[m] \in Nat
             /\ answered[m] + Cardinality(Handling(m)) + Unread(m)
                  <= 1 + Cardinality(RepeatsOf(m))
             /\ Unread(m) \in {0, 1} /\ Unread(m)' \in {0, 1}
  <2>1. IsFiniteSet(RepeatsOf(m))
    BY FS_Subset DEF RepeatsOf, FaultsAreNumbered
  <2> QED
    BY <1>a, <2>1, FS_CardinalityType DEF TokensLast, KeptInv, Unread
\* A step that moves no token.
<1>b. ASSUME FaultsAreNumbered',
             \A h \in HandlerIds : handlerOf'[h].mail = handlerOf[h].mail,
             \A m \in Mails : ~MailHas[m].aboutLimits => Spends(m, 0),
             \A m \in Mails : ToDispatch(m)' => ToDispatch(m),
             LoopHoldsUnread'
      PROVE  TokenInv'
  <2>1. \A m : Handling(m)' = Handling(m)
    BY <1>b DEF Handling
  <2>2. \A m \in Mails : Unread(m)' <= Unread(m)
    BY <1>b DEF Unread
  <2>3. TokensLast'
    BY <1>a, <1>b, <2>1, <2>2 DEF TokensLast, Spends
  <2> QED BY <1>b, <2>3
\* A handler that lets go of its mail: it has answered it, or the token is lost, or
\* the mail is unread again.
<1>c. ASSUME NEW h \in HandlerIds, NEW x \in Mails, x = handlerOf[h].mail,
             handlerOf' = [handlerOf EXCEPT ![h] = SwitchedOff],
             UNCHANGED loop, LoopHoldsUnread', FaultsAreNumbered',
             \A m \in Mails : m # x => Spends(m, 0),
             \/ Spends(x, 0) /\ seenFlag \ {x} \subseteq seenFlag'
             \/ Spends(x, 1) /\ UNCHANGED seenFlag
      PROVE  TokenInv'
  <2> SUFFICES ASSUME NEW m \in Mails, ~MailHas[m].aboutLimits
               PROVE  /\ IsFiniteSet(Handling(m)')
                      /\ answered'[m] + Cardinality(Handling(m)') + Unread(m)'
                            <= 1 + Cardinality(RepeatsOf(m)')
    BY <1>c DEF TokensLast
  <2>1. /\ IsFiniteSet(Handling(m)') /\ Cardinality(Handling(m)) \in Nat
        /\ Cardinality(Handling(m)') = Cardinality(Handling(m)) - IF m = x THEN 1 ELSE 0
    BY <1>a, <1>c, HandlerLetsGo
  <2>2. m # x => Unread(m)' <= Unread(m)
    BY <1>c DEF Unread, ToDispatch
  <2>3. UNCHANGED seenFlag => Unread(m)' = Unread(m)
    BY <1>c DEF Unread, ToDispatch
  <2>4. CASE m # x
    BY <1>a, <1>c, <2>1, <2>2, <2>4 DEF Spends
  <2>5. CASE m = x /\ Spends(x, 0)
    BY <1>a, <2>1, <2>5 DEF Spends
  <2>6. CASE m = x /\ Spends(x, 1) /\ UNCHANGED seenFlag
    BY <1>a, <2>1, <2>3, <2>6 DEF Spends
  <2> QED BY <1>c, <2>4, <2>5, <2>6
\* Nothing went wrong, and nobody answered.
<1>e. ASSUME UNCHANGED <<faults, answered>>
      PROVE  FaultsAreNumbered' /\ \A m \in Mails : Spends(m, 0)
  <2>1. UNCHANGED faults /\ answered' \in [Mails -> Nat]
    BY <1>e DEF KeptInv
  <2>2. \A m \in Mails : answered'[m] = answered[m]
    BY <1>e
  <2>3. FaultsAreNumbered'
    BY <2>1 DEF FaultsAreNumbered
  <2> QED BY <2>1, <2>2, <2>3, NothingSpent
\* A step of the loop that goes wrong.
<1>d. ASSUME NEW kind \in {"mark", "loop"}, loop' = LoopOff,
             faults' = faults \cup {<<kind, loop.mail, Cardinality(faults) + 1>>},
             UNCHANGED <<seenFlag, handlerOf, answered>>
      PROVE  TokenInv'
  <2>1. /\ FaultsAreNumbered'
        /\ \A m : Cardinality(RepeatsOf(m)') = Cardinality(RepeatsOf(m))
                     + IF m = loop.mail THEN 1 ELSE 0
    BY <1>d, FaultCounts DEF Repeats
  <2>2. LoopHoldsUnread'
    BY <1>d DEF LoopHoldsUnread, LoopOff
  <2>3. \A m \in Mails : m # loop.mail => Unread(m)' = Unread(m)
    BY <1>d DEF Unread, ToDispatch, LoopOff
  <2>4. \A m : Handling(m)' = Handling(m)
    BY <1>d DEF Handling
  <2>5. TokensLast'
    BY <1>a, <1>d, <2>1, <2>3, <2>4 DEF TokensLast
  <2> QED BY <2>1, <2>2, <2>5
<1>1. CASE LoopSearch
  <2>1. /\ loop' = [step |-> "fetch", mail |-> 0, ids |-> Mails \ seenFlag,
                    blocked |-> blockedMail]
        /\ loop.step = "idle" /\ UNCHANGED <<faults, handlerOf, answered, seenFlag>>
    BY <1>1 DEF LoopSearch, outcomes
  <2>2. LoopHoldsUnread'
    BY <2>1 DEF LoopHoldsUnread
  <2>3. \A m \in Mails : ToDispatch(m)' => ToDispatch(m)
    BY <2>1 DEF ToDispatch
  <2> QED BY <1>b, <1>e, <2>1, <2>2, <2>3
<1>2. CASE LoopFetch
  <2>1. PICK first, empty :
          /\ first \subseteq loop.ids
          /\ \/ /\ \E m \in first : /\ loop' = [LoopOff EXCEPT !.step = "routed", !.mail = m]
                                    /\ m \notin empty
                /\ seenFlag' = seenFlag \cup empty
             \/ /\ loop' = LoopOff
                /\ seenFlag' = seenFlag \cup empty \cup first
    <3> DEFINE real   == {m \in Eligible : ~MailHas[m].empty}
               passed == {m \in loop.ids : \A r \in real : m <= r}
               first  == passed \cap real
               empty  == {m \in Eligible \cap passed : MailHas[m].empty}
    <3>1. first \subseteq loop.ids /\ \A m \in first : m \notin empty
      OBVIOUS
    <3>2. \/ /\ \E m \in first : loop' = [LoopOff EXCEPT !.step = "routed", !.mail = m]
             /\ seenFlag' = seenFlag \cup empty
          \/ /\ loop' = LoopOff
             /\ seenFlag' = seenFlag \cup empty \cup first
      BY <1>2 DEF LoopFetch
    <3> HIDE DEF real, passed, first, empty
    <3> QED BY <3>1, <3>2
  <2>2. /\ loop.step = "fetch" /\ loop.ids \cap seenFlag = {}
        /\ UNCHANGED <<faults, handlerOf, answered>>
    BY <1>2 DEF LoopFetch, LoopHoldsUnread
  <2>3. \/ \E m \in first : /\ loop' = [step |-> "routed", mail |-> m, ids |-> {},
                                        blocked |-> {}]
                            /\ m \notin empty /\ seenFlag' = seenFlag \cup empty
        \/ loop' = [step |-> "idle", mail |-> 0, ids |-> {}, blocked |-> {}]
    BY <2>1 DEF LoopOff
  <2>4. LoopHoldsUnread'
    <3>1. CASE \E m \in first : /\ loop' = [step |-> "routed", mail |-> m, ids |-> {},
                                            blocked |-> {}]
                                /\ m \notin empty /\ seenFlag' = seenFlag \cup empty
      <4>1. loop'.step = "routed" /\ loop'.mail \notin seenFlag'
        BY <2>1, <2>2, <3>1
      <4> QED BY <4>1 DEF LoopHoldsUnread
    <3>2. CASE loop' = [step |-> "idle", mail |-> 0, ids |-> {}, blocked |-> {}]
      BY <3>2 DEF LoopHoldsUnread
    <3> QED BY <2>3, <3>1, <3>2
  <2>5. \A m \in Mails : ToDispatch(m)' => ToDispatch(m)
    BY <2>1, <2>2 DEF ToDispatch
  <2> QED BY <1>b, <1>e, <2>2, <2>4, <2>5
<1>3. CASE LoopConfirm \/ LoopDeliver
  <2>1. /\ loop' = [loop EXCEPT !.step = "mark"] /\ loop.step = "routed"
        /\ UNCHANGED <<faults, handlerOf, answered, seenFlag>>
    BY <1>3 DEF LoopConfirm, LoopDeliver, LoopTo
  <2>2. LoopHoldsUnread'
    BY <2>1 DEF LoopHoldsUnread, KeptInv
  <2>3. \A m \in Mails : ToDispatch(m)' => ToDispatch(m)
    BY <2>1 DEF ToDispatch
  <2> QED BY <1>b, <1>e, <2>1, <2>2, <2>3
<1>4. ASSUME NEW h \in HandlerIds, LoopHandler(h) PROVE TokenInv'
  <2>1. PICK x \in Mails : x = loop.mail
    BY <1>4 DEF LoopHandler, KeptInv, LoopKnowsItsMail
  <2>2. /\ x # 0 /\ handlerOf[h].mail = 0 /\ loop.step = "routed" /\ x \notin seenFlag
        /\ handlerOf' = [handlerOf EXCEPT ![h] = [mail |-> x, step |-> "waiting"]]
        /\ loop' = [loop EXCEPT !.step = "mark"]
        /\ UNCHANGED <<seenFlag, answered, faults>>
    BY <1>4, <2>1
    DEF LoopHandler, LoopTo, outcomes, KeptInv, HandlersKnowTheirMail, LoopHoldsUnread
  <2>3. LoopHoldsUnread' /\ FaultsAreNumbered'
    BY <2>2 DEF LoopHoldsUnread, FaultsAreNumbered, KeptInv
  <2>4. /\ \A m \in Mails : m # x => Handling(m)' = Handling(m)
        /\ Handling(x)' = Handling(x) \cup {h} /\ h \notin Handling(x)
    BY <2>2 DEF Handling, KeptInv
  <2>5. /\ \A m \in Mails : m # x => Unread(m)' = Unread(m)
        /\ Unread(x) = 1 /\ Unread(x)' = 0
    BY <2>1, <2>2 DEF Unread, ToDispatch, KeptInv
  <2>6. \A m : RepeatsOf(m)' = RepeatsOf(m)
    BY <2>2 DEF RepeatsOf
  <2>7. TokensLast'
    <3> SUFFICES ASSUME NEW m \in Mails, ~MailHas[m].aboutLimits
                 PROVE  /\ IsFiniteSet(Handling(m)')
                        /\ answered[m] + Cardinality(Handling(m)') + Unread(m)'
                              <= 1 + Cardinality(RepeatsOf(m))
      BY <2>2, <2>6 DEF TokensLast
    <3>1. CASE m # x
      BY <1>a, <2>4, <2>5, <3>1
    <3>2. CASE m = x
      <4>1. /\ IsFiniteSet(Handling(m)')
            /\ Cardinality(Handling(m)') = Cardinality(Handling(m)) + 1
        BY <1>a, <2>4, <3>2, FS_AddElement
      <4> QED BY <1>a, <2>5, <3>2, <4>1
    <3> QED BY <3>1, <3>2
  <2> QED BY <2>3, <2>7
<1>5. CASE LoopMark \/ LoopDies
  <2>1. CASE \/ LoopMark /\ Fault("mark", loop.mail) /\ UNCHANGED seenFlag
             \/ LoopDies
    BY <1>d, <2>1 DEF LoopMark, LoopDies, Fault, outcomes
  <2>2. CASE LoopMark /\ seenFlag' = seenFlag \cup {loop.mail} /\ UNCHANGED faults
    <3>1. loop' = LoopOff /\ UNCHANGED <<handlerOf, answered>>
      BY <2>2 DEF LoopMark, outcomes
    <3>2. LoopHoldsUnread'
      BY <3>1 DEF LoopHoldsUnread, LoopOff
    <3>3. \A m \in Mails : ToDispatch(m)' => ToDispatch(m)
      BY <2>2, <3>1 DEF ToDispatch, LoopOff
    <3> QED BY <1>b, <1>e, <2>2, <3>1, <3>2, <3>3
  <2> QED BY <1>5, <2>1, <2>2 DEF LoopMark
<1>6. ASSUME NEW h \in HandlerIds, HandlerRuns(h) \/ HandlerLockTimeout(h)
      PROVE  TokenInv'
  <2>1. /\ \E step : handlerOf' = [handlerOf EXCEPT ![h].step = step]
        /\ UNCHANGED <<faults, answered, seenFlag, loop>>
    BY <1>6 DEF HandlerRuns, HandlerLockTimeout, Block, outcomes
  <2>2. /\ \A k \in HandlerIds : handlerOf'[k].mail = handlerOf[k].mail
        /\ LoopHoldsUnread' /\ \A m \in Mails : ToDispatch(m)' => ToDispatch(m)
    BY <2>1 DEF LoopHoldsUnread, ToDispatch, KeptInv
  <2> QED BY <1>b, <1>e, <2>1, <2>2
<1>7. ASSUME NEW h \in HandlerIds, HandlerSucceeds(h) PROVE TokenInv'
  <2>1. PICK x \in Mails : x = handlerOf[h].mail
    BY <1>7 DEF HandlerSucceeds, KeptInv, HandlersKnowTheirMail
  <2>2. /\ UNCHANGED <<faults, seenFlag, loop>> /\ answered' \in [Mails -> Nat]
        /\ \A m \in Mails : m # x => answered'[m] = answered[m]
        /\ answered[x] \in Nat /\ answered'[x] \in {answered[x], answered[x] + 1}
    BY <1>7, <2>1, AnswersStay DEF HandlerSucceeds, KeptInv
  <2>3. /\ LoopHoldsUnread' /\ FaultsAreNumbered'
        /\ Spends(x, 1) /\ \A m \in Mails : m # x => Spends(m, 0)
    BY <2>2, NothingSpent DEF LoopHoldsUnread
  <2>4. CASE MailHas[x].aboutLimits
    <3>1. handlerOf' = [handlerOf EXCEPT ![h].step = "unmark"]
      BY <1>7, <2>1, <2>4 DEF HandlerSucceeds, Block
    <3>2. /\ \A k \in HandlerIds : handlerOf'[k].mail = handlerOf[k].mail
          /\ \A m \in Mails : ToDispatch(m)' => ToDispatch(m)
      BY <2>2, <3>1 DEF ToDispatch, KeptInv
    <3> QED BY <1>b, <2>2, <2>3, <2>4, <3>2
  <2>5. CASE ~MailHas[x].aboutLimits
    <3>1. handlerOf' = [handlerOf EXCEPT ![h] = SwitchedOff]
      BY <1>7, <2>1, <2>5 DEF HandlerSucceeds, HandlerEnds
    <3> QED BY <1>c, <2>1, <2>2, <2>3, <3>1
  <2> QED BY <2>4, <2>5
<1>8. ASSUME NEW h \in HandlerIds,
             HandlerFails(h) \/ HandlerTryFails(h) \/ HandlerHitsLimit(h)
      PROVE  TokenInv'
  <2>1. PICK x \in Mails : x = handlerOf[h].mail
    BY <1>8 DEF HandlerFails, HandlerTryFails, HandlerHitsLimit, KeptInv,
                HandlersKnowTheirMail
  <2>2. /\ UNCHANGED <<seenFlag, loop>> /\ (Relapses(h) \/ MayHaveAnswered(h))
        /\ \/ handlerOf' = handlerOf
           \/ handlerOf' = [handlerOf EXCEPT ![h].step = "unmark"]
           \/ handlerOf' = [handlerOf EXCEPT ![h] = SwitchedOff]
    BY <1>8 DEF HandlerFails, HandlerTryFails, HandlerHitsLimit, DeferOrGiveUp, Block,
                HandlerEnds
  <2>3. LoopHoldsUnread' /\ FaultsAreNumbered' /\ \A m \in Mails : Spends(m, 0)
    BY <2>2, RelapsePays DEF LoopHoldsUnread, KeptInv
  <2>4. CASE \/ handlerOf' = handlerOf
             \/ handlerOf' = [handlerOf EXCEPT ![h].step = "unmark"]
    <3>1. /\ \A k \in HandlerIds : handlerOf'[k].mail = handlerOf[k].mail
          /\ \A m \in Mails : ToDispatch(m)' => ToDispatch(m)
      BY <2>2, <2>4 DEF ToDispatch, KeptInv
    <3> QED BY <1>b, <2>3, <3>1
  <2>5. CASE handlerOf' = [handlerOf EXCEPT ![h] = SwitchedOff]
    BY <1>c, <2>1, <2>2, <2>3, <2>5
  <2> QED BY <2>2, <2>4, <2>5
<1>9. ASSUME NEW h \in HandlerIds, HandlerUnmarks(h) PROVE TokenInv'
  <2>1. PICK x \in Mails : x = handlerOf[h].mail
    BY <1>9 DEF HandlerUnmarks, KeptInv, HandlersKnowTheirMail
  <2>2. /\ UNCHANGED <<loop, answered>> /\ handlerOf' = [handlerOf EXCEPT ![h] = SwitchedOff]
        /\ seenFlag' \in {seenFlag, seenFlag \ {x}}
        /\ \/ UNCHANGED faults
           \/ \E kind \in {"late_mark", "unmark"} :
                 faults' = faults \cup {<<kind, x, Cardinality(faults) + 1>>}
    BY <1>9, <2>1 DEF HandlerUnmarks, Fault, outcomes
  <2>3. LoopHoldsUnread'
    BY <2>2 DEF LoopHoldsUnread
  <2>4. FaultsAreNumbered' /\ \A m \in Mails : Spends(m, 0)
    <3>1. CASE UNCHANGED faults
      BY <1>e, <2>2, <3>1
    <3>2. CASE \E kind \in {"late_mark", "unmark"} :
                  faults' = faults \cup {<<kind, x, Cardinality(faults) + 1>>}
      <4>1. PICK kind \in {"late_mark", "unmark"} :
               faults' = faults \cup {<<kind, x, Cardinality(faults) + 1>>}
        BY <3>2
      <4>2. /\ FaultsAreNumbered'
            /\ \A m : /\ Cardinality(RepeatsOf(m)) \in Nat
                      /\ Cardinality(RepeatsOf(m)') = Cardinality(RepeatsOf(m)) + 0
        BY <4>1, FaultCounts DEF Repeats
      <4>3. \A m \in Mails : answered'[m] = answered[m] /\ answered[m] \in Nat
        BY <2>2 DEF KeptInv
      <4> QED BY <4>2, <4>3 DEF Spends
    <3> QED BY <2>2, <3>1, <3>2
  <2> QED BY <1>c, <2>1, <2>2, <2>3, <2>4
<1>10. ASSUME NEW h \in HandlerIds, HandlerDiesAt(h) PROVE TokenInv'
  <2>1. PICK x \in Mails : x = handlerOf[h].mail
    BY <1>10 DEF HandlerDiesAt, KeptInv, HandlersKnowTheirMail
  <2>2. /\ UNCHANGED <<seenFlag, loop>> /\ (Handled(h) \/ UNCHANGED answered)
        /\ handlerOf' = [handlerOf EXCEPT ![h] = SwitchedOff]
        /\ faults' = faults \cup {<<"handler", x, Cardinality(faults) + 1>>}
    BY <1>10, <2>1 DEF HandlerDiesAt, Fault
  <2>3. /\ FaultsAreNumbered'
        /\ \A m : /\ Cardinality(RepeatsOf(m)) \in Nat
                  /\ Cardinality(RepeatsOf(m)') = Cardinality(RepeatsOf(m)) + 0
    BY <2>2, FaultCounts DEF Repeats
  <2>4. \A m \in Mails : /\ answered[m] \in Nat
                         /\ answered'[m] \in {answered[m], answered[m] + 1}
                         /\ m # x => answered'[m] = answered[m]
    BY <2>1, <2>2, AnswersStay DEF KeptInv
  <2>5. Spends(x, 1) /\ \A m \in Mails : m # x => Spends(m, 0)
    BY <2>3, <2>4 DEF Spends
  <2>6. LoopHoldsUnread'
    BY <2>2 DEF LoopHoldsUnread
  <2> QED BY <1>c, <2>1, <2>2, <2>3, <2>5, <2>6
<1>11. ASSUME NEW m \in Mails, TimeComes(m) PROVE TokenInv'
  BY <1>b, <1>e, <1>11 DEF TimeComes, outcomes, LoopHoldsUnread, ToDispatch
<1>12. CASE UNCHANGED intakeVars
  BY <1>b, <1>e, <1>12 DEF intakeVars, LoopHoldsUnread, ToDispatch
<1> QED
  BY <1>1, <1>2, <1>3, <1>4, <1>5, <1>6, <1>7, <1>8, <1>9, <1>10, <1>11, <1>12
  DEF IntakeNext, LoopStep, HandlerStep

\* A mail is answered once, and once more for each time the loop could not mark it or
\* was killed over it, or a claude that had answered it ended badly, for any mails,
\* handlers and faults.
THEOREM EveryMailOnce == IntakeSpec => []AnsweredOnce
<1>1. KeptInv /\ TokenInv => AnsweredOnce
  <2> SUFFICES ASSUME KeptInv, TokenInv, NEW m \in Mails, ~MailHas[m].aboutLimits
               PROVE  answered[m] <= 1 + Cardinality(RepeatsOf(m))
    BY DEF AnsweredOnce, RepeatsOf, Repeats
  <2>1. /\ IsFiniteSet(Handling(m)) /\ IsFiniteSet(RepeatsOf(m)) /\ answered[m] \in Nat
        /\ answered[m] + Cardinality(Handling(m)) + Unread(m)
              <= 1 + Cardinality(RepeatsOf(m))
    BY FS_Subset DEF TokenInv, TokensLast, KeptInv, FaultsAreNumbered, RepeatsOf
  <2>2. Unread(m) \in {0, 1}
    BY DEF Unread
  <2> QED BY <2>1, <2>2, FS_CardinalityType
<1> QED
  BY <1>1, KeptInvInit, KeptInvStep, TokenInvInit, TokenInvStep, PTL DEF IntakeSpec

=============================================================================
