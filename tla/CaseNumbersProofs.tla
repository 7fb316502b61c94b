------------------------- MODULE CaseNumbersProofs -------------------------
(* Theorems about CaseNumbers, for any cases, callers and numbers.         *)
EXTENDS CaseNumbers, FiniteSetTheorems, TLAPS

USE CasesAssumption DEF CasesAssumption

FreeLock == [by |-> Nobody, start |-> 0]

(***************************************************************************)
(* The counter.  Whoever is inside allocate has found a number that is not *)
(* below the counter, and nobody has spoken for it before; all numbers     *)
(* allocated so far are below the counter, unless its file was lost.       *)
(***************************************************************************)

LockHoldsANumber ==
    \/ seqLock = FreeLock
    \/ \E c \in Clients, n \in Numbers : seqLock = [by |-> c, start |-> n]

\* A call is for one number or more, whoever makes it.
LEMMA SizeIsPositive == \A c : SizeOf(c) \in Nat \ {0}
BY DEF SizeOf

CounterIsAhead ==
    ~counterLost =>
        /\ nextCase \in Nat \ {0}
        /\ \A x \in holders : x[1] \in Nat /\ x[1] < nextCase
        /\ seqLock # FreeLock => nextCase <= seqLock.start

SpokenForIsTaken ==
    /\ spokenFor \subseteq Taken
    /\ seqLock # FreeLock => seqLock.start \notin spokenFor

SeqInv ==
    /\ counterLost \in BOOLEAN
    /\ LockHoldsANumber /\ CounterIsAhead /\ SpokenForIsTaken
    /\ OneHolder /\ SpokenForIsSkipped

LEMMA SeqInvInit == CaseInit => SeqInv
<1> SUFFICES ASSUME CaseInit PROVE SeqInv
  OBVIOUS
<1>1. /\ nextCase = 1 /\ seqLock = FreeLock /\ holders = {} /\ spokenFor = {}
      /\ counterLost = FALSE
  BY DEF CaseInit, FreeLock
<1>2. counterLost \in BOOLEAN BY <1>1
<1>3. LockHoldsANumber /\ OneHolder /\ SpokenForIsSkipped
  BY <1>1 DEF LockHoldsANumber, OneHolder, SpokenForIsSkipped
<1>4. CounterIsAhead BY <1>1, SMT DEF CounterIsAhead
<1>5. SpokenForIsTaken BY <1>1 DEF SpokenForIsTaken
<1> QED BY <1>2, <1>3, <1>4, <1>5 DEF SeqInv

LEMMA LockTaken ==
  ASSUME LockHoldsANumber, seqLock.by # Nobody
  PROVE  seqLock # FreeLock /\ seqLock.start \in Numbers /\ seqLock.by \in Clients
BY DEF LockHoldsANumber, FreeLock, Clients

LEMMA SeqInvStep == SeqInv /\ [CaseNext]_caseVars => SeqInv'
<1> SUFFICES ASSUME SeqInv, [CaseNext]_caseVars PROVE SeqInv'
  OBVIOUS
<1> USE DEF SeqInv, LockHoldsANumber, CounterIsAhead, SpokenForIsTaken, OneHolder,
            SpokenForIsSkipped, Taken
<1>1. ASSUME NEW c \in Clients, AllocateBegin(c) PROVE SeqInv'
  <2>1. PICK n \in Numbers : FirstFree(n) /\ seqLock' = [by |-> c, start |-> n]
    BY <1>1 DEF AllocateBegin
  <2>2. UNCHANGED <<nextCase, holders, spokenFor, counterLost, filed, reservedCases>>
    BY <1>1 DEF AllocateBegin
  <2>3. n \notin spokenFor /\ (~counterLost => nextCase <= n)
    BY <2>1 DEF FirstFree, ReadNext
  <2>4. seqLock'.start = n BY <2>1
  <2> QED BY <2>1, <2>2, <2>3, <2>4
<1>2. CASE AllocateEnd
  <2> DEFINE n == seqLock.start
             size == SizeOf(seqLock.by)
  <2>1. /\ seqLock # FreeLock /\ n \in Numbers
        /\ nextCase' = n + size /\ holders' = holders \cup NewHolders /\ seqLock' = FreeLock
        /\ UNCHANGED <<spokenFor, counterLost, filed, reservedCases>>
    BY <1>2, LockTaken DEF AllocateEnd, FreeLock
  <2>2. /\ n \in Nat \ {0} /\ size \in Nat \ {0}
        /\ \A x \in NewHolders : /\ x = <<x[1], Claimant(seqLock.by), n>>
                                 /\ x[1] \in n .. n + size - 1
    BY <2>1, SizeIsPositive DEF Numbers, NewHolders, Batch
  <2>3. \A x \in NewHolders : x[1] \in Nat /\ n <= x[1] /\ x[1] < n + size
    BY <2>2
  <2>4. n + size \in Nat \ {0} /\ n <= n + size
    BY <2>2
  <2>5. CounterIsAhead' /\ OneHolder'
    <3> SUFFICES ASSUME ~counterLost PROVE CounterIsAhead' /\ OneHolder'
      BY <2>1
    <3>1. /\ nextCase <= n /\ nextCase \in Nat
          /\ \A x \in holders : x[1] \in Nat /\ x[1] < nextCase
      BY <2>1
    <3>2. \A x \in holders : x[1] \in Nat /\ x[1] < n /\ x[1] < n + size
      BY <3>1, <2>2, <2>4
    <3>3. CounterIsAhead' BY <2>1, <2>3, <2>4, <3>2
    <3>4. ASSUME NEW x \in holders', NEW y \in holders', x[1] = y[1] PROVE x = y
      <4>1. CASE x \in holders /\ y \in holders BY <3>4, <4>1
      <4>2. CASE x \in NewHolders /\ y \in NewHolders BY <3>4, <2>2, <4>2
      <4>3. CASE x \in holders /\ y \in NewHolders BY <3>4, <3>2, <2>2, <2>3, <4>3
      <4>4. CASE x \in NewHolders /\ y \in holders BY <3>4, <3>2, <2>2, <2>3, <4>4
      <4> QED BY <2>1, <4>1, <4>2, <4>3, <4>4
    <3> QED BY <3>3, <3>4
  <2>6. SpokenForIsTaken' BY <2>1
  <2>7. SpokenForIsSkipped'
    <3>1. n \notin spokenFor BY <2>1
    <3>2. ASSUME NEW x \in NewHolders, x[1] \in spokenFor PROVE x[3] < x[1]
      <4>1. x[3] = n BY <2>2
      <4> QED BY <3>1, <3>2, <4>1, <2>2, <2>3
    <3> QED BY <2>1, <3>2
  <2> QED BY <2>1, <2>5, <2>6, <2>7
<1>3. ASSUME NEW n \in Foreign, Reserve(n) \/ FileByUid(n) PROVE SeqInv'
  <2>1. /\ UNCHANGED <<nextCase, seqLock, holders, counterLost>>
        /\ spokenFor' = spokenFor \cup FromElsewhere(n)
        /\ Taken' = Taken \cup {n}
    BY <1>3 DEF Reserve, FileByUid
  <2>2. /\ FromElsewhere(n) \subseteq {n}
        /\ seqLock # FreeLock => seqLock.start \notin FromElsewhere(n)
        /\ \A x \in holders : x[1] \notin FromElsewhere(n)
    <3>1. seqLock # FreeLock => seqLock.start \in Batch(seqLock.by, seqLock.start)
      BY SizeIsPositive DEF Batch, Numbers
    <3> QED BY <3>1 DEF FromElsewhere
  <2> QED BY <2>1, <2>2
<1>4. CASE LoseCounter BY <1>4 DEF LoseCounter
<1>5. CASE Reseed BY <1>5 DEF Reseed
<1>6. CASE BridgeDies
  <2>1. /\ seqLock' = seqLock \/ seqLock' = FreeLock
        /\ UNCHANGED <<nextCase, holders, spokenFor, counterLost, filed, reservedCases>>
    BY <1>6 DEF BridgeDies, FreeLock
  <2> QED BY <2>1
\* Everybody else may file a number they hold, or does nothing to the numbers.
<1>7. ASSUME UNCHANGED <<nextCase, seqLock, holders, spokenFor, counterLost, reservedCases>>,
             filed \subseteq filed'
      PROVE  SeqInv'
  BY <1>7
<1>8. ASSUME NEW h \in Handlers,
             UidBegin(h) \/ UidLink(h) \/ HandlerDies(h) \/ DropEmailCase(h)
      PROVE  SeqInv'
  BY <1>7, <1>8 DEF UidBegin, UidLink, HandlerDies, DropEmailCase, seqVars
<1>9. ASSUME NEW r, SubmitForm(r) \/ SubmitTaskForce(r) \/ WebTake(r) \/ JtfTake(r)
      PROVE  SeqInv'
  BY <1>7, <1>9 DEF SubmitForm, SubmitTaskForce, WebTake, JtfTake, seqVars
<1>10. CASE WebSpec \/ WebSpawn \/ WebAck \/ WebPublish \/ WebUnlink
  BY <1>7, <1>10 DEF WebSpec, WebSpawn, WebAck, WebPublish, WebUnlink, seqVars
<1>11. CASE JtfFill \/ JtfAck \/ JtfPublish \/ JtfUnlink
  BY <1>7, <1>11 DEF JtfFill, ParticipantSpec, AssignmentMessage, JtfAck, JtfPublish,
                     JtfUnlink, seqVars
<1>12. CASE UNCHANGED caseVars BY <1>7, <1>12 DEF caseVars, seqVars
<1> QED
  BY <1>1, <1>2, <1>3, <1>4, <1>5, <1>6, <1>8, <1>9, <1>10, <1>11, <1>12
  DEF CaseNext, WebStep, JtfStep

\* No number is allocated twice while the counter's file is there, however many ask
\* for one and whoever is killed.
THEOREM NumbersAreUnique == CaseSpec => []OneHolder
<1>1. SeqInv => OneHolder BY DEF SeqInv
<1> QED BY <1>1, SeqInvInit, SeqInvStep, PTL DEF CaseSpec

\* No allocation begins with a number that somebody had reserved or filed before it:
\* whoever asks for one number gets one nobody has spoken for.
THEOREM ReservedIsSkipped == CaseSpec => []SpokenForIsSkipped
<1>1. SeqInv => SpokenForIsSkipped BY DEF SeqInv
<1> QED BY <1>1, SeqInvInit, SeqInvStep, PTL DEF CaseSpec

-----------------------------------------------------------------------------
(* A mail and its number.  Whoever holds the lock of the links works on a   *)
(* mail that has no number yet, and everybody that is past it has the one   *)
(* that is on file.                                                        *)

LinkedIsOnFile ==
    \A h \in Handlers : handlers[h].step \in {"linked", "done"} =>
        handlers[h].case = uidCase[MailOf[h]] /\ handlers[h].case # 0

LinkingIsLocked ==
    \A h \in Handlers : handlers[h].step \in {"locked", "allocated"} =>
        /\ uidLock = h /\ uidCase[MailOf[h]] = 0
        /\ handlers[h].step = "allocated" => handlers[h].case # 0

AllocatorWaits ==
    /\ LockHoldsANumber
    /\ \A h \in Handlers : seqLock.by = h => handlers[h].step = "locked"

UidInv ==
    /\ DOMAIN uidCase = Uids
    /\ DOMAIN handlers = Handlers
    /\ LinkedIsOnFile /\ LinkingIsLocked /\ AllocatorWaits

LEMMA UidInvInit == CaseInit => UidInv
BY DEF CaseInit, UidInv, LinkedIsOnFile, LinkingIsLocked, AllocatorWaits,
       LockHoldsANumber, FreeLock

LEMMA UidInvStep == UidInv /\ [CaseNext]_caseVars => UidInv'
<1> SUFFICES ASSUME UidInv, [CaseNext]_caseVars PROVE UidInv'
  OBVIOUS
<1> USE DEF UidInv, LinkedIsOnFile, LinkingIsLocked, AllocatorWaits, LockHoldsANumber
<1>1. ASSUME NEW c \in Clients, AllocateBegin(c) PROVE UidInv'
  <2>1. PICK n \in Numbers : seqLock' = [by |-> c, start |-> n]
    BY <1>1 DEF AllocateBegin
  <2>2. /\ UNCHANGED <<uidLock, uidCase, handlers>>
        /\ c \in Handlers => handlers[c].step = "locked"
    BY <1>1 DEF AllocateBegin, AsksForCase
  <2>3. seqLock'.by = c BY <2>1
  <2> QED BY <2>1, <2>2, <2>3
<1>2. CASE AllocateEnd
  <2>1. PICK c \in Clients, n \in Numbers : seqLock.by = c /\ seqLock.start = n
    BY <1>2, LockTaken DEF AllocateEnd
  <2>2. /\ UNCHANGED <<uidLock, uidCase>> /\ seqLock' = FreeLock /\ n # 0
        /\ handlers' = IF c \in Handlers
                       THEN [handlers EXCEPT ![c] = [step |-> "allocated", case |-> n]]
                       ELSE handlers
    BY <1>2, <2>1 DEF AllocateEnd, Deliver, FreeLock, Numbers
  <2>3. seqLock'.by = Nobody BY <2>2 DEF FreeLock
  <2>4. CASE c \in Handlers BY <2>1, <2>2, <2>3, <2>4
  <2>5. CASE c \notin Handlers BY <2>2, <2>3, <2>5
  <2> QED BY <2>4, <2>5
<1>3. ASSUME NEW h \in Handlers, UidBegin(h) PROVE UidInv'
  <2>1. UNCHANGED <<uidCase, seqLock>> /\ handlers[h].step = "new" /\ uidLock = Nobody
    BY <1>3 DEF UidBegin
  <2>2. CASE uidCase[MailOf[h]] # 0
    BY <1>3, <2>1, <2>2 DEF UidBegin, CaseHandlerStep
  <2>3. CASE uidCase[MailOf[h]] = 0
    BY <1>3, <2>1, <2>3 DEF UidBegin, CaseHandlerStep
  <2> QED BY <2>2, <2>3
<1>4. ASSUME NEW h \in Handlers, UidLink(h) PROVE UidInv'
  <2>1. /\ uidCase' = [uidCase EXCEPT ![MailOf[h]] = handlers[h].case]
        /\ handlers' = [handlers EXCEPT ![h] = [step |-> "linked",
                                               case |-> handlers[h].case]]
        /\ handlers[h].case # 0 /\ uidLock = h /\ uidCase[MailOf[h]] = 0
        /\ seqLock' = seqLock /\ handlers[h].step = "allocated"
    BY <1>4 DEF UidLink, CaseHandlerStep
  <2>2. \A k \in Handlers \ {h} : handlers[k].step \notin {"locked", "allocated"}
    BY <2>1
  <2>3. LinkedIsOnFile' BY <2>1
  <2>4. LinkingIsLocked' BY <2>1, <2>2
  <2> QED BY <2>1, <2>3, <2>4
<1>5. ASSUME NEW h \in Handlers, HandlerDies(h) PROVE UidInv'
  BY <1>5 DEF HandlerDies, CaseHandlerStep
<1>6. ASSUME NEW h \in Handlers, DropEmailCase(h) PROVE UidInv'
  BY <1>6 DEF DropEmailCase, CaseHandlerStep, seqVars
<1>7. CASE BridgeDies
  <2>1. /\ UNCHANGED <<handlers, uidCase, uidLock>>
        /\ seqLock' = seqLock \/ seqLock' = FreeLock
    BY <1>7 DEF BridgeDies, FreeLock
  <2> QED BY <2>1 DEF FreeLock
\* Everybody else leaves the links alone.
<1>8. ASSUME UNCHANGED <<uidLock, uidCase, seqLock, handlers>> PROVE UidInv'
  BY <1>8
<1>9. CASE LoseCounter \/ Reseed BY <1>8, <1>9 DEF LoseCounter, Reseed
<1>10. ASSUME NEW n, Reserve(n) \/ FileByUid(n) \/ SubmitForm(n) \/ SubmitTaskForce(n)
                    \/ WebTake(n) \/ JtfTake(n)
       PROVE  UidInv'
  BY <1>8, <1>10 DEF Reserve, FileByUid, SubmitForm, SubmitTaskForce, WebTake, JtfTake,
                     seqVars
<1>11. CASE WebSpec \/ WebSpawn \/ WebAck \/ WebPublish \/ WebUnlink
  BY <1>8, <1>11 DEF WebSpec, WebSpawn, WebAck, WebPublish, WebUnlink, seqVars
<1>12. CASE JtfFill \/ JtfAck \/ JtfPublish \/ JtfUnlink
  BY <1>8, <1>12 DEF JtfFill, JtfAck, JtfPublish, JtfUnlink, seqVars
<1>13. CASE UNCHANGED caseVars BY <1>8, <1>13 DEF caseVars, seqVars
<1> QED
  BY <1>1, <1>2, <1>3, <1>4, <1>5, <1>6, <1>7, <1>9, <1>10, <1>11, <1>12, <1>13
  DEF CaseNext, WebStep, JtfStep

\* All handlers of one mail, at the same time or one after another was killed, work
\* under one number.
THEOREM MailHasOneCase == CaseSpec => []UidHasOneCase
<1>1. UidInv => UidHasOneCase BY DEF UidInv, LinkedIsOnFile, UidHasOneCase
<1> QED BY <1>1, UidInvInit, UidInvStep, PTL DEF CaseSpec

-----------------------------------------------------------------------------
(* A record and its deputies.  A record that carries a number is spawned     *)
(* under it and no other; a form without one costs a number each time it is *)
(* taken, and it is only taken again when a bridge died over it.            *)

DeputiesOf(r) == {d \in webDeputies : d[1] = r}

\* The bridge has spawned for it in this pass, or is through with it.
SpawnedFor(r) ==
    \/ r \notin webPending
    \/ web.record = r /\ web.step \in {"spawned", "acked", "published"}

FormIsNew(f) == f \notin webPending \cup webDone \cup webFailed

MailRecordHasANumber ==
    \A u \in Uids : u \in webPending \/ DeputiesOf(u) # {} => uidCase[u] # 0

NewFormHasNoDeputy ==
    \A f \in Forms : /\ FormIsNew(f) => DeputiesOf(f) = {}
                     /\ seqLock.by = f => formCase[f] = 0 /\ FormIsNew(f)

BridgeHasItsRecord ==
    /\ web.step # "idle" => web.record \in webPending
    /\ web.step = "number" => RecordCase(web.record) = 0
    /\ web.step \notin {"idle", "number"} =>
          RecordCase(web.record) \in {0, web.case}
    /\ web.step = "published" => web.record \in webDone
    /\ seqLock.by = "web" => web.step = "number"

NumberedHasOne ==
    \A r \in WebRecords :
        RecordCase(r) # 0 => DeputiesOf(r) \subseteq {<<r, RecordCase(r)>>}

UnnumberedPaysWithDeaths ==
    \A f \in Forms :
        formCase[f] = 0 =>
            /\ IsFiniteSet(DeputiesOf(f))
            /\ Cardinality(DeputiesOf(f)) <= bridgeDeaths + IF SpawnedFor(f) THEN 1 ELSE 0

DeputyInv ==
    /\ bridgeDeaths \in Nat
    /\ DOMAIN formCase = Forms
    /\ webPending \subseteq WebRecords
    /\ web = [step |-> web.step, record |-> web.record, case |-> web.case]
    /\ MailRecordHasANumber /\ NewFormHasNoDeputy /\ BridgeHasItsRecord
    /\ NumberedHasOne /\ UnnumberedPaysWithDeaths

LEMMA DeputyInvInit == CaseInit => DeputyInv
<1> SUFFICES ASSUME CaseInit PROVE DeputyInv
  OBVIOUS
<1>1. /\ webDeputies = {} /\ webPending = {} /\ webDone = {} /\ webFailed = {} /\ web = Idle
      /\ formCase = [f \in Forms |-> 0] /\ bridgeDeaths = 0 /\ seqLock.by = Nobody
      /\ uidCase = [u \in Uids |-> 0]
  BY DEF CaseInit
<1>2. \A r : DeputiesOf(r) = {}
  BY <1>1 DEF DeputiesOf
<1>3. MailRecordHasANumber /\ NewFormHasNoDeputy /\ BridgeHasItsRecord /\ NumberedHasOne
  BY <1>1, <1>2
  DEF MailRecordHasANumber, NewFormHasNoDeputy, BridgeHasItsRecord, NumberedHasOne, Idle
<1>4. UnnumberedPaysWithDeaths
  <2>1. \A f : SpawnedFor(f)
    BY <1>1 DEF SpawnedFor
  <2> QED BY <1>1, <1>2, <2>1, FS_EmptySet DEF UnnumberedPaysWithDeaths
<1> QED BY <1>1, <1>3, <1>4 DEF DeputyInv, Idle

\* What a death or another step that spawns nothing leaves of the account.
LEMMA AccountStays ==
  ASSUME DeputyInv, UNCHANGED <<webDeputies, formCase>>, bridgeDeaths' \in Nat,
         \/ /\ bridgeDeaths <= bridgeDeaths'
            /\ \A f \in Forms : SpawnedFor(f) /\ formCase[f] = 0 => SpawnedFor(f)'
         \/ bridgeDeaths' = bridgeDeaths + 1
  PROVE  UnnumberedPaysWithDeaths'
<1> SUFFICES ASSUME NEW f \in Forms, formCase[f] = 0
             PROVE  /\ IsFiniteSet(DeputiesOf(f))
                    /\ Cardinality(DeputiesOf(f))
                          <= bridgeDeaths' + IF SpawnedFor(f)' THEN 1 ELSE 0
  BY DEF UnnumberedPaysWithDeaths, DeputiesOf
<1>1. /\ IsFiniteSet(DeputiesOf(f)) /\ bridgeDeaths \in Nat
      /\ Cardinality(DeputiesOf(f)) <= bridgeDeaths + IF SpawnedFor(f) THEN 1 ELSE 0
  BY DEF DeputyInv, UnnumberedPaysWithDeaths
<1>2. Cardinality(DeputiesOf(f)) \in Nat
  BY <1>1, FS_CardinalityType
<1>3. CASE SpawnedFor(f)
  BY <1>1, <1>2, <1>3
<1>4. CASE ~SpawnedFor(f)
  BY <1>1, <1>2, <1>4
<1> QED BY <1>3, <1>4

LEMMA DeputyInvStep == SeqInv /\ UidInv /\ DeputyInv /\ [CaseNext]_caseVars => DeputyInv'
<1> SUFFICES ASSUME SeqInv, UidInv, DeputyInv, [CaseNext]_caseVars PROVE DeputyInv'
  OBVIOUS
<1> USE DEF DeputyInv
<1>a. ASSUME UNCHANGED webDeputies PROVE \A r : DeputiesOf(r)' = DeputiesOf(r)
  BY <1>a DEF DeputiesOf
\* A step that moves no record and gives no number.
<1>b. ASSUME UNCHANGED <<webVars, uidCase>>, seqLock' = seqLock \/ seqLock' = FreeLock,
             bridgeDeaths' \in {bridgeDeaths, bridgeDeaths + 1}
      PROVE  DeputyInv'
  <2>1. UNCHANGED <<webPending, webDone, webFailed, web, webDeputies, formCase>>
    BY <1>b DEF webVars
  <2>2. bridgeDeaths' \in Nat /\ bridgeDeaths <= bridgeDeaths'
    BY <1>b
  <2>3. \A f : SpawnedFor(f)' <=> SpawnedFor(f)
    BY <2>1 DEF SpawnedFor
  <2>4. UnnumberedPaysWithDeaths'
    BY <2>1, <2>2, <2>3, AccountStays
  <2>5. seqLock'.by = seqLock.by \/ seqLock'.by = Nobody
    BY <1>b DEF FreeLock
  <2>6. MailRecordHasANumber' /\ NumberedHasOne'
    BY <1>b, <2>1, <1>a DEF MailRecordHasANumber, NumberedHasOne, RecordCase
  <2>7. NewFormHasNoDeputy' /\ BridgeHasItsRecord'
    BY <1>b, <2>1, <1>a, <2>5
    DEF NewFormHasNoDeputy, BridgeHasItsRecord, RecordCase, FormIsNew
  <2> QED BY <2>1, <2>2, <2>4, <2>6, <2>7
\* A step of the bridge or a submission that spawns nobody.
<1>c. ASSUME UNCHANGED <<webDeputies, formCase, uidCase, seqLock, bridgeDeaths>>,
             webPending' \subseteq WebRecords,
             \A u \in Uids : u \in webPending' => uidCase[u] # 0,
             \A f \in Forms : FormIsNew(f)' => FormIsNew(f),
             \A f \in Forms : seqLock.by = f => FormIsNew(f)',
             \A f \in Forms : SpawnedFor(f) => SpawnedFor(f)' \/ FormIsNew(f),
             web' = [step |-> web'.step, record |-> web'.record, case |-> web'.case],
             BridgeHasItsRecord'
      PROVE  DeputyInv'
  <2>1. MailRecordHasANumber' /\ NumberedHasOne' /\ NewFormHasNoDeputy'
    BY <1>c, <1>a DEF MailRecordHasANumber, NumberedHasOne, NewFormHasNoDeputy, RecordCase
  <2>2. UnnumberedPaysWithDeaths'
    <3> SUFFICES ASSUME NEW f \in Forms, formCase[f] = 0
                 PROVE  /\ IsFiniteSet(DeputiesOf(f))
                        /\ Cardinality(DeputiesOf(f))
                              <= bridgeDeaths + IF SpawnedFor(f)' THEN 1 ELSE 0
      BY <1>c, <1>a DEF UnnumberedPaysWithDeaths
    <3>1. CASE FormIsNew(f)
      <4>1. DeputiesOf(f) = {}
        BY <3>1 DEF NewFormHasNoDeputy
      <4>2. 0 <= bridgeDeaths + IF SpawnedFor(f)' THEN 1 ELSE 0
        OBVIOUS
      <4> QED BY <4>1, <4>2, FS_EmptySet
    <3>2. CASE ~FormIsNew(f)
      <4>1. SpawnedFor(f) => SpawnedFor(f)'
        BY <1>c, <3>2
      <4>2. /\ IsFiniteSet(DeputiesOf(f))
            /\ Cardinality(DeputiesOf(f)) <= bridgeDeaths + IF SpawnedFor(f) THEN 1 ELSE 0
        BY DEF UnnumberedPaysWithDeaths
      <4>3. Cardinality(DeputiesOf(f)) \in Nat
        BY <4>2, FS_CardinalityType
      <4> QED BY <4>1, <4>2, <4>3
    <3> QED BY <3>1, <3>2
  <2> QED BY <1>c, <2>1, <2>2
<1>1. ASSUME NEW c \in Clients, AllocateBegin(c) PROVE DeputyInv'
  <2>1. PICK n \in Numbers : seqLock' = [by |-> c, start |-> n]
    BY <1>1 DEF AllocateBegin
  <2>2. /\ UNCHANGED <<webPending, webDone, webFailed, web, webDeputies, formCase, uidCase,
                       bridgeDeaths>>
        /\ c \in Forms => formCase[c] = 0 /\ FormIsNew(c)
        /\ c = "web" => web.step = "number"
    BY <1>1 DEF AllocateBegin, AsksForCase, FormIsNew, webVars
  <2>3. seqLock'.by = c
    BY <2>1
  <2>4. UnnumberedPaysWithDeaths'
    BY <2>2, AccountStays DEF SpawnedFor
  <2>5. MailRecordHasANumber' /\ NumberedHasOne'
    BY <1>a, <2>2 DEF MailRecordHasANumber, NumberedHasOne, RecordCase
  <2>6. NewFormHasNoDeputy' /\ BridgeHasItsRecord'
    BY <1>a, <2>2, <2>3 DEF NewFormHasNoDeputy, BridgeHasItsRecord, RecordCase, FormIsNew
  <2> QED BY <2>2, <2>4, <2>5, <2>6
<1>2. CASE AllocateEnd
  <2>1. PICK c \in Clients, n \in Numbers : seqLock.by = c /\ seqLock.start = n
    BY <1>2, LockTaken DEF AllocateEnd, SeqInv
  <2>2. /\ seqLock'.by = Nobody /\ n # 0
        /\ UNCHANGED <<webPending, webDone, webFailed, webDeputies, uidCase, bridgeDeaths>>
        /\ web' = IF c = "web" THEN [web EXCEPT !.step = "numbered", !.case = n] ELSE web
        /\ formCase' = IF c \in Forms THEN [formCase EXCEPT ![c] = n] ELSE formCase
    BY <1>2, <2>1 DEF AllocateEnd, Deliver, Numbers
  <2>3. CASE c \in Forms
    <3>1. /\ web' = web /\ formCase' = [formCase EXCEPT ![c] = n]
          /\ FormIsNew(c) /\ DeputiesOf(c) = {}
      BY <2>1, <2>2, <2>3 DEF NewFormHasNoDeputy
    <3>2. \A r \in WebRecords : r # c => RecordCase(r)' = RecordCase(r)
      BY <2>2, <3>1 DEF RecordCase
    <3>3. MailRecordHasANumber' /\ NewFormHasNoDeputy'
      BY <1>a, <2>2 DEF MailRecordHasANumber, NewFormHasNoDeputy, FormIsNew
    <3>4. web.step # "idle" => web.record \in WebRecords /\ web.record # c
      BY <3>1 DEF BridgeHasItsRecord, FormIsNew
    <3>5. BridgeHasItsRecord'
      BY <2>2, <3>1, <3>2, <3>4 DEF BridgeHasItsRecord
    <3>6. NumberedHasOne'
      BY <1>a, <2>2, <3>1, <3>2 DEF NumberedHasOne
    <3>7. UnnumberedPaysWithDeaths'
      <4>1. \A f \in Forms : formCase'[f] = 0 => f # c /\ formCase[f] = 0
        BY <2>2, <3>1
      <4>2. \A f \in Forms : SpawnedFor(f)' <=> SpawnedFor(f)
        BY <2>2, <3>1 DEF SpawnedFor
      <4> QED BY <1>a, <2>2, <4>1, <4>2 DEF UnnumberedPaysWithDeaths
    <3> QED BY <2>2, <3>1, <3>3, <3>5, <3>6, <3>7
  <2>4. CASE c = "web"
    <3>1. /\ web' = [web EXCEPT !.step = "numbered", !.case = n] /\ formCase' = formCase
          /\ web.step = "number" /\ RecordCase(web.record) = 0
      BY <2>1, <2>2, <2>4 DEF BridgeHasItsRecord
    <3>2. web' = [step |-> "numbered", record |-> web.record, case |-> n]
      BY <3>1
    <3>3. \A r : RecordCase(r)' = RecordCase(r)
      BY <2>2, <3>1 DEF RecordCase
    <3>4. MailRecordHasANumber' /\ NewFormHasNoDeputy' /\ NumberedHasOne'
      BY <1>a, <2>2, <3>1, <3>3
      DEF MailRecordHasANumber, NewFormHasNoDeputy, NumberedHasOne, FormIsNew
    <3>5. BridgeHasItsRecord'
      BY <2>2, <3>1, <3>2, <3>3 DEF BridgeHasItsRecord
    <3>6. UnnumberedPaysWithDeaths'
      BY <2>2, <3>1, <3>2, AccountStays DEF SpawnedFor
    <3> QED BY <2>2, <3>1, <3>2, <3>4, <3>5, <3>6
  <2>5. CASE c \notin Forms \cup {"web"}
    <3>1. UNCHANGED <<web, formCase>>
      BY <2>2, <2>5
    <3>2. seqLock' = FreeLock
      BY <1>2 DEF AllocateEnd, FreeLock
    <3> QED BY <1>b, <2>2, <3>1, <3>2 DEF webVars
  <2> QED BY <2>3, <2>4, <2>5
<1>3. ASSUME NEW h \in Handlers, UidLink(h) PROVE DeputyInv'
  <2>1. /\ uidCase' = [uidCase EXCEPT ![MailOf[h]] = handlers[h].case]
        /\ uidCase[MailOf[h]] = 0 /\ MailOf[h] \in Uids
        /\ UNCHANGED <<webPending, webDone, webFailed, web, webDeputies, formCase, seqLock,
                       bridgeDeaths>>
    BY <1>3 DEF UidLink, UidInv, LinkingIsLocked, webVars
  <2>2. MailOf[h] \notin webPending /\ DeputiesOf(MailOf[h]) = {}
    BY <2>1 DEF MailRecordHasANumber
  <2>3. \A r \in WebRecords : r # MailOf[h] => RecordCase(r)' = RecordCase(r)
    BY <2>1 DEF RecordCase, UidInv
  <2>4. MailRecordHasANumber' /\ NewFormHasNoDeputy' /\ NumberedHasOne'
    BY <1>a, <2>1, <2>2, <2>3
    DEF MailRecordHasANumber, NewFormHasNoDeputy, NumberedHasOne, FormIsNew, UidInv
  <2>5. web.step # "idle" => web.record \in WebRecords /\ web.record # MailOf[h]
    BY <2>2 DEF BridgeHasItsRecord
  <2>6. BridgeHasItsRecord'
    BY <2>1, <2>3, <2>5 DEF BridgeHasItsRecord
  <2>7. UnnumberedPaysWithDeaths'
    BY <2>1, AccountStays DEF SpawnedFor
  <2> QED BY <2>1, <2>4, <2>6, <2>7
<1>4. ASSUME NEW h \in Handlers, DropEmailCase(h) PROVE DeputyInv'
  <2>1. /\ webPending' = webPending \cup {MailOf[h]} /\ MailOf[h] \in Uids
        /\ uidCase[MailOf[h]] # 0
        /\ UNCHANGED <<webDone, webFailed, web, webDeputies, formCase, uidCase, seqLock,
                       bridgeDeaths>>
    BY <1>4 DEF DropEmailCase, UidInv, LinkedIsOnFile, seqVars
  <2>2. /\ \A f \in Forms : f # MailOf[h] /\ (FormIsNew(f)' <=> FormIsNew(f))
        /\ \A f \in Forms : SpawnedFor(f)' <=> SpawnedFor(f)
    BY <2>1 DEF FormIsNew, SpawnedFor
  <2>3. BridgeHasItsRecord'
    BY <2>1 DEF BridgeHasItsRecord, RecordCase
  <2>4. \A u \in Uids : u \in webPending' => uidCase[u] # 0
    BY <2>1 DEF MailRecordHasANumber
  <2>5. webPending' \subseteq WebRecords
    BY <2>1 DEF WebRecords
  <2> QED BY <1>c, <2>1, <2>2, <2>3, <2>4, <2>5 DEF NewFormHasNoDeputy
<1>5. ASSUME NEW f \in Forms, SubmitForm(f) PROVE DeputyInv'
  <2>1. /\ webPending' = webPending \cup {f} /\ FormIsNew(f) /\ seqLock.by # f
        /\ UNCHANGED <<webDone, webFailed, web, webDeputies, formCase, uidCase, seqLock,
                       bridgeDeaths>>
    BY <1>5 DEF SubmitForm, seqVars, FormIsNew
  <2>2. \A g \in Forms : /\ FormIsNew(g)' => FormIsNew(g)
                         /\ g # f /\ FormIsNew(g) => FormIsNew(g)'
                         /\ g # f /\ SpawnedFor(g) => SpawnedFor(g)'
    BY <2>1 DEF FormIsNew, SpawnedFor
  <2>3. BridgeHasItsRecord'
    BY <2>1 DEF BridgeHasItsRecord, RecordCase
  <2>4. \A u \in Uids : u \in webPending' => uidCase[u] # 0
    BY <2>1 DEF MailRecordHasANumber
  <2>5. webPending' \subseteq WebRecords
    BY <2>1 DEF WebRecords
  <2> QED BY <1>c, <2>1, <2>2, <2>3, <2>4, <2>5 DEF NewFormHasNoDeputy
<1>6. ASSUME NEW r \in WebRecords, WebTake(r) PROVE DeputyInv'
  <2>1. /\ web.step = "idle" /\ r \in webPending
        /\ UNCHANGED <<webDone, webDeputies, formCase, uidCase, seqLock, bridgeDeaths>>
        /\ \/ /\ webPending' = webPending \ {r} /\ webFailed' = webFailed \cup {r}
              /\ web' = web
           \/ /\ web' = [step |-> IF RecordCase(r) = 0 THEN "number" ELSE "numbered",
                         record |-> r, case |-> RecordCase(r)]
              /\ UNCHANGED <<webPending, webFailed>>
    BY <1>6 DEF WebTake, seqVars
  <2>2. /\ \A f \in Forms : FormIsNew(f)' <=> FormIsNew(f)
        /\ \A f \in Forms : SpawnedFor(f) => SpawnedFor(f)'
        /\ webPending' \subseteq webPending
    BY <2>1 DEF FormIsNew, SpawnedFor
  <2>3. RecordCase(r)' = RecordCase(r)
    BY <2>1 DEF RecordCase
  <2>4. BridgeHasItsRecord'
    BY <2>1, <2>3 DEF BridgeHasItsRecord
  <2>5. \A u \in Uids : u \in webPending' => uidCase[u] # 0
    BY <2>2 DEF MailRecordHasANumber
  <2>6. web' = [step |-> web'.step, record |-> web'.record, case |-> web'.case]
    BY <2>1
  <2>7. webPending' \subseteq WebRecords
    BY <2>2
  <2> QED BY <1>c, <2>1, <2>2, <2>4, <2>5, <2>6, <2>7 DEF NewFormHasNoDeputy
<1>7. CASE WebSpawn
  <2>1. PICK r \in webPending : r = web.record /\ r \in WebRecords
    BY <1>7 DEF WebSpawn, BridgeHasItsRecord
  <2>2. PICK n : n = web.case /\ RecordCase(r) \in {0, n}
    BY <1>7, <2>1 DEF WebSpawn, BridgeHasItsRecord
  <2>3. /\ web.step = "written"
        /\ UNCHANGED <<webDone, formCase, uidCase, seqLock, bridgeDeaths>>
        /\ webDeputies' \in {webDeputies, webDeputies \cup {<<r, n>>}}
        /\ \/ /\ web' = [web EXCEPT !.step = "spawned"]
              /\ UNCHANGED <<webPending, webFailed>>
           \/ /\ webPending' = webPending \ {r} /\ webFailed' = webFailed \cup {r}
              /\ web' = Idle
    BY <1>7, <2>1, <2>2 DEF WebSpawn, WebFail, seqVars
  <2>4. <<r, n>>[1] = r
    OBVIOUS
  <2>5. /\ DeputiesOf(r)' \in {DeputiesOf(r), DeputiesOf(r) \cup {<<r, n>>}}
        /\ \A x : x # r => DeputiesOf(x)' = DeputiesOf(x)
    BY <2>3, <2>4 DEF DeputiesOf
  <2>6. \A x : RecordCase(x)' = RecordCase(x)
    BY <2>3 DEF RecordCase
  <2>7. /\ \A f \in Forms : FormIsNew(f)' <=> FormIsNew(f)
        /\ ~FormIsNew(r) /\ webPending' \subseteq webPending
    BY <2>1, <2>3 DEF FormIsNew
  <2>8. /\ ~SpawnedFor(r) /\ SpawnedFor(r)'
        /\ \A f \in Forms : f # r => (SpawnedFor(f)' <=> SpawnedFor(f))
    BY <2>1, <2>3 DEF SpawnedFor, Idle
  <2>9. MailRecordHasANumber'
    BY <2>1, <2>3, <2>5, <2>7 DEF MailRecordHasANumber
  <2>10. NewFormHasNoDeputy'
    BY <2>3, <2>5, <2>7 DEF NewFormHasNoDeputy
  <2>11. BridgeHasItsRecord'
    BY <2>1, <2>3, <2>6 DEF BridgeHasItsRecord, Idle
  <2>12. NumberedHasOne'
    BY <2>1, <2>2, <2>5, <2>6 DEF NumberedHasOne
  <2>13. UnnumberedPaysWithDeaths'
    <3> SUFFICES ASSUME NEW f \in Forms, formCase[f] = 0
                 PROVE  /\ IsFiniteSet(DeputiesOf(f)')
                        /\ Cardinality(DeputiesOf(f)')
                              <= bridgeDeaths + IF SpawnedFor(f)' THEN 1 ELSE 0
      BY <2>3 DEF UnnumberedPaysWithDeaths
    <3>1. /\ IsFiniteSet(DeputiesOf(f))
          /\ Cardinality(DeputiesOf(f)) <= bridgeDeaths + IF SpawnedFor(f) THEN 1 ELSE 0
      BY DEF UnnumberedPaysWithDeaths
    <3>2. CASE f # r
      BY <2>5, <2>8, <3>1, <3>2
    <3>3. CASE f = r
      <4>1. /\ Cardinality(DeputiesOf(r)) <= bridgeDeaths
            /\ Cardinality(DeputiesOf(r)) \in Nat
        BY <2>8, <3>1, <3>3, FS_CardinalityType
      <4>2. /\ IsFiniteSet(DeputiesOf(r) \cup {<<r, n>>})
            /\ Cardinality(DeputiesOf(r) \cup {<<r, n>>}) \in
                  {Cardinality(DeputiesOf(r)), Cardinality(DeputiesOf(r)) + 1}
        BY <3>1, <3>3, FS_AddElement
      <4>3. /\ IsFiniteSet(DeputiesOf(r)')
            /\ Cardinality(DeputiesOf(r)') \in
                  {Cardinality(DeputiesOf(r)), Cardinality(DeputiesOf(r)) + 1}
        BY <2>5, <3>1, <3>3, <4>2
      <4> QED BY <2>8, <3>3, <4>1, <4>3
    <3> QED BY <3>2, <3>3
  <2>14. web' = [step |-> web'.step, record |-> web'.record, case |-> web'.case]
    BY <2>3 DEF Idle
  <2> QED BY <2>3, <2>7, <2>9, <2>10, <2>11, <2>12, <2>13, <2>14
<1>8. CASE WebSpec \/ WebAck \/ WebPublish \/ WebUnlink
  <2>1. /\ UNCHANGED <<webDeputies, formCase, uidCase, seqLock, bridgeDeaths>>
        /\ web.step \notin {"idle", "number"} /\ web.record \in webPending
    BY <1>8 DEF WebSpec, WebAck, WebPublish, WebUnlink, seqVars, BridgeHasItsRecord
  <2>2. CASE \E step \in {"written", "acked", "published"} :
                /\ web' = [web EXCEPT !.step = step]
                /\ web.step # "numbered" => step # "written"
                /\ UNCHANGED <<webPending, webFailed>>
                /\ webDone' = IF step = "published" THEN webDone \cup {web.record}
                              ELSE webDone
    <3>1. PICK step \in {"written", "acked", "published"} :
             /\ web' = [step |-> step, record |-> web.record, case |-> web.case]
             /\ web.step # "numbered" => step # "written"
             /\ UNCHANGED <<webPending, webFailed>>
             /\ webDone' = IF step = "published" THEN webDone \cup {web.record}
                           ELSE webDone
      BY <2>2
    <3>2. /\ \A f \in Forms : FormIsNew(f)' <=> FormIsNew(f)
          /\ \A f \in Forms : SpawnedFor(f) => SpawnedFor(f)'
      BY <2>1, <3>1 DEF FormIsNew, SpawnedFor
    <3>3. BridgeHasItsRecord'
      BY <2>1, <3>1 DEF BridgeHasItsRecord, RecordCase
    <3>4. \A u \in Uids : u \in webPending' => uidCase[u] # 0
      BY <3>1 DEF MailRecordHasANumber
    <3> QED BY <1>c, <2>1, <3>1, <3>2, <3>3, <3>4 DEF NewFormHasNoDeputy
  <2>3. CASE /\ webPending' = webPending \ {web.record} /\ webDone' = webDone
             /\ web' = Idle /\ webFailed \subseteq webFailed'
             /\ webFailed' \subseteq webFailed \cup {web.record}
             /\ web.record \in webDone \cup webFailed'
    <3>1. /\ \A f \in Forms : FormIsNew(f)' <=> FormIsNew(f)
          /\ \A f \in Forms : SpawnedFor(f) => SpawnedFor(f)'
      BY <2>1, <2>3 DEF FormIsNew, SpawnedFor
    <3>2. BridgeHasItsRecord'
      BY <2>1, <2>3 DEF BridgeHasItsRecord, Idle
    <3>3. \A u \in Uids : u \in webPending' => uidCase[u] # 0
      BY <2>3 DEF MailRecordHasANumber
    <3> QED BY <1>c, <2>1, <2>3, <3>1, <3>2, <3>3 DEF NewFormHasNoDeputy, Idle
  <2>4. CASE WebSpec BY <2>2, <2>4 DEF WebSpec
  <2>5. CASE WebAck BY <2>2, <2>3, <2>5 DEF WebAck, WebFail
  <2>6. CASE WebPublish BY <2>2, <2>6 DEF WebPublish
  <2>7. CASE WebUnlink BY <2>3, <2>7 DEF WebUnlink, BridgeHasItsRecord
  <2> QED BY <1>8, <2>4, <2>5, <2>6, <2>7
<1>9. CASE BridgeDies
  <2>1. /\ UNCHANGED <<webPending, webDone, webFailed, webDeputies, formCase, uidCase>>
        /\ bridgeDeaths' = bridgeDeaths + 1
        /\ \/ web' = Idle /\ seqLock'.by # "web"
           \/ web' = web
        /\ seqLock' = seqLock \/ seqLock'.by = Nobody
    BY <1>9 DEF BridgeDies
  <2>2. UnnumberedPaysWithDeaths'
    BY <2>1, AccountStays
  <2>3. MailRecordHasANumber' /\ NewFormHasNoDeputy' /\ NumberedHasOne'
    BY <1>a, <2>1
    DEF MailRecordHasANumber, NewFormHasNoDeputy, NumberedHasOne, FormIsNew, RecordCase
  <2>4. BridgeHasItsRecord'
    BY <2>1 DEF BridgeHasItsRecord, RecordCase, Idle
  <2> QED BY <2>1, <2>2, <2>3, <2>4 DEF Idle
<1>10. CASE LoseCounter \/ Reseed BY <1>b, <1>10 DEF LoseCounter, Reseed
<1>11. ASSUME NEW n, \/ Reserve(n) \/ FileByUid(n) \/ SubmitTaskForce(n) \/ JtfTake(n)
       PROVE  DeputyInv'
  BY <1>b, <1>11 DEF Reserve, FileByUid, SubmitTaskForce, JtfTake, seqVars
<1>12. ASSUME NEW h \in Handlers, UidBegin(h) \/ HandlerDies(h) PROVE DeputyInv'
  BY <1>b, <1>12 DEF UidBegin, HandlerDies
<1>13. CASE JtfFill \/ JtfAck \/ JtfPublish \/ JtfUnlink
  BY <1>b, <1>13 DEF JtfFill, JtfAck, JtfPublish, JtfUnlink, seqVars
<1>14. CASE UNCHANGED caseVars BY <1>b, <1>14 DEF caseVars, seqVars
<1> QED
  BY <1>1, <1>2, <1>3, <1>4, <1>5, <1>6, <1>7, <1>8, <1>9, <1>10, <1>11, <1>12, <1>13, <1>14
  DEF CaseNext, WebStep, JtfStep

\* A record gets one deputy, and a form without a number one more for each death
\* at most, for any records, handlers and deaths.
THEOREM OneDeputyEach == CaseSpec => []RecordHasOneDeputy
<1>1. SeqInv /\ UidInv /\ DeputyInv => RecordHasOneDeputy
  <2> SUFFICES ASSUME UidInv, DeputyInv, NEW r \in WebRecords
               PROVE  Cardinality(DeputiesOf(r))
                        <= 1 + IF RecordCase(r) = 0 THEN bridgeDeaths ELSE 0
    BY DEF RecordHasOneDeputy, DeputiesOf
  <2>1. CASE RecordCase(r) # 0
    <3>1. /\ DeputiesOf(r) \subseteq {<<r, RecordCase(r)>>}
          /\ IsFiniteSet({<<r, RecordCase(r)>>})
          /\ Cardinality({<<r, RecordCase(r)>>}) = 1
      BY <2>1, FS_Singleton DEF DeputyInv, NumberedHasOne
    <3>2. Cardinality(DeputiesOf(r)) <= 1
      BY <3>1, FS_Subset
    <3> QED BY <2>1, <3>2
  <2>2. CASE RecordCase(r) = 0 /\ r \in Forms
    <3>1. /\ IsFiniteSet(DeputiesOf(r)) /\ bridgeDeaths \in Nat
          /\ Cardinality(DeputiesOf(r)) <= bridgeDeaths + IF SpawnedFor(r) THEN 1 ELSE 0
      BY <2>2 DEF DeputyInv, UnnumberedPaysWithDeaths, RecordCase
    <3>2. Cardinality(DeputiesOf(r)) \in Nat
      BY <3>1, FS_CardinalityType
    <3> QED BY <2>2, <3>1, <3>2
  <2>3. CASE RecordCase(r) = 0 /\ r \notin Forms
    <3>1. DeputiesOf(r) = {} /\ bridgeDeaths \in Nat
      BY <2>3 DEF DeputyInv, MailRecordHasANumber, RecordCase, WebRecords
    <3> QED BY <2>3, <3>1, FS_EmptySet
  <2> QED BY <2>1, <2>2, <2>3
<1> QED
  BY <1>1, SeqInvInit, SeqInvStep, UidInvInit, UidInvStep, DeputyInvInit, DeputyInvStep, PTL
  DEF CaseSpec

=============================================================================
