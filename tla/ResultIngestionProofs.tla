------------------------ MODULE ResultIngestionProofs ------------------------
(* Proofs about ResultIngestion: for any number of handlers and any set of *)
(* reports, whatever fails.                                                *)
EXTENDS ResultIngestion, TLAPS

USE ReportAssumption, IngestionAssumption

\* The key of a report that a handler works on is a key.
LEMMA KeyTyped ==
  ASSUME TypeOK, NEW p \in Handler, pc[p] # "idle"
  PROVE  /\ report[p] \in Report
         /\ KeyOf(p) \in Key
BY DEF TypeOK, KeyOf, Key

\* What an append does to the stream.
LEMMA AppendToStream ==
  ASSUME published \in Seq(Report), NEW r \in Report,
         published' = Append(published, r)
  PROVE  /\ published' \in Seq(Report)
         /\ DOMAIN published' = DOMAIN published \cup {Len(published) + 1}
         /\ Len(published) + 1 \notin DOMAIN published
         /\ published'[Len(published) + 1] = r
         /\ \A i \in DOMAIN published : published'[i] = published[i]
OBVIOUS

\* The stream only grows, by the score appended.
LEMMA StreamAfterAppend ==
  ASSUME published \in Seq(Report), NEW r \in Report,
         published' = Append(published, r), NEW k
  PROVE  InStream(k)' <=> InStream(k) \/ k = IdempotencyKey(r)
BY AppendToStream DEF InStream

\* A step that leaves the stream alone changes no key's presence in it.
LEMMA StreamUnchanged ==
  ASSUME UNCHANGED published, NEW k
  PROVE  InStream(k)' <=> InStream(k)
BY DEF InStream

\* The empty table and stream satisfy the invariant.
LEMMA InitIInv == Init => IInv
BY DEF Init, IInv, TypeOK, PC, ClaimIsExclusive, ClaimIsHonoured,
       OnlyValidReports, OncePerKey, ConfirmedIsOnItsWay, Publishing

-----------------------------------------------------------------------------
(* Types.                                                                  *)

\* Every step keeps the type invariant.
LEMMA StepType == ASSUME TypeOK, [Next]_vars PROVE TypeOK'
<1>1. CASE UNCHANGED vars
  BY <1>1 DEF TypeOK, vars
<1>2. ASSUME NEW p \in Handler, IngestResult(p) PROVE TypeOK'
  BY <1>2 DEF TypeOK, IngestResult, Goto, PC
<1>3. ASSUME NEW p \in Handler, HandlerStep(p) \/ HandlerFault(p)
      PROVE  TypeOK'
  <2>1. pc[p] \in PC \ {"idle"}
    BY <1>3 DEF TypeOK, PC, HandlerStep, HandlerFault, Exists, Register,
                Publish, Reply, ExistsFails, RegisterFails, PublishFails
  <2>2. report[p] \in Report /\ KeyOf(p) \in Key
    BY <2>1, KeyTyped
  <2>3. CASE Exists(p) \/ ExistsFails(p)
    BY <2>3 DEF TypeOK, Exists, ExistsFails, Goto, PC
  <2>4. CASE Register(p) \/ RegisterFails(p)
    BY <2>2, <2>4 DEF TypeOK, Register, RegisterFails, Goto, PC
  <2>5. CASE Publish(p) \/ PublishFails(p)
    <3>1. published' \in Seq(Report)
      BY <2>2, <2>5, AppendToStream DEF TypeOK, Publish, PublishFails
    <3>2. QED
      BY <2>2, <2>5, <3>1 DEF TypeOK, Publish, PublishFails, Goto, PC
  <2>6. CASE Reply(p)
    BY <2>2, <2>6 DEF TypeOK, Reply, Goto, PC
  <2>7. QED
    BY <1>3, <2>3, <2>4, <2>5, <2>6 DEF HandlerStep, HandlerFault
<1>4. CASE Crash
  <2>1. \A p \in Publishing : KeyOf(p) \in Key
    BY KeyTyped DEF Publishing
  <2>2. QED
    BY <1>4, <2>1 DEF TypeOK, Crash, PC
<1>5. QED
  BY <1>1, <1>2, <1>3, <1>4 DEF Next

-----------------------------------------------------------------------------
(* Steps that leave the claims alone: nobody starts or stops publishing,   *)
(* and neither the table nor the stream changes.                           *)

Quiet ==
  /\ UNCHANGED <<ingestionLog, published, doubted, abandoned>>
  /\ Publishing' = Publishing
  /\ \A p \in Publishing : report'[p] = report[p]

\* The actions that neither claim nor publish are quiet.
LEMMA QuietActions ==
  ASSUME TypeOK, NEW p \in Handler,
         IngestResult(p) \/ Exists(p) \/ ExistsFails(p) \/ Reply(p)
  PROVE  Quiet
BY DEF TypeOK, Quiet, Publishing, IngestResult, Exists, ExistsFails, Reply,
       Goto

\* A quiet step leaves every claim as it was.
LEMMA QuietKeepsClaims ==
  ASSUME Quiet
  PROVE  /\ \A p \in Publishing : KeyOf(p)' = KeyOf(p)
         /\ \A k : InStream(k)' <=> InStream(k)
         /\ \A k : InFlight(k)' <=> InFlight(k)
         /\ ClaimIsExclusive => ClaimIsExclusive'
         /\ OncePerKey => OncePerKey'
BY DEF Quiet, KeyOf, InStream, InFlight, ClaimIsExclusive, OncePerKey

-----------------------------------------------------------------------------
(* Claiming a key.                                                         *)

\* Handler p goes on to publish, having inserted a key nobody held, or with
\* an insert that failed.
LEMMA ClaimStep ==
  ASSUME IInv, TypeOK', NEW p \in Handler,
         Register(p) \/ RegisterFails(p)
  PROVE  ClaimIsExclusive' /\ OncePerKey'
<1> DEFINE k == KeyOf(p)
<1>1. /\ UNCHANGED <<published, report>>
      /\ \A q \in Handler : KeyOf(q)' = KeyOf(q)
      /\ p \notin Publishing
      /\ Publishing \subseteq Publishing' /\ Publishing' \subseteq Publishing \cup {p}
      /\ ingestionLog \subseteq ingestionLog' /\ doubted \subseteq doubted'
      /\ \A x : InStream(x)' <=> InStream(x)
  BY DEF IInv, TypeOK, Register, RegisterFails, Goto, KeyOf, Publishing,
         InStream
<1>2. p \in Publishing' =>
        \/ k \in doubted'
        \/ /\ k \in ingestionLog' /\ k \notin ingestionLog
           /\ doubted' = doubted
  BY DEF IInv, TypeOK, Register, RegisterFails, Goto, KeyOf, Publishing
<1>3. ASSUME p \in Publishing', k \notin doubted'
      PROVE  /\ k \in ingestionLog'
             /\ \A q \in Publishing : KeyOf(q) # k
             /\ ~ InStream(k)
  BY <1>1, <1>2, <1>3 DEF IInv, ClaimIsExclusive, InStream
<1>4. \A q \in Publishing' : KeyOf(q)' \in ingestionLog' \cup doubted'
  BY <1>1, <1>2 DEF IInv, ClaimIsExclusive, Publishing
<1>5. \A q, r \in Publishing' :
        KeyOf(q)' = KeyOf(r)' /\ KeyOf(q)' \notin doubted' => q = r
  BY <1>1, <1>3 DEF IInv, ClaimIsExclusive, Publishing
<1>6. \A i \in DOMAIN published' :
        IdempotencyKey(published'[i]) \in ingestionLog' \cup doubted'
  BY <1>1 DEF IInv, ClaimIsExclusive
<1>7. \A q \in Publishing' : InStream(KeyOf(q))' => KeyOf(q)' \in doubted'
  BY <1>1, <1>3 DEF IInv, ClaimIsExclusive, InStream, Publishing
<1>8. OncePerKey'
  BY <1>1 DEF IInv, OncePerKey
<1>9. QED
  BY <1>4, <1>5, <1>6, <1>7, <1>8 DEF ClaimIsExclusive

-----------------------------------------------------------------------------
(* Publishing.                                                             *)

\* The handler that appends its report is the only one with the key, which is
\* not in the stream yet.
LEMMA PublishStep ==
  ASSUME IInv, TypeOK', NEW p \in Handler, Publish(p) \/ PublishFails(p)
  PROVE  ClaimIsExclusive' /\ OncePerKey'
<1> DEFINE k == KeyOf(p)
<1>1. /\ report[p] \in Report /\ p \in Publishing
      /\ Publishing' = Publishing \ {p}
      /\ UNCHANGED <<ingestionLog, report, doubted>>
      /\ \A q \in Handler : KeyOf(q)' = KeyOf(q)
      /\ k = IdempotencyKey(report[p])
      /\ published \in Seq(Report)
  BY KeyTyped DEF IInv, TypeOK, Publish, PublishFails, Goto, KeyOf, Publishing
<1>2. CASE UNCHANGED published
  BY <1>1, <1>2 DEF IInv, ClaimIsExclusive, OncePerKey, InStream, Publishing
<1>3. CASE published' = Append(published, report[p])
  <2>1. \A x : InStream(x)' <=> InStream(x) \/ x = k
    BY <1>1, <1>3, StreamAfterAppend
  <2>2. k \in ingestionLog \cup doubted
    BY <1>1 DEF IInv, ClaimIsExclusive
  <2>3. \A q \in Publishing' : KeyOf(q) = k => k \in doubted
    BY <1>1 DEF IInv, ClaimIsExclusive
  <2>4. k \notin doubted => ~ InStream(k)
    BY <1>1 DEF IInv, ClaimIsExclusive
  <2>5. /\ DOMAIN published' = DOMAIN published \cup {Len(published) + 1}
        /\ published'[Len(published) + 1] = report[p]
        /\ \A i \in DOMAIN published : published'[i] = published[i]
    BY <1>1, <1>3, AppendToStream
  <2>6. \A q \in Publishing' : InStream(KeyOf(q))' => KeyOf(q)' \in doubted'
    BY <1>1, <2>1, <2>3 DEF IInv, ClaimIsExclusive, InStream, Publishing
  <2>7. ASSUME NEW i \in DOMAIN published'
        PROVE  IdempotencyKey(published'[i]) \in ingestionLog' \cup doubted'
    BY <1>1, <2>2, <2>5 DEF IInv, ClaimIsExclusive
  <2>8. OncePerKey'
    <3>1. \A i \in DOMAIN published :
            k \notin doubted => IdempotencyKey(published[i]) # k
      BY <2>4 DEF InStream
    <3>2. QED
      BY <1>1, <2>5, <3>1 DEF IInv, OncePerKey
  <2>9. QED
    BY <1>1, <2>6, <2>7, <2>8 DEF IInv, ClaimIsExclusive, Publishing
<1>4. QED
  BY <1>2, <1>3 DEF Publish, PublishFails

-----------------------------------------------------------------------------
(* What becomes of a key, whatever the step: the stream and the set of     *)
(* abandoned keys only grow, and a handler that stops publishing a key     *)
(* leaves it in one of the two.                                            *)

Accounted(k) == InStream(k) \/ InFlight(k) \/ k \in abandoned

\* A key once accounted for stays so: the handler in flight publishes it or
\* abandons it.
LEMMA AccountedPersists ==
  ASSUME IInv, TypeOK', [Next]_vars, NEW k, Accounted(k)
  PROVE  Accounted(k)'
<1>1. CASE UNCHANGED vars
  BY <1>1 DEF vars, Accounted, InStream, InFlight, Publishing, KeyOf
<1>2. ASSUME NEW p \in Handler,
             IngestResult(p) \/ Exists(p) \/ ExistsFails(p) \/ Reply(p)
      PROVE  Accounted(k)'
  <2>1. Quiet
    BY <1>2, QuietActions DEF IInv
  <2>2. QED
    BY <2>1, QuietKeepsClaims DEF Accounted, Quiet
<1>3. ASSUME NEW p \in Handler, Register(p) \/ RegisterFails(p)
      PROVE  Accounted(k)'
  <2>1. /\ UNCHANGED <<published, report, abandoned>>
        /\ Publishing \subseteq Publishing'
    BY <1>3 DEF IInv, TypeOK, Register, RegisterFails, Goto, Publishing
  <2>2. QED
    BY <2>1 DEF Accounted, InStream, InFlight, KeyOf
<1>4. ASSUME NEW p \in Handler, Publish(p) \/ PublishFails(p)
      PROVE  Accounted(k)'
  <2>1. /\ report[p] \in Report /\ published \in Seq(Report)
        /\ Publishing' = Publishing \ {p}
        /\ UNCHANGED report /\ abandoned \subseteq abandoned'
        /\ pc[p] # "idle"
    BY <1>4, KeyTyped
       DEF IInv, TypeOK, Publish, PublishFails, Goto, Publishing
  <2>2. UNCHANGED published \/ published' = Append(published, report[p])
    BY <1>4 DEF Publish, PublishFails
  <2>3. InStream(k) => InStream(k)'
    BY <2>1, <2>2, StreamAfterAppend, StreamUnchanged
  <2>4. InStream(KeyOf(p))' \/ KeyOf(p) \in abandoned'
    BY <1>4, <2>1, StreamAfterAppend DEF Publish, PublishFails, KeyOf
  <2>5. InFlight(k) => Accounted(k)'
    BY <2>1, <2>4 DEF Accounted, InFlight, KeyOf
  <2>6. QED
    BY <2>1, <2>3, <2>5 DEF Accounted
<1>5. CASE Crash
  BY <1>5 DEF Crash, Accounted, InStream, InFlight
<1>6. QED
  BY <1>1, <1>2, <1>3, <1>4, <1>5 DEF Next, HandlerStep, HandlerFault

\* A key that enters the table is in flight, and a handler becomes done by
\* finding its key in the table or by publishing it.
LEMMA HonourStep ==
  ASSUME IInv, TypeOK', [Next]_vars
  PROVE  ClaimIsHonoured'
<1>1. \A k : Accounted(k) => Accounted(k)'
  BY AccountedPersists
<1>2. \A k \in ingestionLog : Accounted(k)
  BY DEF IInv, ClaimIsHonoured, Accounted
<1>3. \A p \in Handler, k \in Key :
        pc[p] = "done" /\ KeyOf(p) = k => Accounted(k)
  BY DEF IInv, ClaimIsHonoured, Accounted
<1>4. ASSUME NEW k \in ingestionLog' PROVE Accounted(k)'
  <2>1. CASE k \in ingestionLog
    BY <1>1, <1>2, <2>1
  <2>2. CASE k \notin ingestionLog
    <3>1. PICK p \in Handler : Register(p) \/ RegisterFails(p)
      BY <2>2 DEF Next, vars, HandlerStep, HandlerFault, IngestResult, Exists,
                  ExistsFails, Publish, PublishFails, Reply, Crash
    <3>2. k = KeyOf(p) /\ pc'[p] = "publish" /\ UNCHANGED report
      BY <2>2, <3>1 DEF IInv, TypeOK, Register, RegisterFails, Goto
    <3>3. QED
      BY <3>2 DEF Accounted, InFlight, Publishing, KeyOf
  <2>3. QED
    BY <2>1, <2>2
<1>5. ASSUME NEW p \in Handler, pc'[p] = "done", NEW k \in Key, KeyOf(p)' = k
      PROVE  Accounted(k)'
  <2>1. CASE pc[p] = "done" /\ report'[p] = report[p]
    BY <1>1, <1>3, <1>5, <2>1 DEF KeyOf
  <2>2. CASE Exists(p) \/ Register(p)
    <3>1. UNCHANGED report /\ k \in ingestionLog
      BY <1>5, <2>2 DEF IInv, TypeOK, Exists, Register, Goto, KeyOf
    <3>2. QED
      BY <1>1, <1>2, <3>1
  <2>3. CASE Publish(p)
    <3>1. report[p] \in Report /\ published \in Seq(Report)
      BY <2>3, KeyTyped DEF IInv, TypeOK, Publish
    <3>2. InStream(k)' <=> InStream(k) \/ k = IdempotencyKey(report[p])
      BY <2>3, <3>1, StreamAfterAppend DEF Publish
    <3>3. QED
      BY <1>5, <2>3, <3>2 DEF Publish, Accounted, KeyOf
  <2>4. \/ pc[p] = "done" /\ report'[p] = report[p]
        \/ Exists(p) \/ Register(p) \/ Publish(p)
    BY <1>5 DEF IInv, TypeOK, Next, vars, HandlerStep, HandlerFault, Goto,
                IngestResult, Exists, ExistsFails, Register, RegisterFails,
                Publish, PublishFails, Reply, Crash
  <2>5. QED
    BY <2>1, <2>2, <2>3, <2>4
<1>6. \A p \in Handler : pc'[p] = "done" => KeyOf(p)' \in Key
  BY DEF TypeOK, KeyOf, Key
<1>7. QED
  BY <1>4, <1>5, <1>6 DEF ClaimIsHonoured, Accounted

\* Only a handler that is done confirms its report.
LEMMA ConfirmStep ==
  ASSUME IInv, TypeOK', [Next]_vars
  PROVE  ConfirmedIsOnItsWay'
<1>1. \A k : Accounted(k) => Accounted(k)'
  BY AccountedPersists
<1>2. ASSUME NEW r \in confirmed' PROVE Accounted(IdempotencyKey(r))
  <2>1. CASE r \in confirmed
    BY <2>1 DEF IInv, ConfirmedIsOnItsWay, Accounted
  <2>2. CASE r \notin confirmed
    <3>1. PICK p \in Handler : Reply(p)
      BY <1>2, <2>2 DEF Next, vars, HandlerStep, HandlerFault, IngestResult,
           Exists, ExistsFails, Register, RegisterFails, Publish,
           PublishFails, Crash
    <3>2. pc[p] = "done" /\ r = report[p]
      BY <1>2, <2>2, <3>1 DEF Reply
    <3>3. QED
      BY <3>2 DEF IInv, ClaimIsHonoured, Accounted, KeyOf
  <2>3. QED
    BY <2>1, <2>2
<1>3. QED
  BY <1>1, <1>2 DEF ConfirmedIsOnItsWay, Accounted

\* Reports are validated before anything else is done with them.
LEMMA ValidStep ==
  ASSUME IInv, TypeOK', [Next]_vars
  PROVE  OnlyValidReports'
<1>1. CASE UNCHANGED vars
  BY <1>1 DEF IInv, OnlyValidReports, vars
<1>2. ASSUME NEW p \in Handler, IngestResult(p) PROVE OnlyValidReports'
  BY <1>2 DEF IInv, TypeOK, OnlyValidReports, IngestResult, Goto
<1>3. ASSUME NEW p \in Handler,
             Exists(p) \/ ExistsFails(p) \/ Register(p) \/ RegisterFails(p)
      PROVE  OnlyValidReports'
  BY <1>3 DEF IInv, TypeOK, OnlyValidReports, Exists, ExistsFails, Register,
              RegisterFails, Goto
<1>4. ASSUME NEW p \in Handler, Publish(p) \/ PublishFails(p)
      PROVE  OnlyValidReports'
  <2>1. /\ report[p] \in Report /\ Validates(report[p])
        /\ published \in Seq(Report)
    BY <1>4, KeyTyped DEF IInv, TypeOK, OnlyValidReports, Publish, PublishFails
  <2>2. \A i \in DOMAIN published' : Validates(published'[i])
    <3>1. CASE UNCHANGED published
      BY <3>1 DEF IInv, OnlyValidReports
    <3>2. CASE published' = Append(published, report[p])
      BY <2>1, <3>2, AppendToStream DEF IInv, OnlyValidReports
    <3>3. QED
      BY <1>4, <3>1, <3>2 DEF Publish, PublishFails
  <2>3. QED
    BY <1>4, <2>2
       DEF IInv, TypeOK, OnlyValidReports, Publish, PublishFails, Goto
<1>5. ASSUME NEW p \in Handler, Reply(p) PROVE OnlyValidReports'
  BY <1>5 DEF IInv, TypeOK, OnlyValidReports, Reply, Goto
<1>6. CASE Crash
  BY <1>6 DEF IInv, OnlyValidReports, Crash
<1>7. QED
  BY <1>1, <1>2, <1>3, <1>4, <1>5, <1>6 DEF Next, HandlerStep, HandlerFault

-----------------------------------------------------------------------------
\* Every step keeps claims exclusive and keys published once.
LEMMA StepExclusive ==
  ASSUME IInv, TypeOK', [Next]_vars
  PROVE  ClaimIsExclusive' /\ OncePerKey'
<1>1. CASE UNCHANGED vars
  BY <1>1 DEF IInv, vars, ClaimIsExclusive, OncePerKey, InStream, Publishing,
              KeyOf
<1>2. ASSUME NEW p \in Handler,
             IngestResult(p) \/ Exists(p) \/ ExistsFails(p) \/ Reply(p)
      PROVE  ClaimIsExclusive' /\ OncePerKey'
  BY <1>2, QuietActions, QuietKeepsClaims DEF IInv
<1>3. CASE Crash
  BY <1>3 DEF IInv, Crash, ClaimIsExclusive, OncePerKey, Publishing
<1>4. QED
  BY <1>1, <1>2, <1>3, ClaimStep, PublishStep
     DEF Next, HandlerStep, HandlerFault

\* The invariant is inductive.
LEMMA IInvStep == IInv /\ [Next]_vars => IInv'
<1>1. SUFFICES ASSUME IInv, [Next]_vars PROVE IInv'
  OBVIOUS
<1>2. TypeOK'
  BY <1>1, StepType DEF IInv
<1>3. QED
  BY <1>1, <1>2, StepExclusive, HonourStep, ConfirmStep, ValidStep DEF IInv

\* The strengthening that the runs check holds in every state: every claim on a
\* key is one handler's or spent, and it is spent on a publication or a failure,
\* for any handlers, reports, bounds and crashes.
THEOREM Invariance == Spec => []IInv
BY InitIInv, IInvStep, PTL DEF Spec

\* What result-ingestion accepts fixture-core accepts: for any scores, the
\* validation of a report implies that of the command made of it.
LEMMA ValidationAgrees ==
  ASSUME NEW r \in IngestResultCmd, Validates(r)
  PROVE  CoreValidates(r)
BY DEF IngestResultCmd, Validates, CoreValidates, Negative

\* No key is published twice unless an insert of it returned an error, for
\* any number of concurrent handlers, retries and crashes.
THEOREM PublishedAtMostOnce == Spec => []OncePerKey
<1>1. IInv => OncePerKey
  BY DEF IInv
<1>2. QED
  BY <1>1, Invariance, PTL

\* A source told that its report is in has a result in the stream, or about to
\* be, unless a publication of that very key failed or was cut by a crash.
THEOREM ConfirmationIsEarned == Spec => []ConfirmedIsOnItsWay
<1>1. IInv => ConfirmedIsOnItsWay
  BY DEF IInv
<1>2. QED
  BY <1>1, Invariance, PTL

\* fixture-core never refuses the score of an ingested message as invalid.
THEOREM StreamPassesCore == Spec => []PublishedPassesCore
<1>1. IInv => PublishedPassesCore
  <2>1. SUFFICES ASSUME IInv, NEW i \in DOMAIN published
                 PROVE  CoreValidates(published[i])
    BY DEF PublishedPassesCore
  <2>2. published[i] \in Report /\ Validates(published[i])
    BY <2>1 DEF IInv, TypeOK, OnlyValidReports
  <2>3. QED
    BY <2>2, ValidationAgrees
<1>2. QED
  BY <1>1, Invariance, PTL
=============================================================================
