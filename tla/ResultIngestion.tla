--------------------------- MODULE ResultIngestion ---------------------------
(***************************************************************************)
(* The result-ingestion service: concurrent POST /api/v1/results handlers  *)
(* that validate a report, claim its idempotency key in ingestion_log and  *)
(* publish it for fixture-core. The key is looked up, inserted and the     *)
(* message published in three steps that no transaction joins, and each    *)
(* of them may fail; a source that gets an error, or no answer, may send   *)
(* its report again.                                                       *)
(***************************************************************************)
EXTENDS Integers, Sequences

CONSTANTS
  Handler,        \* the HTTP handler goroutines
  Match,          \* the matches that reports are about
  Report,         \* the reports that sources send
  NoReport,
  Nil,            \* a score that the report leaves out
  MaxPublished,   \* bound on the stream at which Register may still fail
  Faults          \* may a store or NATS call fail, the process crash?

\* A report: the match and the goals of regular time, extra time, penalties.
IngestResultCmd ==
  [match: Match, home: Int, away: Int,
   homeET: Int \cup {Nil}, awayET: Int \cup {Nil},
   homePen: Int \cup {Nil}, awayPen: Int \cup {Nil}]

ASSUME ReportAssumption ==
  Nil \notin Int /\ Report \subseteq IngestResultCmd /\ NoReport \notin Report
ASSUME IngestionAssumption == MaxPublished \in Nat /\ Faults \in BOOLEAN

-----------------------------------------------------------------------------
(* The report.                                                             *)

Negative(g) == g # Nil /\ g < 0

\* Mutant: whether the extra time was level is not looked at.
ValidatesUnlevel(r) ==
  /\ r.home >= 0 /\ r.away >= 0
  /\ r.homeET = Nil <=> r.awayET = Nil
  /\ ~ Negative(r.homeET) /\ ~ Negative(r.awayET)
  /\ r.homePen # Nil \/ r.awayPen # Nil =>
       /\ r.homeET # Nil
       /\ r.homePen # Nil /\ r.awayPen # Nil
       /\ ~ Negative(r.homePen) /\ ~ Negative(r.awayPen)
       /\ r.homePen # r.awayPen

\* IngestedResult.validate, the rules on goals.
Validates(r) ==
  /\ r.home >= 0 /\ r.away >= 0
  /\ r.homeET = Nil <=> r.awayET = Nil
  /\ ~ Negative(r.homeET) /\ ~ Negative(r.awayET)
  /\ r.homePen # Nil \/ r.awayPen # Nil =>
       /\ r.homeET # Nil /\ r.homeET = r.awayET
       /\ r.homePen # Nil /\ r.awayPen # Nil
       /\ ~ Negative(r.homePen) /\ ~ Negative(r.awayPen)
       /\ r.homePen # r.awayPen

\* RegisterMatchResultCmd.validate of fixture-core, the rules on goals.
CoreValidates(r) ==
  /\ r.home >= 0 /\ r.away >= 0
  /\ ~ Negative(r.homeET) /\ ~ Negative(r.awayET)
  /\ r.homePen # Nil \/ r.awayPen # Nil =>
       /\ r.homeET # Nil /\ r.awayET # Nil /\ r.homeET = r.awayET
       /\ r.homePen # Nil /\ r.awayPen # Nil
       /\ r.homePen # r.awayPen

Goals(g) == IF g = Nil THEN 0 ELSE g

\* buildIdempotencyKey: the match and the total of goals of either side.
IdempotencyKey(r) ==
  <<r.match, r.home + Goals(r.homeET) + Goals(r.homePen),
             r.away + Goals(r.awayET) + Goals(r.awayPen)>>

Key == {IdempotencyKey(r) : r \in Report}

-----------------------------------------------------------------------------
VARIABLES
  ingestionLog,  \* the keys of the ingestion_log table
  pc,            \* where each handler is
  report,        \* the report it handles
  published,     \* what the stream holds of fixture.result.ingested
  confirmed,     \* history: the reports answered with success
  doubted,       \* history: the keys of an insert that returned an error
  abandoned      \* history: the keys claimed and not published for certain

vars == <<ingestionLog, pc, report, published, confirmed, doubted, abandoned>>

PC == {"idle", "exists", "register", "publish", "done", "failed"}

TypeOK ==
  /\ ingestionLog \in SUBSET Key
  /\ pc \in [Handler -> PC]
  /\ report \in [Handler -> Report \cup {NoReport}]
  /\ \A p \in Handler : pc[p] = "idle" \/ report[p] \in Report
  /\ published \in Seq(Report)
  /\ confirmed \in SUBSET Report
  /\ doubted \in SUBSET Key
  /\ abandoned \in SUBSET Key

Init ==
  /\ ingestionLog = {}
  /\ pc = [p \in Handler |-> "idle"]
  /\ report = [p \in Handler |-> NoReport]
  /\ published = <<>>
  /\ confirmed = {}
  /\ doubted = {}
  /\ abandoned = {}

KeyOf(p) == IdempotencyKey(report[p])

Goto(p, l) == pc' = [pc EXCEPT ![p] = l]

\* A source sends a report, for the first time or again.
IngestResult(p) ==
  /\ pc[p] = "idle"
  /\ \E r \in Report :
       /\ report' = [report EXCEPT ![p] = r]
       /\ Goto(p, IF Validates(r) THEN "exists" ELSE "failed")
  /\ UNCHANGED <<ingestionLog, published, confirmed, doubted, abandoned>>

Exists(p) ==
  /\ pc[p] = "exists"
  /\ Goto(p, IF KeyOf(p) \in ingestionLog THEN "done" ELSE "register")
  /\ UNCHANGED <<ingestionLog, report, published, confirmed, doubted,
                 abandoned>>

\* The lookup fails: logged only.
ExistsFails(p) ==
  /\ Faults
  /\ pc[p] = "exists"
  /\ Goto(p, "register")
  /\ UNCHANGED <<ingestionLog, report, published, confirmed, doubted,
                 abandoned>>

\* Mutant: the conflicting insert is not told from one that inserts.
RegisterBlindly(p) ==
  /\ pc[p] = "register"
  /\ ingestionLog' = ingestionLog \cup {KeyOf(p)}
  /\ Goto(p, "publish")
  /\ UNCHANGED <<report, published, confirmed, doubted, abandoned>>

\* Mutant: the test of RowsAffected is inverted.
RegisterInverted(p) ==
  /\ pc[p] = "register"
  /\ ingestionLog' = ingestionLog \cup {KeyOf(p)}
  /\ Goto(p, IF KeyOf(p) \in ingestionLog THEN "publish" ELSE "done")
  /\ UNCHANGED <<report, published, confirmed, doubted, abandoned>>

\* INSERT ... ON CONFLICT DO NOTHING: no row means another handler has the
\* report, which is a success.
Register(p) ==
  /\ pc[p] = "register"
  /\ ingestionLog' = ingestionLog \cup {KeyOf(p)}
  /\ Goto(p, IF KeyOf(p) \in ingestionLog THEN "done" ELSE "publish")
  /\ UNCHANGED <<report, published, confirmed, doubted, abandoned>>

\* Mutant: a failed insert is taken for a duplicate.
RegisterFailsAsDuplicate(p) ==
  /\ Faults
  /\ pc[p] = "register"
  /\ ingestionLog' \in {ingestionLog, ingestionLog \cup {KeyOf(p)}}
  /\ doubted' = doubted \cup {KeyOf(p)}
  /\ Goto(p, "done")
  /\ UNCHANGED <<report, published, confirmed, abandoned>>

\* The insert returns an error, with or without effect: logged only.
RegisterFails(p) ==
  /\ Faults
  /\ pc[p] = "register"
  /\ Len(published) < MaxPublished
  /\ ingestionLog' \in {ingestionLog, ingestionLog \cup {KeyOf(p)}}
  /\ doubted' = doubted \cup {KeyOf(p)}
  /\ Goto(p, "publish")
  /\ UNCHANGED <<report, published, confirmed, abandoned>>

Publish(p) ==
  /\ pc[p] = "publish"
  /\ published' = Append(published, report[p])
  /\ Goto(p, "done")
  /\ UNCHANGED <<ingestionLog, report, confirmed, doubted, abandoned>>

\* NATS is unavailable, or its ack is lost: 503, and the key stays claimed.
PublishFails(p) ==
  /\ Faults
  /\ pc[p] = "publish"
  /\ published' \in {published, Append(published, report[p])}
  /\ abandoned' = abandoned \cup {KeyOf(p)}
  /\ Goto(p, "failed")
  /\ UNCHANGED <<ingestionLog, report, confirmed, doubted>>

Reply(p) ==
  /\ pc[p] \in {"done", "failed"}
  /\ confirmed' = IF pc[p] = "done" THEN confirmed \cup {report[p]}
                                    ELSE confirmed
  /\ Goto(p, "idle")
  /\ report' = [report EXCEPT ![p] = NoReport]
  /\ UNCHANGED <<ingestionLog, published, doubted, abandoned>>

Publishing == {p \in Handler : pc[p] = "publish"}

\* The process dies: the handlers between claim and publication are lost.
Crash ==
  /\ Faults
  /\ pc' = [p \in Handler |-> "idle"]
  /\ report' = [p \in Handler |-> NoReport]
  /\ abandoned' = abandoned \cup {KeyOf(p) : p \in Publishing}
  /\ UNCHANGED <<ingestionLog, published, confirmed, doubted>>

HandlerStep(p) == Exists(p) \/ Register(p) \/ Publish(p) \/ Reply(p)

HandlerFault(p) == ExistsFails(p) \/ RegisterFails(p) \/ PublishFails(p)

Next ==
  \/ \E p \in Handler : IngestResult(p) \/ HandlerStep(p) \/ HandlerFault(p)
  \/ Crash

Spec == Init /\ [][Next]_vars

\* net/http runs each handler to its end. No source is obliged to report.
Fairness == \A p \in Handler : WF_vars(HandlerStep(p))

FairSpec == Spec /\ Fairness

-----------------------------------------------------------------------------
(* Safety.                                                                 *)

InStream(k) == \E i \in DOMAIN published : IdempotencyKey(published[i]) = k

InFlight(k) == \E p \in Publishing : KeyOf(p) = k

\* However many handlers get reports of one key at the same time or again, in
\* whatever order they look it up and insert it, the key is published at most
\* once, unless an insert of it returned an error.
OncePerKey ==
  \A i, j \in DOMAIN published :
    /\ IdempotencyKey(published[i]) = IdempotencyKey(published[j])
    /\ IdempotencyKey(published[i]) \notin doubted
    => i = j

\* A source is answered with success, as a duplicate or not, only when its
\* score is in the stream or a handler is about to put it there: database
\* errors lose no result. What can is a publication that fails or is cut by a
\* crash after the key was claimed.
ConfirmedIsOnItsWay ==
  \A r \in confirmed :
    LET k == IdempotencyKey(r)
    IN InStream(k) \/ InFlight(k) \/ k \in abandoned

\* fixture-core's own validation refuses no message of the stream, which it
\* would only negatively acknowledge until JetStream gives up.
PublishedPassesCore ==
  \A i \in DOMAIN published : CoreValidates(published[i])

(* The inductive invariant.                                                *)

\* The handlers past the insert hold the key they publish, alone unless an
\* insert of it failed, and it has not been published yet.
ClaimIsExclusive ==
  /\ \A p \in Publishing : KeyOf(p) \in ingestionLog \cup doubted
  /\ \A p, q \in Publishing :
       KeyOf(p) = KeyOf(q) /\ KeyOf(p) \notin doubted => p = q
  /\ \A i \in DOMAIN published :
       IdempotencyKey(published[i]) \in ingestionLog \cup doubted
  /\ \A p \in Publishing : InStream(KeyOf(p)) => KeyOf(p) \in doubted

\* A claimed key is in the stream, in flight or abandoned; so is that of a
\* handler about to answer with success.
ClaimIsHonoured ==
  /\ \A k \in ingestionLog : InStream(k) \/ InFlight(k) \/ k \in abandoned
  /\ \A p \in Handler : pc[p] = "done" =>
       InStream(KeyOf(p)) \/ InFlight(KeyOf(p)) \/ KeyOf(p) \in abandoned

OnlyValidReports ==
  /\ \A p \in Handler :
       pc[p] \in {"exists", "register", "publish"} => Validates(report[p])
  /\ \A i \in DOMAIN published : Validates(published[i])

IInv ==
  /\ TypeOK
  /\ ClaimIsExclusive
  /\ ClaimIsHonoured
  /\ OnlyValidReports
  /\ OncePerKey
  /\ ConfirmedIsOnItsWay

(* Liveness.                                                               *)

\* A key in ingestion_log, which makes every later report of that score a
\* duplicate, is eventually published or given up by the handler holding it.
ClaimIsSettled ==
  \A k \in Key : k \in ingestionLog ~> InStream(k) \/ k \in abandoned

\* result/errors.go: results reach fixture-core with at-least-once delivery.
\* They do not when a publication fails: the key is claimed by then, so the
\* retry of the source is answered as a duplicate and nothing is published.
DeliveredAtLeastOnce ==
  \A r \in Report : r \in confirmed ~> InStream(IdempotencyKey(r))
=============================================================================
