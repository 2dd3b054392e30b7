-------------------------- MODULE ServerJobs_proofs --------------------------
(***************************************************************************)
(* Proofs about ServerJobs, for any number of migrations, messages,        *)
(* failures and restarts.                                                  *)
(***************************************************************************)
EXTENDS ServerJobs, FiniteSetTheorems, TLAPS

Settings == [version : Nat, optional : {"ask", "done", "declined"}]

-----------------------------------------------------------------------------
(* What is recorded was done *)

\* The worker looks at a step when all before it are done, and records one that is.
StepsInOrder ==
  /\ at = "step" => 1 .. (next - 1) \subseteq done
  /\ at = "record" => 1 .. next \subseteq done

RecordInv ==
  /\ settings \in Settings
  /\ saved \in Settings \cup {Unreadable}
  /\ done \subseteq Nat /\ next \in Nat
  /\ StepsInOrder
  /\ RecordedIsDone

LEMMA InitRecordInv == Init => RecordInv
BY SMT DEF Init, RecordInv, Settings, StepsInOrder, RecordedIsDone

\* A change of the settings that leaves the version where it was, or sets it to what is done.
LEMMA UpdateSettingsRecords ==
  ASSUME RecordInv, NEW new \in Settings, 1 .. new.version \subseteq done',
         done \subseteq done', UpdateSettings(new)
  PROVE  /\ settings' \in Settings
         /\ saved' \in Settings \cup {Unreadable}
         /\ RecordedIsDone'
BY DEF UpdateSettings, RecordInv, RecordedIsDone

LEMMA NextRecordInv == RecordInv /\ [Next]_vars => RecordInv'
<1> SUFFICES ASSUME RecordInv, [Next]_vars PROVE RecordInv'
  OBVIOUS
<1> USE DEF RecordInv, StepsInOrder
<1>1. CASE Users \/ TimerFires \/ UNCHANGED vars
  BY <1>1 DEF Users, ChangePackage, ActivatePackage, ChooseUpdate, AddContact, Answer, TimerFires,
              vars, server, worker, world, RecordedIsDone
<1>2. CASE HandleChange \/ HandleUpdate \/ HandleUpdated \/ HandleQuestion \/ HandleYes \/ HandleLater
  BY <1>2 DEF HandleChange, HandleUpdate, HandleUpdated, HandleQuestion, HandleYes, HandleLater,
              worker, world, RecordedIsDone
<1>3. CASE HandleNever
  <2> DEFINE new == [settings EXCEPT !.optional = "declined"]
  <2>1. new \in Settings /\ new.version = settings.version
    BY DEF Settings
  <2>2. UNCHANGED <<at, next, done>> /\ UpdateSettings(new)
    BY <1>3 DEF HandleNever, worker
  <2> QED
    BY <2>1, <2>2, UpdateSettingsRecords DEF RecordedIsDone
<1>4. CASE BeginMigrations
  <2>1. /\ at' = "step" /\ next' = settings.version + 1
        /\ UNCHANGED <<settings, saved, done>>
    BY <1>4 DEF BeginMigrations, server, world
  <2> QED
    BY <2>1, SMT DEF RecordedIsDone, Settings
<1>5. CASE RunStep
  <2>1. /\ UNCHANGED <<settings, saved, next>>
        /\ at = "step"
        /\ \/ done' = done \cup {next} /\ at' = "record"
           \/ done' = done /\ at' = "ask"
    BY <1>5 DEF RunStep, Works, server
  <2>2. 1 .. (next - 1) \subseteq done
    BY <2>1
  <2>3. 1 .. next \subseteq done \cup {next}
    BY <2>2, SMT
  <2>4. CASE done' = done \cup {next} /\ at' = "record"
    BY <2>1, <2>3, <2>4 DEF RecordedIsDone
  <2>5. CASE done' = done /\ at' = "ask"
    BY <2>1, <2>5 DEF RecordedIsDone
  <2> QED
    BY <2>1, <2>4, <2>5
<1>6. CASE RecordVersion
  <2> DEFINE new == [settings EXCEPT !.version = next]
  <2>1. /\ done' = done /\ UpdateSettings(new) /\ at = "record"
        /\ \/ at' = "step" /\ next' = next + 1
           \/ at' = "ask" /\ next' = next
    BY <1>6 DEF RecordVersion, Works
  <2>2. new \in Settings /\ new.version = next
    BY DEF Settings
  <2>3. settings' \in Settings /\ saved' \in Settings \cup {Unreadable} /\ RecordedIsDone'
    BY <2>1, <2>2, UpdateSettingsRecords
  <2> QED
    BY <2>1, <2>3, SMT
<1>7. CASE EndSteps \/ BeginOntologies
  BY <1>7 DEF EndSteps, BeginOntologies, server, world, RecordedIsDone
<1>8. CASE AskOptional \/ EndOntologies
  <2>1. UNCHANGED <<settings, saved, done>> /\ at' = "idle" /\ next' = 0
    BY <1>8 DEF AskOptional, EndOntologies, Finish, world
  <2> QED
    BY <2>1 DEF RecordedIsDone
<1>9. CASE RunOptionalStep
  <2> DEFINE new == [settings EXCEPT !.optional = "done"]
  <2>1. /\ done' = done /\ at' = "idle" /\ next' = 0
        /\ UpdateSettings(new) \/ UNCHANGED <<settings, saved>>
    BY <1>9 DEF RunOptionalStep, Finish
  <2>2. new \in Settings /\ new.version = settings.version
    BY DEF Settings
  <2> QED
    BY <2>1, <2>2, UpdateSettingsRecords DEF RecordedIsDone
<1>10. CASE Stop
  BY <1>10 DEF Stop, world, RecordedIsDone
<1>11. CASE Start
  BY <1>11 DEF Start, world, RecordedIsDone
<1> QED
  BY <1>1, <1>2, <1>3, <1>4, <1>5, <1>6, <1>7, <1>8, <1>9, <1>10, <1>11 DEF Next, Handle, Work

\* In all states, after any failures and restarts, all steps up to the version that
\* is known or saved were done completely.
THEOREM RecordedIsAlwaysDone == Spec => []RecordedIsDone
<1>1. RecordInv => RecordedIsDone
  BY DEF RecordInv
<1> QED
  BY <1>1, InitRecordInv, NextRecordInv, PTL DEF Spec

-----------------------------------------------------------------------------
(* How many messages or jobs of some kinds are in a queue *)

CountIn(s, kinds) == Cardinality({i \in DOMAIN s : s[i] \in kinds})

Is(e, kinds) == IF e \in kinds THEN 1 ELSE 0

LEMMA CountIsCountIn ==
  ASSUME NEW s, NEW what
  PROVE  Count(s, what) = CountIn(s, {what})
<1>1. {i \in DOMAIN s : s[i] = what} = {i \in DOMAIN s : s[i] \in {what}}
  OBVIOUS
<1> QED
  BY <1>1 DEF Count, CountIn

LEMMA CountInType ==
  ASSUME NEW S, NEW s \in Seq(S), NEW kinds
  PROVE  /\ IsFiniteSet({i \in DOMAIN s : s[i] \in kinds})
         /\ CountIn(s, kinds) \in Nat
<1>1. IsFiniteSet(1 .. Len(s))
  BY FS_Interval
<1>2. {i \in DOMAIN s : s[i] \in kinds} \in SUBSET (1 .. Len(s))
  OBVIOUS
<1> QED
  BY <1>1, <1>2, FS_Subset, FS_CardinalityType DEF CountIn

LEMMA CountInEmpty ==
  ASSUME NEW kinds
  PROVE  CountIn(<<>>, kinds) = 0
<1>1. {i \in DOMAIN <<>> : <<>>[i] \in kinds} = {}
  OBVIOUS
<1> QED
  BY <1>1, FS_EmptySet DEF CountIn

\* A kind of its own is none if all kinds together are none.
LEMMA CountInPart ==
  ASSUME NEW S, NEW s \in Seq(S), NEW kinds, NEW what \in kinds, CountIn(s, kinds) = 0
  PROVE  Count(s, what) = 0
<1>1. {i \in DOMAIN s : s[i] \in kinds} = {}
  BY CountInType, FS_EmptySet DEF CountIn
<1>2. {i \in DOMAIN s : s[i] = what} = {}
  BY <1>1
<1> QED
  BY <1>2, FS_EmptySet DEF Count

LEMMA CountInAppend ==
  ASSUME NEW S, NEW s \in Seq(S), NEW e \in S, NEW kinds
  PROVE  CountIn(Append(s, e), kinds) = CountIn(s, kinds) + Is(e, kinds)
<1> DEFINE n == Len(s) + 1
           old == {i \in DOMAIN s : s[i] \in kinds}
           new == {i \in DOMAIN Append(s, e) : Append(s, e)[i] \in kinds}
<1>1. /\ IsFiniteSet(old) /\ Cardinality(old) \in Nat
      /\ CountIn(s, kinds) = Cardinality(old) /\ CountIn(Append(s, e), kinds) = Cardinality(new)
  BY CountInType DEF CountIn
<1>2. CASE e \in kinds
  <2>1. new = old \cup {n} /\ n \notin old
    BY <1>2
  <2> QED
    BY <1>1, <1>2, <2>1, FS_AddElement DEF CountIn, Is
<1>3. CASE e \notin kinds
  <2>1. new = old
    BY <1>3
  <2> QED
    <3> HIDE DEF old, new
    <3> QED
      BY <1>1, <1>3, <2>1 DEF Is
<1> QED
  BY <1>2, <1>3

LEMMA CountInTail ==
  ASSUME NEW S, NEW s \in Seq(S), s # <<>>, NEW kinds
  PROVE  CountIn(s, kinds) = CountIn(Tail(s), kinds) + Is(Head(s), kinds)
<1> DEFINE all == {i \in DOMAIN s : s[i] \in kinds}
           rest == {i \in DOMAIN Tail(s) : Tail(s)[i] \in kinds}
           shift == [i \in rest |-> i + 1]
<1>1. /\ IsFiniteSet(all) /\ Cardinality(all) \in Nat
      /\ IsFiniteSet(rest) /\ Cardinality(rest) \in Nat
      /\ CountIn(s, kinds) = Cardinality(all) /\ CountIn(Tail(s), kinds) = Cardinality(rest)
  <2>1. Tail(s) \in Seq(S)
    OBVIOUS
  <2> QED
    BY <2>1, CountInType DEF CountIn
<1>2. /\ all \ {1} = {i + 1 : i \in rest}
      /\ 1 \in all <=> Head(s) \in kinds
      /\ rest \subseteq Nat
  <2>1. /\ Len(s) \in Nat \ {0}
        /\ DOMAIN s = 1 .. Len(s) /\ DOMAIN Tail(s) = 1 .. (Len(s) - 1)
        /\ \A i \in DOMAIN Tail(s) : Tail(s)[i] = s[i + 1]
        /\ Head(s) = s[1]
    OBVIOUS
  <2>2. ASSUME NEW j \in all \ {1} PROVE j \in {i + 1 : i \in rest}
    <3>1. j - 1 \in rest /\ j = (j - 1) + 1
      BY <2>1, <2>2
    <3> QED
      BY <3>1
  <2>3. ASSUME NEW i \in rest PROVE i + 1 \in all \ {1}
    BY <2>1, <2>3
  <2>4. all \ {1} = {i + 1 : i \in rest}
    BY <2>2, <2>3
  <2> QED
    BY <2>1, <2>4
<1>3. shift \in Bijection(rest, all \ {1})
  <2>1. shift \in [rest -> all \ {1}]
    BY <1>2
  <2>2. \A i, j \in rest : shift[i] = shift[j] => i = j
    BY <1>2
  <2>3. \A k \in all \ {1} : \E i \in rest : shift[i] = k
    BY <1>2
  <2> HIDE DEF shift, rest, all
  <2> QED
    BY <2>1, <2>2, <2>3 DEF Bijection, Injection, Surjection, IsInjective
<1>4. Cardinality(all \ {1}) = Cardinality(rest)
  <2> HIDE DEF all, rest, shift
  <2>1. ExistsBijection(rest, all \ {1})
    BY <1>3, Zenon DEF ExistsBijection
  <2> QED
    BY <1>1, <2>1, FS_Bijection, Zenon
<1>5. Cardinality(all \ {1}) = IF 1 \in all THEN Cardinality(all) - 1 ELSE Cardinality(all)
  BY <1>1, FS_RemoveElement
<1> HIDE DEF all, rest
<1> QED
  BY <1>1, <1>2, <1>4, <1>5 DEF Is

-----------------------------------------------------------------------------
(* What is in the queues of the server and of the worker *)

Messages == {"package", "menu", "update", "updated", "question", "yes", "never", "later"}
Jobs == {"migrations", "ontologies", "optional"}

Answers == {"question", "yes", "never", "later"}

UpdateJobs == CountIn(jobs, {"ontologies"})
Updated == CountIn(inbox, {"updated"})
Asks == CountIn(jobs, {"migrations"})
Asked == CountIn(inbox, Answers)
Optional == CountIn(jobs, {"optional"})

\* The flag, and the question on the screen, as numbers.
Marked == IF updating THEN 1 ELSE 0
Shown == IF alert THEN 1 ELSE 0

QueuesOK ==
  /\ inbox \in Seq(Messages) /\ jobs \in Seq(Jobs)
  /\ updating \in BOOLEAN /\ alert \in BOOLEAN /\ declined \in BOOLEAN

\* A server that does not run has nothing to do, and remembers what was saved.
Stopped ==
  ~running => /\ inbox = <<>> /\ jobs = <<>> /\ ~updating /\ ~alert
              /\ declined => saved = settings

\* A server can ask one question: it is still to be looked at, asked, answered, handled or
\* acted on.  After "Never" it is only to be looked at.
AskedOnce == Asks + Asked + Shown + Optional <= 1

Kept == declined => settings.optional = "declined" /\ Asked = 0 /\ ~alert /\ Optional = 0

QueueInv == QueuesOK /\ Stopped /\ UpdateJobs + Updated = Marked /\ AskedOnce /\ Kept

LEMMA Numbers ==
  ASSUME QueuesOK
  PROVE  /\ UpdateJobs \in Nat /\ Updated \in Nat /\ Asks \in Nat /\ Asked \in Nat /\ Optional \in Nat
         /\ Marked \in Nat /\ Shown \in Nat
<1>1. Marked \in Nat /\ Shown \in Nat
  BY DEF Marked, Shown
<1> QED
  BY <1>1, CountInType DEF QueuesOK, UpdateJobs, Updated, Asks, Asked, Optional

\* A message that is sent, that is handled, and none.
LEMMA ToldNumbers ==
  ASSUME QueuesOK, NEW message \in Messages, Told(message)
  PROVE  /\ inbox' \in Seq(Messages)
         /\ Updated' = Updated + Is(message, {"updated"})
         /\ Asked' = Asked + Is(message, Answers)
BY CountInAppend DEF QueuesOK, Told, Updated, Asked

LEMMA TakesNumbers ==
  ASSUME QueuesOK, NEW message \in Messages, Takes(message)
  PROVE  /\ inbox' \in Seq(Messages) /\ Updated' \in Nat /\ Asked' \in Nat
         /\ Updated' = Updated - Is(message, {"updated"})
         /\ Asked' = Asked - Is(message, Answers)
<1>1. inbox \in Seq(Messages) /\ inbox # <<>> /\ Head(inbox) = message /\ inbox' = Tail(inbox)
  BY DEF QueuesOK, Takes
<1>2. inbox' \in Seq(Messages)
  BY <1>1
<1>3. Updated' \in Nat /\ Asked' \in Nat
  BY <1>2, CountInType DEF Updated, Asked
<1>4. /\ Updated = CountIn(inbox', {"updated"}) + Is(message, {"updated"})
      /\ Asked = CountIn(inbox', Answers) + Is(message, Answers)
  BY <1>1, CountInTail DEF Updated, Asked
<1>5. Is(message, {"updated"}) \in Nat /\ Is(message, Answers) \in Nat
  BY DEF Is
<1> QED
  BY <1>2, <1>3, <1>4, <1>5 DEF Updated, Asked

LEMMA InboxSame ==
  ASSUME QueuesOK, UNCHANGED inbox
  PROVE  inbox' \in Seq(Messages) /\ Updated' = Updated /\ Asked' = Asked
BY DEF QueuesOK, Updated, Asked, CountIn

\* A job that is posted, that is finished, and none.
LEMMA PostNumbers ==
  ASSUME QueuesOK, NEW job \in Jobs, jobs' = Append(jobs, job)
  PROVE  /\ jobs' \in Seq(Jobs)
         /\ UpdateJobs' = UpdateJobs + Is(job, {"ontologies"})
         /\ Asks' = Asks + Is(job, {"migrations"})
         /\ Optional' = Optional + Is(job, {"optional"})
BY CountInAppend DEF QueuesOK, UpdateJobs, Asks, Optional

LEMMA FinishNumbers ==
  ASSUME QueuesOK, NEW job \in Jobs, NEW where, Works(job, where), Finish
  PROVE  /\ jobs' \in Seq(Jobs) /\ UpdateJobs' \in Nat /\ Asks' \in Nat /\ Optional' \in Nat
         /\ UpdateJobs' = UpdateJobs - Is(job, {"ontologies"})
         /\ Asks' = Asks - Is(job, {"migrations"})
         /\ Optional' = Optional - Is(job, {"optional"})
<1>1. jobs \in Seq(Jobs) /\ jobs # <<>> /\ Head(jobs) = job /\ jobs' = Tail(jobs)
  BY DEF QueuesOK, Works, Finish
<1>2. jobs' \in Seq(Jobs)
  BY <1>1
<1>3. UpdateJobs' \in Nat /\ Asks' \in Nat /\ Optional' \in Nat
  BY <1>2, CountInType DEF UpdateJobs, Asks, Optional
<1>4. /\ UpdateJobs = CountIn(jobs', {"ontologies"}) + Is(job, {"ontologies"})
      /\ Asks = CountIn(jobs', {"migrations"}) + Is(job, {"migrations"})
      /\ Optional = CountIn(jobs', {"optional"}) + Is(job, {"optional"})
  BY <1>1, CountInTail DEF UpdateJobs, Asks, Optional
<1>5. /\ Is(job, {"ontologies"}) \in Nat /\ Is(job, {"migrations"}) \in Nat
      /\ Is(job, {"optional"}) \in Nat
  BY DEF Is
<1> QED
  BY <1>2, <1>3, <1>4, <1>5 DEF UpdateJobs, Asks, Optional

LEMMA JobsSame ==
  ASSUME QueuesOK, UNCHANGED jobs
  PROVE  jobs' \in Seq(Jobs) /\ UpdateJobs' = UpdateJobs /\ Asks' = Asks /\ Optional' = Optional
BY DEF QueuesOK, UpdateJobs, Asks, Optional, CountIn

-----------------------------------------------------------------------------
(* One update at a time, and the answer that is kept *)

LEMMA InitQueueInv == Init => QueueInv
<1> SUFFICES ASSUME Init PROVE QueueInv
  OBVIOUS
<1>1. inbox = <<>> /\ jobs = <<>> /\ updating = FALSE /\ alert = FALSE /\ declined = FALSE
      /\ saved = settings
  BY DEF Init
<1>2. UpdateJobs = 0 /\ Updated = 0 /\ Asks = 0 /\ Asked = 0 /\ Optional = 0
  BY <1>1, CountInEmpty DEF UpdateJobs, Updated, Asks, Asked, Optional
<1>3. Marked = 0 /\ Shown = 0
  BY <1>1, Zenon DEF Marked, Shown
<1>4. QueuesOK
  <2>1. inbox \in Seq(Messages) /\ jobs \in Seq(Jobs)
    BY <1>1
  <2> QED
    BY <1>1, <2>1, Zenon DEF QueuesOK
<1>5. Stopped /\ Kept
  BY <1>1, Zenon DEF Stopped, Kept
<1> QED
  BY <1>2, <1>3, <1>4, <1>5 DEF QueueInv, AskedOnce

\* A step that leaves the queues, the flag, the question and the answer as they are.
LEMMA QuietStep ==
  ASSUME QueueInv, UNCHANGED <<running, inbox, jobs, updating, alert, declined>>,
         settings'.optional = settings.optional, running \/ UNCHANGED <<settings, saved>>
  PROVE  QueueInv'
<1> USE DEF QueueInv
<1>1. /\ inbox' \in Seq(Messages) /\ Updated' = Updated /\ Asked' = Asked
      /\ jobs' \in Seq(Jobs) /\ UpdateJobs' = UpdateJobs /\ Asks' = Asks /\ Optional' = Optional
  BY InboxSame, JobsSame
<1>2. Marked' = Marked /\ Shown' = Shown
  BY DEF Marked, Shown
<1>3. QueuesOK'
  BY <1>1 DEF QueuesOK
<1>4. Stopped'
  BY DEF Stopped
<1>5. Kept'
  BY <1>1 DEF Kept
<1> QED
  BY <1>1, <1>2, <1>3, <1>4, <1>5 DEF AskedOnce

\* A message that has nothing to do with the question or the end of an update is sent.
LEMMA ToldStep ==
  ASSUME QueueInv, running, UNCHANGED <<running, jobs, updating, alert, declined, settings>>,
         NEW message \in {"package", "menu", "update"}, Told(message)
  PROVE  QueueInv'
<1> USE DEF QueueInv
<1>1. Is(message, {"updated"}) = 0 /\ Is(message, Answers) = 0 /\ message \in Messages
  BY DEF Is, Answers, Messages
<1>2. /\ inbox' \in Seq(Messages) /\ Updated' = Updated /\ Asked' = Asked
      /\ jobs' \in Seq(Jobs) /\ UpdateJobs' = UpdateJobs /\ Asks' = Asks /\ Optional' = Optional
  BY <1>1, ToldNumbers, JobsSame, Numbers
<1>3. Marked' = Marked /\ Shown' = Shown
  BY DEF Marked, Shown
<1>4. QueuesOK'
  BY <1>2 DEF QueuesOK
<1>5. Stopped'
  BY DEF Stopped
<1>6. Kept'
  BY <1>2 DEF Kept
<1> QED
  BY <1>2, <1>3, <1>4, <1>5, <1>6 DEF AskedOnce

LEMMA AnswerStep ==
  ASSUME QueueInv, Answer
  PROVE  QueueInv'
<1> USE DEF QueueInv
<1>1. PICK answer \in {"yes", "never", "later"} : Told(answer)
  BY DEF Answer
<1>2. running /\ alert /\ alert' = FALSE /\ UNCHANGED <<running, jobs, updating, declined, settings>>
  BY DEF Answer, worker, world, history
<1>3. Is(answer, {"updated"}) = 0 /\ Is(answer, Answers) = 1 /\ answer \in Messages
  BY DEF Is, Answers, Messages
<1>4. /\ inbox' \in Seq(Messages) /\ Updated' = Updated /\ Asked' = Asked + 1
      /\ jobs' \in Seq(Jobs) /\ UpdateJobs' = UpdateJobs /\ Asks' = Asks /\ Optional' = Optional
  BY <1>1, <1>2, <1>3, ToldNumbers, JobsSame, Numbers
<1>5. Marked' = Marked
  BY <1>2 DEF Marked
<1>6. Shown = 1 /\ Shown' = 0
  BY <1>2, Zenon DEF Shown
<1>7. QueuesOK'
  BY <1>2, <1>4 DEF QueuesOK
<1>8. Stopped'
  BY <1>2 DEF Stopped
<1>9. Kept'
  BY <1>2, Zenon DEF Kept
<1> QED
  BY <1>4, <1>5, <1>6, <1>7, <1>8, <1>9, Numbers DEF AskedOnce

\* A message that has nothing to do with updates is handled.
LEMMA TakenStep ==
  ASSUME QueueInv, UNCHANGED <<running, jobs, updating, alert, declined, settings>>,
         NEW message \in {"package", "menu", "later"}, Takes(message)
  PROVE  QueueInv'
<1> USE DEF QueueInv
<1>1. Is(message, {"updated"}) = 0 /\ Is(message, Answers) \in Nat /\ message \in Messages
  BY DEF Is, Answers, Messages
<1>2. /\ inbox' \in Seq(Messages) /\ Updated' = Updated
      /\ Asked' \in Nat /\ Asked' = Asked - Is(message, Answers)
      /\ jobs' \in Seq(Jobs) /\ UpdateJobs' = UpdateJobs /\ Asks' = Asks /\ Optional' = Optional
  BY <1>1, TakesNumbers, JobsSame, Numbers
<1>3. Marked' = Marked /\ Shown' = Shown /\ running'
  BY DEF Marked, Shown, Takes
<1>4. QueuesOK'
  BY <1>2 DEF QueuesOK
<1>5. Stopped'
  BY <1>3 DEF Stopped
<1>6. Kept'
  <2>1. Asked = 0 => Asked' = 0
    BY <1>1, <1>2
  <2> QED
    BY <1>2, <2>1, Zenon DEF Kept
<1> QED
  <2>1. Asks' + Asked' + Shown' + Optional' = Asks + (Asked - Is(message, Answers)) + Shown + Optional
    BY <1>2, <1>3
  <2>2. Asks + (Asked - Is(message, Answers)) + Shown + Optional <= 1
    BY <1>1, Numbers DEF AskedOnce
  <2>3. AskedOnce'
    BY <2>1, <2>2 DEF AskedOnce
  <2> QED
    BY <1>2, <1>3, <1>4, <1>5, <1>6, <2>3

\* An update is posted for one that was in no queue, or cannot be.
LEMMA PostOntologyUpdateStep ==
  ASSUME QueuesOK, PostOntologyUpdate
  PROVE  /\ jobs' \in Seq(Jobs) /\ updating' \in BOOLEAN /\ Marked' \in Nat
         /\ UpdateJobs' = UpdateJobs + Marked' /\ Asks' = Asks /\ Optional' = Optional
<1>1. CASE jobs' = Append(jobs, "ontologies") /\ updating' = TRUE
  <2>1. /\ Is("ontologies", {"ontologies"}) = 1 /\ Is("ontologies", {"migrations"}) = 0
        /\ Is("ontologies", {"optional"}) = 0 /\ "ontologies" \in Jobs
    BY DEF Is, Jobs
  <2>2. Marked' = 1 /\ updating' \in BOOLEAN
    BY <1>1, Zenon DEF Marked
  <2> QED
    BY <1>1, <2>1, <2>2, PostNumbers, Numbers
<1>2. CASE jobs' = jobs /\ updating' = FALSE
  <2>1. Marked' = 0 /\ updating' \in BOOLEAN
    BY <1>2, Zenon DEF Marked
  <2> QED
    BY <1>2, <2>1, JobsSame, Numbers
<1> QED
  BY <1>1, <1>2 DEF PostOntologyUpdate

LEMMA HandleUpdateStep ==
  ASSUME QueueInv, HandleUpdate
  PROVE  QueueInv'
<1> USE DEF QueueInv
<1>1. Takes("update") /\ UNCHANGED <<running, alert, declined, settings>> /\ StartOntologyUpdate
  BY DEF HandleUpdate
<1>2. Is("update", {"updated"}) = 0 /\ Is("update", Answers) = 0 /\ "update" \in Messages
  BY DEF Is, Answers, Messages
<1>3. inbox' \in Seq(Messages) /\ Updated' = Updated /\ Asked' = Asked
  BY <1>1, <1>2, TakesNumbers, Numbers
<1>4. Shown' = Shown /\ running'
  BY <1>1 DEF Shown, Takes
<1>5. /\ jobs' \in Seq(Jobs) /\ updating' \in BOOLEAN /\ Asks' = Asks /\ Optional' = Optional
      /\ UpdateJobs' + Updated = Marked'
  <2>1. CASE updating /\ updating' = updating /\ jobs' = jobs
    <3>1. Marked' = Marked /\ updating' \in BOOLEAN
      BY <2>1 DEF Marked, QueuesOK
    <3> QED
      BY <2>1, <3>1, JobsSame
  <2>2. CASE ~updating /\ PostOntologyUpdate
    <3>1. Marked = 0
      BY <2>2, Zenon DEF Marked
    <3>2. UpdateJobs = 0 /\ Updated = 0
      BY <3>1, Numbers
    <3> QED
      BY <2>2, <3>2, PostOntologyUpdateStep
  <2> QED
    BY <1>1, <2>1, <2>2 DEF StartOntologyUpdate
<1>6. QueuesOK'
  BY <1>1, <1>3, <1>5 DEF QueuesOK
<1>7. Stopped'
  BY <1>4 DEF Stopped
<1>8. Kept'
  BY <1>1, <1>3, <1>5 DEF Kept
<1> QED
  BY <1>3, <1>4, <1>5, <1>6, <1>7, <1>8 DEF AskedOnce

LEMMA HandleUpdatedStep ==
  ASSUME QueueInv, HandleUpdated
  PROVE  QueueInv'
<1> USE DEF QueueInv
<1>1. /\ Takes("updated") /\ UNCHANGED <<running, alert, declined, settings>>
      /\ PostOntologyUpdate \/ (updating' = FALSE /\ UNCHANGED jobs)
  BY DEF HandleUpdated
<1>2. Is("updated", {"updated"}) = 1 /\ Is("updated", Answers) = 0 /\ "updated" \in Messages
  BY DEF Is, Answers, Messages
<1>3. /\ inbox' \in Seq(Messages) /\ Updated' = Updated - 1 /\ Updated' \in Nat /\ Asked' = Asked
  BY <1>1, <1>2, TakesNumbers, Numbers
<1>4. Shown' = Shown /\ running'
  BY <1>1 DEF Shown, Takes
\* It was the one that the flag stands for.
<1>5. UpdateJobs = 0 /\ Updated' = 0
  <2>1. Marked <= 1
    BY DEF Marked
  <2> QED
    BY <1>3, <2>1, Numbers
<1>6. /\ jobs' \in Seq(Jobs) /\ updating' \in BOOLEAN /\ Asks' = Asks /\ Optional' = Optional
      /\ UpdateJobs' = Marked' /\ Marked' \in Nat
  <2>1. CASE PostOntologyUpdate
    BY <1>5, <2>1, PostOntologyUpdateStep
  <2>2. CASE updating' = FALSE /\ UNCHANGED jobs
    <3>1. Marked' = 0 /\ updating' \in BOOLEAN
      BY <2>2, Zenon DEF Marked
    <3> QED
      BY <1>5, <2>2, <3>1, JobsSame
  <2> QED
    BY <1>1, <2>1, <2>2
<1>7. QueuesOK'
  BY <1>1, <1>3, <1>6 DEF QueuesOK
<1>8. Stopped'
  BY <1>4 DEF Stopped
<1>9. Kept'
  BY <1>1, <1>3, <1>6 DEF Kept
<1> QED
  BY <1>3, <1>4, <1>5, <1>6, <1>7, <1>8, <1>9 DEF AskedOnce

LEMMA HandleQuestionStep ==
  ASSUME QueueInv, HandleQuestion
  PROVE  QueueInv'
<1> USE DEF QueueInv
<1>1. Takes("question") /\ alert' = TRUE /\ UNCHANGED <<running, updating, jobs, declined, settings>>
  BY DEF HandleQuestion, worker, history
<1>2. Is("question", {"updated"}) = 0 /\ Is("question", Answers) = 1 /\ "question" \in Messages
  BY DEF Is, Answers, Messages
<1>3. /\ inbox' \in Seq(Messages) /\ Updated' = Updated /\ Asked' = Asked - 1 /\ Asked' \in Nat
      /\ jobs' \in Seq(Jobs) /\ UpdateJobs' = UpdateJobs /\ Asks' = Asks /\ Optional' = Optional
  BY <1>1, <1>2, TakesNumbers, JobsSame, Numbers
\* It is the only one.
<1>4. Marked' = Marked /\ Shown' = 1 /\ running'
  BY <1>1, Zenon DEF Marked, Shown, Takes
<1>5. QueuesOK'
  BY <1>1, <1>3 DEF QueuesOK
<1>6. Stopped'
  BY <1>4 DEF Stopped
<1>7. ~declined'
  <2>1. Asked # 0
    BY <1>3
  <2> QED
    BY <1>1, <2>1 DEF Kept
<1> QED
  <2>1. AskedOnce'
    <3>1. Asks' + Asked' + Shown' + Optional' = Asks + (Asked - 1) + 1 + Optional
      BY <1>3, <1>4
    <3>2. Asks + (Asked - 1) + 1 + Optional <= 1
      BY Numbers DEF AskedOnce
    <3> QED
      BY <3>1, <3>2 DEF AskedOnce
  <2> QED
    BY <1>3, <1>4, <1>5, <1>6, <1>7, <2>1 DEF Kept

LEMMA HandleYesStep ==
  ASSUME QueueInv, HandleYes
  PROVE  QueueInv'
<1> USE DEF QueueInv
<1>1. /\ Takes("yes") /\ UNCHANGED <<running, updating, alert, declined, settings>>
      /\ jobs' = Append(jobs, "optional") \/ UNCHANGED jobs
  BY DEF HandleYes
<1>2. Is("yes", {"updated"}) = 0 /\ Is("yes", Answers) = 1 /\ "yes" \in Messages
  BY DEF Is, Answers, Messages
<1>3. inbox' \in Seq(Messages) /\ Updated' = Updated /\ Asked' = Asked - 1 /\ Asked' \in Nat
  BY <1>1, <1>2, TakesNumbers, Numbers
<1>4. /\ jobs' \in Seq(Jobs) /\ UpdateJobs' = UpdateJobs /\ Asks' = Asks
      /\ Optional' \in {Optional, Optional + 1}
  <2>1. CASE jobs' = Append(jobs, "optional")
    <3>1. /\ Is("optional", {"ontologies"}) = 0 /\ Is("optional", {"migrations"}) = 0
          /\ Is("optional", {"optional"}) = 1 /\ "optional" \in Jobs
      BY DEF Is, Jobs
    <3> QED
      BY <2>1, <3>1, PostNumbers, Numbers
  <2>2. CASE UNCHANGED jobs
    BY <2>2, JobsSame
  <2> QED
    BY <1>1, <2>1, <2>2
<1>5. Marked' = Marked /\ Shown' = Shown /\ running'
  BY <1>1 DEF Marked, Shown, Takes
<1>6. QueuesOK'
  BY <1>1, <1>3, <1>4 DEF QueuesOK
<1>7. Stopped'
  BY <1>5 DEF Stopped
<1>8. ~declined'
  <2>1. Asked # 0
    BY <1>3
  <2> QED
    BY <1>1, <2>1 DEF Kept
<1> QED
  <2>1. AskedOnce'
    <3>1. PICK n \in {0, 1} : Optional' = Optional + n
      BY <1>4, Numbers
    <3>2. Asks' + Asked' + Shown' + Optional' = Asks + (Asked - 1) + Shown + (Optional + n)
      BY <1>3, <1>4, <1>5, <3>1
    <3>3. Asks + (Asked - 1) + Shown + (Optional + n) <= 1
      BY Numbers DEF AskedOnce
    <3> QED
      BY <3>2, <3>3 DEF AskedOnce
  <2> QED
    BY <1>3, <1>4, <1>5, <1>6, <1>7, <1>8, <2>1 DEF Kept

\* The answer was the one thing left of the question.
LEMMA HandleNeverStep ==
  ASSUME RecordInv, QueueInv, HandleNever
  PROVE  QueueInv'
<1> USE DEF QueueInv
<1>1. /\ Takes("never") /\ UNCHANGED <<running, updating, alert, jobs>> /\ declined' = TRUE
      /\ settings' = [settings EXCEPT !.optional = "declined"]
  BY DEF HandleNever, UpdateSettings, worker
<1>2. Is("never", {"updated"}) = 0 /\ Is("never", Answers) = 1 /\ "never" \in Messages
  BY DEF Is, Answers, Messages
<1>3. /\ inbox' \in Seq(Messages) /\ Updated' = Updated /\ Asked' = Asked - 1 /\ Asked' \in Nat
      /\ jobs' \in Seq(Jobs) /\ UpdateJobs' = UpdateJobs /\ Asks' = Asks /\ Optional' = Optional
  BY <1>1, <1>2, TakesNumbers, JobsSame, Numbers
<1>4. Marked' = Marked /\ Shown' = Shown /\ running'
  BY <1>1 DEF Marked, Shown, Takes
<1>5. Asked' = 0 /\ Shown = 0 /\ Optional' = 0
  BY <1>3, Numbers DEF AskedOnce
<1>6. QueuesOK'
  BY <1>1, <1>3, Zenon DEF QueuesOK
<1>7. Stopped'
  BY <1>4 DEF Stopped
<1>8. Kept'
  <2>1. settings'.optional = "declined"
    BY <1>1 DEF RecordInv, Settings
  <2>2. ~alert
    <3>1. CASE alert
      <4>1. Shown = 1
        BY <3>1, Zenon DEF Shown
      <4> QED
        BY <1>5, <4>1
    <3> QED
      BY <3>1
  <2> QED
    BY <1>1, <1>5, <2>1, <2>2 DEF Kept
<1> QED
  <2>1. AskedOnce'
    <3>1. Asks' + Asked' + Shown' + Optional' = Asks + (Asked - 1) + Shown + Optional
      BY <1>3, <1>4
    <3>2. Asks + (Asked - 1) + Shown + Optional <= 1
      BY Numbers DEF AskedOnce
    <3> QED
      BY <3>1, <3>2 DEF AskedOnce
  <2> QED
    BY <1>3, <1>4, <1>6, <1>7, <1>8, <2>1

\* The question is asked in place of the job that asks, if there was no "Never".
LEMMA AskOptionalStep ==
  ASSUME QueueInv, AskOptional
  PROVE  QueueInv'
<1> USE DEF QueueInv
<1>1. /\ Works("migrations", "ask") /\ Finish
      /\ UNCHANGED <<running, updating, alert, declined, settings>>
      /\ \/ Told("question") /\ settings.optional = "ask"
         \/ UNCHANGED inbox
  BY DEF AskOptional, ToAsk, history
<1>2. /\ Is("migrations", {"ontologies"}) = 0 /\ Is("migrations", {"migrations"}) = 1
      /\ Is("migrations", {"optional"}) = 0 /\ "migrations" \in Jobs
  BY DEF Is, Jobs
<1>3. jobs' \in Seq(Jobs) /\ UpdateJobs' = UpdateJobs /\ Asks' = Asks - 1 /\ Optional' = Optional
  BY <1>1, <1>2, FinishNumbers, Numbers
<1>4. Marked' = Marked /\ Shown' = Shown /\ running'
  BY <1>1 DEF Marked, Shown, Works
<1>5. CASE Told("question") /\ settings.optional = "ask"
  <2>1. Is("question", {"updated"}) = 0 /\ Is("question", Answers) = 1 /\ "question" \in Messages
    BY DEF Is, Answers, Messages
  <2>2. inbox' \in Seq(Messages) /\ Updated' = Updated /\ Asked' = Asked + 1
    BY <1>5, <2>1, ToldNumbers, Numbers
  <2>3. ~declined'
    BY <1>1, <1>5 DEF Kept
  <2>4. QueuesOK'
    BY <1>1, <1>3, <2>2 DEF QueuesOK
  <2>5. Stopped' /\ Kept'
    BY <1>4, <2>3 DEF Stopped, Kept
  <2>6. Asks' + Asked' + Shown' + Optional' = (Asks - 1) + (Asked + 1) + Shown + Optional
    BY <1>3, <1>4, <2>2
  <2>7. (Asks - 1) + (Asked + 1) + Shown + Optional <= 1
    BY Numbers DEF AskedOnce
  <2>8. AskedOnce'
    BY <2>6, <2>7 DEF AskedOnce
  <2> QED
    BY <1>3, <1>4, <2>2, <2>4, <2>5, <2>8
<1>6. CASE UNCHANGED inbox
  <2>1. inbox' \in Seq(Messages) /\ Updated' = Updated /\ Asked' = Asked
    BY <1>6, InboxSame
  <2>2. QueuesOK'
    BY <1>1, <1>3, <2>1 DEF QueuesOK
  <2>3. Stopped'
    BY <1>4 DEF Stopped
  <2>4. Kept'
    BY <1>1, <1>3, <2>1, Zenon DEF Kept
  <2>5. Asks' + Asked' + Shown' + Optional' = (Asks - 1) + Asked + Shown + Optional
    BY <1>3, <1>4, <2>1
  <2>6. (Asks - 1) + Asked + Shown + Optional <= 1
    BY Numbers DEF AskedOnce
  <2>7. AskedOnce'
    BY <2>5, <2>6 DEF AskedOnce
  <2> QED
    BY <1>3, <1>4, <2>1, <2>2, <2>3, <2>4, <2>7
<1> QED
  BY <1>1, <1>5, <1>6

LEMMA EndOntologiesStep ==
  ASSUME QueueInv, EndOntologies
  PROVE  QueueInv'
<1> USE DEF QueueInv
<1>1. /\ Works("ontologies", "install") /\ Finish /\ Told("updated")
      /\ UNCHANGED <<running, updating, alert, declined, settings>>
  BY DEF EndOntologies, history
<1>2. /\ Is("ontologies", {"ontologies"}) = 1 /\ Is("ontologies", {"migrations"}) = 0
      /\ Is("ontologies", {"optional"}) = 0 /\ "ontologies" \in Jobs
      /\ Is("updated", {"updated"}) = 1 /\ Is("updated", Answers) = 0 /\ "updated" \in Messages
  BY DEF Is, Answers, Jobs, Messages
<1>3. /\ jobs' \in Seq(Jobs) /\ UpdateJobs' = UpdateJobs - 1 /\ Asks' = Asks /\ Optional' = Optional
      /\ inbox' \in Seq(Messages) /\ Updated' = Updated + 1 /\ Asked' = Asked
  BY <1>1, <1>2, FinishNumbers, ToldNumbers, Numbers
<1>4. Marked' = Marked /\ Shown' = Shown /\ running'
  BY <1>1 DEF Marked, Shown, Works
<1>5. QueuesOK'
  BY <1>1, <1>3 DEF QueuesOK
<1>6. Stopped'
  BY <1>4 DEF Stopped
<1>7. Kept'
  BY <1>1, <1>3, Zenon DEF Kept
<1>8. UpdateJobs' + Updated' = UpdateJobs + Updated
  <2>1. UpdateJobs' + Updated' = (UpdateJobs - 1) + (Updated + 1)
    BY <1>3
  <2> QED
    BY <2>1, Numbers
<1>9. AskedOnce'
  BY <1>3, <1>4 DEF AskedOnce
<1> QED
  BY <1>4, <1>5, <1>6, <1>7, <1>8, <1>9

\* The step that the user wanted runs only when there was no "Never".
LEMMA RunOptionalStepStep ==
  ASSUME QueueInv, RunOptionalStep
  PROVE  QueueInv'
<1> USE DEF QueueInv
<1>1. /\ Works("optional", "idle") /\ Finish
      /\ UNCHANGED <<running, inbox, updating, alert, declined>>
  BY DEF RunOptionalStep
<1>2. /\ Is("optional", {"ontologies"}) = 0 /\ Is("optional", {"migrations"}) = 0
      /\ Is("optional", {"optional"}) = 1 /\ "optional" \in Jobs
  BY DEF Is, Jobs
<1>3. /\ jobs' \in Seq(Jobs) /\ UpdateJobs' = UpdateJobs /\ Asks' = Asks
      /\ Optional' = Optional - 1 /\ Optional' \in Nat
      /\ inbox' \in Seq(Messages) /\ Updated' = Updated /\ Asked' = Asked
  BY <1>1, <1>2, FinishNumbers, InboxSame, Numbers
<1>4. Marked' = Marked /\ Shown' = Shown /\ running'
  BY <1>1 DEF Marked, Shown, Works
<1>5. ~declined'
  <2>1. Optional # 0
    BY <1>3, Numbers
  <2> QED
    BY <1>1, <2>1 DEF Kept
<1>6. QueuesOK'
  BY <1>1, <1>3 DEF QueuesOK
<1>7. Stopped' /\ Kept'
  BY <1>4, <1>5 DEF Stopped, Kept
<1>8. AskedOnce'
  <2>1. Asks' + Asked' + Shown' + Optional' = Asks + Asked + Shown + (Optional - 1)
    BY <1>3, <1>4
  <2>2. Asks + Asked + Shown + (Optional - 1) <= 1
    BY Numbers DEF AskedOnce
  <2> QED
    BY <2>1, <2>2 DEF AskedOnce
<1> QED
  BY <1>3, <1>4, <1>6, <1>7, <1>8

LEMMA StopStep ==
  ASSUME QueueInv, Stop
  PROVE  QueueInv'
<1> USE DEF QueueInv
<1>1. /\ inbox' = <<>> /\ jobs' = <<>> /\ updating' = FALSE /\ alert' = FALSE
      /\ declined' = (declined /\ saved = settings) /\ UNCHANGED <<settings, saved>>
  BY DEF Stop, world
<1>2. UpdateJobs' = 0 /\ Updated' = 0 /\ Asks' = 0 /\ Asked' = 0 /\ Optional' = 0
  BY <1>1, CountInEmpty DEF UpdateJobs, Updated, Asks, Asked, Optional
<1>3. Marked' = 0 /\ Shown' = 0
  BY <1>1, Zenon DEF Marked, Shown
<1>4. inbox' \in Seq(Messages) /\ jobs' \in Seq(Jobs)
  BY <1>1
<1>5. QueuesOK'
  BY <1>1, <1>4, Zenon DEF QueuesOK
<1>6. Stopped'
  BY <1>1, Zenon DEF Stopped
<1>7. Kept'
  BY <1>1, <1>2, Zenon DEF Kept
<1> QED
  BY <1>2, <1>3, <1>5, <1>6, <1>7 DEF AskedOnce

\* The one place where a question can come from.
LEMMA StartStep ==
  ASSUME QueueInv, Start
  PROVE  QueueInv'
<1> USE DEF QueueInv
<1>1. /\ ~running /\ running' = TRUE /\ jobs' = <<"migrations">> /\ settings' = saved
      /\ UNCHANGED <<inbox, updating, alert, declined>>
  BY DEF Start, history
<1>2. inbox = <<>> /\ jobs = <<>> /\ ~alert /\ (declined => settings' = settings)
  BY <1>1 DEF Stopped
<1>3. jobs' = Append(jobs, "migrations")
  BY <1>1, <1>2
<1>4. /\ Is("migrations", {"ontologies"}) = 0 /\ Is("migrations", {"migrations"}) = 1
      /\ Is("migrations", {"optional"}) = 0 /\ "migrations" \in Jobs
  BY DEF Is, Jobs
<1>5. Asks = 0 /\ Asked = 0 /\ Optional = 0
  BY <1>2, CountInEmpty DEF Asks, Asked, Optional
<1>6. /\ jobs' \in Seq(Jobs) /\ UpdateJobs' = UpdateJobs /\ Asks' = 1 /\ Optional' = 0
      /\ inbox' \in Seq(Messages) /\ Updated' = Updated /\ Asked' = 0
  <2>1. jobs' \in Seq(Jobs) /\ UpdateJobs' = UpdateJobs /\ Asks' = 1 /\ Optional' = 0
    BY <1>3, <1>4, <1>5, PostNumbers, Numbers
  <2>2. inbox' \in Seq(Messages) /\ Updated' = Updated /\ Asked' = Asked
    BY <1>1, InboxSame
  <2> QED
    BY <1>5, <2>1, <2>2
<1>7. Marked' = Marked /\ Shown' = 0
  BY <1>1, <1>2, Zenon DEF Marked, Shown
<1>8. QueuesOK'
  BY <1>1, <1>6, Zenon DEF QueuesOK
<1>9. Stopped'
  BY <1>1 DEF Stopped
<1>10. Kept'
  BY <1>1, <1>2, <1>6, Zenon DEF Kept
<1> QED
  BY <1>6, <1>7, <1>8, <1>9, <1>10 DEF AskedOnce

LEMMA NextQueueInv == RecordInv /\ QueueInv /\ [Next]_vars => QueueInv'
<1> SUFFICES ASSUME RecordInv, QueueInv, [Next]_vars PROVE QueueInv'
  OBVIOUS
<1>1. CASE UNCHANGED vars \/ ActivatePackage \/ AddContact
  <2>1. UNCHANGED <<running, inbox, jobs, updating, alert, declined, settings, saved>>
    BY <1>1 DEF ActivatePackage, AddContact, vars, server, worker, world, history
  <2> QED
    BY <2>1, QuietStep
<1>2. CASE BeginMigrations \/ RunStep \/ EndSteps \/ BeginOntologies
  <2>1. running /\ UNCHANGED <<running, inbox, jobs, updating, alert, declined, settings>>
    BY <1>2 DEF BeginMigrations, RunStep, EndSteps, BeginOntologies, Works, server, history
  <2> QED
    BY <2>1, QuietStep
<1>3. CASE RecordVersion
  <2>1. /\ running /\ UNCHANGED <<running, inbox, jobs, updating, alert, declined>>
        /\ settings' = [settings EXCEPT !.version = next]
    BY <1>3 DEF RecordVersion, Works, UpdateSettings
  <2>2. settings'.optional = settings.optional
    BY <2>1 DEF RecordInv, Settings
  <2> QED
    BY <2>1, <2>2, QuietStep
<1>4. CASE ChangePackage
  <2>1. UNCHANGED <<running, jobs, updating, alert, declined, settings, saved>>
    BY <1>4 DEF ChangePackage, worker
  <2>2. CASE running /\ Told("package")
    BY <2>1, <2>2, ToldStep
  <2>3. CASE ~running /\ UNCHANGED inbox
    BY <2>1, <2>3, QuietStep
  <2> QED
    BY <1>4, <2>2, <2>3 DEF ChangePackage
<1>5. CASE ChooseUpdate \/ TimerFires
  <2>1. running /\ UNCHANGED <<running, jobs, updating, alert, declined, settings>>
    BY <1>5 DEF ChooseUpdate, TimerFires, worker
  <2> QED
    BY <1>5, <2>1, ToldStep DEF ChooseUpdate, TimerFires
<1>6. CASE HandleChange \/ HandleLater
  <2>1. UNCHANGED <<running, jobs, updating, alert, declined, settings>>
    BY <1>6 DEF HandleChange, HandleLater, worker, history
  <2> QED
    BY <1>6, <2>1, TakenStep DEF HandleChange, HandleLater
<1>7. CASE Answer \/ HandleUpdate \/ HandleUpdated \/ HandleQuestion \/ HandleYes \/ HandleNever
  BY <1>7, AnswerStep, HandleUpdateStep, HandleUpdatedStep, HandleQuestionStep, HandleYesStep,
     HandleNeverStep, Zenon
<1>8. CASE AskOptional \/ EndOntologies \/ RunOptionalStep \/ Stop \/ Start
  BY <1>8, AskOptionalStep, EndOntologiesStep, RunOptionalStepStep, StopStep, StartStep, Zenon
<1> QED
  <2>1. Users => ChangePackage \/ ActivatePackage \/ ChooseUpdate \/ AddContact \/ Answer
    BY Zenon DEF Users
  <2>2. Handle => HandleChange \/ HandleUpdate \/ HandleUpdated \/ HandleQuestion \/ HandleYes
                  \/ HandleNever \/ HandleLater
    BY Zenon DEF Handle
  <2>3. Work => BeginMigrations \/ RunStep \/ RecordVersion \/ EndSteps \/ AskOptional
                \/ BeginOntologies \/ EndOntologies \/ RunOptionalStep
    BY Zenon DEF Work
  <2> QED
    BY <1>1, <1>2, <1>3, <1>4, <1>5, <1>6, <1>7, <1>8, <2>1, <2>2, <2>3, Zenon DEF Next

\* In all states the flag fOntologyUpdating is set exactly when one update was posted, runs or
\* has said that it ended: never a second one, and never none with the flag left behind.
THEOREM OneUpdateAlways == Spec => []OneUpdateAtATime
<1>1. QueueInv => OneUpdateAtATime
  BY CountIsCountIn DEF QueueInv, OneUpdateAtATime, UpdateJobs, Updated, Marked
<1> QED
  BY <1>1, InitRecordInv, NextRecordInv, InitQueueInv, NextQueueInv, PTL DEF Spec

\* After "Never" the question is not on its way, not on the screen, and the step is not posted,
\* over restarts as long as the settings could be saved.
THEOREM AnswerIsAlwaysKept == Spec => []AnswerIsKept
<1>1. QueueInv => AnswerIsKept
  <2> SUFFICES ASSUME QueueInv, declined
               PROVE  ~alert /\ Count(inbox, "question") = 0 /\ Count(jobs, "optional") = 0
    BY DEF AnswerIsKept
  <2>1. Asked = 0 /\ ~alert /\ Optional = 0 /\ inbox \in Seq(Messages)
    BY DEF QueueInv, QueuesOK, Kept
  <2>2. Count(inbox, "question") = 0
    BY <2>1, CountInPart DEF Asked, Answers
  <2>3. Count(jobs, "optional") = 0
    BY <2>1, CountIsCountIn DEF Optional
  <2> QED
    BY <2>1, <2>2, <2>3
<1> QED
  BY <1>1, InitRecordInv, NextRecordInv, InitQueueInv, NextQueueInv, PTL DEF Spec
=============================================================================
