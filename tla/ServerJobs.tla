----------------------------- MODULE ServerJobs -----------------------------
(***************************************************************************)
(* The work that the server does not do in its own thread: migrations of   *)
(* the data after the start, an optional one that the user is asked for,   *)
(* and the updates of the ontologies when packages come and go             *)
(* (server/SenServer.cpp, ui/Worker.h, migrations/Migrations.cpp).         *)
(*                                                                         *)
(* Two loopers send each other messages: the server, and its worker, which *)
(* does one job after the other.  A timer, the node monitor and the user   *)
(* send messages to the server, too, and it can end at any time.           *)
(***************************************************************************)
EXTENDS Naturals, FiniteSets, Sequences

CONSTANTS Unreadable,   \* settings that cannot be read
          Steps,        \* the number of migrations
          UpdateCount,  \* how often the update is repeated after a package changed
          MaxContacts,  \* bound: the contacts without the standard attributes
          MaxChanges,   \* bound: how often a package comes or goes
          MaxMenus,     \* bound: how often the user asks for an update
          MaxFailures,  \* bound: how much goes wrong
          MaxRestarts   \* bound: how often the server ends

ASSUME JobsAssumption ==
  /\ Steps \in Nat /\ UpdateCount \in Nat \ {0}
  /\ MaxContacts \in Nat /\ MaxChanges \in Nat /\ MaxMenus \in Nat
  /\ MaxFailures \in Nat /\ MaxRestarts \in Nat

VARIABLES
  \* the server
  running,
  inbox,     \* the messages that wait
  timer,     \* how many messages kUpdateOntologies its timer will still send
  updating,  \* fOntologyUpdating
  pending,   \* fOntologyPending
  alert,     \* the question is on the screen
  settings,  \* what it knows: the data version, and the state of the optional step
  \* the worker
  jobs,      \* what was posted; it works on the first
  at,        \* what it does
  next,      \* the number of the migration that it looks at
  \* what outlives the server
  saved,     \* the settings in their file, or Unreadable
  done,      \* the migrations that changed all of the data
  contacts,  \* how many contacts lack the standard attributes
  arrived,   \* how many changes of packages there were
  active,    \* how many of them are active
  installed, \* how many the last update found that began
  \* history and bounds
  seen,      \* how many were active when the server last was told to update
  dropped,   \* how many were when an update could not be posted
  declined,  \* the user said "Never", and that was saved when the server ended
  menus, failures, restarts

server == <<running, inbox, timer, updating, pending, alert, settings>>
worker == <<jobs, at, next>>
world == <<saved, done, contacts, arrived, active, installed>>
history == <<seen, dropped, declined, menus, failures, restarts>>
vars == <<server, worker, world, history>>

Told(message) == inbox' = Append(inbox, message)

\* One more thing may go wrong.
Fails == failures < MaxFailures /\ failures' = failures + 1

-----------------------------------------------------------------------------
(* Users, packages and the timer *)

ChangePackage ==
  /\ arrived < MaxChanges
  /\ arrived' = arrived + 1
  /\ IF running THEN Told("package") ELSE UNCHANGED inbox
  /\ UNCHANGED <<running, timer, updating, pending, alert, settings, worker,
                 saved, done, contacts, active, installed,
                 seen, dropped, declined, menus, failures, restarts>>

\* Some time after its file.
ActivatePackage ==
  /\ active < arrived
  /\ active' = active + 1
  /\ UNCHANGED <<server, worker, saved, done, contacts, arrived, installed, history>>

ChooseUpdate ==
  /\ running /\ menus < MaxMenus
  /\ menus' = menus + 1
  /\ Told("menu")
  /\ UNCHANGED <<running, timer, updating, pending, alert, settings, worker, world,
                 seen, dropped, declined, failures, restarts>>

AddContact ==
  /\ contacts < MaxContacts
  /\ contacts' = contacts + 1
  /\ UNCHANGED <<server, worker, saved, done, arrived, active, installed, history>>

TimerFires ==
  /\ running /\ timer > 0
  /\ timer' = timer - 1
  /\ Told("update")
  /\ UNCHANGED <<running, updating, pending, alert, settings, worker, world,
                 seen, dropped, declined, menus, failures, restarts>>

Answer ==
  /\ running /\ alert
  /\ alert' = FALSE
  /\ \E answer \in {"yes", "never", "later"} : Told(answer)
  /\ UNCHANGED <<running, timer, updating, pending, settings, worker, world, history>>

-----------------------------------------------------------------------------
(* The server *)

\* UpdateSettings: what the server knows is changed in any case; a file that cannot be
\* written is as before, or empty.
UpdateSettings(changed) ==
  /\ settings' = changed
  /\ \/ saved' = changed /\ UNCHANGED failures
     \/ Fails /\ saved' \in {saved, Unreadable}

\* Fault: a request while an update is running is forgotten.
StartOntologyUpdateOnce ==
  IF updating
  THEN UNCHANGED <<jobs, updating, pending, dropped, failures>>
  ELSE /\ jobs' = Append(jobs, "ontologies")
       /\ updating' = TRUE /\ pending' = FALSE
       /\ UNCHANGED <<dropped, failures>>

\* Fault: that an update is running is not remembered.
StartOntologyUpdateUnmarked ==
  /\ jobs' = Append(jobs, "ontologies")
  /\ UNCHANGED <<updating, pending, dropped, failures>>

\* A timer was due, or an update ended: another one begins, unless one is running.
PostOntologyUpdate ==
  \/ /\ jobs' = Append(jobs, "ontologies")
     /\ updating' = TRUE /\ pending' = FALSE
     /\ UNCHANGED <<dropped, failures>>
  \/ /\ Fails
     /\ dropped' = seen'
     /\ updating' = FALSE
     /\ UNCHANGED <<jobs, pending>>

StartOntologyUpdate ==
  IF updating
  THEN pending' = TRUE /\ UNCHANGED <<jobs, updating, dropped, failures>>
  ELSE PostOntologyUpdate

Takes(message) == running /\ inbox # <<>> /\ Head(inbox) = message /\ inbox' = Tail(inbox)

\* ScheduleOntologyUpdate: the timer that there was is deleted.
HandleChange ==
  /\ \/ Takes("package") /\ timer' = UpdateCount
     \/ Takes("menu") /\ timer' = 1
  /\ UNCHANGED <<running, updating, pending, alert, settings, worker, world,
                 seen, dropped, declined, menus, failures, restarts>>

HandleUpdate ==
  /\ Takes("update")
  /\ seen' = active
  /\ StartOntologyUpdate
  /\ UNCHANGED <<running, timer, alert, settings, at, next, world,
                 declined, menus, restarts>>

HandleUpdated ==
  /\ Takes("updated")
  /\ UNCHANGED seen
  /\ IF pending
     THEN PostOntologyUpdate
     ELSE updating' = FALSE /\ UNCHANGED <<jobs, pending, dropped, failures>>
  /\ UNCHANGED <<running, timer, alert, settings, at, next, world,
                 declined, menus, restarts>>

HandleQuestion ==
  /\ Takes("question")
  /\ alert' = TRUE
  /\ UNCHANGED <<running, timer, updating, pending, settings, worker, world, history>>

HandleYes ==
  /\ Takes("yes")
  /\ \/ jobs' = Append(jobs, "optional") /\ UNCHANGED failures
     \/ Fails /\ UNCHANGED jobs
  /\ UNCHANGED <<running, timer, updating, pending, alert, settings, at, next, world,
                 seen, dropped, declined, menus, restarts>>

HandleNever ==
  /\ Takes("never")
  /\ UpdateSettings([settings EXCEPT !.optional = "declined"])
  /\ declined' = TRUE
  /\ UNCHANGED <<running, timer, updating, pending, alert, worker,
                 done, contacts, arrived, active, installed,
                 seen, dropped, menus, restarts>>

HandleLater ==
  /\ Takes("later")
  /\ UNCHANGED <<running, timer, updating, pending, alert, settings, worker, world, history>>

-----------------------------------------------------------------------------
(* The worker *)

Works(job, where) == running /\ jobs # <<>> /\ Head(jobs) = job /\ at = where

Finish == jobs' = Tail(jobs) /\ at' = "idle" /\ next' = 0

\* The version is read once, at the begin.
BeginMigrations ==
  /\ Works("migrations", "idle")
  /\ at' = "step" /\ next' = settings.version + 1
  /\ UNCHANGED <<server, jobs, world, history>>

\* Fault: the steps after one that failed are run.
RunStepAnyway ==
  /\ Works("migrations", "step") /\ next <= Steps
  /\ \/ done' = done \cup {next} /\ at' = "record" /\ UNCHANGED <<next, failures>>
     \/ Fails /\ at' = "step" /\ next' = next + 1 /\ UNCHANGED done
  /\ UNCHANGED <<server, jobs, saved, contacts, arrived, active, installed,
                 seen, dropped, declined, menus, restarts>>

\* The next step changes all that is to change, or fails for some of it: the rest is
\* left for the next start.
RunStep ==
  /\ Works("migrations", "step") /\ next <= Steps
  /\ \/ done' = done \cup {next} /\ at' = "record" /\ UNCHANGED failures
     \/ Fails /\ at' = "ask" /\ UNCHANGED done
  /\ UNCHANGED <<server, jobs, next, saved, contacts, arrived, active, installed,
                 seen, dropped, declined, menus, restarts>>

RecordVersion ==
  /\ Works("migrations", "record")
  /\ UpdateSettings([settings EXCEPT !.version = next])
  /\ \/ failures' = failures /\ at' = "step" /\ next' = next + 1
     \/ failures' # failures /\ at' = "ask" /\ UNCHANGED next
  /\ UNCHANGED <<running, inbox, timer, updating, pending, alert, jobs,
                 done, contacts, arrived, active, installed,
                 seen, dropped, declined, menus, restarts>>

EndSteps ==
  /\ Works("migrations", "step") /\ next > Steps
  /\ at' = "ask"
  /\ UNCHANGED <<server, jobs, next, world, history>>

\* Fault: only what was done is not asked again.
ToAskUnlessDone == settings.optional # "done"

ToAsk == settings.optional = "ask"

AskOptional ==
  /\ Works("migrations", "ask")
  /\ IF ToAsk /\ contacts > 0 THEN Told("question") ELSE UNCHANGED inbox
  /\ Finish
  /\ UNCHANGED <<running, timer, updating, pending, alert, settings, world, history>>

\* sen_oni makes the ontologies match the packages that are active when it looks.
BeginOntologies ==
  /\ Works("ontologies", "idle")
  /\ at' = "install"
  /\ installed' = active
  /\ UNCHANGED <<server, jobs, next, saved, done, contacts, arrived, active, history>>

EndOntologies ==
  /\ Works("ontologies", "install")
  /\ Told("updated")
  /\ Finish
  /\ UNCHANGED <<running, timer, updating, pending, alert, settings, world, history>>

\* All contacts, or some if the others fail; only what is complete is recorded.  (The message
\* kMigrationRan changes nothing.)
RunOptionalStep ==
  /\ Works("optional", "idle")
  /\ \/ /\ contacts' = 0
        /\ UpdateSettings([settings EXCEPT !.optional = "done"])
     \/ /\ Fails /\ contacts > 0
        /\ contacts' \in 1 .. contacts
        /\ UNCHANGED <<settings, saved>>
  /\ Finish
  /\ UNCHANGED <<running, inbox, timer, updating, pending, alert,
                 done, arrived, active, installed,
                 seen, dropped, declined, menus, restarts>>

-----------------------------------------------------------------------------
(* The end and the start of the server *)

Stop ==
  /\ running /\ restarts < MaxRestarts
  /\ restarts' = restarts + 1
  /\ running' = FALSE
  /\ inbox' = <<>> /\ timer' = 0 /\ updating' = FALSE /\ pending' = FALSE /\ alert' = FALSE
  /\ jobs' = <<>> /\ at' = "idle" /\ next' = 0
  /\ declined' = (declined /\ saved = settings)
  /\ UNCHANGED <<settings, world, seen, dropped, menus, failures>>

\* (With settings that it cannot read the server quits at once.)
Start ==
  /\ ~running /\ saved # Unreadable
  /\ running' = TRUE
  /\ settings' = saved
  /\ jobs' = <<"migrations">>
  /\ timer' = 1
  /\ UNCHANGED <<inbox, updating, pending, alert, at, next, world, history>>

-----------------------------------------------------------------------------

Init ==
  /\ running = FALSE
  /\ inbox = <<>> /\ timer = 0 /\ updating = FALSE /\ pending = FALSE /\ alert = FALSE
  /\ settings = [version |-> 0, optional |-> "ask"]
  /\ jobs = <<>> /\ at = "idle" /\ next = 0
  /\ saved = settings
  /\ done = {} /\ contacts \in 0 .. MaxContacts
  /\ arrived = 0 /\ active = 0 /\ installed = 0
  /\ seen = 0 /\ dropped = 0 /\ declined = FALSE
  /\ menus = 0 /\ failures = 0 /\ restarts = 0

Users == ChangePackage \/ ActivatePackage \/ ChooseUpdate \/ AddContact \/ Answer

Handle == HandleChange \/ HandleUpdate \/ HandleUpdated \/ HandleQuestion \/ HandleYes \/ HandleNever \/ HandleLater

Work ==
  \/ BeginMigrations \/ RunStep \/ RecordVersion \/ EndSteps \/ AskOptional
  \/ BeginOntologies \/ EndOntologies \/ RunOptionalStep

Next == Users \/ TimerFires \/ Handle \/ Work \/ Stop \/ Start

\* The loopers handle what they are sent, and the timer is due sometime.  Nobody has to
\* start the server, change packages or answer.
Spec == Init /\ [][Next]_vars /\ WF_vars(TimerFires) /\ WF_vars(Handle) /\ WF_vars(Work)

-----------------------------------------------------------------------------
(* Properties *)

Count(s, what) == Cardinality({i \in DOMAIN s : s[i] = what})

\* SenServer.h: "Runs one update at a time".  The flag is set exactly while an update was
\* posted, runs, or has told the server that it ended: else a second one would run,
\* or none any more.
OneUpdateAtATime ==
  Count(jobs, "ontologies") + Count(inbox, "updated") = IF updating THEN 1 ELSE 0

\* Migrations.h: a step with failures stops the run, as the later steps may need it, and the
\* version is recorded after each step that is complete.  So all steps up to the version
\* that is known, or saved, were done, also over restarts.
RecordedIsDone ==
  /\ 1 .. settings.version \subseteq done
  /\ saved # Unreadable => 1 .. saved.version \subseteq done

\* Migrations.h: "Never" is remembered.  From then on the user is not asked, and the step
\* does not run.
AnswerIsKept ==
  declined => ~alert /\ Count(inbox, "question") = 0 /\ Count(jobs, "optional") = 0

\* SenServer.h: "Packages changed while an update was running: another one follows".  What was
\* active when the server was told to update is found by an update that begins
\* later, if the server keeps running and the update can be posted.
UpdatesFollow ==
  \A v \in 1 .. MaxChanges : (running /\ seen >= v) ~> (installed >= v \/ dropped >= v \/ ~running)
=============================================================================
