------------------------------ MODULE Settings ------------------------------
(***************************************************************************)
(* The settings of the server in memory and in their file                  *)
(* (config/SenConfigHandler.cpp), and the context that is chosen           *)
(* (SenUi::_SetContext).                                                   *)
(*                                                                         *)
(* Three threads of the server change settings: its looper, a window and   *)
(* the worker that migrates.  A change replaces fields of the message in   *)
(* memory and saves all of it: the file is erased and written again.  The  *)
(* program can end at any time, and the command line changes the file,     *)
(* too, when it finds no server.                                           *)
(***************************************************************************)
EXTENDS CoreSettings

CONSTANTS Default,     \* the context that is every file
          Legacy,      \* what it was called before
          Named,       \* other contexts that there are
          Steps,       \* the number of migrations
          Changes,     \* what a user may change in the form of the settings
          NoFile, Unreadable, Nobody, NoContext,
          MaxRequests, \* bound: how much users and migrations change
          MaxFailures, \* bound: writes that fail
          MaxEnds      \* bound: how often a program ends

Threads == {"server", "window", "worker"}
Contexts == {Default, Legacy} \cup Named

\* What the fields of the settings can be.
Keys == {"unset"} \cup {change["key"] : change \in {c \in Changes : "key" \in DOMAIN c}}
AllSettings ==
  [context : Contexts, dark : {"unset", "true", "false"}, key : Keys, version : Nat, paths : {"old", "new"}]

ASSUME SettingsAssumption ==
  /\ Steps \in Nat /\ MaxRequests \in Nat /\ MaxFailures \in Nat /\ MaxEnds \in Nat
  /\ Default \notin Named /\ Legacy \notin Named /\ Default # Legacy
  /\ NoFile \notin AllSettings /\ Unreadable \notin AllSettings /\ NoFile # Unreadable
  /\ Nobody \notin Threads /\ NoContext \notin Contexts

VARIABLES
  \* on the disk
  folder,    \* the settings folder is there
  file,      \* the settings file: settings, Unreadable (erased, or written in part), NoFile
  contexts,  \* the folders of contexts
  locked,    \* those with the attribute SEN:sticky
  \* the server
  phase,     \* off; first, repair: it saves what it loaded; running
  usable,    \* fSettingsDir was set when the folder was there
  memory,    \* fSettingsMsg
  holder,    \* who has fSettingsLock
  flux,      \* a field is being replaced
  todo,      \* the changes that a thread still has to make
  at,        \* what a thread does with the first of them
  buffer,    \* what it writes
  choosing,  \* the context that is chosen while others are let go
  others,    \* those to look at yet
  \* the command line
  cli,       \* off; ready: there was no server; read, opened
  copy,      \* the settings it read, and will write
  \* history and bounds
  causes,    \* what may have cost settings
  requests, failures, ends

disk == <<folder, file, contexts, locked>>
state == <<phase, usable, memory, holder, flux>>
work == <<todo, at, buffer>>
choice == <<choosing, others>>
command == <<cli, copy>>
bounds == <<requests, failures, ends>>
vars == <<disk, state, work, choice, command, causes, bounds>>

-----------------------------------------------------------------------------
(* What the settings are *)

\* Of the settings of the forms one stands for all; "unset" is a field that is not there.
Unset == [context |-> Default, dark |-> "unset", key |-> "unset", version |-> 0, paths |-> "old"]

Stored(settings) == [f \in {f \in {"key"} : settings[f] # "unset"} |-> settings[f]]

\* Settings that cannot be read are none.
ReadFile == IF file \in {NoFile, Unreadable} THEN Unset ELSE file

Fails == failures < MaxFailures /\ failures' = failures + 1

-----------------------------------------------------------------------------
(* The start: LoadSettings *)

\* The default context had another name: its folder is renamed, if it can be.
MigrateDefaultContext(there) ==
  IF Legacy \in there /\ Default \notin there
    THEN {(there \ {Legacy}) \cup {Default}, there}
    ELSE {there}

\* The folders that the settings name are made, and what the settings say of them.
EnsurePaths(settings) ==
  [settings EXCEPT !.paths = "new", !.context = IF @ = Legacy THEN Default ELSE @]

\* What was loaded is saved if it changed.
Loaded(settings, folders, next) ==
  /\ memory' = EnsurePaths(settings)
  /\ \E there \in MigrateDefaultContext(folders) :
       /\ contexts' = there \cup {Default}
       /\ phase' = next
       /\ at' = IF phase' = "running" THEN at ELSE [at EXCEPT !["server"] = "changed"]

StartFails == UNCHANGED <<folder, contexts, state, at>>

\* No file: the settings of a first start.  The status of InitDefaultSettings is only set
\* when the folder has to be made; else it is whatever the memory held.  fSettingsDir was
\* set before the folder was made.
InitDefaultSettings ==
  /\ file = NoFile
  /\ \/ /\ folder' = TRUE /\ usable' = folder
        /\ Loaded(Unset, contexts \cup {Default}, "first")
        /\ UNCHANGED <<holder, flux>>
     \/ folder /\ StartFails

ReadSettings ==
  /\ file \notin {NoFile, Unreadable}
  /\ usable' = TRUE
  /\ Loaded(file, contexts, IF memory' # file \/ contexts' # contexts THEN "repair" ELSE "running")
  /\ UNCHANGED <<folder, holder, flux>>

CannotRead ==
  /\ file = Unreadable
  /\ StartFails

Start ==
  /\ phase = "off"
  /\ InitDefaultSettings \/ ReadSettings \/ CannotRead
  /\ causes' = causes \cup (IF cli = "off" THEN {} ELSE {"two programs"})
                      \cup (IF folder THEN {} ELSE {"no folder"})
                      \cup (IF ReadFile.context = Legacy THEN {"old name"} ELSE {})
  /\ UNCHANGED <<file, locked, todo, buffer, choice, command, bounds>>

-----------------------------------------------------------------------------
(* UpdateSettings and SaveSettings *)

\* Fault: without the lock.
LockAnyway(t) ==
  /\ phase = "running" /\ todo[t] # <<>> /\ at[t] = "idle"
  /\ holder' = t /\ flux' = TRUE
  /\ at' = [at EXCEPT ![t] = "locked"]
  /\ UNCHANGED <<disk, phase, usable, memory, todo, buffer, choice, command, causes, bounds>>

\* The lock is taken, and the old value of the field removed.
Lock(t) ==
  /\ phase = "running" /\ todo[t] # <<>> /\ at[t] = "idle"
  /\ holder = Nobody
  /\ holder' = t /\ flux' = TRUE
  /\ at' = [at EXCEPT ![t] = "locked"]
  /\ UNCHANGED <<disk, phase, usable, memory, todo, buffer, choice, command, causes, bounds>>

SetField(t) ==
  /\ at[t] = "locked"
  /\ memory' = [memory EXCEPT ![Head(todo[t]).field] = Head(todo[t]).value]
  /\ flux' = FALSE
  /\ at' = [at EXCEPT ![t] = "changed"]
  /\ UNCHANGED <<disk, phase, usable, holder, todo, buffer, choice, command, causes, bounds>>

\* B_ERASE_FILE: what was saved is gone.
Open(t) ==
  /\ at[t] = "changed"
  /\ file' = IF usable THEN Unreadable ELSE file
  /\ buffer' = [buffer EXCEPT ![t] = memory]
  /\ at' = [at EXCEPT ![t] = "opened"]
  /\ UNCHANGED <<folder, contexts, locked, state, todo, choice, command, causes, bounds>>

\* Fault: a save that failed returns with the lock.
SavedOrLocked(t, ok) ==
  /\ at' = [at EXCEPT ![t] = "idle"]
  /\ IF phase = "running"
       THEN /\ holder' = IF ok THEN Nobody ELSE holder
            /\ todo' = [todo EXCEPT ![t] = Tail(@)] /\ UNCHANGED phase
       ELSE /\ phase' = IF phase = "first" /\ ~ok THEN "off" ELSE "running"
            /\ UNCHANGED <<holder, todo>>
  /\ buffer' = [buffer EXCEPT ![t] = Unset]
  /\ UNCHANGED <<folder, contexts, locked, usable, memory, flux, choice, command,
                 requests, ends>>

\* The lock is let go of with the end of UpdateSettings; the start has none.  A first start
\* ends when it cannot save.
Saved(t, ok) ==
  /\ at' = [at EXCEPT ![t] = "idle"]
  /\ IF phase = "running"
       THEN holder' = Nobody /\ todo' = [todo EXCEPT ![t] = Tail(@)] /\ UNCHANGED phase
       ELSE /\ phase' = IF phase = "first" /\ ~ok THEN "off" ELSE "running"
            /\ UNCHANGED <<holder, todo>>
  /\ buffer' = [buffer EXCEPT ![t] = Unset]
  /\ UNCHANGED <<folder, contexts, locked, usable, memory, flux, choice, command,
                 requests, ends>>

Write(t) ==
  /\ at[t] = "opened" /\ usable
  /\ file' = buffer[t]
  /\ Saved(t, TRUE)
  /\ UNCHANGED <<causes, failures>>

\* It can be opening that fails.  Without a folder that is open the file goes elsewhere, or
\* it fails.
WriteFails(t) ==
  /\ at[t] \in {"changed", "opened"}
  /\ IF usable THEN Fails ELSE UNCHANGED failures
  /\ \E ok \in BOOLEAN : (ok => ~usable) /\ Saved(t, ok)
  /\ causes' = causes \cup {"write failed"}
  /\ UNCHANGED file

-----------------------------------------------------------------------------
(* What is changed *)

Idle(t) == phase = "running" /\ todo[t] = <<>> /\ (t = "server" => choosing = NoContext)

Request == requests < MaxRequests /\ requests' = requests + 1

Post(t, changes) ==
  /\ todo' = [todo EXCEPT ![t] = changes]
  /\ UNCHANGED <<folder, file, contexts, state, at, buffer, command, causes, failures, ends>>

\* kCoreSettingsSet: the form is compared with the settings when it comes, the updates
\* follow each other.
ApplyForm ==
  /\ Idle("server") /\ Request /\ holder = Nobody
  /\ \E change \in Changes : Post("server", Updates("core", Stored(memory), change))
  /\ UNCHANGED <<locked, choice>>

\* GraphWindow, kDark
SetDark ==
  /\ Idle("window") /\ Request
  /\ \E dark \in {"true", "false"} : Post("window", <<[field |-> "dark", value |-> dark]>>)
  /\ UNCHANGED <<locked, choice>>

\* RunMigrations: GetConfig, and after the step VersionStore.write
RecordVersion ==
  /\ Idle("worker") /\ holder = Nobody /\ memory.version < Steps
  /\ Post("worker", <<[field |-> "version", value |-> memory.version + 1]>>)
  /\ UNCHANGED <<locked, choice, requests>>

\* SetSticky: how the write of the attribute went is not looked at.
SetSticky(c, on) ==
  \/ /\ locked' = IF on THEN locked \cup {c} ELSE locked \ {c}
     /\ UNCHANGED <<failures, causes>>
  \/ /\ Fails
     /\ causes' = causes \cup {"write failed"}
     /\ UNCHANGED locked

\* _SetContext: with Shift the context is locked first, or let go, which is all then.
ChooseContext ==
  /\ Idle("server") /\ Request
  /\ \E c \in contexts :
       \/ /\ choosing' = c /\ others' = contexts \ {c}
          /\ UNCHANGED <<locked, failures, causes>>
       \/ /\ c # Default /\ c \notin locked
          /\ SetSticky(c, TRUE)
          /\ choosing' = c /\ others' = contexts \ {c}
       \/ /\ c # Default /\ c \in locked
          /\ SetSticky(c, FALSE)
          /\ UNCHANGED choice
  /\ UNCHANGED <<folder, file, contexts, state, work, command, ends>>

LetGo ==
  /\ phase = "running" /\ choosing # NoContext
  /\ \E c \in others : SetSticky(c, FALSE) /\ others' = others \ {c}
  /\ UNCHANGED <<folder, file, contexts, state, work, choosing, command,
                 requests, ends>>

\* Fault: the context becomes the current one before all others are let go.
MakeCurrentAtOnce ==
  /\ phase = "running" /\ choosing # NoContext
  /\ Post("server", <<[field |-> "context", value |-> choosing]>>)
  /\ choosing' = NoContext /\ others' = {}
  /\ UNCHANGED <<locked, requests>>

MakeCurrent ==
  /\ phase = "running" /\ choosing # NoContext /\ others = {}
  /\ Post("server", <<[field |-> "context", value |-> choosing]>>)
  /\ choosing' = NoContext
  /\ UNCHANGED <<locked, others, requests>>

-----------------------------------------------------------------------------
(* The end of the server, and the command line *)

\* It ends, or the machine does; what a thread was writing is lost.
End ==
  /\ phase # "off" /\ ends < MaxEnds
  /\ ends' = ends + 1
  /\ phase' = "off" /\ holder' = Nobody /\ flux' = FALSE
  /\ memory' = Unset /\ usable' = FALSE
  /\ todo' = [t \in Threads |-> <<>>] /\ at' = [t \in Threads |-> "idle"]
  /\ buffer' = [t \in Threads |-> Unset]
  /\ choosing' = NoContext /\ others' = {}
  /\ causes' = causes
       \cup (IF \E t \in Threads : at[t] = "opened" THEN {"died while saving"} ELSE {})
       \cup (IF choosing # NoContext \/ todo["server"] # <<>> THEN {"died while choosing"} ELSE {})
  /\ UNCHANGED <<disk, command, requests, failures>>

\* sen --migrate looks for a server, reads the version and runs the step that follows.
CliStart ==
  /\ phase = "off" /\ cli = "off" /\ folder /\ Request
  /\ cli' = "ready"
  /\ copy' = ReadFile
  /\ copy'.version < Steps
  /\ UNCHANGED <<disk, state, work, choice, causes, failures, ends>>

\* SettingsFileStore, write: the settings are read again, for the fields that it does not change.
CliRead ==
  /\ cli = "ready"
  /\ copy' = [ReadFile EXCEPT !.version = copy.version + 1]
  /\ cli' = "read"
  /\ UNCHANGED <<disk, state, work, choice, causes, bounds>>

CliOpen ==
  /\ cli = "read"
  /\ file' = Unreadable
  /\ cli' = "opened"
  /\ causes' = causes \cup (IF phase = "off" THEN {} ELSE {"two programs"})
  /\ UNCHANGED <<folder, contexts, locked, state, work, choice, copy, bounds>>

CliWrite ==
  /\ cli = "opened"
  /\ file' = copy
  /\ cli' = "off" /\ copy' = Unset
  /\ causes' = causes \cup (IF phase = "off" THEN {} ELSE {"two programs"})
  /\ UNCHANGED <<folder, contexts, locked, state, work, choice, bounds>>

CliEnds ==
  /\ cli # "off" /\ ends < MaxEnds
  /\ ends' = ends + 1
  /\ causes' = causes \cup (IF cli = "opened" THEN {"died while saving"} ELSE {})
  /\ cli' = "off" /\ copy' = Unset
  /\ UNCHANGED <<disk, state, work, choice, requests, failures>>

-----------------------------------------------------------------------------

Init ==
  /\ \/ /\ folder \in BOOLEAN /\ file = NoFile
        /\ contexts = {} /\ locked = {}
     \/ /\ folder = TRUE
        /\ file = [Unset EXCEPT !.context = Legacy]
        /\ contexts \in {{Legacy}, {Legacy, Default}} /\ locked = {}
     \/ /\ folder = TRUE
        /\ \E c \in {Default} \cup Named : file = [Unset EXCEPT !.paths = "new", !.context = c]
        /\ contexts = {Default} \cup Named
        /\ locked \in SUBSET ({file.context} \ {Default})
  /\ phase = "off" /\ usable = FALSE /\ memory = Unset /\ holder = Nobody /\ flux = FALSE
  /\ todo = [t \in Threads |-> <<>>] /\ at = [t \in Threads |-> "idle"]
  /\ buffer = [t \in Threads |-> Unset]
  /\ choosing = NoContext /\ others = {} /\ cli = "off" /\ copy = Unset
  /\ causes = {}
  /\ requests = 0 /\ failures = 0 /\ ends = 0

ThreadStep(t) == Lock(t) \/ SetField(t) \/ Open(t) \/ Write(t) \/ WriteFails(t)

Next ==
  \/ Start
  \/ \E t \in Threads : ThreadStep(t)
  \/ ApplyForm \/ SetDark \/ RecordVersion
  \/ ChooseContext \/ LetGo \/ MakeCurrent
  \/ End
  \/ CliStart \/ CliRead \/ CliOpen \/ CliWrite \/ CliEnds

\* The threads run, and get the lock in their turn.
Fairness ==
  /\ \A t \in Threads : SF_vars(Lock(t)) /\ WF_vars(SetField(t) \/ Open(t) \/ Write(t) \/ WriteFails(t))
  /\ WF_vars(LetGo \/ MakeCurrent)

Spec == Init /\ [][Next]_vars /\ Fairness

-----------------------------------------------------------------------------
(* Properties *)

\* Nothing writes the file at the moment.
Quiet == cli # "opened" /\ \A t \in Threads : at[t] = "idle"

\* What is changed is kept: between changes the file holds what the server knows, and it can
\* be read whenever the next server starts - whichever threads change settings at the same
\* time (SaveSettings, UpdateSettings: "Can be called from any thread").  The exceptions are
\* named by causes: a write that failed, a program that died while it saved, two programs.
SettingsSurvive ==
  (causes \subseteq {"died while choosing", "old name"} /\ Quiet) =>
    /\ file # Unreadable
    /\ phase = "running" => file = memory

\* Only one context is locked, and it is the one that is chosen, whatever of them was locked
\* and let go before: _SetContext, "only one is sticky, and it is the one that was locked on
\* purpose".  It takes several writes, and a server that dies between them leaves them as
\* they are; and a context with the old name of the default one is not current after a start.
LockedIsCurrent ==
  (causes = {} /\ phase = "running" /\ choosing = NoContext /\ todo["server"] = <<>>) =>
    locked \subseteq {memory.context} \ {Default}

\* A context that is chosen becomes the current one, as long as the server runs: the threads
\* that save settings all let go of the lock.
ChosenBecomesCurrent ==
  \A c \in Contexts : choosing = c ~> (memory.context = c \/ phase # "running")

=============================================================================
