--------------------------- MODULE SettingsWindow ---------------------------
(***************************************************************************)
(* The window of the settings application (settings/SenSettingsWindow.cpp) *)
(* and those it asks: the server, which answers to a thread, and plugins,  *)
(* which are started with the request and answer to the window itself.     *)
(* The user chooses another node of the tree whenever he likes, so answers *)
(* come late, and every one is told by the serial of its request.          *)
(*                                                                         *)
(* Of settings only the owner is told apart.  Messages to the window reach *)
(* it in any order; those to a plugin, in the order they were sent in.  An *)
(* instance of a plugin has the number of the request that started it.     *)
(***************************************************************************)
EXTENDS Naturals, FiniteSets, Sequences

CONSTANTS Scopes,      \* what the server answers for: its settings, those of all plugins
          Plugins,     \* signatures with settings
          Nothing,
          MaxChoices,  \* bound: how often a node is chosen
          MaxChanges   \* bound: how many values the user changes

ASSUME WindowAssumption ==
  /\ MaxChoices \in Nat /\ MaxChanges \in Nat
  /\ Nothing \notin Scopes \cup Plugins /\ Scopes \cap Plugins = {}

VARIABLES
  \* the window
  chosen,     \* the node (fCore, fScope, fSignature)
  serial, waiting,
  started,    \* fStartedTeam, or 0
  sessions,   \* of each plugin the instance with a session of this window, or 0
  timer,      \* the serial that the message runner will tell, or 0
  form,       \* whose settings are in the form
  visible,    \* the form, and not the note
  open,
  \* what is under way
  mail,       \* messages in the queue of the window
  asked,      \* requests that threads put to the server
  told,       \* changes that the server has not answered
  teams,      \* the instances that run: of which plugin, and what they have not read
  \* history and bounds
  late,       \* an answer to a change of another node replaced what is in the form
  left,       \* instances that were started for a request that was left before its answer, but
              \* for those that answered it later and had no session to take
  ending,     \* instances that were told to end
  changes

form_ == <<form, visible, late>>
request_ == <<chosen, serial, waiting, timer, left>>
programs == <<teams, ending>>
windowVars == <<form_, request_, programs, started, sessions, open, mail, asked, told, changes>>

Running == DOMAIN teams
Session(p) == sessions[p] \in Running

\* Messages to instances.
Sent(t, message) == [teams EXCEPT ![t].inbox = Append(@, message)]

\* Every one of them that runs is told to end.
ToldToEnd(them, message) ==
  /\ ending' = ending \cup (them \cap Running)
  /\ teams' = [t \in Running |->
       IF t \in them THEN [teams[t] EXCEPT !.inbox = Append(@, message)] ELSE teams[t]]

Ask(number) == [what |-> "ask", number |-> number]
Close == [what |-> "close", number |-> 0]
Quit == [what |-> "quit", number |-> 0]

-----------------------------------------------------------------------------
(* _Select, _Request *)

\* Fault: the runner is made before the serial of the new request is counted.
RenewedWithOldSerial(node) ==
  /\ open /\ serial < MaxChoices
  /\ chosen' = node
  /\ serial' = serial + 1
  /\ timer' = serial
  /\ left' = IF waiting /\ started # 0 THEN left \cup {started} ELSE left

\* Another node was chosen; the timer of the request before is gone.
Renewed(node) ==
  /\ open /\ serial < MaxChoices
  /\ chosen' = node
  /\ serial' = serial + 1
  /\ timer' = serial + 1
  /\ left' = IF waiting /\ started # 0 THEN left \cup {started} ELSE left

\* The form stays as it is until the server answered.  Without a thread nothing is asked.
SelectScope(s) ==
  /\ Renewed(s) /\ waiting' = TRUE
  /\ \/ asked' = asked \cup {[serial |-> serial', scope |-> s]}
     \/ UNCHANGED asked
  /\ UNCHANGED <<form_, programs, started, sessions, open, mail, told, changes>>

\* The instance that has a session is asked, else one is started by its file.
SelectPlugin(p) ==
  /\ Renewed(p) /\ visible' = FALSE
  /\ \/ /\ Session(p) /\ waiting' = TRUE
        /\ teams' = Sent(sessions[p], Ask(serial'))
        /\ UNCHANGED started
     \/ /\ ~Session(p) /\ waiting' = TRUE
        /\ teams' = [t \in Running \cup {serial'} |->
             IF t = serial' THEN [plugin |-> p, inbox |-> <<Ask(serial')>>] ELSE teams[t]]
        /\ started' = serial'
     \/ \* could not be started
        /\ ~Session(p) /\ waiting' = FALSE
        /\ UNCHANGED <<teams, started>>
  /\ UNCHANGED <<form, late, sessions, open, mail, asked, told, changes, ending>>

-----------------------------------------------------------------------------
(* MessageReceived *)

\* Fault: an answer is not told by its serial.
ReadyWhileWaiting(m) ==
  /\ open /\ m \in mail /\ m.what \in {"ready", "reply"}
  /\ waiting
  /\ waiting' = FALSE /\ started' = 0
  /\ visible' = m.ok
  /\ form' = IF m.ok THEN m.of ELSE form
  /\ late' = (late /\ ~m.ok)
  /\ sessions' = IF m.what = "reply" /\ m.team \in Running
                 THEN [sessions EXCEPT ![m.of] = m.team] ELSE sessions
  /\ mail' = mail \ {m}
  /\ UNCHANGED <<chosen, serial, timer, left, programs, open, asked, told, changes>>

\* _Ready: what the current request got goes into the form, or the note says why not.
Ready(m) ==
  /\ open /\ m \in mail /\ m.what \in {"ready", "reply"}
  /\ m.serial = serial
  /\ waiting' = FALSE /\ started' = 0
  /\ visible' = m.ok
  /\ form' = IF m.ok THEN m.of ELSE form
  /\ late' = (late /\ ~m.ok)
  /\ sessions' = IF m.what = "reply" /\ m.team \in Running
                 THEN [sessions EXCEPT ![chosen] = m.team] ELSE sessions
  /\ mail' = mail \ {m}
  /\ UNCHANGED <<chosen, serial, timer, left, programs, open, asked, told, changes>>

\* An answer to an older request: an instance that has no use for its session is told so, if
\* its plugin has no session (be it one whose instance is gone).
Unused(m) == m.what = "reply" /\ m.team \in Running /\ sessions[m.of] = 0

ReadyLate(m) ==
  /\ open /\ m \in mail /\ m.what \in {"ready", "reply"}
  /\ m.serial # serial
  /\ ToldToEnd(IF Unused(m) THEN {m.team} ELSE {}, Close)
  /\ left' = IF Unused(m) THEN left \ {m.team} ELSE left
  /\ mail' = mail \ {m}
  /\ UNCHANGED <<form_, chosen, serial, waiting, timer, started, sessions, open, asked, told, changes>>

\* kMsgTimeout: the instance that was started is asked to end.
TimeoutOfCurrent(m) ==
  /\ open /\ m \in mail /\ m.what = "timeout"
  /\ waiting /\ m.serial = serial
  /\ waiting' = FALSE /\ started' = 0 /\ visible' = FALSE
  /\ ToldToEnd({started}, Quit)
  /\ mail' = mail \ {m}
  /\ UNCHANGED <<chosen, serial, timer, left, form, late, sessions, open, asked, told, changes>>

TimeoutLate(m) ==
  /\ open /\ m \in mail /\ m.what = "timeout"
  /\ ~(waiting /\ m.serial = serial)
  /\ mail' = mail \ {m}
  /\ UNCHANGED <<form_, request_, programs, started, sessions, open, asked, told, changes>>

\* _Changed: the form tells a change, which goes to the owner of the chosen node, whoever owns
\* what is in the form.
Changed(m) ==
  /\ open /\ m \in mail /\ m.what = "changed"
  /\ mail' = mail \ {m}
  /\ IF chosen \in Scopes
     THEN /\ told' = told \cup {[number |-> m.number, scope |-> chosen]}
          /\ UNCHANGED teams
     ELSE /\ teams' = IF Session(chosen)
                      THEN Sent(sessions[chosen], [what |-> "set", number |-> m.number]) ELSE teams
          /\ UNCHANGED told
  /\ UNCHANGED <<form_, request_, ending, started, sessions, open, asked, changes>>

\* _Answered: the settings as their owner has them now replace those in the form if they differ,
\* as those of another owner always do.
Answered(m) ==
  /\ open /\ m \in mail /\ m.what = "answer"
  /\ form' = m.of
  /\ late' = (m.of # chosen)
  /\ mail' = mail \ {m}
  /\ UNCHANGED <<visible, request_, programs, started, sessions, open, asked, told, changes>>

\* The window is gone, and what comes for it is dropped.
Closed ==
  /\ open /\ open' = FALSE
  /\ left' = IF waiting /\ started # 0 THEN left \cup {started} ELSE left
  /\ timer' = 0 /\ mail' = {} /\ asked' = {} /\ told' = {}
  /\ UNCHANGED <<form_, chosen, serial, waiting, started, sessions, changes>>

\* Fault: the sessions are dropped without a word.
LeaveWindow == Closed /\ UNCHANGED programs

QuitRequested == Closed /\ ToldToEnd({sessions[p] : p \in Plugins}, Close)

Handle ==
  \E m \in mail : Ready(m) \/ ReadyLate(m) \/ TimeoutOfCurrent(m) \/ TimeoutLate(m)
                    \/ Changed(m) \/ Answered(m)

-----------------------------------------------------------------------------
(* The user and the message runner *)

\* A value, or all of them: the button for the defaults works on what is in the form.
Change ==
  /\ open /\ visible /\ changes < MaxChanges
  /\ changes' = changes + 1
  /\ mail' = mail \cup {[what |-> "changed", number |-> changes']}
  /\ UNCHANGED <<form_, request_, programs, started, sessions, open, asked, told>>

\* (When the request has its answer, the message that is told would change nothing.)
Fire ==
  /\ open /\ waiting /\ timer # 0
  /\ timer' = 0
  /\ mail' = mail \cup {[what |-> "timeout", serial |-> timer]}
  /\ UNCHANGED <<form_, chosen, serial, waiting, left, programs, started, sessions, open, asked, told, changes>>

-----------------------------------------------------------------------------
(* The server and the plugins *)

\* RunRequest: the server answered, or is not there or too slow.
Served(r) ==
  /\ r \in asked /\ asked' = asked \ {r}
  /\ \E ok \in BOOLEAN :
       mail' = mail \cup {[what |-> "ready", serial |-> r.serial, of |-> r.scope, team |-> 0, ok |-> ok]}
  /\ UNCHANGED <<form_, request_, programs, started, sessions, open, told, changes>>

\* kCoreSettingsSet: the answer has the settings as they are now.
SetServed(c) ==
  /\ c \in told /\ told' = told \ {c}
  /\ mail' = mail \cup {[what |-> "answer", number |-> c.number, of |-> c.scope]}
  /\ UNCHANGED <<form_, request_, programs, started, sessions, open, asked, changes>>

\* A plugin reads a message, for as long as somebody waits for what it says.  It may not know a request, have no settings, and not answer.
Read(t, message) ==
  \/ /\ message.what = "ask"
     /\ \E ok \in BOOLEAN :
          mail' = mail \cup {[what |-> "reply", serial |-> message.number, of |-> teams[t].plugin,
                              team |-> t, ok |-> ok]}
  \/ /\ message.what = "set"
     /\ mail' = mail \cup {[what |-> "answer", number |-> message.number, of |-> teams[t].plugin]}
  \/ UNCHANGED mail

PluginStep(t) ==
  /\ open /\ t \in Running /\ teams[t].inbox # <<>>
  /\ Head(teams[t].inbox).what \in {"ask", "set"}
  /\ Read(t, Head(teams[t].inbox))
  /\ teams' = [teams EXCEPT ![t].inbox = Tail(@)]
  /\ UNCHANGED <<form_, request_, ending, started, sessions, open, asked, told, changes>>

\* It was told to end, or crashes.
PluginEnds(t) ==
  /\ t \in Running
  /\ teams' = [u \in Running \ {t} |-> teams[u]]
  /\ UNCHANGED <<form_, request_, ending, started, sessions, open, mail, asked, told, changes>>

-----------------------------------------------------------------------------
\* The node that is shown first is chosen as any other: a scope, or the plugin that was given.
WindowInit ==
  /\ chosen \in Scopes /\ serial = 0 /\ waiting = FALSE /\ timer = 0
  /\ started = 0 /\ sessions = [p \in Plugins |-> 0]
  /\ form = Nothing /\ visible = FALSE /\ open = TRUE
  /\ mail = {} /\ asked = {} /\ told = {}
  /\ teams = [t \in {} |-> Nothing]
  /\ late = FALSE /\ left = {} /\ ending = {} /\ changes = 0

Done == ~open /\ UNCHANGED windowVars

WindowNext ==
  \/ \E s \in Scopes : SelectScope(s)
  \/ \E p \in Plugins : SelectPlugin(p)
  \/ Handle \/ QuitRequested \/ Change \/ Fire
  \/ \E r \in asked : Served(r)
  \/ \E c \in told : SetServed(c)
  \/ \E t \in Running : PluginStep(t) \/ PluginEnds(t)
  \/ Done

\* The looper of the window handles its messages, and the message runner fires.  Nothing is
\* assumed of the server and the plugins: they may never answer.
WindowFairness ==
  /\ WF_windowVars(Fire)
  /\ WF_windowVars(\E m \in mail : TimeoutOfCurrent(m))

WindowSpec == WindowInit /\ [][WindowNext]_windowVars /\ WindowFairness

-----------------------------------------------------------------------------
Messages ==
  [what : {"ready"}, serial : 1..MaxChoices, of : Scopes, team : {0}, ok : BOOLEAN]
    \cup [what : {"reply"}, serial : 1..MaxChoices, of : Plugins, team : 1..MaxChoices, ok : BOOLEAN]
    \cup [what : {"timeout"}, serial : 1..MaxChoices]
    \cup [what : {"changed"}, number : 1..MaxChanges]
    \cup [what : {"answer"}, number : 1..MaxChanges, of : Scopes \cup Plugins]

TypeOK ==
  /\ chosen \in Scopes \cup Plugins /\ serial \in 0..MaxChoices /\ waiting \in BOOLEAN
  /\ started \in 0..serial /\ sessions \in [Plugins -> 0..serial] /\ timer \in 0..serial
  /\ form \in Scopes \cup Plugins \cup {Nothing} /\ visible \in BOOLEAN /\ open \in BOOLEAN
  /\ mail \subseteq Messages
  /\ asked \subseteq [serial : 1..MaxChoices, scope : Scopes]
  /\ told \subseteq [number : 1..MaxChanges, scope : Scopes]
  /\ Running \subseteq 1..serial
  /\ late \in BOOLEAN /\ left \subseteq 1..serial /\ ending \subseteq 1..serial
  /\ changes \in 0..MaxChanges

\* What the form shows while nothing is waited for are the settings of the node that is chosen,
\* in whatever order the answers to this request and to earlier ones came, unless an answer to a
\* change of another node, which no serial tells apart, was put there (_Answered).
FormIsOfChosen == visible /\ ~waiting /\ ~late => form = chosen

\* An instance of a plugin that runs has a session of the window or is waited for, and the window
\* that is closed told every one to end: the exceptions are those whose request was left, by
\* choosing another node or closing the window, and that did not answer it afterwards or found
\* that their plugin had a session already (_Ready, QuitRequested).
PluginsAreLetGo ==
  \A t \in Running \ (ending \cup left) :
    open /\ (sessions[teams[t].plugin] = t \/ (waiting /\ started = t))

\* A request that is waited for ends: with an answer, with its time limit, or because another
\* one took its place or the window is closed (kMsgTimeout, _Request).
RequestsEnd ==
  \A n \in 1..MaxChoices : (waiting /\ serial = n) ~> (~waiting \/ serial > n \/ ~open)

=============================================================================
