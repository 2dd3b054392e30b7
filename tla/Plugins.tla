------------------------------ MODULE Plugins -------------------------------
(***************************************************************************)
(* The server and the plugins that it starts: for the relations of a file  *)
(* to itself, whose reply its looper waits for                             *)
(* (RelationHandler::ResolveSelfRelationsWithPlugin), and to enrich files, *)
(* one after the other, in a queue of its own (server/Enrichment.cpp).     *)
(*                                                                         *)
(* Plugins are programs: they may never end, end without a reply, and ask  *)
(* the server themselves.  A reply travels in a message of its own and may *)
(* arrive after its plugin is gone.                                        *)
(***************************************************************************)
EXTENDS Naturals, FiniteSets, Sequences

CONSTANTS Requests,       \* what clients ask of the server
          Files, Programs,\* files, and the plugins for them
          EnrichedBy,     \* the programs that enrich, in the order of the query
          Supports(_, _), \* whether a program declares the type of a file
          Single,         \* programs of which only one instance runs
          Enrichable(_),  \* the sequences of files that clients ask to enrich
          Extractor,      \* the program for self relations
          Nobody, NoAnswer,
          MaxTeams,       \* bound: how many programs are started
          MaxAsks         \* bound: how often plugins ask the server

\* What requests are answered: how, and of which team, or 0.
Answers == [how : {"ok", "bad value", "not supported", "not started",
                   "failed", "nothing", "relations", "gone"}, team : Nat]

ASSUME PluginsAssumption ==
  /\ MaxTeams \in Nat /\ MaxAsks \in Nat
  /\ Extractor \notin Single
  /\ Nobody \notin Nat /\ NoAnswer \notin Answers

VARIABLES
  \* the server
  inbox,      \* the messages in the queue of its looper
  waits,      \* the team whose reply it waits for, or Nobody
  served,     \* the request that it waits for
  collected,  \* the replies that the collector of this request got
  grace,      \* the team was gone: it waits a last time
  answers,    \* of each request
  \* the queue
  jobs,       \* files with the plugin that gets them
  watched,    \* the team that the queue waits for, or Nobody
  \* the programs
  teams,      \* those that run: what each is, the files it enriches, whether it was told to
              \* reply, and whether it waits for the server
  last,       \* the number of the last team
  flying,     \* replies that have not arrived: of which team
  \* history and bounds
  replied,    \* the teams that replied
  expired,    \* teams that were waited for in vain for the longest time
  accepted,   \* files that will be enriched, as was answered
  begun,      \* files that went to their plugin, or whose plugin could not be started
  asks

server == <<inbox, waits, served, collected, grace, answers>>
queue == <<jobs, watched>>
programs == <<teams, last, flying>>
history == <<replied, expired, accepted, begun, asks>>
vars == <<server, queue, programs, history>>

Running == DOMAIN teams

Idle == waits = Nobody

\* An answer that no plugin gave.
Plain(how) == [how |-> how, team |-> 0]

Started(program, files, told) ==
  /\ last < MaxTeams
  /\ last' = last + 1
  /\ teams' = [t \in Running \cup {last'} |->
                 IF t # last' THEN teams[t]
                 ELSE [program |-> program, files |-> files, told |-> told, asking |-> FALSE]]

-----------------------------------------------------------------------------
(* Clients *)

Asked(r) == answers[r] # NoAnswer \/ r = served \/ \E i \in DOMAIN inbox : inbox[i].from = r

Ask(r) ==
  /\ ~Asked(r)
  /\ \/ \E files \in Enrichable(r) :
          inbox' = Append(inbox, [kind |-> "enrich", from |-> r, files |-> files, team |-> 0])
     \/ inbox' = Append(inbox, [kind |-> "resolve", from |-> r, files |-> <<>>, team |-> 0])
  /\ UNCHANGED <<waits, served, collected, grace, answers, queue, programs, history>>

\* A user starts a plugin, which then runs when the queue wants it.
StartByUser ==
  /\ \E p \in Single :
       /\ ~\E t \in Running : teams[t].program = p
       /\ Started(p, {}, FALSE)
  /\ UNCHANGED <<server, queue, flying, history>>

-----------------------------------------------------------------------------
(* kEnrichRefs: sen::enrich::Handle *)

\* PluginFor: the first of them that supports the type of the file.
Candidates(f) == SelectSeq(EnrichedBy, LAMBDA p : Supports(p, f))

Handled(files) == SelectSeq(files, LAMBDA f : Candidates(f) # <<>>)

JobsFor(files) ==
  LET handled == Handled(files)
  IN  [i \in DOMAIN handled |-> [file |-> handled[i], plugin |-> Head(Candidates(handled[i]))]]

\* Files that no plugin handles are told to the user; the rest is queued.
HandleEnrich ==
  /\ Idle /\ inbox # <<>> /\ Head(inbox).kind = "enrich"
  /\ LET new == JobsFor(Head(inbox).files) IN
     /\ jobs' = jobs \o new
     /\ accepted' = accepted \cup {new[i].file : i \in DOMAIN new}
     /\ answers' = [answers EXCEPT ![Head(inbox).from] = Plain(
          IF Head(inbox).files = <<>> THEN "bad value"
          ELSE IF new = <<>> THEN "not supported" ELSE "ok")]
  /\ inbox' = Tail(inbox)
  /\ UNCHANGED <<waits, served, collected, grace, watched, programs, replied, expired, begun, asks>>

-----------------------------------------------------------------------------
(* The queue: EnrichQueue *)

\* Fault: what ran already is not waited for.
HandedOnly(t, f) ==
  /\ teams' = [teams EXCEPT ![t].files = @ \cup {f}]
  /\ UNCHANGED <<watched, last>>

\* A program of which one instance runs gets the file, too, and is waited for as well.
Handed(t, f) ==
  /\ teams' = [teams EXCEPT ![t].files = @ \cup {f}]
  /\ watched' = t
  /\ UNCHANGED last

LaunchNext ==
  /\ watched = Nobody /\ jobs # <<>>
  /\ LET job == Head(jobs)
         same == {t \in Running : teams[t].program = job.plugin}
     IN
     /\ \/ \E t \in same : job.plugin \in Single /\ Handed(t, job.file)
        \/ /\ job.plugin \notin Single \/ same = {}
           /\ Started(job.plugin, {job.file}, FALSE)
           /\ watched' = last'
        \/ UNCHANGED <<teams, last, watched>>   \* it could not be started
     /\ begun' = begun \cup {job.file}
  /\ jobs' = Tail(jobs)
  /\ UNCHANGED <<server, flying, replied, expired, accepted, asks>>

\* Fault: no deadline.
OverWhenGone(t) == t \notin Running /\ UNCHANGED expired

\* It has ended, or was waited for long enough.
Over(t) == expired' = expired \cup ({t} \cap Running)

StopWatching ==
  /\ watched # Nobody
  /\ Over(watched)
  /\ watched' = Nobody
  /\ UNCHANGED <<server, jobs, programs, replied, accepted, begun, asks>>

-----------------------------------------------------------------------------
(* ResolveSelfRelationsWithPlugin *)

Answered(how, team) ==
  /\ answers' = [answers EXCEPT ![served] = [how |-> how, team |-> team]]
  /\ waits' = Nobody /\ served' = Nobody
  /\ collected' = {} /\ grace' = FALSE

\* The plugin is started and gets the file, with a collector for its reply.  What fails after
\* the launch leaves it running.
HandleResolve ==
  /\ Idle /\ inbox # <<>> /\ Head(inbox).kind = "resolve"
  /\ \/ /\ Started(Extractor, {}, TRUE)
        /\ waits' = last' /\ served' = Head(inbox).from
        /\ UNCHANGED answers
     \/ /\ \/ Started(Extractor, {}, FALSE)
           \/ UNCHANGED <<teams, last>>
        /\ answers' = [answers EXCEPT ![Head(inbox).from] = Plain("not started")]
        /\ UNCHANGED <<waits, served>>
  /\ inbox' = Tail(inbox)
  /\ UNCHANGED <<collected, grace, queue, flying, history>>

\* Fault: replies of any instance of the plugin are taken.
ArriveAnywhere(t) ==
  /\ t \in flying
  /\ flying' = flying \ {t}
  /\ collected' = IF waits # Nobody THEN collected \cup {t} ELSE collected
  /\ UNCHANGED <<inbox, waits, served, grace, answers, queue, teams, last, history>>

\* A reply goes to the collector of its request; when that is gone, nowhere.
Arrive(t) ==
  /\ t \in flying
  /\ flying' = flying \ {t}
  /\ collected' = IF t = waits THEN collected \cup {t} ELSE collected
  /\ UNCHANGED <<inbox, waits, served, grace, answers, queue, teams, last, history>>

\* The reply may say that it failed, that there is nothing, or have relations.
TakeReply ==
  /\ collected # {}
  /\ \E how \in {"failed", "nothing", "relations"} : \E t \in collected : Answered(how, t)
  /\ UNCHANGED <<inbox, queue, programs, history>>

\* Fault: the end of the plugin ends the wait.
PollAtOnce ==
  /\ ~Idle /\ collected = {} /\ waits \notin Running
  /\ Answered("gone", waits)
  /\ UNCHANGED <<inbox, queue, programs, history>>

\* Fault: the plugin is taken to reply at some time.
PollNever ==
  /\ FALSE
  /\ UNCHANGED vars

\* Every 250 ms it looks whether the plugin still runs.
Poll ==
  /\ ~Idle /\ collected = {} /\ ~grace /\ waits \notin Running
  /\ grace' = TRUE
  /\ UNCHANGED <<inbox, waits, served, collected, answers, queue, programs, history>>

\* A reply under way arrives within the second that it is waited for after that.
GiveUp ==
  /\ grace /\ collected = {} /\ waits \notin flying
  /\ Answered("gone", waits)
  /\ UNCHANGED <<inbox, queue, programs, history>>

-----------------------------------------------------------------------------
(* Plugins *)

\* More than one reply is none that is expected, but can be sent.
Reply(t) ==
  /\ t \in Running /\ teams[t].told
  /\ t \notin flying
  /\ flying' = flying \cup {t}
  /\ replied' = replied \cup {t}
  /\ UNCHANGED <<server, queue, teams, last, expired, accepted, begun, asks>>

End(t) ==
  /\ t \in Running /\ ~teams[t].asking
  /\ teams' = [u \in Running \ {t} |-> teams[u]]
  /\ UNCHANGED <<server, queue, last, flying, history>>

\* One that enriches relates what it found: it asks the server, and waits.
AskServer(t) ==
  /\ t \in Running /\ teams[t].files # {} /\ ~teams[t].asking
  /\ asks < MaxAsks /\ asks' = asks + 1
  /\ teams' = [teams EXCEPT ![t].asking = TRUE]
  /\ inbox' = Append(inbox, [kind |-> "ask", from |-> Nobody, files |-> <<>>, team |-> t])
  /\ UNCHANGED <<waits, served, collected, grace, answers, queue, last, flying, replied,
                 expired, accepted, begun>>

AnswerPlugin ==
  /\ Idle /\ inbox # <<>> /\ Head(inbox).kind = "ask"
  /\ teams' = [teams EXCEPT ![Head(inbox).team].asking = FALSE]
  /\ inbox' = Tail(inbox)
  /\ UNCHANGED <<waits, served, collected, grace, answers, queue, last, flying, history>>

-----------------------------------------------------------------------------

Init ==
  /\ inbox = <<>> /\ waits = Nobody /\ served = Nobody
  /\ collected = {} /\ grace = FALSE
  /\ answers = [r \in Requests |-> NoAnswer]
  /\ jobs = <<>> /\ watched = Nobody
  /\ teams = <<>> /\ last = 0 /\ flying = {}
  /\ replied = {} /\ expired = {} /\ accepted = {} /\ begun = {}
  /\ asks = 0

HandleNext == HandleEnrich \/ HandleResolve \/ AnswerPlugin

Next ==
  \/ \E r \in Requests : Ask(r)
  \/ StartByUser
  \/ HandleNext \/ TakeReply \/ Poll \/ GiveUp
  \/ LaunchNext \/ StopWatching
  \/ \E t \in 1..MaxTeams : Arrive(t) \/ Reply(t) \/ End(t) \/ AskServer(t)

\* The loopers and messages make progress.  Of the plugins only the one that is waited for is
\* taken to end at some time: there is nothing that stops it.
Fairness ==
  /\ WF_vars(HandleNext) /\ WF_vars(TakeReply) /\ WF_vars(Poll) /\ WF_vars(GiveUp)
  /\ WF_vars(LaunchNext) /\ WF_vars(StopWatching)
  /\ \A t \in 1..MaxTeams : WF_vars(Arrive(t)) /\ WF_vars(t = waits /\ End(t))

Spec == Init /\ [][Next]_vars /\ Fairness

-----------------------------------------------------------------------------
(* Properties *)

TypeOK ==
  /\ \A i \in DOMAIN inbox : inbox[i].kind \in {"enrich", "resolve", "ask"}
  /\ waits \in 1..last \cup {Nobody} /\ watched \in 1..last \cup {Nobody}
  /\ served \in Requests \cup {Nobody}
  /\ collected \subseteq 1..last /\ flying \subseteq replied /\ replied \subseteq 1..last
  /\ grace \in BOOLEAN /\ (grace => ~Idle) /\ last \in 0..MaxTeams
  /\ \A i \in DOMAIN jobs : jobs[i].file \in Files /\ jobs[i].plugin \in Programs
  /\ Running \subseteq 1..last
  /\ \A t \in Running : teams[t].program \in Programs /\ teams[t].files \subseteq Files
  /\ accepted \subseteq Files /\ begun \subseteq accepted /\ asks \in 0..MaxAsks

\* The user is not asked for two files at once: no two plugins enrich at the same time, however
\* requests come and whichever plugins run already, but for one that was waited for in vain
\* (Enrichment.h: "each when the one before it has ended"; EnrichQueueTest.cpp:114).
OneEnrichment ==
  Cardinality({t \in Running : teams[t].files # {}} \ expired) <= 1

\* What a plugin replied is not lost when it ends directly afterwards (WaitForReply): only a
\* request whose plugin never replied is answered with its end.
ReplyIsKept == \A r \in Requests, t \in replied : answers[r] # [how |-> "gone", team |-> t]

\* A request is answered with the reply of the instance that was started for it, not with one
\* of another request that comes late ("talk to exactly the instance we launch here").
RepliesAreOwn ==
  /\ collected \subseteq {waits}
  /\ \A r, s \in Requests : r # s =>
       \A t \in 1..last, how \in {"failed", "nothing", "relations"} :
         answers[r] = [how |-> how, team |-> t] => answers[s] = NoAnswer \/ answers[s].team # t

\* Every request is answered, also while plugins of the queue ask the server and wait for it,
\* and when the plugin ends without a reply - if that ends at all.
RequestsAreAnswered == \A r \in Requests : Asked(r) ~> answers[r] # NoAnswer

\* A file that was accepted gets its turn, even if a plugin before it never ends.
FilesAreBegun == \A f \in Files : f \in accepted ~> f \in begun

=============================================================================
