--------------------------- MODULE Plugins_proofs ---------------------------
(***************************************************************************)
(* Proofs about plugins and the types of relations.                        *)
(*                                                                         *)
(* Plugins: whatever number of programs is started and however requests,   *)
(* replies and ends of plugins interleave, files are enriched one after    *)
(* the other, and a request gets the reply of its own instance if there is *)
(* one.                                                                    *)
(*                                                                         *)
(* RelationTypes: whatever configs types have and however they change,     *)
(* requests that look at the same config agree, and programs that were     *)
(* chosen stay.                                                            *)
(*                                                                         *)
(* PluginResults: however deep the messages of a reply are nested, their   *)
(* items and the relations made of them stand for each other.              *)
(***************************************************************************)
EXTENDS Plugins, RelationTypes, FiniteSetTheorems, TLAPS

-----------------------------------------------------------------------------
(* Plugins: the inductive invariant *)

Fields == {"program", "files", "told", "asking"}

\* Every program that runs was started, and so was each that the server or the queue waits for.
TeamsOK ==
  /\ last \in Nat
  /\ \A t \in Running : t \in 1..last /\ DOMAIN teams[t] = Fields
  /\ ~Idle => waits \in 1..last
  /\ replied \subseteq 1..last

\* What enriches is what the queue waits for, or waited for in vain.
EnrichingOK == \A t \in Running : teams[t].files # {} /\ t \notin expired => watched = t

\* The reply of the instance that is waited for is under way or with its collector; in the last
\* second it has ended.
WaitOK ==
  /\ collected \subseteq {waits}
  /\ Idle => collected = {} /\ grace = FALSE
  /\ grace \in BOOLEAN
  /\ waits \in replied => waits \in flying \cup collected
  /\ grace => waits \notin Running

\* An instance answers one request, and not any more when it is done with; one that is said to
\* have ended did, and never replied.
AnswersOK ==
  /\ DOMAIN answers = Requests
  /\ \A r \in Requests : answers[r] # NoAnswer =>
       /\ answers[r] \in Answers
       /\ answers[r].team \in 0..last /\ answers[r].team # waits
       /\ answers[r].how = "gone" => answers[r].team \notin Running \cup replied
  /\ \A r, s \in Requests : r # s /\ answers[r] # NoAnswer /\ answers[s] # NoAnswer =>
       answers[r].team = 0 \/ answers[r].team # answers[s].team

PluginsInv == TeamsOK /\ EnrichingOK /\ WaitOK /\ AnswersOK

-----------------------------------------------------------------------------
\* No instance has the number 0, and none is nobody.
LEMMA NoSuchTeam ==
  ASSUME PluginsInv
  PROVE  0 # waits /\ 0 # Nobody /\ Nobody \notin 1..last /\ Nobody \notin 0..last /\ last \in Nat
         /\ 0 \in 0..last
<1>1. last \in Nat /\ (waits = Nobody \/ waits \in 1..last)
  BY DEF PluginsInv, TeamsOK, Idle
<1>2. Nobody \notin Nat
  BY PluginsAssumption
<1>3. \A n \in 0..last : n \in Nat
  BY <1>1
<1>4. 0 # Nobody
  <2>1. 0 \in Nat
    OBVIOUS
  <2> QED
    BY <1>2, <2>1
<1>5. waits \in 1..last => waits # 0
  BY <1>1
<1>6. Nobody \notin 0..last
  BY <1>2, <1>3
<1>7. Nobody \notin 1..last
  <2>1. \A n \in 1..last : n \in Nat
    BY <1>1
  <2> QED
    BY <1>2, <2>1
<1>8. 0 \in 0..last
  BY <1>1
<1> QED
  BY <1>1, <1>4, <1>5, <1>6, <1>7, <1>8

-----------------------------------------------------------------------------
(* Programs that start *)

LEMMA StartedFacts ==
  ASSUME PluginsInv, NEW program, NEW files, NEW told, Started(program, files, told)
  PROVE  /\ last' = last + 1 /\ last' \in Nat /\ last \in Nat
         /\ Running' = Running \cup {last'} /\ last' \notin Running
         /\ \A t \in Running : teams'[t] = teams[t] /\ t \in 1..last
         /\ DOMAIN teams'[last'] = Fields /\ teams'[last'].files = files
         /\ 0 \in 0..last' /\ 0 # last'
         /\ \A n : n \in 0..last => n \in 0..last' /\ n # last'
<1>1. last' = last + 1 /\ last' \in Nat /\ last \in Nat
  BY DEF PluginsInv, TeamsOK, Started
<1>2. \A t \in Running : t \in 1..last
  BY DEF PluginsInv, TeamsOK
<1>3. last' \notin Running /\ \A n : n \in 0..last => n \in 0..last' /\ n # last'
  BY <1>1, <1>2
<1>4. teams' = [t \in Running \cup {last'} |->
                  IF t # last' THEN teams[t]
                  ELSE [program |-> program, files |-> files, told |-> told, asking |-> FALSE]]
  BY DEF Started
<1>5. Running' = Running \cup {last'}
  BY <1>4 DEF Running
<1>6. \A t \in Running : teams'[t] = teams[t]
  BY <1>3, <1>4
<1>7. teams'[last'] = [program |-> program, files |-> files, told |-> told, asking |-> FALSE]
  BY <1>4
<1>8. DOMAIN teams'[last'] = Fields /\ teams'[last'].files = files
  BY <1>7 DEF Fields
<1>9. 0 \in 0..last' /\ 0 # last'
  BY <1>1
<1> QED
  BY <1>1, <1>2, <1>3, <1>5, <1>6, <1>8, <1>9

\* What runs and is waited for stays as it is when a program is started that nobody waits for.
LEMMA StartedKeeps ==
  ASSUME PluginsInv, NEW program, NEW files, NEW told, Started(program, files, told),
         replied' = replied, waits' = waits, collected' = collected, grace' = grace,
         flying' = flying
  PROVE  TeamsOK' /\ WaitOK'
<1>1. /\ last' = last + 1 /\ last' \in Nat /\ last \in Nat
      /\ Running' = Running \cup {last'} /\ last' \notin Running
      /\ \A t \in Running : teams'[t] = teams[t] /\ t \in 1..last
      /\ DOMAIN teams'[last'] = Fields
      /\ \A n : n \in 0..last => n \in 0..last' /\ n # last'
  BY StartedFacts
<1>2. TeamsOK'
  <2>1. \A t \in Running' : t \in 1..last' /\ DOMAIN teams'[t] = Fields
    BY <1>1 DEF PluginsInv, TeamsOK
  <2>2. (~Idle)' => waits' \in 1..last'
    BY <1>1 DEF PluginsInv, TeamsOK, Idle
  <2>3. replied' \subseteq 1..last'
    BY <1>1 DEF PluginsInv, TeamsOK
  <2> QED
    BY <1>1, <2>1, <2>2, <2>3 DEF TeamsOK
<1>3. grace' => waits' \notin Running'
  <2> SUFFICES ASSUME grace PROVE waits \notin Running'
    OBVIOUS
  <2>1. ~Idle /\ waits \notin Running
    BY DEF PluginsInv, WaitOK
  <2>2. waits \in 1..last
    BY <2>1 DEF PluginsInv, TeamsOK
  <2> QED
    BY <1>1, <2>1, <2>2
<1>4. WaitOK'
  BY <1>3 DEF PluginsInv, WaitOK, Idle
<1> QED
  BY <1>2, <1>4

\* And so do the answers.
LEMMA StartedKeepsAnswers ==
  ASSUME PluginsInv, NEW program, NEW files, NEW told, Started(program, files, told),
         replied' = replied, waits' \in {waits, last'}, DOMAIN answers' = Requests,
         \A r \in Requests : answers'[r] = answers[r] \/ \E how \in {"ok", "not started"} :
                                                          answers'[r] = Plain(how)
  PROVE  AnswersOK'
<1>1. /\ last' = last + 1 /\ last' \in Nat /\ last \in Nat
      /\ Running' = Running \cup {last'}
      /\ \A n : n \in 0..last => n \in 0..last' /\ n # last'
  BY StartedFacts
<1>2. \A how \in {"ok", "not started"} : Plain(how) \in Answers /\ Plain(how).team = 0
                                         /\ Plain(how).how # "gone"
  BY DEF Plain, Answers
<1>3. 0 # waits /\ 0 # last' /\ 0 \in 0..last'
  <2>1. 0 # waits
    BY NoSuchTeam
  <2>2. 0 # last' /\ 0 \in 0..last'
    BY StartedFacts
  <2> QED
    BY <2>1, <2>2
<1>4. ASSUME NEW r \in Requests, answers'[r] # NoAnswer
      PROVE  /\ answers'[r] \in Answers
             /\ answers'[r].team \in 0..last' /\ answers'[r].team # waits'
             /\ answers'[r].how = "gone" => answers'[r].team \notin Running' \cup replied'
  <2>1. CASE answers'[r] = answers[r]
    BY <1>1, <1>4, <2>1 DEF PluginsInv, AnswersOK
  <2>2. CASE \E how \in {"ok", "not started"} : answers'[r] = Plain(how)
    BY <1>2, <1>3, <2>2
  <2> QED
    BY <2>1, <2>2
<1>5. \A r, s \in Requests : r # s /\ answers'[r] # NoAnswer /\ answers'[s] # NoAnswer =>
        answers'[r].team = 0 \/ answers'[r].team # answers'[s].team
  <2> SUFFICES ASSUME NEW r \in Requests, NEW s \in Requests, r # s, answers'[r] # NoAnswer,
                      answers'[s] # NoAnswer, answers'[r].team # 0
               PROVE  answers'[r].team # answers'[s].team
    OBVIOUS
  <2>1. answers'[r] = answers[r]
    BY <1>2
  <2>2. answers'[s] = answers[s] \/ answers'[s].team = 0
    BY <1>2
  <2> QED
    BY <2>1, <2>2 DEF PluginsInv, AnswersOK
<1> QED
  BY <1>4, <1>5 DEF AnswersOK

-----------------------------------------------------------------------------
(* Steps of the server *)

\* The programs and who is waited for stay.
LEMMA ProgramsStay ==
  ASSUME PluginsInv, teams' = teams, last' = last, replied' = replied, waits' = waits,
         collected' = collected, grace' = grace, flying' = flying
  PROVE  TeamsOK' /\ WaitOK' /\ Running' = Running
<1>1. Running' = Running
  BY DEF Running
<1>2. TeamsOK'
  BY <1>1 DEF PluginsInv, TeamsOK, Idle
<1>3. WaitOK'
  BY <1>1 DEF PluginsInv, WaitOK, Idle
<1> QED
  BY <1>1, <1>2, <1>3

\* Answers that no plugin gave: to a request that the server need not wait for.
LEMMA PlainAnswers ==
  ASSUME PluginsInv, Running' \subseteq Running, last' = last, replied' = replied, waits' = waits,
         NEW r,
         answers' = answers \/ \E how \in {"ok", "bad value", "not supported", "not started"} :
                                 answers' = [answers EXCEPT ![r] = Plain(how)]
  PROVE  AnswersOK'
<1>1. CASE answers' = answers
  BY <1>1 DEF PluginsInv, AnswersOK
<1>2. ASSUME NEW how \in {"ok", "bad value", "not supported", "not started"},
             answers' = [answers EXCEPT ![r] = Plain(how)]
      PROVE  AnswersOK'
  <2>1. Plain(how) \in Answers /\ Plain(how).team = 0 /\ Plain(how).how # "gone"
    BY DEF Plain, Answers
  <2>2. DOMAIN answers' = Requests /\ \A s \in Requests : answers'[s] = answers[s]
                                                         \/ answers'[s] = Plain(how)
    BY <1>2 DEF PluginsInv, AnswersOK
  <2>3. 0 # waits /\ 0 \in 0..last
    BY NoSuchTeam
  <2>4. ASSUME NEW s \in Requests, answers'[s] # NoAnswer
        PROVE  /\ answers'[s] \in Answers
               /\ answers'[s].team \in 0..last' /\ answers'[s].team # waits'
               /\ answers'[s].how = "gone" => answers'[s].team \notin Running' \cup replied'
    <3>1. CASE answers'[s] = answers[s]
      BY <2>4, <3>1 DEF PluginsInv, AnswersOK
    <3>2. CASE answers'[s] = Plain(how)
      BY <2>1, <2>3, <3>2
    <3> QED
      BY <2>2, <3>1, <3>2
  <2>5. \A s, u \in Requests : s # u /\ answers'[s] # NoAnswer /\ answers'[u] # NoAnswer =>
          answers'[s].team = 0 \/ answers'[s].team # answers'[u].team
    <3> SUFFICES ASSUME NEW s \in Requests, NEW u \in Requests, s # u, answers'[s] # NoAnswer,
                        answers'[u] # NoAnswer, answers'[s].team # 0
                 PROVE  answers'[s].team # answers'[u].team
      OBVIOUS
    <3>1. answers'[s] = answers[s]
      BY <2>1, <2>2
    <3>2. answers'[u] = answers[u] \/ answers'[u].team = 0
      BY <2>1, <2>2
    <3> QED
      BY <3>1, <3>2 DEF PluginsInv, AnswersOK
  <2> QED
    BY <2>2, <2>4, <2>5 DEF AnswersOK
<1> QED
  BY <1>1, <1>2

\* The wait ends: the instance answers the request that is served, and no other one.
LEMMA AnsweredKeeps ==
  ASSUME PluginsInv, NEW how \in {"failed", "nothing", "relations", "gone"}, NEW t \in 1..last,
         t = waits, Answered(how, t), how = "gone" => t \notin Running \cup replied,
         UNCHANGED <<queue, programs, history>>
  PROVE  PluginsInv'
<1>1. /\ answers' = [answers EXCEPT ![served] = [how |-> how, team |-> t]]
      /\ waits' = Nobody /\ collected' = {} /\ grace' = FALSE
      /\ teams' = teams /\ last' = last /\ flying' = flying /\ watched' = watched
      /\ replied' = replied /\ expired' = expired
  BY DEF Answered, queue, programs, history
<1>2. Running' = Running
  BY <1>1 DEF Running
<1>3. Nobody \notin 1..last /\ Nobody \notin 0..last /\ t # 0
  BY NoSuchTeam
<1>4. TeamsOK'
  BY <1>1, <1>2 DEF PluginsInv, TeamsOK, Idle
<1>5. EnrichingOK'
  BY <1>1, <1>2 DEF PluginsInv, EnrichingOK
<1>6. WaitOK'
  <2>1. Nobody \notin replied
    BY <1>3 DEF PluginsInv, TeamsOK
  <2>2. collected' \subseteq {waits'} /\ (waits' \in replied' => waits' \in flying' \cup collected')
    BY <1>1, <2>1
  <2>3. grace' \in BOOLEAN /\ ~grace' /\ ((Idle)' => collected' = {} /\ grace' = FALSE)
    BY <1>1
  <2> QED
    BY <2>2, <2>3 DEF WaitOK
<1>7. /\ DOMAIN answers' = Requests
      /\ \A r \in Requests : r # served => answers'[r] = answers[r]
      /\ \A r \in Requests : r = served => answers'[r] = [how |-> how, team |-> t]
  BY <1>1 DEF PluginsInv, AnswersOK
<1>8. [how |-> how, team |-> t] \in Answers
  <2>1. t \in Nat
    BY NoSuchTeam
  <2> QED
    BY <2>1 DEF Answers
<1>9. ASSUME NEW r \in Requests, answers'[r] # NoAnswer
      PROVE  /\ answers'[r] \in Answers
             /\ answers'[r].team \in 0..last' /\ answers'[r].team # waits'
             /\ answers'[r].how = "gone" => answers'[r].team \notin Running' \cup replied'
  <2>1. CASE r # served
    BY <1>1, <1>2, <1>3, <1>7, <1>9, <2>1 DEF PluginsInv, AnswersOK
  <2>2. CASE r = served
    <3>1. answers'[r].team = t /\ answers'[r].how = how
      BY <1>7, <2>2
    <3>2. t \in 0..last
      BY DEF PluginsInv, TeamsOK
    <3> QED
      BY <1>1, <1>2, <1>3, <1>7, <1>8, <2>2, <3>1, <3>2
  <2> QED
    BY <2>1, <2>2
<1>10. \A r, s \in Requests : r # s /\ answers'[r] # NoAnswer /\ answers'[s] # NoAnswer =>
         answers'[r].team = 0 \/ answers'[r].team # answers'[s].team
  <2> SUFFICES ASSUME NEW r \in Requests, NEW s \in Requests, r # s, answers'[r] # NoAnswer,
                      answers'[s] # NoAnswer
               PROVE  answers'[r].team = 0 \/ answers'[r].team # answers'[s].team
    OBVIOUS
  <2>1. CASE r # served /\ s # served
    BY <1>7, <2>1 DEF PluginsInv, AnswersOK
  <2>2. CASE r = served
    <3>1. answers'[r].team = waits /\ answers'[s] = answers[s]
      BY <1>7, <2>2
    <3> QED
      BY <3>1 DEF PluginsInv, AnswersOK
  <2>3. CASE s = served
    <3>1. answers'[s].team = waits /\ answers'[r] = answers[r]
      BY <1>7, <2>3
    <3> QED
      BY <3>1 DEF PluginsInv, AnswersOK
  <2> QED
    BY <2>1, <2>2, <2>3
<1>11. AnswersOK'
  BY <1>7, <1>9, <1>10 DEF AnswersOK
<1> QED
  BY <1>4, <1>5, <1>6, <1>11 DEF PluginsInv

\* Nothing of what is waited for, and nothing of what enriches.
LEMMA OthersStay ==
  ASSUME PluginsInv, UNCHANGED <<waits, collected, grace, answers, teams, last, flying, replied,
                                 expired, watched>>
  PROVE  PluginsInv'
<1>1. TeamsOK' /\ WaitOK' /\ Running' = Running
  BY ProgramsStay
<1>2. EnrichingOK'
  BY <1>1 DEF PluginsInv, EnrichingOK
<1>3. AnswersOK'
  BY <1>1 DEF PluginsInv, AnswersOK
<1> QED
  BY <1>1, <1>2, <1>3 DEF PluginsInv

LEMMA AskKeeps ==
  ASSUME PluginsInv, NEW r \in Requests, Ask(r) PROVE PluginsInv'
  BY OthersStay DEF Ask, queue, programs, history

LEMMA StartByUserKeeps ==
  ASSUME PluginsInv, StartByUser PROVE PluginsInv'
<1>1. PICK p \in Single : Started(p, {}, FALSE)
  BY DEF StartByUser
<1>2. UNCHANGED <<waits, collected, grace, answers, flying, replied, expired, watched>>
  BY DEF StartByUser, server, queue, history
<1>3. TeamsOK' /\ WaitOK'
  BY <1>1, <1>2, StartedKeeps
<1>4. EnrichingOK'
  <2>1. /\ Running' = Running \cup {last'} /\ teams'[last'].files = {}
        /\ \A t \in Running : teams'[t] = teams[t]
    BY <1>1, StartedFacts
  <2> QED
    BY <1>2, <2>1 DEF PluginsInv, EnrichingOK
<1>5. AnswersOK'
  <2>1. DOMAIN answers' = Requests /\ \A r \in Requests : answers'[r] = answers[r]
    BY <1>2 DEF PluginsInv, AnswersOK
  <2> QED
    BY <1>1, <1>2, <2>1, StartedKeepsAnswers
<1> QED
  BY <1>3, <1>4, <1>5 DEF PluginsInv

LEMMA HandleEnrichKeeps ==
  ASSUME PluginsInv, HandleEnrich PROVE PluginsInv'
<1>1. UNCHANGED <<waits, collected, grace, watched, teams, last, flying, replied, expired>>
  BY DEF HandleEnrich, programs
<1>2. \E how \in {"ok", "bad value", "not supported", "not started"} :
        answers' = [answers EXCEPT ![Head(inbox).from] = Plain(how)]
  BY DEF HandleEnrich
<1>3. TeamsOK' /\ WaitOK' /\ Running' = Running
  BY <1>1, ProgramsStay
<1>4. EnrichingOK'
  BY <1>1, <1>3 DEF PluginsInv, EnrichingOK
<1>5. AnswersOK'
  BY <1>1, <1>2, <1>3, PlainAnswers
<1> QED
  BY <1>3, <1>4, <1>5 DEF PluginsInv

LEMMA AnswerPluginKeeps ==
  ASSUME PluginsInv, AnswerPlugin PROVE PluginsInv'
<1>1. UNCHANGED <<waits, collected, grace, answers, watched, last, flying, replied, expired>>
  BY DEF AnswerPlugin, queue, history
<1>2. Running' = Running /\ \A t \in Running : DOMAIN teams'[t] = Fields
                                              /\ teams'[t].files = teams[t].files
  <2> DEFINE u == Head(inbox).team
  <2>1. teams' = [teams EXCEPT ![u].asking = FALSE]
    BY DEF AnswerPlugin
  <2>2. Running' = Running
    BY <2>1 DEF Running
  <2>3. ASSUME NEW t \in Running
        PROVE  DOMAIN teams'[t] = Fields /\ teams'[t].files = teams[t].files
    <3>1. DOMAIN teams[t] = Fields
      BY DEF PluginsInv, TeamsOK
    <3>2. teams'[t] = teams[t] \/ teams'[t] = [teams[t] EXCEPT !.asking = FALSE]
      BY <2>1 DEF Running
    <3> QED
      BY <3>1, <3>2 DEF Fields
  <2> QED
    BY <2>2, <2>3
<1>3. TeamsOK'
  BY <1>1, <1>2 DEF PluginsInv, TeamsOK, Idle
<1>4. EnrichingOK'
  BY <1>1, <1>2 DEF PluginsInv, EnrichingOK
<1>5. WaitOK'
  BY <1>1, <1>2 DEF PluginsInv, WaitOK, Idle
<1>6. AnswersOK'
  BY <1>1, <1>2 DEF PluginsInv, AnswersOK
<1> QED
  BY <1>3, <1>4, <1>5, <1>6 DEF PluginsInv

\* The instance that is started for a request has not replied to anything.
LEMMA HandleResolveKeeps ==
  ASSUME PluginsInv, HandleResolve PROVE PluginsInv'
<1>1. UNCHANGED <<collected, grace, watched, flying, replied, expired>> /\ waits = Nobody
  BY DEF HandleResolve, queue, history, Idle
<1>2. CASE Started(Extractor, {}, TRUE) /\ waits' = last' /\ answers' = answers
  <2>1. /\ last' = last + 1 /\ last' \in Nat /\ last \in Nat
        /\ Running' = Running \cup {last'} /\ teams'[last'].files = {} /\ DOMAIN teams'[last'] = Fields
        /\ \A t \in Running : teams'[t] = teams[t] /\ t \in 1..last
        /\ \A n : n \in 0..last => n \in 0..last' /\ n # last'
    BY <1>2, StartedFacts
  <2>2. TeamsOK'
    <3>1. \A t \in Running' : t \in 1..last' /\ DOMAIN teams'[t] = Fields
      BY <2>1 DEF PluginsInv, TeamsOK
    <3>2. waits' \in 1..last' /\ replied' \subseteq 1..last'
      BY <1>1, <1>2, <2>1 DEF PluginsInv, TeamsOK
    <3> QED
      BY <2>1, <3>1, <3>2 DEF TeamsOK
  <2>3. EnrichingOK'
    BY <1>1, <2>1 DEF PluginsInv, EnrichingOK
  <2>4. WaitOK'
    <3>1. last' \notin replied
      BY <2>1 DEF PluginsInv, TeamsOK
    <3>2. collected = {} /\ grace = FALSE
      BY <1>1 DEF PluginsInv, WaitOK, Idle
    <3> QED
      BY <1>1, <1>2, <3>1, <3>2 DEF WaitOK
  <2>5. AnswersOK'
    <3>1. DOMAIN answers' = Requests /\ \A r \in Requests : answers'[r] = answers[r]
      BY <1>2 DEF PluginsInv, AnswersOK
    <3> QED
      BY <1>1, <1>2, <3>1, StartedKeepsAnswers
  <2> QED
    BY <2>2, <2>3, <2>4, <2>5 DEF PluginsInv
<1>3. CASE /\ Started(Extractor, {}, FALSE) /\ waits' = waits
           /\ answers' = [answers EXCEPT ![Head(inbox).from] = Plain("not started")]
  <2>1. TeamsOK' /\ WaitOK'
    BY <1>1, <1>3, StartedKeeps
  <2>2. EnrichingOK'
    <3>1. /\ Running' = Running \cup {last'} /\ teams'[last'].files = {}
          /\ \A t \in Running : teams'[t] = teams[t]
      BY <1>3, StartedFacts
    <3> QED
      BY <1>1, <3>1 DEF PluginsInv, EnrichingOK
  <2>3. AnswersOK'
    <3>1. DOMAIN answers' = Requests /\ \A r \in Requests : answers'[r] = answers[r]
                                                          \/ answers'[r] = Plain("not started")
      BY <1>3 DEF PluginsInv, AnswersOK
    <3> QED
      BY <1>1, <1>3, <3>1, StartedKeepsAnswers
  <2> QED
    BY <2>1, <2>2, <2>3 DEF PluginsInv
<1>4. CASE /\ UNCHANGED <<teams, last>> /\ waits' = waits
           /\ answers' = [answers EXCEPT ![Head(inbox).from] = Plain("not started")]
  <2>1. TeamsOK' /\ WaitOK' /\ Running' = Running
    BY <1>1, <1>4, ProgramsStay
  <2>2. EnrichingOK'
    BY <1>1, <1>4, <2>1 DEF PluginsInv, EnrichingOK
  <2>3. AnswersOK'
    BY <1>1, <1>4, <2>1, PlainAnswers
  <2> QED
    BY <2>1, <2>2, <2>3 DEF PluginsInv
<1> QED
  BY <1>2, <1>3, <1>4 DEF HandleResolve

LEMMA TakeReplyKeeps ==
  ASSUME PluginsInv, TakeReply PROVE PluginsInv'
<1>1. PICK how \in {"failed", "nothing", "relations"}, t \in collected : Answered(how, t)
  BY DEF TakeReply
<1>2. t = waits /\ t \in 1..last
  BY DEF PluginsInv, WaitOK, TeamsOK
<1> QED
  BY <1>1, <1>2, AnsweredKeeps DEF TakeReply

LEMMA PollKeeps ==
  ASSUME PluginsInv, Poll PROVE PluginsInv'
<1>1. /\ ~Idle /\ waits \notin Running /\ grace' = TRUE
      /\ UNCHANGED <<waits, collected, answers, watched, teams, last, flying, replied, expired>>
  BY DEF Poll, queue, programs, history
<1>2. Running' = Running
  BY <1>1 DEF Running
<1>3. TeamsOK'
  BY <1>1, <1>2 DEF PluginsInv, TeamsOK, Idle
<1>4. EnrichingOK'
  BY <1>1, <1>2 DEF PluginsInv, EnrichingOK
<1>5. WaitOK'
  BY <1>1, <1>2 DEF PluginsInv, WaitOK, Idle
<1>6. AnswersOK'
  BY <1>1, <1>2 DEF PluginsInv, AnswersOK
<1> QED
  BY <1>3, <1>4, <1>5, <1>6 DEF PluginsInv

\* Nothing is on the way any more: the instance never replied.
LEMMA GiveUpKeeps ==
  ASSUME PluginsInv, GiveUp PROVE PluginsInv'
<1>1. ~Idle /\ waits \notin Running /\ waits \notin replied
  BY DEF PluginsInv, WaitOK, GiveUp
<1>2. waits \in 1..last
  BY <1>1 DEF PluginsInv, TeamsOK
<1>3. Answered("gone", waits) /\ UNCHANGED <<queue, programs, history>>
  BY DEF GiveUp
<1> QED
  BY <1>1, <1>2, <1>3, AnsweredKeeps

-----------------------------------------------------------------------------
(* Steps of the queue *)

LEMMA LaunchNextKeeps ==
  ASSUME PluginsInv, LaunchNext PROVE PluginsInv'
<1> DEFINE job == Head(jobs)
<1>1. /\ watched = Nobody
      /\ UNCHANGED <<waits, collected, grace, answers, flying, replied, expired>>
  BY DEF LaunchNext, server
<1>2. \A t \in Running : t \in expired \/ teams[t].files = {}
  BY <1>1, NoSuchTeam DEF PluginsInv, EnrichingOK, TeamsOK
<1>3. CASE \E t \in Running : Handed(t, job.file)
  <2> PICK t \in Running : Handed(t, job.file)
    BY <1>3
  <2>1. /\ teams' = [teams EXCEPT ![t].files = teams[t].files \cup {job.file}]
        /\ watched' = t /\ last' = last
    BY DEF Handed
  <2>2. Running' = Running /\ \A u \in Running : u # t => teams'[u] = teams[u]
    BY <2>1 DEF Running
  <2>3. DOMAIN teams'[t] = Fields
    <3>1. DOMAIN teams[t] = Fields
      BY DEF PluginsInv, TeamsOK
    <3>2. teams'[t] = [teams[t] EXCEPT !.files = teams[t].files \cup {job.file}]
      BY <2>1 DEF Running
    <3> QED
      BY <3>1, <3>2
  <2>4. TeamsOK'
    BY <1>1, <2>1, <2>2, <2>3 DEF PluginsInv, TeamsOK, Idle
  <2>5. EnrichingOK'
    BY <1>1, <1>2, <2>1, <2>2 DEF EnrichingOK
  <2>6. WaitOK'
    BY <1>1, <2>2 DEF PluginsInv, WaitOK, Idle
  <2>7. AnswersOK'
    BY <1>1, <2>1, <2>2 DEF PluginsInv, AnswersOK
  <2> QED
    BY <2>4, <2>5, <2>6, <2>7 DEF PluginsInv
<1>4. CASE Started(job.plugin, {job.file}, FALSE) /\ watched' = last'
  <2>1. TeamsOK' /\ WaitOK'
    BY <1>1, <1>4, StartedKeeps
  <2>2. EnrichingOK'
    <3>1. Running' = Running \cup {last'} /\ \A t \in Running : teams'[t] = teams[t]
      BY <1>4, StartedFacts
    <3> QED
      BY <1>1, <1>2, <1>4, <3>1 DEF EnrichingOK
  <2>3. AnswersOK'
    <3>1. DOMAIN answers' = Requests /\ \A r \in Requests : answers'[r] = answers[r]
      BY <1>1 DEF PluginsInv, AnswersOK
    <3> QED
      BY <1>1, <1>4, <3>1, StartedKeepsAnswers
  <2> QED
    BY <2>1, <2>2, <2>3 DEF PluginsInv
<1>5. CASE UNCHANGED <<teams, last, watched>>
  BY <1>1, <1>5, OthersStay
<1> QED
  BY <1>3, <1>4, <1>5 DEF LaunchNext

\* What still runs then was waited for in vain.
LEMMA StopWatchingKeeps ==
  ASSUME PluginsInv, StopWatching PROVE PluginsInv'
<1>1. /\ expired' = expired \cup ({watched} \cap Running)
      /\ UNCHANGED <<waits, collected, grace, answers, teams, last, flying, replied>>
  BY DEF StopWatching, Over, server, programs
<1>2. TeamsOK' /\ WaitOK' /\ Running' = Running
  BY <1>1, ProgramsStay
<1>3. EnrichingOK'
  BY <1>1, <1>2 DEF PluginsInv, EnrichingOK
<1>4. AnswersOK'
  BY <1>1, <1>2 DEF PluginsInv, AnswersOK
<1> QED
  BY <1>2, <1>3, <1>4 DEF PluginsInv

-----------------------------------------------------------------------------
(* Steps of plugins, and of their replies *)

LEMMA ArriveKeeps ==
  ASSUME PluginsInv, NEW t \in 1..MaxTeams, Arrive(t) PROVE PluginsInv'
<1>1. /\ t \in flying /\ flying' = flying \ {t}
      /\ collected' = IF t = waits THEN collected \cup {t} ELSE collected
      /\ UNCHANGED <<waits, grace, answers, teams, last, replied, expired, watched>>
  BY DEF Arrive, queue, history
<1>2. Running' = Running
  BY <1>1 DEF Running
<1>3. TeamsOK'
  BY <1>1, <1>2 DEF PluginsInv, TeamsOK, Idle
<1>4. EnrichingOK'
  BY <1>1, <1>2 DEF PluginsInv, EnrichingOK
<1>5. WaitOK'
  <2>1. collected' \subseteq {waits}
    BY <1>1 DEF PluginsInv, WaitOK
  <2>2. (Idle)' => collected' = {} /\ grace' = FALSE
    <3>1. t \in Nat
      BY PluginsAssumption
    <3>2. t # Nobody
      BY <3>1, PluginsAssumption
    <3> QED
      BY <1>1, <3>2 DEF PluginsInv, WaitOK, Idle
  <2>3. waits \in replied => waits \in flying' \cup collected'
    BY <1>1 DEF PluginsInv, WaitOK
  <2> QED
    BY <1>1, <1>2, <2>1, <2>2, <2>3 DEF PluginsInv, WaitOK
<1>6. AnswersOK'
  BY <1>1, <1>2 DEF PluginsInv, AnswersOK
<1> QED
  BY <1>3, <1>4, <1>5, <1>6 DEF PluginsInv

\* Only what runs replies, which nobody was told to have ended.
LEMMA ReplyKeeps ==
  ASSUME PluginsInv, NEW t, Reply(t) PROVE PluginsInv'
<1>1. /\ t \in Running /\ flying' = flying \cup {t} /\ replied' = replied \cup {t}
      /\ UNCHANGED <<waits, collected, grace, answers, teams, last, expired, watched>>
  BY DEF Reply, server, queue
<1>2. Running' = Running /\ t \in 1..last
  BY <1>1 DEF PluginsInv, TeamsOK, Running
<1>3. TeamsOK'
  BY <1>1, <1>2 DEF PluginsInv, TeamsOK, Idle
<1>4. EnrichingOK'
  BY <1>1, <1>2 DEF PluginsInv, EnrichingOK
<1>5. WaitOK'
  BY <1>1, <1>2 DEF PluginsInv, WaitOK, Idle
<1>6. AnswersOK'
  BY <1>1, <1>2 DEF PluginsInv, AnswersOK
<1> QED
  BY <1>3, <1>4, <1>5, <1>6 DEF PluginsInv

LEMMA EndKeeps ==
  ASSUME PluginsInv, NEW t, End(t) PROVE PluginsInv'
<1>1. /\ teams' = [u \in Running \ {t} |-> teams[u]]
      /\ UNCHANGED <<waits, collected, grace, answers, last, flying, replied, expired, watched>>
  BY DEF End, server, queue, history
<1>2. Running' = Running \ {t} /\ \A u \in Running' : teams'[u] = teams[u]
  BY <1>1 DEF Running
<1>3. TeamsOK'
  BY <1>1, <1>2 DEF PluginsInv, TeamsOK, Idle
<1>4. EnrichingOK'
  BY <1>1, <1>2 DEF PluginsInv, EnrichingOK
<1>5. WaitOK'
  BY <1>1, <1>2 DEF PluginsInv, WaitOK, Idle
<1>6. AnswersOK'
  BY <1>1, <1>2 DEF PluginsInv, AnswersOK
<1> QED
  BY <1>3, <1>4, <1>5, <1>6 DEF PluginsInv

LEMMA AskServerKeeps ==
  ASSUME PluginsInv, NEW t, AskServer(t) PROVE PluginsInv'
<1>1. /\ t \in Running /\ teams' = [teams EXCEPT ![t].asking = TRUE]
      /\ UNCHANGED <<waits, collected, grace, answers, last, flying, replied, expired, watched>>
  BY DEF AskServer, queue
<1>2. Running' = Running /\ \A u \in Running : DOMAIN teams'[u] = Fields
                                              /\ teams'[u].files = teams[u].files
  <2>1. Running' = Running /\ \A u \in Running : u # t => teams'[u] = teams[u]
    BY <1>1 DEF Running
  <2>2. \A u \in Running : DOMAIN teams[u] = Fields
    BY DEF PluginsInv, TeamsOK
  <2>3. teams'[t] = [teams[t] EXCEPT !.asking = TRUE]
    BY <1>1 DEF Running
  <2>4. DOMAIN teams'[t] = Fields /\ teams'[t].files = teams[t].files
    BY <1>1, <2>2, <2>3 DEF Fields
  <2> QED
    BY <2>1, <2>2, <2>4
<1>3. TeamsOK'
  BY <1>1, <1>2 DEF PluginsInv, TeamsOK, Idle
<1>4. EnrichingOK'
  BY <1>1, <1>2 DEF PluginsInv, EnrichingOK
<1>5. WaitOK'
  BY <1>1, <1>2 DEF PluginsInv, WaitOK, Idle
<1>6. AnswersOK'
  BY <1>1, <1>2 DEF PluginsInv, AnswersOK
<1> QED
  BY <1>3, <1>4, <1>5, <1>6 DEF PluginsInv

-----------------------------------------------------------------------------
(* The theorems *)

LEMMA PluginsInit ==
  ASSUME Init PROVE PluginsInv
<1>1. Running = {} /\ last = 0 /\ waits = Nobody /\ replied = {} /\ collected = {} /\ grace = FALSE
      /\ answers = [r \in Requests |-> NoAnswer]
  BY DEF Init, Running
<1>2. TeamsOK
  BY <1>1 DEF TeamsOK, Idle
<1>3. EnrichingOK /\ WaitOK
  BY <1>1 DEF EnrichingOK, WaitOK
<1>4. AnswersOK
  BY <1>1 DEF AnswersOK
<1> QED
  BY <1>2, <1>3, <1>4 DEF PluginsInv

LEMMA PluginsNext ==
  ASSUME PluginsInv, [Next]_vars PROVE PluginsInv'
<1>1. CASE \E r \in Requests : Ask(r)
  BY <1>1, AskKeeps
<1>2. CASE StartByUser
  BY <1>2, StartByUserKeeps
<1>3. CASE HandleNext
  BY <1>3, HandleEnrichKeeps, HandleResolveKeeps, AnswerPluginKeeps DEF HandleNext
<1>4. CASE TakeReply \/ Poll \/ GiveUp
  BY <1>4, TakeReplyKeeps, PollKeeps, GiveUpKeeps
<1>5. CASE LaunchNext \/ StopWatching
  BY <1>5, LaunchNextKeeps, StopWatchingKeeps
<1>6. CASE \E t \in 1..MaxTeams : Arrive(t) \/ Reply(t) \/ End(t) \/ AskServer(t)
  BY <1>6, ArriveKeeps, ReplyKeeps, EndKeeps, AskServerKeeps
<1>7. CASE UNCHANGED vars
  BY <1>7, OthersStay DEF vars, server, queue, programs, history
<1> QED
  BY <1>1, <1>2, <1>3, <1>4, <1>5, <1>6, <1>7 DEF Next

LEMMA PluginsAlways == Spec => []PluginsInv
<1>1. PluginsInv /\ [Next]_vars => PluginsInv'
  BY PluginsNext
<1> QED
  BY <1>1, PluginsInit, PTL DEF Spec

\* With any number of files, plugins and requests, no two plugins enrich at the same time, but
\* for one that was waited for in vain (EnrichQueue).
THEOREM OneEnrichmentAlways == Spec => []OneEnrichment
<1>1. PluginsInv => OneEnrichment
  <2> SUFFICES ASSUME PluginsInv PROVE OneEnrichment
    OBVIOUS
  <2> DEFINE Enriching == {t \in Running : teams[t].files # {}} \ expired
  <2>1. Enriching \subseteq {watched}
    BY DEF PluginsInv, EnrichingOK
  <2>2. IsFiniteSet({watched}) /\ Cardinality({watched}) = 1
    BY FS_Singleton
  <2>3. Cardinality(Enriching) <= 1
    <3> HIDE DEF Enriching
    <3> QED
      BY <2>1, <2>2, FS_Subset
  <2> QED
    BY <2>3 DEF OneEnrichment
<1> QED
  BY <1>1, PluginsAlways, PTL

\* A request whose plugin replied is not answered with the end of that (WaitForReply).
THEOREM ReplyIsAlwaysKept == Spec => []ReplyIsKept
<1>1. PluginsInv => ReplyIsKept
  <2> SUFFICES ASSUME PluginsInv, NEW r \in Requests, NEW t \in replied,
                      answers[r] = [how |-> "gone", team |-> t]
               PROVE  FALSE
    BY DEF ReplyIsKept
  <2>1. t \in Nat
    <3>1. t \in 1..last /\ last \in Nat
      BY DEF PluginsInv, TeamsOK
    <3> QED
      BY <3>1
  <2>2. [how |-> "gone", team |-> t] \in Answers
    BY <2>1 DEF Answers
  <2>3. answers[r] # NoAnswer
    BY <2>2, PluginsAssumption
  <2>4. answers[r].how = "gone" /\ answers[r].team = t
    OBVIOUS
  <2> QED
    BY <2>3, <2>4 DEF PluginsInv, AnswersOK
<1> QED
  BY <1>1, PluginsAlways, PTL

\* With any number of instances of the plugin, a reply answers the request that it is for.
THEOREM RepliesAreAlwaysOwn == Spec => []RepliesAreOwn
<1>1. PluginsInv => RepliesAreOwn
  <2> SUFFICES ASSUME PluginsInv PROVE RepliesAreOwn
    OBVIOUS
  <2>1. ASSUME NEW r \in Requests, NEW s \in Requests, r # s, NEW t \in 1..last,
               NEW how \in {"failed", "nothing", "relations"},
               answers[r] = [how |-> how, team |-> t]
        PROVE  answers[s] = NoAnswer \/ answers[s].team # t
    <3>1. t \in Nat /\ t # 0
      BY NoSuchTeam
    <3>2. [how |-> how, team |-> t] \in Answers
      BY <3>1 DEF Answers
    <3>3. answers[r] # NoAnswer
      BY <2>1, <3>2, PluginsAssumption
    <3>4. answers[r].team = t
      BY <2>1
    <3> QED
      BY <2>1, <3>1, <3>3, <3>4 DEF PluginsInv, AnswersOK
  <2>2. collected \subseteq {waits}
    BY DEF PluginsInv, WaitOK
  <2> QED
    BY <2>1, <2>2 DEF RepliesAreOwn
<1> QED
  BY <1>1, PluginsAlways, PTL

-----------------------------------------------------------------------------
(* Types of relations: two requests that read the same config *)

LEMMA PrefixOfItself ==
  ASSUME NEW k \in Kinds PROVE IsPrefix(k, k)
<1>1. Len(k) \in Nat
  BY NamesAssumption
<1> QED
  BY <1>1 DEF IsPrefix

LEMMA NothingRestricts ==
  ASSUME NEW k PROVE Admits({}, {}, k)
  BY DEF Admits, Matches

\* The filter of templates admits what the relation may end at.
LEMMA FilterIsTheEnds ==
  ASSUME NEW T \in Installed, T # Association, NEW t
  PROVE  LET template == GetCompatibleTargetTypes(T)
         IN Admits(template.includes, template.excludes, t)
              <=> (Readable(T) => IsCompatibleWithTarget(ConfigOf(T), t))
<1>1. CASE Readable(T)
  BY <1>1 DEF GetCompatibleTargetTypes, IsCompatibleWithTarget
<1>2. CASE ~Readable(T)
  BY <1>2, NothingRestricts DEF GetCompatibleTargetTypes
<1> QED
  BY <1>1, <1>2

LEMMA CompatibleWithOne ==
  ASSUME NEW T \in Installed, NEW s, NEW t
  PROVE  /\ T \in GetCompatibleRelations({s}, {t})
              <=> /\ Readable(T) => /\ IsCompatibleWithSource(ConfigOf(T), s)
                                    /\ IsCompatibleWithTarget(ConfigOf(T), t)
                  /\ Connects(T, s, t)
         /\ T \in GetCompatibleRelations({s}, {})
              <=> (Readable(T) => IsCompatibleWithSource(ConfigOf(T), s))
<1>1. T \in Types
  BY DEF Installed
<1> QED
  BY <1>1 DEF GetCompatibleRelations

LEMMA TemplatesDoAgree == TemplatesAgree
<1> SUFFICES ASSUME NEW T \in Installed, NEW s \in Kinds, NEW t \in Kinds, Connects(T, s, t)
             PROVE  LET template == GetCompatibleTargetTypes(T)
                        offered  == Admits(template.includes, template.excludes, t)
                    IN /\ T \in GetCompatibleRelations({s}, {t}) => (T = Association /\ s \in Labels) \/ offered
                       /\ T # Association /\ offered /\ T \in GetCompatibleRelations({s}, {}) =>
                            T \in GetCompatibleRelations({s}, {t})
  BY DEF TemplatesAgree
<1> DEFINE template == GetCompatibleTargetTypes(T)
           offered  == Admits(template.includes, template.excludes, t)
<1>1. CASE T # Association
  <2>1. offered <=> (Readable(T) => IsCompatibleWithTarget(ConfigOf(T), t))
    BY <1>1, FilterIsTheEnds
  <2> HIDE DEF offered
  <2>2. /\ T \in GetCompatibleRelations({s}, {t}) => offered
        /\ offered /\ T \in GetCompatibleRelations({s}, {}) => T \in GetCompatibleRelations({s}, {t})
    BY <2>1, CompatibleWithOne
  <2> QED
    BY <1>1, <2>2 DEF offered
<1>2. CASE T = Association /\ s \notin Labels
  <2>1. t \in Labels
    BY <1>2 DEF Connects
  <2>2. Matches(t, Labels) /\ ~Matches(t, {})
    BY <2>1, PrefixOfItself DEF Matches
  <2>3. offered
    BY <1>2, <2>2 DEF GetCompatibleTargetTypes, Admits
  <2> QED
    BY <1>2, <2>3
<1>3. CASE T = Association /\ s \in Labels
  BY <1>3
<1> QED
  BY <1>1, <1>2, <1>3

-----------------------------------------------------------------------------
(* The programs of types: the inductive invariant *)

\* A type that is not there has no program.
TypesInv ==
  /\ DOMAIN entry = Types /\ DOMAIN preferred = Types /\ DOMAIN known = Kinds
  /\ plugins \subseteq Finders
  /\ \A T \in Types : entry[T] = Absent => preferred[T] = NoProgram

LEMMA Assigned ==
  ASSUME NEW types, Assign(types)
  PROVE  /\ DOMAIN preferred' = Types
         /\ \A T \in Types \ types : preferred'[T] = preferred[T]
         /\ \A T \in Types \cap types : Navigators(T) # {} => preferred'[T] \in Navigators(T)
         /\ \A T \in Types : preferred'[T] = preferred[T] \/ T \in types
  BY DEF Assign

LEMMA Registered ==
  ASSUME TypesInv, NEW types, Register(types)
  PROVE  /\ DOMAIN entry' = Types /\ DOMAIN preferred' = Types
         /\ \A T \in Types : entry'[T] = Absent => entry[T] = Absent /\ T \notin types
         /\ \A T \in Types : preferred'[T] # preferred[T] => T \in types /\ entry[T] = Absent
         /\ \A T \in Types \cap types :
              entry[T] = Absent /\ Navigators(T) # {} => preferred'[T] \in Navigators(T)
<1>1. /\ entry' = [T \in Types |-> IF T \in types /\ entry[T] = Absent THEN NoConfig ELSE entry[T]]
      /\ Assign({T \in types : entry[T] = Absent})
  BY DEF Register
<1>2. \A T \in Types : entry'[T] = Absent => entry[T] = Absent /\ T \notin types
  BY <1>1, NamesAssumption
<1> QED
  BY <1>1, <1>2, Assigned

LEMMA RegisterKeeps ==
  ASSUME TypesInv, NEW types, Register(types), UNCHANGED plugins, DOMAIN known' = Kinds
  PROVE  TypesInv'
  BY Registered DEF TypesInv

LEMMA TypesStep ==
  ASSUME TypesInv, [TypesNext]_typesVars
  PROVE  TypesInv'
<1>1. CASE StartServer
  <2>1. Assign({T \in Types : Missing(T)}) /\ UNCHANGED <<entry, plugins, known>>
    BY <1>1 DEF StartServer
  <2>2. \A T \in Types : entry[T] = Absent => preferred'[T] = preferred[T]
    BY <2>1, Assigned DEF Missing, Installed
  <2> QED
    BY <2>1, <2>2, Assigned DEF TypesInv
<1>2. ASSUME NEW T \in Types, AskConfig(T) PROVE TypesInv'
  BY <1>2, RegisterKeeps DEF AskConfig, TypesInv
<1>3. ASSUME NEW T \in Types, InstallType(T) PROVE TypesInv'
  <2>1. PICK c \in ConfigsOf(T) \ {Absent} : entry' = [entry EXCEPT ![T] = c]
    BY <1>3 DEF InstallType
  <2> QED
    BY <1>3, <2>1 DEF InstallType, TypesInv
<1>4. ASSUME NEW T \in Types, RemoveType(T) PROVE TypesInv'
  BY <1>4 DEF RemoveType, TypesInv
<1>5. ASSUME NEW T \in Types, NEW app, Prefer(T, app) PROVE TypesInv'
  BY <1>5 DEF Prefer, TypesInv, Installed
<1>6. ASSUME NEW p \in Finders, ChangePlugins(p) PROVE TypesInv'
  BY <1>6 DEF ChangePlugins, TypesInv
<1>7. ASSUME NEW k \in Kinds, GetSelfRelations(k) PROVE TypesInv'
  <2>1. PICK types : Register(types)
    BY <1>7 DEF GetSelfRelations
  <2>2. UNCHANGED plugins /\ DOMAIN known' = Kinds
    BY <1>7 DEF GetSelfRelations, TypesInv
  <2> QED
    BY <2>1, <2>2, RegisterKeeps
<1>8. ASSUME NEW k, NEW T, NEW config, GetSelfRelationsOfType(k, T, config) PROVE TypesInv'
  <2>1. Register({T}) /\ UNCHANGED <<plugins, known>>
    BY <1>8 DEF GetSelfRelationsOfType
  <2> QED
    BY <2>1, RegisterKeeps DEF TypesInv
<1>9. CASE UNCHANGED typesVars
  BY <1>9 DEF typesVars, TypesInv
<1> QED
  BY <1>1, <1>2, <1>3, <1>4, <1>5, <1>6, <1>7, <1>8, <1>9 DEF TypesNext

LEMMA InitTypesInv == TypesInit => TypesInv
  BY DEF TypesInit, TypesInv

\* Which steps change the program of a type.
LEMMA StepsKeepPrograms ==
  ASSUME TypesInv, [TypesNext]_typesVars, NEW T \in Types, preferred'[T] # preferred[T]
  PROVE  \/ preferred[T] = NoProgram
         \/ \E app \in Apps : Prefer(T, app)
         \/ RemoveType(T)
<1> SUFFICES ASSUME preferred[T] # NoProgram
             PROVE  (\E app \in Apps : Prefer(T, app)) \/ RemoveType(T)
  OBVIOUS
<1>0. entry[T] # Absent
  BY DEF TypesInv
<1>1. CASE StartServer
  BY <1>1, Assigned DEF StartServer, Missing
<1>2. ASSUME NEW types, Register(types) PROVE FALSE
  BY <1>0, <1>2, Registered
<1>3. CASE \E U \in Types : AskConfig(U)
  BY <1>2, <1>3 DEF AskConfig
<1>4. CASE \E U \in Types : InstallType(U)
  BY <1>4 DEF InstallType
<1>5. CASE \E U \in Types : RemoveType(U)
  BY <1>5 DEF RemoveType, TypesInv
<1>6. CASE \E U \in Types, app \in Apps : Prefer(U, app)
  BY <1>6 DEF Prefer, TypesInv
<1>7. CASE \E p \in Finders : ChangePlugins(p)
  BY <1>7 DEF ChangePlugins
<1>8. CASE \E k \in Kinds : GetSelfRelations(k)
  BY <1>2, <1>8 DEF GetSelfRelations
<1>9. ASSUME NEW k, NEW U, NEW config, GetSelfRelationsOfType(k, U, config) PROVE FALSE
  BY <1>2, <1>9 DEF GetSelfRelationsOfType
<1>10. CASE UNCHANGED typesVars
  BY <1>10 DEF typesVars
<1> QED
  BY <1>1, <1>3, <1>4, <1>5, <1>6, <1>7, <1>8, <1>9, <1>10 DEF TypesNext

-----------------------------------------------------------------------------
(* What clients are told of *)

LEMMA TypesOfPlugin ==
  ASSUME TypesInv, NEW k \in Kinds, PluginConfig(k).program # NoProgram
  PROVE  SelfTypes(PluginConfig(k).program) \subseteq Types
<1> DEFINE p == PluginConfig(k).program
<1>1. p \in Finders
  BY DEF PluginConfig, Extractors, TypesInv
<1>2. Mappings(p) \in Seq(Types) /\ DefaultType(p) \in Types \cup {NoType}
  BY <1>1, NamesAssumption
<1> HIDE DEF p
<1>3. Mappings(p) # <<>> => Mappings(p)[1] \in Types
  BY <1>2
<1>4. SelfTypes(p) \subseteq Types
  BY <1>2, <1>3 DEF SelfTypes
<1> QED
  BY <1>4 DEF p

LEMMA ToldOfAreThere ==
  ASSUME TypesInv, NEW k \in Kinds, GetSelfRelations(k)
  PROVE  \A j \in Kinds : known'[j] # known[j] =>
           \A T \in known'[j].types :
             /\ entry'[T] # Absent
             /\ entry[T] = Absent /\ Navigators(T) # {} => preferred'[T] \in Navigators(T)
<1> DEFINE c == PluginConfig(k)
           types == IF c.program = NoProgram THEN {} ELSE SelfTypes(c.program)
<1>1. Register(types) /\ known' = [known EXCEPT ![k] = [c EXCEPT !.types = types]]
  BY DEF GetSelfRelations
<1>2. types \subseteq Types
  BY TypesOfPlugin
<1>3. [c EXCEPT !.types = types].types = types
  BY DEF PluginConfig
<1> HIDE DEF types, c
<1>4. \A j \in Kinds : known'[j] # known[j] => known'[j].types = types
  BY <1>1, <1>3 DEF TypesInv
<1>5. \A T \in types :
        /\ entry'[T] # Absent
        /\ entry[T] = Absent /\ Navigators(T) # {} => preferred'[T] \in Navigators(T)
  BY <1>1, <1>2, Registered
<1> QED
  BY <1>4, <1>5

LEMMA OnlyAskingTells ==
  ASSUME [TypesNext]_typesVars, known' # known PROVE \E k \in Kinds : GetSelfRelations(k)
<1>1. ASSUME NEW T, NEW app, AskConfig(T) \/ InstallType(T) \/ RemoveType(T) \/ Prefer(T, app) PROVE FALSE
  BY <1>1 DEF AskConfig, InstallType, RemoveType, Prefer
<1>2. ASSUME NEW k, NEW T, NEW config, GetSelfRelationsOfType(k, T, config) PROVE FALSE
  BY <1>2 DEF GetSelfRelationsOfType
<1>3. ASSUME NEW p, ChangePlugins(p) PROVE FALSE
  BY <1>3 DEF ChangePlugins
<1>4. CASE StartServer
  BY <1>4 DEF StartServer
<1>5. CASE UNCHANGED typesVars
  BY <1>5 DEF typesVars
<1> QED
  BY <1>1, <1>2, <1>3, <1>4, <1>5 DEF TypesNext

-----------------------------------------------------------------------------
(* What is made of the reply of a plugin: induction over messages.  The     *)
(* theorems of the library about induction are about operators; this is by  *)
(* smallest elements of sets of numbers.                                    *)

\* Induction, stated of a set: a number that is not in it would have a smallest one before it.
LEMMA AllNumbers ==
  ASSUME NEW S, 0 \in S, \A n \in Nat : n \in S => n + 1 \in S
  PROVE  Nat \subseteq S
<1> DEFINE R == {p \in Nat \X Nat : p[1] < p[2]}
           T == Nat \ S
<1>1. IsWellFoundedOn(R, Nat)
  BY NatLessThanWellFounded DEF OpToRel
<1>2. SUFFICES ASSUME T # {} PROVE FALSE
  OBVIOUS
<1>3. PICK x \in T : \A y \in T : <<y, x>> \notin R
  <2>1. T \subseteq Nat
    OBVIOUS
  <2> HIDE DEF R, T
  <2> QED
    BY <1>1, <1>2, <2>1, WFMin, Zenon
<1>4. x \in Nat /\ x # 0
  BY <1>3
<1>5. x - 1 \in Nat /\ x - 1 \in T
  BY <1>3, <1>4
<1>6. <<x - 1, x>> \in R
  BY <1>4, <1>5
<1> QED
  BY <1>3, <1>5, <1>6

\* What becomes of a message if f tells what became of those within it.
Transformed(f, m) ==
  IF m.items = <<>> \/ ~m.labelled
  THEN [ok |-> TRUE, relations |-> <<>>]
  ELSE IF ~m.uniform \/ \E x \in ToSet(m.items) : \E n \in ToSet(x.nested) : ~f[n].ok
  THEN Failed
  ELSE [ok |-> TRUE,
        relations |-> [i \in DOMAIN m.items |->
          Relation(m.items[i], [k \in DOMAIN m.items[i].nested |-> f[m.items[i].nested[k]].relations])]]

\* That does not depend on anything else.
LEMMA TransformedOfSame ==
  ASSUME NEW f, NEW g, NEW m,
         \A i \in DOMAIN m.items : \A k \in DOMAIN m.items[i].nested :
           f[m.items[i].nested[k]] = g[m.items[i].nested[k]]
  PROVE  Transformed(f, m) = Transformed(g, m)
<1>1. \A i \in DOMAIN m.items :
        [k \in DOMAIN m.items[i].nested |-> f[m.items[i].nested[k]].relations]
        = [k \in DOMAIN m.items[i].nested |-> g[m.items[i].nested[k]].relations]
  OBVIOUS
<1>2. [i \in DOMAIN m.items |->
          Relation(m.items[i], [k \in DOMAIN m.items[i].nested |-> f[m.items[i].nested[k]].relations])]
      = [i \in DOMAIN m.items |->
          Relation(m.items[i], [k \in DOMAIN m.items[i].nested |-> g[m.items[i].nested[k]].relations])]
  BY <1>1, Zenon
<1>3. (\E x \in ToSet(m.items) : \E n \in ToSet(x.nested) : ~f[n].ok)
      <=> \E x \in ToSet(m.items) : \E n \in ToSet(x.nested) : ~g[n].ok
  BY DEF ToSet
<1> QED
  BY <1>2, <1>3, Zenon DEF Transformed

\* By induction on how deep messages are nested.
LEMMA TransformExists == \E f : f = [m \in Messages |-> Transformed(f, m)]
<1>1. PICK depth \in [Messages -> 0 .. MaxDepth] :
        \A m \in Messages : \A i \in DOMAIN m.items : \A n \in ToSet(m.items[i].nested) :
          n \in Messages /\ depth[n] < depth[m]
  BY MessagesAssumption
<1> DEFINE Upto(d) == {m \in Messages : depth[m] < d}
            S == {d \in Nat : \E f : f = [m \in Upto(d) |-> Transformed(f, m)]}
<1>2. 0 \in S
  <2>1. Upto(0) = {}
    BY <1>1, IdsAssumption
  <2>2. [m \in {} |-> 0] = [m \in {} |-> Transformed([n \in {} |-> 0], m)]
    OBVIOUS
  <2> QED
    BY <2>1, <2>2
<1>3. ASSUME NEW d \in Nat, d \in S
      PROVE  d + 1 \in S
  <2>1. PICK f : f = [m \in Upto(d) |-> Transformed(f, m)]
    BY <1>3
  <2> DEFINE g == [m \in Upto(d + 1) |-> Transformed(f, m)]
  <2>2. ASSUME NEW m \in Upto(d + 1)
        PROVE  Transformed(f, m) = Transformed(g, m)
    <3>1. SUFFICES ASSUME NEW i \in DOMAIN m.items, NEW k \in DOMAIN m.items[i].nested
                   PROVE  f[m.items[i].nested[k]] = g[m.items[i].nested[k]]
      <4> HIDE DEF g
      <4> QED
        BY TransformedOfSame, Zenon
    <3> DEFINE n == m.items[i].nested[k]
    <3>2. n \in ToSet(m.items[i].nested)
      BY DEF ToSet
    <3>3. n \in Messages /\ depth[n] < depth[m] /\ depth[m] < d + 1
      BY <1>1, <3>2
    <3>4. n \in Upto(d) /\ n \in Upto(d + 1)
      BY <1>1, <3>3
    <3>5. f[n] = Transformed(f, n)
      BY <2>1, <3>4, Zenon
    <3> QED
      BY <3>4, <3>5
  <2>3. g = [m \in Upto(d + 1) |-> Transformed(g, m)]
    <3>1. \A m \in Upto(d + 1) : g[m] = Transformed(g, m)
      <4>1. \A m \in Upto(d + 1) : g[m] = Transformed(f, m)
        OBVIOUS
      <4> HIDE DEF g, Upto
      <4> QED
        BY <2>2, <4>1
    <3>2. g = [m \in Upto(d + 1) |-> g[m]]
      OBVIOUS
    <3> HIDE DEF g, Upto
    <3> QED
      BY <3>1, <3>2, Zenon
  <2> HIDE DEF g, Upto
  <2> QED
    BY <2>3
<1>4. MaxDepth + 1 \in S
  <2> HIDE DEF S
  <2> QED
    BY <1>2, <1>3, AllNumbers, IdsAssumption
<1>5. Upto(MaxDepth + 1) = Messages
  BY <1>1, IdsAssumption
<1> QED
  BY <1>4, <1>5

\* What the recursive definition computes, one message at a time.
LEMMA TransformEquation ==
  \A m \in Messages : TransformPluginResult[m] = Transformed(TransformPluginResult, m)
<1>1. TransformPluginResult = [m \in Messages |-> Transformed(TransformPluginResult, m)]
  <2>1. TransformPluginResult = CHOOSE f : f = [m \in Messages |-> Transformed(f, m)]
    BY Zenon DEF TransformPluginResult, Transformed
  <2> QED
    BY <2>1, TransformExists, Zenon
<1> QED
  BY <1>1

\* A relation that an item, none of whose sub items failed, becomes.
Becomes(x, r) ==
  /\ \A n \in ToSet(x.nested) : n \in Messages /\ TransformPluginResult[n].ok
  /\ r = Relation(x, [k \in DOMAIN x.nested |-> TransformPluginResult[x.nested[k]].relations])

\* Two sets with a relation for each item, and no others.
Match(items, relations) ==
  /\ \A x \in items : \E r \in relations : Becomes(x, r)
  /\ \A r \in relations : \E x \in items : Becomes(x, r)

LEMMA NothingMatches == Match({}, ToSet(<<>>))
  BY DEF Match, ToSet

\* A message that did not fail has a relation for each of its items.
LEMMA MessagesMatch ==
  ASSUME NEW m \in Messages, TransformPluginResult[m].ok
  PROVE  Match(ItemsOf(m), ToSet(TransformPluginResult[m].relations))
<1> DEFINE T == TransformPluginResult
            made(x) == Relation(x, [k \in DOMAIN x.nested |-> T[x.nested[k]].relations])
<1>1. T[m] = Transformed(T, m)
  BY TransformEquation
<1>2. CASE m.items = <<>> \/ ~m.labelled
  <2>1. T[m].relations = <<>>
    BY <1>1, <1>2 DEF Transformed
  <2>2. ItemsOf(m) = {}
    BY <1>2 DEF ItemsOf, ToSet
  <2> QED
    BY <2>1, <2>2, NothingMatches
<1>3. CASE ~(m.items = <<>> \/ ~m.labelled)
  <2>1. /\ m.uniform
        /\ \A x \in ToSet(m.items) : \A n \in ToSet(x.nested) : T[n].ok
        /\ T[m].relations = [i \in DOMAIN m.items |-> made(m.items[i])]
    BY <1>1, <1>3 DEF Transformed, Failed
  <2>2. ItemsOf(m) = ToSet(m.items)
    BY <1>3 DEF ItemsOf
  <2>3. \A x \in ToSet(m.items) : Becomes(x, made(x))
    <3>1. \A x \in ToSet(m.items) : \A n \in ToSet(x.nested) : n \in Messages
      BY MessagesAssumption DEF ToSet
    <3> QED
      BY <2>1, <3>1 DEF Becomes
  <2>4. ToSet(T[m].relations) = {made(x) : x \in ToSet(m.items)}
    <3> HIDE DEF made
    <3> QED
      BY <2>1 DEF ToSet
  <2> HIDE DEF made
  <2> QED
    BY <2>2, <2>3, <2>4 DEF Match
<1> QED
  BY <1>2, <1>3

LEMMA RelationStands ==
  ASSUME NEW x, NEW r, Becomes(x, r)
  PROVE  Stands(r, x) /\ r.id # NoItemId
BY IdsAssumption DEF Becomes, Relation, Stands

\* Below the relation of an item there are those of its sub items.
LEMMA SubItemsMatch ==
  ASSUME NEW x, NEW r, Becomes(x, r)
  PROVE  Match(SubItems(x), SubRelations(r))
<1> DEFINE T == TransformPluginResult
            found == [k \in DOMAIN x.nested |-> T[x.nested[k]].relations]
            keys == {k \in DOMAIN found : found[k] # <<>>}
<1>1. r.children = [k \in keys |-> found[k]]
  BY DEF Becomes, Relation, RestrictValues, Restrict
<1>2. SubRelations(r) = UNION {ToSet(T[n].relations) : n \in ToSet(x.nested)}
  <2>1. Range(r.children) = {found[k] : k \in keys}
    BY <1>1 DEF Range
  <2>2. {found[k] : k \in keys} \subseteq {T[n].relations : n \in ToSet(x.nested)}
    BY DEF ToSet
  <2>3. {T[n].relations : n \in ToSet(x.nested)} \subseteq {found[k] : k \in keys} \cup {<<>>}
    BY DEF ToSet
  <2>4. ToSet(<<>>) = {}
    BY DEF ToSet
  <2>5. UNION {ToSet(c) : c \in {T[n].relations : n \in ToSet(x.nested)}}
          = UNION {ToSet(T[n].relations) : n \in ToSet(x.nested)}
    OBVIOUS
  <2> HIDE DEF found, keys
  <2> QED
    BY <2>1, <2>2, <2>3, <2>4, <2>5 DEF SubRelations
<1>3. SubItems(x) = UNION {ItemsOf(n) : n \in ToSet(x.nested)}
  BY DEF SubItems
<1>4. \A n \in ToSet(x.nested) : Match(ItemsOf(n), ToSet(T[n].relations))
  BY MessagesMatch DEF Becomes
<1>5. Match(UNION {ItemsOf(n) : n \in ToSet(x.nested)}, UNION {ToSet(T[n].relations) : n \in ToSet(x.nested)})
  BY <1>4 DEF Match
<1> QED
  BY <1>2, <1>3, <1>5

\* The levels of the items of a message, and of the relations of a result, by induction on the depth.
LEMMA ItemLevelsExist ==
  ASSUME NEW m
  PROVE  \E f : f = [d \in 0 .. MaxDepth |->
                       IF d = 0 THEN ItemsOf(m) ELSE f[d - 1] \cup UNION {SubItems(x) : x \in f[d - 1]}]
<1> DEFINE Level(f, d) == IF d = 0 THEN ItemsOf(m) ELSE f[d - 1] \cup UNION {SubItems(x) : x \in f[d - 1]}
            S == {b \in Nat : \E f : f = [d \in 0 .. b |-> Level(f, d)]}
<1>1. 0 \in S
  <2> DEFINE f == [d \in 0 .. 0 |-> ItemsOf(m)]
  <2>1. f = [d \in 0 .. 0 |-> Level(f, d)]
    OBVIOUS
  <2> HIDE DEF f, Level
  <2> QED
    BY <2>1
<1>2. ASSUME NEW b \in Nat, b \in S
      PROVE  b + 1 \in S
  <2>1. PICK f : f = [d \in 0 .. b |-> Level(f, d)]
    BY <1>2
  <2> DEFINE g == [d \in 0 .. b + 1 |-> Level(f, d)]
  <2>2. ASSUME NEW d \in 0 .. b + 1
        PROVE  g[d] = Level(g, d)
    <3>1. CASE d = 0
      BY <3>1
    <3>2. CASE d # 0
      <4>1. d - 1 \in 0 .. b /\ d - 1 \in 0 .. b + 1
        BY <3>2
      <4>2. f[d - 1] = Level(f, d - 1)
        <5> HIDE DEF Level
        <5> QED
          BY <2>1, <4>1, Zenon
      <4>3. g[d - 1] = f[d - 1]
        <5> HIDE DEF Level
        <5> QED
          BY <4>1, <4>2
      <4>4. g[d] = Level(f, d)
        <5> HIDE DEF Level
        <5> QED
          OBVIOUS
      <4> HIDE DEF g
      <4> QED
        BY <4>3, <4>4
    <3> QED
      BY <3>1, <3>2
  <2>3. g = [d \in 0 .. b + 1 |-> Level(g, d)]
    <3>1. g = [d \in 0 .. b + 1 |-> g[d]]
      OBVIOUS
    <3> HIDE DEF g, Level
    <3> QED
      BY <2>2, <3>1
  <2> HIDE DEF g, Level
  <2> QED
    BY <2>3
<1>3. MaxDepth \in S
  <2> HIDE DEF S
  <2> QED
    BY <1>1, <1>2, AllNumbers, IdsAssumption
<1> QED
  BY <1>3
LEMMA RelationLevelsExist ==
  ASSUME NEW rs
  PROVE  \E f : f = [d \in 0 .. MaxDepth |->
                       IF d = 0 THEN ToSet(rs) ELSE f[d - 1] \cup UNION {SubRelations(x) : x \in f[d - 1]}]
<1> DEFINE Level(f, d) == IF d = 0 THEN ToSet(rs) ELSE f[d - 1] \cup UNION {SubRelations(x) : x \in f[d - 1]}
            S == {b \in Nat : \E f : f = [d \in 0 .. b |-> Level(f, d)]}
<1>1. 0 \in S
  <2> DEFINE f == [d \in 0 .. 0 |-> ToSet(rs)]
  <2>1. f = [d \in 0 .. 0 |-> Level(f, d)]
    OBVIOUS
  <2> HIDE DEF f, Level
  <2> QED
    BY <2>1
<1>2. ASSUME NEW b \in Nat, b \in S
      PROVE  b + 1 \in S
  <2>1. PICK f : f = [d \in 0 .. b |-> Level(f, d)]
    BY <1>2
  <2> DEFINE g == [d \in 0 .. b + 1 |-> Level(f, d)]
  <2>2. ASSUME NEW d \in 0 .. b + 1
        PROVE  g[d] = Level(g, d)
    <3>1. CASE d = 0
      BY <3>1
    <3>2. CASE d # 0
      <4>1. d - 1 \in 0 .. b /\ d - 1 \in 0 .. b + 1
        BY <3>2
      <4>2. f[d - 1] = Level(f, d - 1)
        <5> HIDE DEF Level
        <5> QED
          BY <2>1, <4>1, Zenon
      <4>3. g[d - 1] = f[d - 1]
        <5> HIDE DEF Level
        <5> QED
          BY <4>1, <4>2
      <4>4. g[d] = Level(f, d)
        <5> HIDE DEF Level
        <5> QED
          OBVIOUS
      <4> HIDE DEF g
      <4> QED
        BY <4>3, <4>4
    <3> QED
      BY <3>1, <3>2
  <2>3. g = [d \in 0 .. b + 1 |-> Level(g, d)]
    <3>1. g = [d \in 0 .. b + 1 |-> g[d]]
      OBVIOUS
    <3> HIDE DEF g, Level
    <3> QED
      BY <2>2, <3>1
  <2> HIDE DEF g, Level
  <2> QED
    BY <2>3
<1>3. MaxDepth \in S
  <2> HIDE DEF S
  <2> QED
    BY <1>1, <1>2, AllNumbers, IdsAssumption
<1> QED
  BY <1>3

\* What is found down to a level, and one level further.
LEMMA ItemLevels ==
  ASSUME NEW m
  PROVE  \E f : /\ AllItems(m) = f[MaxDepth] /\ f[0] = ItemsOf(m)
               /\ \A d \in 0 .. MaxDepth - 1 : f[d + 1] = f[d] \cup UNION {SubItems(x) : x \in f[d]}
<1> DEFINE Level(f, d) == IF d = 0 THEN ItemsOf(m) ELSE f[d - 1] \cup UNION {SubItems(x) : x \in f[d - 1]}
            F == CHOOSE f : f = [d \in 0 .. MaxDepth |-> Level(f, d)]
<1>1. F = [d \in 0 .. MaxDepth |-> Level(F, d)]
  <2>1. \E f : f = [d \in 0 .. MaxDepth |-> Level(f, d)]
    BY ItemLevelsExist
  <2> HIDE DEF Level
  <2> QED
    BY <2>1, Zenon
<1>2. AllItems(m) = F[MaxDepth]
  BY Zenon DEF AllItems
<1> HIDE DEF F
<1>3. F[0] = ItemsOf(m)
  BY <1>1, IdsAssumption
<1>4. ASSUME NEW d \in 0 .. MaxDepth - 1
      PROVE  F[d + 1] = F[d] \cup UNION {SubItems(x) : x \in F[d]}
  <2>1. d + 1 \in 0 .. MaxDepth /\ d + 1 # 0 /\ (d + 1) - 1 = d
    BY IdsAssumption
  <2>2. F[d + 1] = Level(F, d + 1)
    <3> HIDE DEF Level
    <3> QED
      BY <1>1, <2>1, Zenon
  <2> QED
    BY <2>1, <2>2
<1> QED
  BY <1>2, <1>3, <1>4

LEMMA RelationLevels ==
  ASSUME NEW rs
  PROVE  \E f : /\ AllRelations(rs) = f[MaxDepth] /\ f[0] = ToSet(rs)
               /\ \A d \in 0 .. MaxDepth - 1 : f[d + 1] = f[d] \cup UNION {SubRelations(x) : x \in f[d]}
<1> DEFINE Level(f, d) == IF d = 0 THEN ToSet(rs) ELSE f[d - 1] \cup UNION {SubRelations(x) : x \in f[d - 1]}
            F == CHOOSE f : f = [d \in 0 .. MaxDepth |-> Level(f, d)]
<1>1. F = [d \in 0 .. MaxDepth |-> Level(F, d)]
  <2>1. \E f : f = [d \in 0 .. MaxDepth |-> Level(f, d)]
    BY RelationLevelsExist
  <2> HIDE DEF Level
  <2> QED
    BY <2>1, Zenon
<1>2. AllRelations(rs) = F[MaxDepth]
  BY Zenon DEF AllRelations
<1> HIDE DEF F
<1>3. F[0] = ToSet(rs)
  BY <1>1, IdsAssumption
<1>4. ASSUME NEW d \in 0 .. MaxDepth - 1
      PROVE  F[d + 1] = F[d] \cup UNION {SubRelations(x) : x \in F[d]}
  <2>1. d + 1 \in 0 .. MaxDepth /\ d + 1 # 0 /\ (d + 1) - 1 = d
    BY IdsAssumption
  <2>2. F[d + 1] = Level(F, d + 1)
    <3> HIDE DEF Level
    <3> QED
      BY <1>1, <2>1, Zenon
  <2> QED
    BY <2>1, <2>2
<1> QED
  BY <1>2, <1>3, <1>4

\* One level further they match again.
LEMMA ReachedMatch ==
  ASSUME NEW items, NEW relations, Match(items, relations)
  PROVE  Match(items \cup UNION {SubItems(x) : x \in items},
               relations \cup UNION {SubRelations(r) : r \in relations})
<1>1. \A x \in items : \E r \in relations : Becomes(x, r) /\ Match(SubItems(x), SubRelations(r))
  BY SubItemsMatch DEF Match
<1>2. \A r \in relations : \E x \in items : Becomes(x, r) /\ Match(SubItems(x), SubRelations(r))
  BY SubItemsMatch DEF Match
<1> QED
  BY <1>1, <1>2 DEF Match

\* By induction on the depth, over the levels of both.
LEMMA AllMatch ==
  ASSUME NEW m \in Messages, TransformPluginResult[m].ok
  PROVE  Match(AllItems(m), AllRelations(TransformPluginResult[m].relations))
<1> DEFINE rs == TransformPluginResult[m].relations
<1>1. PICK f : /\ AllItems(m) = f[MaxDepth] /\ f[0] = ItemsOf(m)
               /\ \A d \in 0 .. MaxDepth - 1 : f[d + 1] = f[d] \cup UNION {SubItems(x) : x \in f[d]}
  BY ItemLevels
<1>2. PICK g : /\ AllRelations(rs) = g[MaxDepth] /\ g[0] = ToSet(rs)
               /\ \A d \in 0 .. MaxDepth - 1 : g[d + 1] = g[d] \cup UNION {SubRelations(x) : x \in g[d]}
  BY RelationLevels
<1> DEFINE S == {d \in Nat : d <= MaxDepth => Match(f[d], g[d])}
<1>3. 0 \in S
  <2>1. Match(f[0], g[0])
    BY <1>1, <1>2, MessagesMatch
  <2> QED
    BY <2>1
<1>4. ASSUME NEW d \in Nat, d \in S
      PROVE  d + 1 \in S
  <2>1. SUFFICES ASSUME d + 1 <= MaxDepth PROVE Match(f[d + 1], g[d + 1])
    OBVIOUS
  <2>2. d \in 0 .. MaxDepth - 1 /\ Match(f[d], g[d])
    BY <1>4, <2>1, IdsAssumption
  <2>3. /\ f[d + 1] = f[d] \cup UNION {SubItems(x) : x \in f[d]}
        /\ g[d + 1] = g[d] \cup UNION {SubRelations(x) : x \in g[d]}
    BY <1>1, <1>2, <2>2
  <2>4. Match(f[d] \cup UNION {SubItems(x) : x \in f[d]}, g[d] \cup UNION {SubRelations(x) : x \in g[d]})
    BY <2>2, ReachedMatch
  <2> QED
    BY <2>3, <2>4
<1>5. MaxDepth \in S
  <2> HIDE DEF S
  <2> QED
    BY <1>3, <1>4, AllNumbers, IdsAssumption
<1> QED
  BY <1>1, <1>2, <1>5, IdsAssumption

\* Whatever a plugin replies, what is made of it has all of it.
LEMMA TransformIsComplete ==
  ASSUME NEW m \in Messages, TransformPluginResult[m].ok
  PROVE  IsComplete(m, TransformPluginResult[m].relations)
<1> DEFINE items == AllItems(m)
            relations == AllRelations(TransformPluginResult[m].relations)
<1>1. Match(items, relations)
  BY AllMatch
<1>2. ASSUME NEW x \in items
      PROVE  \E r \in relations : Stands(r, x) /\ \A y \in SubItems(x) : \E c \in SubRelations(r) : Stands(c, y)
  <2>1. PICK r \in relations : Becomes(x, r)
    BY <1>1 DEF Match
  <2>2. Match(SubItems(x), SubRelations(r)) /\ Stands(r, x)
    BY <2>1, SubItemsMatch, RelationStands
  <2>3. \A y \in SubItems(x) : \E c \in SubRelations(r) : Stands(c, y)
    BY <2>2, RelationStands DEF Match
  <2> QED
    BY <2>2, <2>3
<1>3. \A r \in relations : r.id # NoItemId /\ \E x \in items : Stands(r, x)
  BY <1>1, RelationStands DEF Match
<1> HIDE DEF items, relations
<1>4. (/\ \A x \in items : \E r \in relations : Stands(r, x) /\ \A y \in SubItems(x) : \E c \in SubRelations(r) : Stands(c, y)
       /\ \A r \in relations : r.id # NoItemId /\ \E x \in items : Stands(r, x))
  BY <1>2, <1>3
<1> QED
  BY <1>4 DEF IsComplete, items, relations

\* What a client is shown was made by TransformPluginResult, of a reply that did not fail.
LEMMA ShownIsComplete ==
  ASSUME TypesInv, NEW k, NEW T, NEW config, GetSelfRelationsOfType(k, T, config)
  PROVE  ItemsAreRelations'
<1>1. CASE shown' = NoReply
  BY <1>1 DEF ItemsAreRelations
<1>2. CASE shown' # NoReply
  <2>1. PICK m \in Replies(config.program) :
          shown' = LET made == TransformPluginResult[m] IN
                   IF made.ok THEN [reply |-> m, relations |-> made.relations] ELSE NoReply
    BY <1>2 DEF GetSelfRelationsOfType
  <2>2. config.program \in plugins
    BY <1>2 DEF GetSelfRelationsOfType
  <2>3. m \in Messages
    BY <2>1, <2>2, RepliesAssumption DEF TypesInv
  <2>4. TransformPluginResult[m].ok /\ shown' = [reply |-> m, relations |-> TransformPluginResult[m].relations]
    BY <1>2, <2>1
  <2>5. shown'.reply = m /\ shown'.relations = TransformPluginResult[m].relations
    BY <2>4
  <2> QED
    BY <2>3, <2>4, <2>5, TransformIsComplete DEF ItemsAreRelations
<1> QED
  BY <1>1, <1>2

LEMMA OnlyRepliesAreShown ==
  ASSUME [TypesNext]_typesVars, shown' # shown
  PROVE  \E k \in Kinds, T \in Types : \E config : GetSelfRelationsOfType(k, T, config)
<1>1. ASSUME NEW T, NEW app, AskConfig(T) \/ InstallType(T) \/ RemoveType(T) \/ Prefer(T, app) PROVE FALSE
  BY <1>1 DEF AskConfig, InstallType, RemoveType, Prefer
<1>2. ASSUME NEW k, GetSelfRelations(k) PROVE FALSE
  BY <1>2 DEF GetSelfRelations
<1>3. ASSUME NEW p, ChangePlugins(p) PROVE FALSE
  BY <1>3 DEF ChangePlugins
<1>4. CASE StartServer
  BY <1>4 DEF StartServer
<1>5. CASE UNCHANGED typesVars
  BY <1>5 DEF typesVars
<1> QED
  BY <1>1, <1>2, <1>3, <1>4, <1>5 DEF TypesNext

LEMMA ItemsStep ==
  ASSUME TypesInv, ItemsAreRelations, [TypesNext]_typesVars
  PROVE  ItemsAreRelations'
<1>1. CASE shown' = shown
  BY <1>1 DEF ItemsAreRelations
<1>2. CASE shown' # shown
  BY <1>2, OnlyRepliesAreShown, ShownIsComplete
<1> QED
  BY <1>1, <1>2

-----------------------------------------------------------------------------
(* The theorems about types of relations *)

\* For any configs of types, readable or not: what can be dropped onto a file is offered as a
\* template, and the other way round (RelationHandler.cpp 456-460, 574-576).
THEOREM TemplatesAlwaysAgree == TypesSpec => []TemplatesAgree
  BY TemplatesDoAgree, PTL

\* For any types, plugins and preferences: a program that a type has stays, until the user chooses
\* another one or the type is removed (RelationHandler.h 27-30).
THEOREM ChosenProgramAlwaysStays == TypesSpec => ChosenProgramStays
<1>1. TypesInv /\ [TypesNext]_typesVars => TypesInv'
  BY TypesStep
<1>2. TypesInv /\ [TypesNext]_typesVars
        => [\A T \in Types :
              preferred'[T] # preferred[T] =>
                \/ preferred[T] = NoProgram
                \/ \E app \in Apps : Prefer(T, app)
                \/ RemoveType(T)]_typesVars
  BY StepsKeepPrograms
<1> QED
  BY <1>1, <1>2, InitTypesInv, PTL DEF TypesSpec, ChosenProgramStays

\* For any files and plugins: a client is told only of types that are there, with a program if one
\* could be found (RelationHandler.cpp 1055-1072).
THEOREM ToldTypesAlwaysOpen == TypesSpec => ToldTypesOpen
<1>1. TypesInv /\ [TypesNext]_typesVars => TypesInv'
  BY TypesStep
<1>2. TypesInv /\ [TypesNext]_typesVars
        => [\A k \in Kinds : known'[k] # known[k] =>
              \A T \in known'[k].types :
                /\ entry'[T] # Absent
                /\ entry[T] = Absent /\ Navigators(T) # {} => preferred'[T] \in Navigators(T)]_typesVars
  BY OnlyAskingTells, ToldOfAreThere
<1> QED
  BY <1>1, <1>2, InitTypesInv, PTL DEF TypesSpec, ToldTypesOpen

\* For any messages, nested to any depth, and any attribute mapping: each item of a reply that did
\* not fail is a relation with an id, below that of the item that it was found in, and there are no
\* others (SelfRelationHandler.cpp 390-521).
THEOREM ItemsAreAlwaysRelations == TypesSpec => []ItemsAreRelations
<1>1. TypesInit => ItemsAreRelations
  BY DEF TypesInit, ItemsAreRelations
<1>2. TypesInv /\ [TypesNext]_typesVars => TypesInv'
  BY TypesStep
<1>3. TypesInv /\ ItemsAreRelations /\ [TypesNext]_typesVars => ItemsAreRelations'
  BY ItemsStep
<1> QED
  BY <1>1, <1>2, <1>3, InitTypesInv, PTL DEF TypesSpec

=============================================================================
