---------------------------- MODULE Settings_proofs ----------------------------
(***************************************************************************)
(* Proofs about the settings of the server and about the application that  *)
(* shows and changes them.                                                 *)
(*                                                                         *)
(* Settings: in whichever order three threads change settings, contexts    *)
(* are chosen, writes fail and programs end, the file holds what the       *)
(* server knows, and only the chosen context is locked.                    *)
(*                                                                         *)
(* SettingsWindow: whatever number of requests, changes and instances      *)
(* there are, the form shows the settings of the node that is chosen, and  *)
(* the instances of plugins are let go.                                    *)
(***************************************************************************)
EXTENDS Settings, SettingsWindow, TLAPS

-----------------------------------------------------------------------------
(* Settings: the inductive invariant *)

\* What a form changes has one of these fields; the context is changed only by the choice of one.
FormFields == {"key", "fileTypes", "libraryName", "associate"}
Others == [field : {"dark"}, value : {"true", "false"}] \cup [field : {"version"}, value : Nat]
            \cup UNION {{[field |-> f, value |-> c[f]] : f \in DOMAIN c \cap FormFields} : c \in Changes}
Posted == [field : {"context"}, value : Contexts] \cup Others

ValuesOK ==
  /\ file \in AllSettings \cup {NoFile, Unreadable}
  /\ memory \in AllSettings /\ copy \in AllSettings /\ buffer \in [Threads -> AllSettings]
  /\ todo \in [Threads -> Seq(Posted)]
  /\ at \in [Threads -> {"idle", "locked", "changed", "opened"}]
  /\ phase \in {"off", "first", "repair", "running"}
  /\ choosing \in Contexts \cup {NoContext}
  /\ contexts \subseteq Contexts

\* Only the first change of the looper can be the choice of a context.
PostedOK ==
  /\ \A t \in Threads \ {"server"} : todo[t] \in Seq(Others)
  /\ todo["server"] # <<>> => Tail(todo["server"]) \in Seq(Others)
  /\ choosing # NoContext => todo["server"] = <<>>

\* Who changes settings has the lock; while the server starts it is alone.
ThreadsOK ==
  /\ phase # "running" =>
       /\ holder = Nobody /\ choosing = NoContext /\ \A t \in Threads : todo[t] = <<>>
       /\ \A t \in Threads \ {"server"} : at[t] = "idle"
  /\ phase = "off" => at["server"] = "idle"
  /\ phase \in {"first", "repair"} => at["server"] \in {"changed", "opened"}
  /\ phase = "running" => \A t \in Threads :
       /\ at[t] # "idle" => holder = t /\ todo[t] # <<>>
       /\ holder = t => at[t] # "idle"
  /\ \A t \in Threads : at[t] = "opened" => buffer[t] = memory

\* As long as nothing cost settings: the file can be read but for the moment of a save, and holds
\* what is known but for that of a change.
Clean == causes \subseteq {"died while choosing", "old name"}

SavedOK ==
  Clean =>
    /\ phase # "off" => usable /\ cli = "off"
    /\ file = Unreadable => cli = "opened" \/ \E t \in Threads : at[t] = "opened"
    /\ (phase = "running" /\ \A t \in Threads : at[t] \in {"idle", "locked"}) => file = memory

LockedThere ==
  /\ locked \subseteq contexts \ {Default}
  /\ Default \notin contexts => locked = {}
  /\ phase # "off" => Default \in contexts

\* The context that the settings will have when the looper has made its first change.
Coming ==
  IF /\ todo["server"] # <<>> /\ at["server"] \in {"idle", "locked"}
     /\ Head(todo["server"]).field = "context"
    THEN Head(todo["server"]).value ELSE memory.context

CurrentOK ==
  causes = {} =>
    /\ (phase = "off" /\ cli # "opened") => locked \subseteq {ReadFile.context}
    /\ cli = "opened" => locked \subseteq {copy.context}
    /\ cli = "read" => copy.context = ReadFile.context
    /\ phase \in {"first", "repair"} => locked \subseteq {memory.context}
    /\ (phase # "off" /\ (\A t \in Threads : at[t] # "opened")
          /\ ~(phase = "running" /\ at["server"] = "changed")) => ReadFile.context = memory.context
    /\ (phase = "running" /\ choosing # NoContext) => locked \subseteq others \cup {choosing}
    /\ (phase = "running" /\ choosing = NoContext) => locked \subseteq {Coming}

SettingsInv ==
  ValuesOK /\ PostedOK /\ ThreadsOK /\ SavedOK /\ LockedThere /\ CurrentOK

-----------------------------------------------------------------------------
(* What is read and posted has its type *)

LEMMA UnsetIsSettings == Unset \in AllSettings
  BY DEF Unset, AllSettings, Keys, Contexts

LEMMA ReadIsSettings ==
  ASSUME ValuesOK
  PROVE  /\ ReadFile \in AllSettings
         /\ file \in AllSettings => ReadFile = file
         /\ file \notin AllSettings => ReadFile = Unset
  BY UnsetIsSettings, SettingsAssumption DEF ValuesOK, ReadFile

\* A change of one field gives settings again.
LEMMA FieldIsSet ==
  ASSUME NEW s \in AllSettings, NEW u \in Posted
  PROVE  /\ [s EXCEPT ![u.field] = u.value] \in AllSettings
         /\ u.field = "context" => [s EXCEPT ![u.field] = u.value].context = u.value
         /\ u.field # "context" => [s EXCEPT ![u.field] = u.value].context = s.context
<1> DEFINE r == [s EXCEPT ![u.field] = u.value]
<1>1. CASE u \in [field : {"context"}, value : Contexts]
  BY <1>1 DEF AllSettings
<1>2. CASE u \in [field : {"dark"}, value : {"true", "false"}]
  BY <1>2 DEF AllSettings
<1>3. CASE u \in [field : {"version"}, value : Nat]
  BY <1>3 DEF AllSettings
<1>4. ASSUME NEW c \in Changes, NEW f \in DOMAIN c \cap FormFields, u = [field |-> f, value |-> c[f]]
      PROVE  r \in AllSettings /\ r.context = s.context /\ u.field # "context"
  <2>1. CASE f = "key"
    <3>1. c["key"] \in Keys
      BY <1>4, <2>1 DEF Keys
    <3> QED
      BY <1>4, <2>1, <3>1 DEF AllSettings
  <2>2. CASE f # "key"
    <3>1. r = s
      BY <1>4, <2>2 DEF AllSettings, FormFields
    <3> QED
      BY <1>4, <2>2, <3>1 DEF FormFields
  <2> QED
    BY <2>1, <2>2
<1> QED
  BY <1>1, <1>2, <1>3, <1>4 DEF Posted, Others

LEMMA OthersHaveNoContext ==
  ASSUME NEW u \in Others PROVE u.field # "context" /\ u \in Posted
  BY DEF Others, Posted, FormFields

LEMMA Concatenated ==
  ASSUME NEW S, NEW s \in Seq(S), NEW t \in Seq(S) PROVE s \o t \in Seq(S)
  OBVIOUS

\* The changes of a form are changes of its fields.
LEMMA UpdatesAreOthers ==
  ASSUME NEW stored, NEW c \in Changes PROVE Updates("core", stored, c) \in Seq(Others)
<1> DEFINE update(f) == IF f \in Made("core", stored, c) THEN <<[field |-> f, value |-> c[f]]>> ELSE <<>>
<1>1. ASSUME NEW f \in Made("core", stored, c) PROVE f \in DOMAIN c
  BY DEF Made, Different, Updated, Typed
<1>2. ASSUME NEW f \in FormFields PROVE update(f) \in Seq(Others)
  <2>1. CASE f \in Made("core", stored, c)
    <3>1. [field |-> f, value |-> c[f]] \in Others
      BY <1>1, <2>1 DEF Others
    <3> QED
      BY <2>1, <3>1
  <2> QED
    BY <2>1
<1>3. /\ update("key") \in Seq(Others) /\ update("fileTypes") \in Seq(Others)
      /\ update("libraryName") \in Seq(Others) /\ update("associate") \in Seq(Others)
  BY <1>2 DEF FormFields
<1>4. Updates("core", stored, c)
        = update("key") \o update("fileTypes") \o update("libraryName") \o update("associate")
  BY DEF Updates
<1> HIDE DEF update
<1>5. update("key") \o update("fileTypes") \in Seq(Others)
  BY <1>3, Concatenated
<1>6. update("key") \o update("fileTypes") \o update("libraryName") \in Seq(Others)
  BY <1>3, <1>5, Concatenated
<1>7. update("key") \o update("fileTypes") \o update("libraryName") \o update("associate") \in Seq(Others)
  BY <1>3, <1>6, Concatenated
<1> QED
  BY <1>4, <1>7

LEMMA TailIsSequence ==
  ASSUME NEW S, NEW s \in Seq(S), s # <<>> PROVE Tail(s) \in Seq(S) /\ Head(s) \in S
  OBVIOUS

LEMMA OthersArePosted ==
  ASSUME NEW s \in Seq(Others) PROVE s \in Seq(Posted) /\ (s # <<>> => Tail(s) \in Seq(Others) /\ Head(s) \in Others)
  BY DEF Posted

-----------------------------------------------------------------------------
(* The steps of a thread *)

LEMMA LockKeeps ==
  ASSUME SettingsInv, NEW t \in Threads, Lock(t) PROVE SettingsInv'
<1>1. /\ phase = "running" /\ todo[t] # <<>> /\ at[t] = "idle" /\ holder = Nobody /\ holder' = t
      /\ at' = [at EXCEPT ![t] = "locked"]
      /\ UNCHANGED <<file, contexts, locked, phase, usable, memory, todo, buffer, choosing, others,
                     cli, copy, causes>>
  BY DEF Lock, disk, choice, command
<1>2. ValuesOK'
  BY <1>1 DEF SettingsInv, ValuesOK
<1>3. PostedOK'
  BY <1>1 DEF SettingsInv, PostedOK
<1>4. \A u \in Threads : at[u] = "idle"
  BY <1>1, SettingsAssumption DEF SettingsInv, ThreadsOK
<1>5. /\ at'[t] = "locked" /\ \A u \in Threads \ {t} : at'[u] = "idle"
  BY <1>1, <1>4 DEF SettingsInv, ValuesOK
<1>6. ThreadsOK'
  BY <1>1, <1>5 DEF SettingsInv, ThreadsOK
<1>7. SavedOK'
  BY <1>1, <1>4, <1>5 DEF SettingsInv, SavedOK, Clean
<1>8. LockedThere'
  BY <1>1 DEF SettingsInv, LockedThere
<1>9. Coming' = Coming /\ ReadFile' = ReadFile
  BY <1>1, <1>4, <1>5 DEF Coming, ReadFile, Threads
<1>10. CurrentOK'
  BY <1>1, <1>4, <1>5, <1>9 DEF SettingsInv, CurrentOK, Threads
<1> QED
  BY <1>2, <1>3, <1>6, <1>7, <1>8, <1>10 DEF SettingsInv

LEMMA SetFieldKeeps ==
  ASSUME SettingsInv, NEW t \in Threads, SetField(t) PROVE SettingsInv'
<1>1. /\ at[t] = "locked" /\ at' = [at EXCEPT ![t] = "changed"]
      /\ memory' = [memory EXCEPT ![Head(todo[t]).field] = Head(todo[t]).value]
      /\ UNCHANGED <<file, contexts, locked, phase, usable, holder, todo, buffer, choosing, others,
                     cli, copy, causes>>
  BY DEF SetField, disk, choice, command
<1>2. phase = "running" /\ todo[t] # <<>> /\ holder = t
  BY <1>1 DEF SettingsInv, ThreadsOK, ValuesOK, Threads
<1>3. \A u \in Threads \ {t} : at[u] = "idle"
  BY <1>2 DEF SettingsInv, ThreadsOK
<1>4. at'[t] = "changed" /\ \A u \in Threads \ {t} : at'[u] = "idle"
  BY <1>1, <1>3 DEF SettingsInv, ValuesOK
<1>5. Head(todo[t]) \in Posted
  BY <1>2 DEF SettingsInv, ValuesOK
<1>6. /\ memory' \in AllSettings
      /\ Head(todo[t]).field = "context" => memory'.context = Head(todo[t]).value
      /\ Head(todo[t]).field # "context" => memory'.context = memory.context
  BY <1>1, <1>5, FieldIsSet DEF SettingsInv, ValuesOK
<1>7. ValuesOK'
  BY <1>1, <1>6 DEF SettingsInv, ValuesOK
<1>8. PostedOK'
  BY <1>1 DEF SettingsInv, PostedOK
<1>9. ThreadsOK'
  BY <1>1, <1>2, <1>4 DEF SettingsInv, ThreadsOK
<1>10. SavedOK'
  BY <1>1, <1>2, <1>3, <1>4 DEF SettingsInv, SavedOK, Clean
<1>11. LockedThere'
  BY <1>1 DEF SettingsInv, LockedThere
<1>12. ReadFile' = ReadFile
  BY <1>1 DEF ReadFile
<1>13. CASE t = "server"
  <2>1. Coming' = Coming
    BY <1>1, <1>2, <1>4, <1>6, <1>13 DEF Coming
  <2> QED
    BY <1>1, <1>2, <1>4, <1>7, <1>8, <1>9, <1>10, <1>11, <1>12, <1>13, <2>1 DEF SettingsInv, CurrentOK
<1>14. CASE t # "server"
  <2>1. Head(todo[t]) \in Others
    BY <1>2, <1>14, OthersArePosted DEF SettingsInv, PostedOK
  <2>2. memory'.context = memory.context
    BY <1>6, <2>1, OthersHaveNoContext
  <2>3. at'["server"] = "idle" /\ at["server"] = "idle"
    BY <1>3, <1>4, <1>14 DEF Threads
  <2>4. Coming' = Coming
    BY <1>1, <2>2, <2>3 DEF Coming
  <2>5. CurrentOK'
    BY <1>1, <1>2, <1>3, <1>4, <1>12, <2>2, <2>3, <2>4 DEF SettingsInv, CurrentOK
  <2> QED
    BY <1>7, <1>8, <1>9, <1>10, <1>11, <2>5 DEF SettingsInv
<1> QED
  BY <1>13, <1>14

LEMMA OpenKeeps ==
  ASSUME SettingsInv, NEW t \in Threads, Open(t) PROVE SettingsInv'
<1>1. /\ at[t] = "changed" /\ at' = [at EXCEPT ![t] = "opened"]
      /\ file' = IF usable THEN Unreadable ELSE file
      /\ buffer' = [buffer EXCEPT ![t] = memory]
      /\ UNCHANGED <<contexts, locked, phase, usable, memory, holder, todo, choosing, others,
                     cli, copy, causes>>
  BY DEF Open, state, choice, command
<1>2. at'[t] = "opened" /\ \A u \in Threads \ {t} : at'[u] = at[u]
  BY <1>1 DEF SettingsInv, ValuesOK
<1>3. buffer'[t] = memory /\ \A u \in Threads \ {t} : buffer'[u] = buffer[u]
  BY <1>1 DEF SettingsInv, ValuesOK
<1>4. ValuesOK'
  BY <1>1 DEF SettingsInv, ValuesOK
<1>5. PostedOK'
  BY <1>1 DEF SettingsInv, PostedOK
<1>6. ThreadsOK'
  BY <1>1, <1>2, <1>3 DEF SettingsInv, ThreadsOK, Threads
<1>7. phase # "off"
  BY <1>1 DEF SettingsInv, ThreadsOK, ValuesOK, Threads
<1>8. SavedOK'
  BY <1>1, <1>2, <1>7 DEF SettingsInv, SavedOK, Clean
<1>9. LockedThere'
  BY <1>1 DEF SettingsInv, LockedThere
<1>10. Coming' = Coming
  BY <1>1, <1>2 DEF Coming, Threads
<1>11. CurrentOK'
  <2> SUFFICES ASSUME causes = {} PROVE CurrentOK'
    BY <1>1 DEF CurrentOK
  <2>1. usable /\ cli = "off"
    BY <1>7 DEF SettingsInv, SavedOK, Clean
  <2> QED
    BY <1>1, <1>2, <1>7, <1>10, <2>1 DEF SettingsInv, CurrentOK
<1> QED
  BY <1>4, <1>5, <1>6, <1>8, <1>9, <1>11 DEF SettingsInv

\* The end of a save, that of the start or that of a thread.
LEMMA SavedKeeps ==
  ASSUME SettingsInv, NEW t \in Threads, NEW ok \in BOOLEAN, at[t] \in {"changed", "opened"},
         Saved(t, ok), file' = file \/ file' = memory,
         "write failed" \in causes' \/ (ok /\ file' = memory /\ causes' = causes)
  PROVE  SettingsInv'
<1>1. /\ at' = [at EXCEPT ![t] = "idle"]
      /\ buffer' = [buffer EXCEPT ![t] = Unset]
      /\ UNCHANGED <<contexts, locked, usable, memory, choosing, others, cli, copy>>
  BY DEF Saved, choice, command
<1>2. at'[t] = "idle" /\ \A u \in Threads \ {t} : at'[u] = at[u]
  BY <1>1 DEF SettingsInv, ValuesOK
<1>3. buffer'[t] = Unset /\ \A u \in Threads \ {t} : buffer'[u] = buffer[u]
  BY <1>1 DEF SettingsInv, ValuesOK
<1>4. \A u \in Threads \ {t} : at[u] = "idle"
  BY DEF SettingsInv, ThreadsOK, ValuesOK, Threads
<1>5. /\ phase = "running" =>
           /\ phase' = "running" /\ holder' = Nobody
           /\ todo' = [todo EXCEPT ![t] = Tail(@)] /\ todo[t] # <<>>
      /\ phase # "running" =>
           /\ t = "server" /\ phase \in {"first", "repair"} /\ phase' \in {"off", "running"}
           /\ UNCHANGED <<holder, todo>> /\ (ok => phase' = "running")
  BY DEF Saved, SettingsInv, ThreadsOK, ValuesOK, Threads
<1>6. /\ todo' \in [Threads -> Seq(Posted)]
      /\ \A u \in Threads \ {t} : todo'[u] = todo[u]
      /\ phase = "running" => todo'[t] = Tail(todo[t])
      /\ phase # "running" => todo' = todo
  <2>1. CASE phase = "running"
    <3>1. Tail(todo[t]) \in Seq(Posted)
      BY <1>5, <2>1, TailIsSequence DEF SettingsInv, ValuesOK
    <3>2. todo' = [todo EXCEPT ![t] = Tail(todo[t])] /\ todo \in [Threads -> Seq(Posted)]
      BY <1>5, <2>1 DEF SettingsInv, ValuesOK
    <3> QED
      BY <2>1, <3>1, <3>2
  <2>2. CASE phase # "running"
    BY <1>5, <2>2 DEF SettingsInv, ValuesOK
  <2> QED
    BY <2>1, <2>2
<1>7. ValuesOK'
  BY <1>1, <1>5, <1>6, UnsetIsSettings DEF SettingsInv, ValuesOK
<1>8. \/ todo'["server"] = todo["server"]
      \/ todo["server"] # <<>> /\ todo'["server"] \in Seq(Others)
  BY <1>5, <1>6 DEF SettingsInv, PostedOK, Threads
<1>9. PostedOK'
  <2>1. ASSUME NEW u \in Threads \ {"server"} PROVE todo'[u] \in Seq(Others)
    BY <1>5, <1>6, OthersArePosted DEF SettingsInv, PostedOK
  <2>2. todo'["server"] # <<>> => Tail(todo'["server"]) \in Seq(Others)
    <3>1. CASE todo'["server"] = todo["server"]
      BY <3>1 DEF SettingsInv, PostedOK
    <3>2. ASSUME NEW s \in Seq(Others), s # <<>> PROVE Tail(s) \in Seq(Others)
      BY <3>2, TailIsSequence
    <3> QED
      BY <1>8, <3>1, <3>2
  <2>3. choosing' # NoContext => todo'["server"] = <<>>
    BY <1>1, <1>8 DEF SettingsInv, PostedOK
  <2> QED
    BY <2>1, <2>2, <2>3 DEF PostedOK
<1>10. ThreadsOK'
  BY <1>1, <1>2, <1>3, <1>4, <1>5, <1>6, SettingsAssumption DEF SettingsInv, ThreadsOK, Threads
<1>11. \A u \in Threads : at'[u] = "idle"
  BY <1>2, <1>4
<1>12. SavedOK'
  BY <1>1, <1>5, <1>11, SettingsAssumption DEF SettingsInv, SavedOK, Clean, ValuesOK
<1>13. LockedThere'
  BY <1>1, <1>5 DEF SettingsInv, LockedThere
<1>14. CurrentOK'
  <2> SUFFICES ASSUME causes' = {} PROVE CurrentOK'
    BY DEF CurrentOK
  <2>1. causes = {} /\ ok /\ file' = memory /\ phase' = "running" /\ cli' = "off"
    BY <1>1, <1>5 DEF SettingsInv, SavedOK, Clean, ValuesOK
  <2>2. ReadFile' = memory
    BY <1>1, <1>7, <2>1, SettingsAssumption DEF ReadFile, SettingsInv, ValuesOK
  <2>3. Coming' = IF t = "server" THEN memory.context ELSE Coming
    <3>1. CASE t = "server" /\ phase = "running"
      <4>1. todo'["server"] # <<>> => Head(todo'["server"]).field # "context"
        BY <1>5, <1>6, <3>1, OthersArePosted, OthersHaveNoContext DEF SettingsInv, PostedOK
      <4> QED
        BY <1>1, <3>1, <4>1 DEF Coming
    <3>2. CASE phase # "running"
      <4>1. todo'["server"] = <<>> /\ t = "server"
        BY <1>5, <3>2 DEF SettingsInv, ThreadsOK, Threads
      <4> QED
        BY <1>1, <4>1 DEF Coming
    <3>3. CASE t # "server"
      <4>1. at["server"] = "idle" /\ at'["server"] = "idle" /\ todo'["server"] = todo["server"]
        BY <1>4, <1>6, <1>11, <3>3 DEF Threads
      <4> QED
        BY <1>1, <3>3, <4>1 DEF Coming
    <3> QED
      BY <3>1, <3>2, <3>3
  <2>4. t = "server" /\ phase = "running" => Coming = memory.context
    BY DEF Coming
  <2>5. /\ choosing = NoContext => locked \subseteq {IF t = "server" THEN memory.context ELSE Coming}
        /\ choosing # NoContext => locked \subseteq others \cup {choosing}
    BY <1>5, <2>1, <2>4 DEF SettingsInv, CurrentOK, ThreadsOK
  <2> QED
    BY <1>1, <1>11, <2>1, <2>2, <2>3, <2>5 DEF CurrentOK
<1> QED
  BY <1>7, <1>9, <1>10, <1>12, <1>13, <1>14 DEF SettingsInv

LEMMA WriteKeeps ==
  ASSUME SettingsInv, NEW t \in Threads, Write(t) PROVE SettingsInv'
<1>1. at[t] = "opened" /\ file' = buffer[t] /\ Saved(t, TRUE) /\ UNCHANGED causes
  BY DEF Write
<1>2. buffer[t] = memory
  BY <1>1 DEF SettingsInv, ThreadsOK
<1> QED
  BY <1>1, <1>2, SavedKeeps

LEMMA WriteFailsKeeps ==
  ASSUME SettingsInv, NEW t \in Threads, WriteFails(t) PROVE SettingsInv'
<1>1. PICK ok \in BOOLEAN : Saved(t, ok)
  BY DEF WriteFails
<1>2. at[t] \in {"changed", "opened"} /\ "write failed" \in causes' /\ file' = file
  BY DEF WriteFails
<1> QED
  BY <1>1, <1>2, SavedKeeps

-----------------------------------------------------------------------------
(* What is changed *)

\* A change is posted to a thread that has none.
LEMMA PostKeeps ==
  ASSUME SettingsInv, NEW t \in Threads, NEW posted \in Seq(Posted), Post(t, posted),
         phase = "running", todo[t] = <<>>, choosing' \in {choosing, NoContext},
         posted \in Seq(Others) \/ (t = "server" /\ Tail(posted) \in Seq(Others)),
         t = "server" => choosing' = NoContext,
         UNCHANGED locked
  PROVE  /\ ValuesOK' /\ PostedOK' /\ ThreadsOK' /\ SavedOK' /\ LockedThere'
         /\ todo'[t] = posted /\ at[t] = "idle"
         /\ t # "server" => todo'["server"] = todo["server"]
<1>1. /\ todo' = [todo EXCEPT ![t] = posted]
      /\ UNCHANGED <<file, contexts, phase, usable, memory, holder, at, buffer, cli, copy, causes>>
  BY DEF Post, state, command
<1>2. /\ todo' \in [Threads -> Seq(Posted)] /\ todo'[t] = posted
      /\ \A u \in Threads \ {t} : todo'[u] = todo[u]
  BY <1>1 DEF SettingsInv, ValuesOK
<1>3. at[t] = "idle"
  BY DEF SettingsInv, ThreadsOK
<1>4. ValuesOK'
  BY <1>1, <1>2 DEF SettingsInv, ValuesOK
<1>5. PostedOK'
  <2>1. ASSUME NEW u \in Threads \ {"server"} PROVE todo'[u] \in Seq(Others)
    BY <1>2 DEF SettingsInv, PostedOK
  <2>2. todo'["server"] # <<>> => Tail(todo'["server"]) \in Seq(Others)
    <3>1. CASE t = "server"
      BY <1>2, <3>1, TailIsSequence
    <3>2. CASE t # "server"
      BY <1>2, <3>2 DEF SettingsInv, PostedOK, Threads
    <3> QED
      BY <3>1, <3>2
  <2>3. choosing' # NoContext => todo'["server"] = <<>>
    BY <1>2 DEF SettingsInv, PostedOK, Threads
  <2> QED
    BY <2>1, <2>2, <2>3 DEF PostedOK
<1>6. ThreadsOK'
  BY <1>1, <1>2, <1>3 DEF SettingsInv, ThreadsOK
<1>7. SavedOK'
  BY <1>1 DEF SettingsInv, SavedOK, Clean
<1>8. LockedThere'
  BY <1>1 DEF SettingsInv, LockedThere
<1> QED
  BY <1>2, <1>3, <1>4, <1>5, <1>6, <1>7, <1>8 DEF Threads

LEMMA ApplyFormKeeps ==
  ASSUME SettingsInv, ApplyForm PROVE SettingsInv'
<1>1. PICK change \in Changes : Post("server", Updates("core", Stored(memory), change))
  BY DEF ApplyForm
<1> DEFINE posted == Updates("core", Stored(memory), change)
<1>2. /\ phase = "running" /\ todo["server"] = <<>> /\ choosing = NoContext
      /\ UNCHANGED <<locked, choosing, others>>
  BY DEF ApplyForm, Idle, choice
<1>3. posted \in Seq(Others)
  BY UpdatesAreOthers
<1> HIDE DEF posted
<1>4. Post("server", posted)
  BY <1>1 DEF posted
<1>5. posted \in Seq(Posted)
  BY <1>3, OthersArePosted
<1>6. /\ ValuesOK' /\ PostedOK' /\ ThreadsOK' /\ SavedOK' /\ LockedThere'
      /\ todo'["server"] = posted /\ at["server"] = "idle"
  BY <1>2, <1>3, <1>4, <1>5, PostKeeps DEF Threads
<1>7. /\ UNCHANGED <<file, contexts, phase, memory, at, cli, copy, causes>>
  BY <1>4 DEF Post, state, command
<1>8. posted # <<>> => Head(posted).field # "context"
  BY <1>3, OthersArePosted, OthersHaveNoContext
<1>9. Coming = memory.context /\ Coming' = memory.context
  BY <1>2, <1>6, <1>7, <1>8 DEF Coming
<1>10. ReadFile' = ReadFile
  BY <1>7 DEF ReadFile
<1>11. CurrentOK'
  BY <1>2, <1>7, <1>9, <1>10 DEF SettingsInv, CurrentOK
<1> QED
  BY <1>6, <1>11 DEF SettingsInv

\* The looper is not disturbed by what other threads post.
LEMMA PostOthersKeeps ==
  ASSUME SettingsInv, NEW t \in Threads \ {"server"}, NEW u \in Others, Post(t, <<u>>),
         phase = "running", todo[t] = <<>>, UNCHANGED <<locked, choosing, others>>
  PROVE  SettingsInv'
<1>1. <<u>> \in Seq(Others) /\ <<u>> \in Seq(Posted)
  BY OthersHaveNoContext
<1>2. /\ ValuesOK' /\ PostedOK' /\ ThreadsOK' /\ SavedOK' /\ LockedThere'
      /\ todo'["server"] = todo["server"]
  BY <1>1, PostKeeps
<1>3. /\ UNCHANGED <<file, contexts, phase, memory, at, cli, copy, causes>>
  BY DEF Post, state, command
<1>4. Coming' = Coming /\ ReadFile' = ReadFile
  BY <1>2, <1>3 DEF Coming, ReadFile
<1>5. CurrentOK'
  BY <1>3, <1>4 DEF SettingsInv, CurrentOK
<1> QED
  BY <1>2, <1>5 DEF SettingsInv

LEMMA SetDarkKeeps ==
  ASSUME SettingsInv, SetDark PROVE SettingsInv'
<1>1. PICK dark \in {"true", "false"} : Post("window", <<[field |-> "dark", value |-> dark]>>)
  BY DEF SetDark
<1>2. phase = "running" /\ todo["window"] = <<>> /\ UNCHANGED <<locked, choosing, others>>
  BY DEF SetDark, Idle, choice
<1>3. [field |-> "dark", value |-> dark] \in Others
  BY DEF Others
<1> QED
  BY <1>1, <1>2, <1>3, PostOthersKeeps DEF Threads

LEMMA RecordVersionKeeps ==
  ASSUME SettingsInv, RecordVersion PROVE SettingsInv'
<1> DEFINE u == [field |-> "version", value |-> memory.version + 1]
<1>1. Post("worker", <<u>>)
  BY DEF RecordVersion
<1>2. phase = "running" /\ todo["worker"] = <<>> /\ UNCHANGED <<locked, choosing, others>>
  BY DEF RecordVersion, Idle, choice
<1>3. memory.version \in Nat
  BY DEF SettingsInv, ValuesOK, AllSettings
<1>4. u \in Others
  BY <1>3 DEF Others
<1> HIDE DEF u
<1> QED
  BY <1>1, <1>2, <1>4, PostOthersKeeps DEF Threads

\* A step of the choice of a context changes only what is locked, and what is chosen.
LEMMA ChoosingKeeps ==
  ASSUME SettingsInv, phase = "running", todo["server"] = <<>>,
         UNCHANGED <<file, contexts, phase, usable, memory, holder, todo, at, buffer, cli, copy>>,
         causes' \in {causes, causes \cup {"write failed"}},
         choosing' \in Contexts \cup {NoContext}, locked' \subseteq contexts \ {Default}
  PROVE  /\ ValuesOK' /\ PostedOK' /\ ThreadsOK' /\ SavedOK' /\ LockedThere'
         /\ Coming = memory.context /\ Coming' = Coming /\ ReadFile' = ReadFile
<1>1. ValuesOK'
  BY DEF SettingsInv, ValuesOK
<1>2. PostedOK'
  BY DEF SettingsInv, PostedOK
<1>3. ThreadsOK'
  BY DEF SettingsInv, ThreadsOK
<1>4. SavedOK'
  BY DEF SettingsInv, SavedOK, Clean
<1>5. LockedThere'
  BY DEF SettingsInv, LockedThere
<1>6. Coming = memory.context /\ Coming' = Coming /\ ReadFile' = ReadFile
  BY DEF Coming, ReadFile
<1> QED
  BY <1>1, <1>2, <1>3, <1>4, <1>5, <1>6

LEMMA SetStickyChanges ==
  ASSUME NEW c, NEW on \in BOOLEAN, SetSticky(c, on)
  PROVE  /\ locked' = locked \/ locked' = IF on THEN locked \cup {c} ELSE locked \ {c}
         /\ causes' \in {causes, causes \cup {"write failed"}}
         /\ causes' = {} => causes = {} /\ locked' = IF on THEN locked \cup {c} ELSE locked \ {c}
  BY DEF SetSticky

LEMMA ChooseContextKeeps ==
  ASSUME SettingsInv, ChooseContext PROVE SettingsInv'
<1>1. /\ phase = "running" /\ todo["server"] = <<>> /\ choosing = NoContext
      /\ UNCHANGED <<file, contexts, phase, usable, memory, holder, todo, at, buffer, cli, copy>>
  BY DEF ChooseContext, Idle, state, work, command
<1>2. PICK c \in contexts :
        \/ /\ choosing' = c /\ others' = contexts \ {c}
           /\ UNCHANGED <<locked, causes>>
        \/ /\ c # Default /\ SetSticky(c, TRUE)
           /\ choosing' = c /\ others' = contexts \ {c}
        \/ SetSticky(c, FALSE) /\ UNCHANGED <<choosing, others>>
  BY DEF ChooseContext, choice
<1>3. /\ locked \subseteq contexts \ {Default} /\ c \in Contexts
  BY <1>2 DEF SettingsInv, LockedThere, ValuesOK
<1>4. /\ causes' \in {causes, causes \cup {"write failed"}} /\ locked' \subseteq contexts \ {Default}
      /\ choosing' \in Contexts \cup {NoContext}
  <2>1. ASSUME c # Default, SetSticky(c, TRUE)
        PROVE  /\ causes' \in {causes, causes \cup {"write failed"}}
               /\ locked' \subseteq contexts \ {Default}
    BY <1>3, <2>1 DEF SetSticky
  <2>2. ASSUME SetSticky(c, FALSE)
        PROVE  /\ causes' \in {causes, causes \cup {"write failed"}}
               /\ locked' \subseteq contexts \ {Default}
    BY <1>3, <2>2 DEF SetSticky
  <2> QED
    BY <1>1, <1>2, <1>3, <2>1, <2>2
<1>5. /\ ValuesOK' /\ PostedOK' /\ ThreadsOK' /\ SavedOK' /\ LockedThere'
      /\ Coming = memory.context /\ Coming' = Coming /\ ReadFile' = ReadFile
  BY <1>1, <1>4, ChoosingKeeps
<1>6. CurrentOK'
  <2> SUFFICES ASSUME causes' = {} PROVE CurrentOK'
    BY DEF CurrentOK
  <2>1. causes = {}
    BY <1>4
  <2>2. choosing' # NoContext => locked' \subseteq others' \cup {choosing'}
    BY <1>1, <1>2, <1>4
  <2>3. locked \subseteq {Coming}
    BY <1>1, <2>1 DEF SettingsInv, CurrentOK
  <2>4. choosing' = NoContext => locked' \subseteq {Coming'}
    BY <1>1, <1>2, <1>3, <1>5, <2>3, SetStickyChanges, SettingsAssumption
  <2>5. cli = "off"
    BY <1>1, <2>1 DEF SettingsInv, SavedOK, Clean
  <2> QED
    BY <1>1, <1>5, <2>1, <2>2, <2>4, <2>5 DEF SettingsInv, CurrentOK
<1> QED
  BY <1>5, <1>6 DEF SettingsInv

LEMMA LetGoKeeps ==
  ASSUME SettingsInv, LetGo PROVE SettingsInv'
<1>1. /\ phase = "running" /\ choosing # NoContext /\ UNCHANGED choosing
      /\ UNCHANGED <<file, contexts, phase, usable, memory, holder, todo, at, buffer, cli, copy>>
  BY DEF LetGo, state, work, command
<1>2. PICK c \in others : SetSticky(c, FALSE) /\ others' = others \ {c}
  BY DEF LetGo
<1>3. todo["server"] = <<>> /\ choosing \in Contexts
  BY <1>1 DEF SettingsInv, PostedOK, ValuesOK
<1>4. /\ causes' \in {causes, causes \cup {"write failed"}} /\ locked' \subseteq contexts \ {Default}
  BY <1>2, SetStickyChanges DEF SettingsInv, LockedThere
<1>5. /\ ValuesOK' /\ PostedOK' /\ ThreadsOK' /\ SavedOK' /\ LockedThere'
      /\ Coming = memory.context /\ Coming' = Coming /\ ReadFile' = ReadFile
  BY <1>1, <1>3, <1>4, ChoosingKeeps
<1>6. CurrentOK'
  <2> SUFFICES ASSUME causes' = {} PROVE CurrentOK'
    BY DEF CurrentOK
  <2>1. causes = {} /\ locked' = locked \ {c}
    BY <1>2, SetStickyChanges
  <2>2. locked' \subseteq others' \cup {choosing'}
    BY <1>1, <1>2, <2>1 DEF SettingsInv, CurrentOK
  <2>3. cli = "off"
    BY <1>1, <2>1 DEF SettingsInv, SavedOK, Clean
  <2> QED
    BY <1>1, <1>5, <2>1, <2>2, <2>3 DEF SettingsInv, CurrentOK
<1> QED
  BY <1>5, <1>6 DEF SettingsInv

LEMMA MakeCurrentKeeps ==
  ASSUME SettingsInv, MakeCurrent PROVE SettingsInv'
<1> DEFINE u == [field |-> "context", value |-> choosing]
<1>1. /\ phase = "running" /\ choosing # NoContext /\ others = {} /\ Post("server", <<u>>)
      /\ choosing' = NoContext /\ UNCHANGED <<locked, others>>
  BY DEF MakeCurrent
<1>2. todo["server"] = <<>> /\ choosing \in Contexts
  BY <1>1 DEF SettingsInv, PostedOK, ValuesOK
<1>3. u \in Posted /\ u.field = "context" /\ u.value = choosing
  BY <1>2 DEF Posted
<1> HIDE DEF u
<1>4. <<u>> \in Seq(Posted) /\ Tail(<<u>>) \in Seq(Others) /\ Head(<<u>>) = u /\ <<u>> # <<>>
  BY <1>3
<1>5. /\ ValuesOK' /\ PostedOK' /\ ThreadsOK' /\ SavedOK' /\ LockedThere'
      /\ todo'["server"] = <<u>> /\ at["server"] = "idle"
  BY <1>1, <1>2, <1>4, PostKeeps DEF Threads
<1>6. /\ UNCHANGED <<file, contexts, phase, memory, at, cli, copy, causes>>
  BY <1>1 DEF Post, state, command
<1>7. Coming' = choosing /\ ReadFile' = ReadFile
  BY <1>3, <1>4, <1>5, <1>6 DEF Coming, ReadFile
<1>8. CurrentOK'
  BY <1>1, <1>6, <1>7 DEF SettingsInv, CurrentOK
<1> QED
  BY <1>5, <1>8 DEF SettingsInv

-----------------------------------------------------------------------------
(* Programs start and end *)

LEMMA StartKeeps ==
  ASSUME SettingsInv, Start PROVE SettingsInv'
<1>1. /\ phase = "off" /\ holder = Nobody /\ choosing = NoContext
      /\ \A t \in Threads : todo[t] = <<>> /\ at[t] = "idle"
  BY DEF Start, SettingsInv, ThreadsOK, Threads
<1>2. /\ UNCHANGED <<file, locked, todo, buffer, choosing, others, cli, copy>>
      /\ causes \subseteq causes'
      /\ cli # "off" => "two programs" \in causes'
      /\ ~folder => "no folder" \in causes'
      /\ ReadFile.context = Legacy => "old name" \in causes'
  BY DEF Start, choice, command
<1>3. ReadFile' = ReadFile /\ ReadFile \in AllSettings
  BY <1>2, ReadIsSettings DEF ReadFile, SettingsInv
<1>4. CASE UNCHANGED <<contexts, state, at>>
  <2>1. UNCHANGED <<contexts, phase, usable, memory, holder, at>>
    BY <1>4 DEF state
  <2>2. ValuesOK' /\ PostedOK' /\ ThreadsOK' /\ LockedThere'
    BY <1>2, <2>1 DEF SettingsInv, ValuesOK, PostedOK, ThreadsOK, LockedThere
  <2>3. SavedOK'
    BY <1>2, <2>1 DEF SettingsInv, SavedOK, Clean
  <2>4. CurrentOK'
    BY <1>1, <1>2, <1>3, <2>1 DEF SettingsInv, CurrentOK
  <2> QED
    BY <2>2, <2>3, <2>4 DEF SettingsInv
\* The server has read settings, or made the first ones.
<1>5. ASSUME NEW folders \in SUBSET Contexts, contexts \subseteq folders, folders \subseteq contexts \cup {Default},
             NEW next \in {"first", "repair", "running"}, Loaded(ReadFile, folders, next),
             folder => usable', UNCHANGED holder,
             next = "running" => file = memory', file # Unreadable
      PROVE  SettingsInv'
  <2>1. PICK there \in MigrateDefaultContext(folders) : contexts' = there \cup {Default}
    BY <1>5 DEF Loaded
  <2>2. /\ memory' = EnsurePaths(ReadFile) /\ phase' = next
        /\ at' = IF next = "running" THEN at ELSE [at EXCEPT !["server"] = "changed"]
    BY <1>5 DEF Loaded
  <2>3. /\ memory' \in AllSettings
        /\ ReadFile.context # Legacy => memory'.context = ReadFile.context
    BY <1>3, <2>2 DEF EnsurePaths, AllSettings, Contexts
  <2>4. contexts' \subseteq Contexts /\ Default \in contexts'
    BY <1>5, <2>1 DEF MigrateDefaultContext, Contexts
  <2>5. locked \subseteq contexts' \ {Default}
    <3>1. CASE Default \in contexts
      BY <1>5, <2>1, <3>1 DEF MigrateDefaultContext, SettingsInv, LockedThere
    <3>2. CASE Default \notin contexts
      BY <3>2 DEF SettingsInv, LockedThere
    <3> QED
      BY <3>1, <3>2
  <2>6. /\ at' \in [Threads -> {"idle", "locked", "changed", "opened"}]
        /\ \A t \in Threads \ {"server"} : at'[t] = "idle"
        /\ at'["server"] = IF next = "running" THEN "idle" ELSE "changed"
    BY <1>1, <2>2 DEF SettingsInv, ValuesOK, Threads
  <2>7. ValuesOK'
    BY <1>2, <2>2, <2>3, <2>4, <2>6 DEF SettingsInv, ValuesOK
  <2>8. PostedOK'
    BY <1>2 DEF SettingsInv, PostedOK
  <2>9. ThreadsOK'
    BY <1>1, <1>2, <1>5, <2>2, <2>6, SettingsAssumption DEF ThreadsOK, Threads
  <2>10. SavedOK'
    BY <1>2, <1>5, <2>2, <2>6 DEF SavedOK, Clean
  <2>11. LockedThere'
    BY <1>2, <2>4, <2>5 DEF LockedThere
  <2>12. CurrentOK'
    <3> SUFFICES ASSUME causes' = {} PROVE CurrentOK'
      BY DEF CurrentOK
    <3>1. causes = {} /\ cli' = "off" /\ memory'.context = ReadFile.context
      BY <1>2, <2>3
    <3>2. locked \subseteq {ReadFile.context}
      BY <1>1, <1>2, <3>1 DEF SettingsInv, CurrentOK
    <3>3. Coming' = memory'.context
      BY <1>1, <1>2 DEF Coming, Threads
    <3> QED
      BY <1>1, <1>2, <1>3, <2>2, <2>6, <3>1, <3>2, <3>3 DEF CurrentOK, Threads
  <2> QED
    BY <2>7, <2>8, <2>9, <2>10, <2>11, <2>12 DEF SettingsInv
<1>6. CASE InitDefaultSettings
  <2>1. CASE UNCHANGED <<folder, contexts, state, at>>
    BY <1>4, <2>1
  <2>2. CASE /\ usable' = folder /\ Loaded(Unset, contexts \cup {Default}, "first")
             /\ UNCHANGED <<holder, flux>>
    <3>1. ReadFile = Unset /\ file # Unreadable
      BY <1>6, SettingsAssumption DEF InitDefaultSettings, ReadFile
    <3>2. contexts \cup {Default} \in SUBSET Contexts
      BY DEF SettingsInv, ValuesOK, Contexts
    <3> QED
      BY <1>5, <2>2, <3>1, <3>2
  <2> QED
    BY <1>6, <2>1, <2>2 DEF InitDefaultSettings, StartFails
<1>7. CASE ReadSettings
  <2>1. ReadFile = file /\ file # Unreadable /\ usable' = TRUE /\ UNCHANGED holder
    BY <1>7 DEF ReadSettings, ReadFile
  <2>2. contexts \in SUBSET Contexts
    BY DEF SettingsInv, ValuesOK
  <2>3. CASE memory' # file \/ contexts' # contexts
    <3>1. Loaded(ReadFile, contexts, "repair")
      BY <1>7, <2>1, <2>3 DEF ReadSettings, Loaded
    <3> QED
      BY <1>5, <2>1, <2>2, <3>1
  <2>4. CASE ~(memory' # file \/ contexts' # contexts)
    <3>1. Loaded(ReadFile, contexts, "running")
      BY <1>7, <2>1, <2>4 DEF ReadSettings, Loaded
    <3> QED
      BY <1>5, <2>1, <2>2, <2>4, <3>1
  <2> QED
    BY <2>3, <2>4
<1> QED
  BY <1>4, <1>6, <1>7 DEF Start, CannotRead, StartFails

LEMMA EndKeeps ==
  ASSUME SettingsInv, End PROVE SettingsInv'
<1>1. /\ phase # "off" /\ phase' = "off" /\ holder' = Nobody /\ memory' = Unset
      /\ todo' = [t \in Threads |-> <<>>] /\ at' = [t \in Threads |-> "idle"]
      /\ buffer' = [t \in Threads |-> Unset] /\ choosing' = NoContext
      /\ UNCHANGED <<file, contexts, locked, cli, copy>>
  BY DEF End, disk, command
<1>2. /\ causes \subseteq causes'
      /\ (\E t \in Threads : at[t] = "opened") => "died while saving" \in causes'
      /\ (choosing # NoContext \/ todo["server"] # <<>>) => "died while choosing" \in causes'
  BY DEF End
<1>3. ValuesOK'
  BY <1>1, UnsetIsSettings DEF SettingsInv, ValuesOK
<1>4. PostedOK'
  BY <1>1 DEF PostedOK, Threads
<1>5. ThreadsOK'
  BY <1>1 DEF ThreadsOK, Threads
<1>6. SavedOK'
  BY <1>1, <1>2 DEF SettingsInv, SavedOK, Clean
<1>7. LockedThere'
  BY <1>1 DEF SettingsInv, LockedThere
<1>8. CurrentOK'
  <2> SUFFICES ASSUME causes' = {} PROVE CurrentOK'
    BY DEF CurrentOK
  <2>1. /\ causes = {} /\ choosing = NoContext /\ todo["server"] = <<>>
        /\ \A t \in Threads : at[t] # "opened"
    BY <1>2
  <2>2. cli = "off"
    BY <1>1, <2>1 DEF SettingsInv, SavedOK, Clean
  <2>3. Coming = memory.context
    BY <2>1 DEF Coming
  <2>4. phase = "running" => at["server"] = "idle"
    BY <2>1 DEF SettingsInv, ThreadsOK, Threads
  <2>5. locked \subseteq {memory.context} /\ ReadFile.context = memory.context
    BY <1>1, <2>1, <2>3, <2>4 DEF SettingsInv, CurrentOK, ValuesOK
  <2>6. ReadFile' = ReadFile
    BY <1>1 DEF ReadFile
  <2> QED
    BY <1>1, <2>2, <2>5, <2>6 DEF CurrentOK
<1> QED
  BY <1>3, <1>4, <1>5, <1>6, <1>7, <1>8 DEF SettingsInv

\* As long as nothing cost settings, the command line runs only while no server does; the server
\* is disturbed only by what is in the file.
LEMMA CommandKeeps ==
  ASSUME SettingsInv, UNCHANGED <<contexts, locked, phase, usable, memory, holder, todo, at, buffer,
                                  choosing, others>>,
         causes \subseteq causes', copy' \in AllSettings, file' \in AllSettings \cup {NoFile, Unreadable},
         Clean' => phase = "off" /\ (file' = Unreadable => cli' = "opened"),
         causes' = {} => CurrentOK'
  PROVE  SettingsInv'
<1>1. ValuesOK'
  BY DEF SettingsInv, ValuesOK
<1>2. PostedOK' /\ ThreadsOK' /\ LockedThere'
  BY DEF SettingsInv, PostedOK, ThreadsOK, LockedThere
<1>3. SavedOK'
  BY DEF SavedOK
<1>4. CurrentOK'
  BY DEF CurrentOK
<1> QED
  BY <1>1, <1>2, <1>3, <1>4 DEF SettingsInv

LEMMA CliStartKeeps ==
  ASSUME SettingsInv, CliStart PROVE SettingsInv'
<1>1. /\ phase = "off" /\ cli = "off" /\ cli' = "ready" /\ copy' = ReadFile
      /\ UNCHANGED <<file, contexts, locked, phase, usable, memory, holder, todo, at, buffer,
                     choosing, others, causes>>
  BY DEF CliStart, disk, state, work, choice
<1>2. copy' \in AllSettings /\ ReadFile' = ReadFile
  BY <1>1, ReadIsSettings DEF SettingsInv, ReadFile
<1>3. \A t \in Threads : at[t] # "opened"
  BY <1>1 DEF SettingsInv, ThreadsOK, Threads
<1>4. Clean' => file' # Unreadable
  BY <1>1, <1>3 DEF SettingsInv, SavedOK, Clean
<1>5. CurrentOK'
  BY <1>1, <1>2 DEF SettingsInv, CurrentOK
<1> QED
  BY <1>1, <1>2, <1>4, <1>5, CommandKeeps DEF SettingsInv, ValuesOK

LEMMA CliReadKeeps ==
  ASSUME SettingsInv, CliRead PROVE SettingsInv'
<1>1. /\ cli = "ready" /\ cli' = "read" /\ copy' = [ReadFile EXCEPT !.version = copy.version + 1]
      /\ UNCHANGED <<file, contexts, locked, phase, usable, memory, holder, todo, at, buffer,
                     choosing, others, causes>>
  BY DEF CliRead, disk, state, work, choice
<1>2. copy' \in AllSettings /\ copy'.context = ReadFile.context /\ ReadFile' = ReadFile
  <2>1. ReadFile \in AllSettings /\ copy.version + 1 \in Nat /\ ReadFile' = ReadFile
    BY <1>1, ReadIsSettings DEF SettingsInv, ValuesOK, AllSettings, ReadFile
  <2> QED
    BY <1>1, <2>1 DEF AllSettings
<1>3. Clean' => /\ phase = "off" /\ file' # Unreadable
  BY <1>1 DEF SettingsInv, SavedOK, ThreadsOK, Threads, Clean
<1>4. CurrentOK'
  BY <1>1, <1>2, <1>3 DEF SettingsInv, CurrentOK, Clean
<1> QED
  BY <1>1, <1>2, <1>3, <1>4, CommandKeeps DEF SettingsInv, ValuesOK

LEMMA CliOpenKeeps ==
  ASSUME SettingsInv, CliOpen PROVE SettingsInv'
<1>1. /\ cli = "read" /\ cli' = "opened" /\ file' = Unreadable
      /\ causes' = causes \cup (IF phase = "off" THEN {} ELSE {"two programs"})
      /\ UNCHANGED <<copy, contexts, locked, phase, usable, memory, holder, todo, at, buffer,
                     choosing, others>>
  BY DEF CliOpen, state, work, choice
<1>2. Clean' => phase = "off"
  BY <1>1 DEF Clean
<1>3. CurrentOK'
  BY <1>1, <1>2 DEF SettingsInv, CurrentOK, Clean
<1> QED
  BY <1>1, <1>2, <1>3, CommandKeeps DEF SettingsInv, ValuesOK

LEMMA CliWriteKeeps ==
  ASSUME SettingsInv, CliWrite PROVE SettingsInv'
<1>1. /\ cli = "opened" /\ cli' = "off" /\ file' = copy /\ copy' = Unset
      /\ causes' = causes \cup (IF phase = "off" THEN {} ELSE {"two programs"})
      /\ UNCHANGED <<contexts, locked, phase, usable, memory, holder, todo, at, buffer,
                     choosing, others>>
  BY DEF CliWrite, state, work, choice
<1>2. file' \in AllSettings /\ file' # Unreadable /\ ReadFile' = copy
  BY <1>1, SettingsAssumption DEF SettingsInv, ValuesOK, ReadFile
<1>3. Clean' => phase = "off"
  BY <1>1 DEF Clean
<1>4. CurrentOK'
  BY <1>1, <1>2, <1>3 DEF SettingsInv, CurrentOK, Clean
<1> QED
  BY <1>1, <1>2, <1>3, <1>4, CommandKeeps, UnsetIsSettings

LEMMA CliEndsKeeps ==
  ASSUME SettingsInv, CliEnds PROVE SettingsInv'
<1>1. /\ cli # "off" /\ cli' = "off" /\ copy' = Unset
      /\ causes' = causes \cup (IF cli = "opened" THEN {"died while saving"} ELSE {})
      /\ UNCHANGED <<file, contexts, locked, phase, usable, memory, holder, todo, at, buffer,
                     choosing, others>>
  BY DEF CliEnds, disk, state, work, choice
<1>2. Clean' => phase = "off" /\ cli # "opened" /\ file' # Unreadable
  BY <1>1 DEF SettingsInv, SavedOK, ThreadsOK, Threads, Clean
<1>3. ReadFile' = ReadFile
  BY <1>1 DEF ReadFile
<1>4. CurrentOK'
  BY <1>1, <1>2, <1>3 DEF SettingsInv, CurrentOK, Clean
<1> QED
  BY <1>1, <1>2, <1>4, CommandKeeps, UnsetIsSettings DEF SettingsInv, ValuesOK

-----------------------------------------------------------------------------
(* The theorems about the settings *)

LEMMA InitSettingsInv == ASSUME Init PROVE SettingsInv
<1>1. /\ phase = "off" /\ holder = Nobody /\ memory = Unset /\ copy = Unset
      /\ todo = [t \in Threads |-> <<>>] /\ at = [t \in Threads |-> "idle"]
      /\ buffer = [t \in Threads |-> Unset] /\ choosing = NoContext /\ cli = "off"
  BY DEF Init
<1>2. /\ file \in AllSettings \cup {NoFile}
      /\ contexts \subseteq Contexts /\ locked \subseteq contexts \ {Default}
      /\ Default \notin contexts => locked = {}
      /\ locked \subseteq {ReadFile.context}
  <2>1. CASE file = NoFile /\ contexts = {} /\ locked = {}
    BY <2>1
  <2>2. CASE /\ file = [Unset EXCEPT !.context = Legacy]
             /\ contexts \in {{Legacy}, {Legacy, Default}} /\ locked = {}
    <3>1. file \in AllSettings
      BY <2>2, UnsetIsSettings DEF AllSettings, Contexts
    <3> QED
      BY <2>2, <3>1 DEF Contexts
  <2>3. CASE /\ \E c \in {Default} \cup Named : file = [Unset EXCEPT !.paths = "new", !.context = c]
             /\ contexts = {Default} \cup Named
             /\ locked \in SUBSET ({file.context} \ {Default})
    <3>1. PICK c \in {Default} \cup Named : file = [Unset EXCEPT !.paths = "new", !.context = c]
      BY <2>3
    <3>2. file \in AllSettings /\ file.context = c
      BY <3>1, UnsetIsSettings DEF AllSettings, Contexts, Unset
    <3>3. ReadFile = file
      BY <3>2, SettingsAssumption DEF ReadFile
    <3> QED
      BY <2>3, <3>2, <3>3 DEF Contexts
  <2> QED
    BY <2>1, <2>2, <2>3 DEF Init
<1>3. ValuesOK
  BY <1>1, <1>2, UnsetIsSettings DEF ValuesOK
<1>4. PostedOK /\ ThreadsOK
  BY <1>1 DEF PostedOK, ThreadsOK, Threads
<1>5. SavedOK /\ LockedThere /\ CurrentOK
  BY <1>1, <1>2, SettingsAssumption DEF SavedOK, LockedThere, CurrentOK
<1> QED
  BY <1>3, <1>4, <1>5 DEF SettingsInv

LEMMA NextSettingsInv ==
  ASSUME SettingsInv, [Next]_vars PROVE SettingsInv'
<1>1. CASE Start
  BY <1>1, StartKeeps
<1>2. ASSUME NEW t \in Threads, ThreadStep(t) PROVE SettingsInv'
  BY <1>2, LockKeeps, SetFieldKeeps, OpenKeeps, WriteKeeps, WriteFailsKeeps DEF ThreadStep
<1>3. CASE ApplyForm \/ SetDark \/ RecordVersion
  BY <1>3, ApplyFormKeeps, SetDarkKeeps, RecordVersionKeeps
<1>4. CASE ChooseContext \/ LetGo \/ MakeCurrent
  BY <1>4, ChooseContextKeeps, LetGoKeeps, MakeCurrentKeeps
<1>5. CASE End
  BY <1>5, EndKeeps
<1>6. CASE CliStart \/ CliRead \/ CliOpen \/ CliWrite \/ CliEnds
  BY <1>6, CliStartKeeps, CliReadKeeps, CliOpenKeeps, CliWriteKeeps, CliEndsKeeps
<1>7. CASE UNCHANGED vars
  BY <1>7 DEF vars, disk, state, work, choice, command, SettingsInv, ValuesOK, PostedOK, ThreadsOK,
              SavedOK, Clean, LockedThere, CurrentOK, Coming, ReadFile
<1> QED
  BY <1>1, <1>2, <1>3, <1>4, <1>5, <1>6, <1>7 DEF Next

\* Whatever the threads, users, programs and failures do, the invariant holds.
THEOREM SettingsInvariant == Spec => []SettingsInv
<1>1. Init => SettingsInv
  BY InitSettingsInv
<1>2. SettingsInv /\ [Next]_vars => SettingsInv'
  BY NextSettingsInv
<1> QED
  BY <1>1, <1>2, PTL DEF Spec

\* For any contexts, forms and migrations: between changes the file holds what the server knows, and
\* it can be read, with three threads that change settings, unless a write failed, a program died
\* while it saved, or two programs ran.
THEOREM SettingsAlwaysSurvive == Spec => []SettingsSurvive
<1>1. SettingsInv => SettingsSurvive
  BY DEF SettingsInv, SavedOK, SettingsSurvive, Clean, Quiet
<1> QED
  BY <1>1, SettingsInvariant, PTL

\* For any number of contexts: only the chosen one is locked once a choice was made.
THEOREM LockedIsAlwaysCurrent == Spec => []LockedIsCurrent
<1>1. ASSUME SettingsInv PROVE LockedIsCurrent
  <2> SUFFICES ASSUME causes = {}, phase = "running", choosing = NoContext, todo["server"] = <<>>
               PROVE  locked \subseteq {memory.context} \ {Default}
    BY DEF LockedIsCurrent
  <2>1. locked \subseteq {Coming} /\ Coming = memory.context /\ Default \notin locked
    BY <1>1 DEF SettingsInv, CurrentOK, LockedThere, Coming
  <2> QED
    BY <2>1
<1> QED
  BY <1>1, SettingsInvariant, PTL

-----------------------------------------------------------------------------
(* The settings application: its inductive invariant *)

\* What an instance has not read, as a set.
Elements(inbox) == {inbox[i] : i \in 1..Len(inbox)}

PluginMessage == [what : {"ask", "set", "close", "quit"}, number : Nat]

\* The instances that run were started by requests, and are of a plugin.
TeamsOK ==
  /\ teams = [t \in Running |-> teams[t]]
  /\ \A t \in Running : t \in 1..serial /\ teams[t] \in [plugin : Plugins, inbox : Seq(PluginMessage)]

\* Sessions are with instances of their plugin, that have been started.
SessionsOK ==
  /\ sessions \in [Plugins -> Nat]
  /\ \A p \in Plugins : sessions[p] <= serial /\ (Session(p) => teams[sessions[p]].plugin = p)

\* What the server is asked was asked by a request, and by the current one only of the chosen node;
AskedOK ==
  \A r \in asked : /\ r.serial \in 1..serial /\ r.scope \in Scopes
                   /\ r.serial = serial => r.scope = chosen

\* so was what instances are asked,
InboxesOK ==
  \A t \in Running : \A e \in Elements(teams[t].inbox) :
    e.what = "ask" => e.number \in 1..serial /\ (e.number = serial => teams[t].plugin = chosen)

\* and what the answers in the queue are to.
ReadyOK(m) == m.serial \in 1..serial /\ m.of \in Scopes /\ m.ok \in BOOLEAN
ReplyOK(m) ==
  /\ m.serial \in 1..serial /\ m.of \in Plugins /\ m.team \in 1..serial /\ m.ok \in BOOLEAN
  /\ m.team \in Running => teams[m.team].plugin = m.of

MailOK ==
  \A m \in mail :
    /\ m.what = "ready" => ReadyOK(m)
    /\ m.what = "reply" => ReplyOK(m)
    /\ m.what = "changed" => m.number \in Nat
    /\ m.what \in {"ready", "reply"} /\ m.serial = serial => m.of = chosen

\* The instance that the current request was put to.
AskedIn(u) == u \in Running /\ \E e \in Elements(teams[u].inbox) : e.what = "ask" /\ e.number = serial
AnsweredBy(u) == \E m \in mail : m.what = "reply" /\ m.serial = serial /\ m.team = u
AskedNow(u) == AskedIn(u) \/ AnsweredBy(u)

\* There is one; it has the session if its plugin has one;
OneIsAsked ==
  /\ \A u, v : AskedNow(u) /\ AskedNow(v) => u = v
  /\ \A u : AskedNow(u) /\ chosen \in Plugins /\ Session(chosen) => sessions[chosen] = u

\* and if an instance was started that nobody let go, then it is the one, and its answer is
\* waited for.
StartedOK ==
  started \in Running \ (ending \cup left) =>
    /\ waiting /\ started = serial /\ chosen \in Plugins
    /\ \A u : AskedNow(u) => u = started

WindowOK ==
  /\ chosen \in Scopes \cup Plugins /\ serial \in Nat /\ started \in Nat /\ started <= serial
  /\ waiting \in BOOLEAN /\ visible \in BOOLEAN /\ late \in BOOLEAN /\ open \in BOOLEAN
  /\ changes \in Nat

WindowInv ==
  /\ WindowOK /\ TeamsOK /\ SessionsOK /\ AskedOK /\ InboxesOK /\ MailOK /\ OneIsAsked /\ StartedOK
  /\ FormIsOfChosen /\ PluginsAreLetGo

-----------------------------------------------------------------------------
(* Queues *)

LEMMA ElementsOfAppend ==
  ASSUME NEW inbox \in Seq(PluginMessage), NEW e \in PluginMessage
  PROVE  /\ Append(inbox, e) \in Seq(PluginMessage)
         /\ Elements(Append(inbox, e)) = Elements(inbox) \cup {e}
<1>1. /\ Append(inbox, e) \in Seq(PluginMessage) /\ Len(Append(inbox, e)) = Len(inbox) + 1
      /\ Len(inbox) \in Nat
      /\ \A i \in 1..Len(inbox) : Append(inbox, e)[i] = inbox[i]
      /\ Append(inbox, e)[Len(inbox) + 1] = e
  OBVIOUS
<1>2. Elements(Append(inbox, e)) \subseteq Elements(inbox) \cup {e}
  <2> SUFFICES ASSUME NEW i \in 1..Len(inbox) + 1 PROVE Append(inbox, e)[i] \in Elements(inbox) \cup {e}
    BY <1>1 DEF Elements
  <2>1. CASE i = Len(inbox) + 1
    BY <1>1, <2>1
  <2>2. CASE i # Len(inbox) + 1
    <3>1. i \in 1..Len(inbox)
      BY <1>1, <2>2
    <3> QED
      BY <1>1, <3>1 DEF Elements
  <2> QED
    BY <2>1, <2>2
<1>3. Elements(inbox) \subseteq Elements(Append(inbox, e))
  <2> SUFFICES ASSUME NEW i \in 1..Len(inbox) PROVE inbox[i] \in Elements(Append(inbox, e))
    BY DEF Elements
  <2>1. i \in 1..Len(Append(inbox, e)) /\ Append(inbox, e)[i] = inbox[i]
    BY <1>1
  <2> QED
    BY <2>1 DEF Elements
<1>4. e \in Elements(Append(inbox, e))
  <2>1. Len(inbox) + 1 \in 1..Len(Append(inbox, e))
    BY <1>1
  <2> QED
    BY <1>1, <2>1 DEF Elements
<1> QED
  BY <1>1, <1>2, <1>3, <1>4

LEMMA ElementsOfTail ==
  ASSUME NEW inbox \in Seq(PluginMessage), inbox # <<>>
  PROVE  /\ Tail(inbox) \in Seq(PluginMessage)
         /\ Elements(Tail(inbox)) \subseteq Elements(inbox)
         /\ Head(inbox) \in Elements(inbox) /\ Head(inbox) \in PluginMessage
<1>1. /\ Tail(inbox) \in Seq(PluginMessage) /\ Len(inbox) \in Nat /\ Len(inbox) > 0
      /\ Len(Tail(inbox)) = Len(inbox) - 1
      /\ \A i \in 1..Len(Tail(inbox)) : Tail(inbox)[i] = inbox[i + 1]
      /\ Head(inbox) = inbox[1]
  OBVIOUS
<1>2. \A i \in 1..Len(Tail(inbox)) : i + 1 \in 1..Len(inbox)
  BY <1>1
<1>3. Elements(Tail(inbox)) \subseteq Elements(inbox)
  BY <1>1, <1>2 DEF Elements
<1>4. 1 \in 1..Len(inbox)
  BY <1>1
<1> QED
  BY <1>1, <1>3, <1>4 DEF Elements

-----------------------------------------------------------------------------
(* Instances that are asked nothing new *)

\* Those that run did, with what they had to answer and perhaps less.
NothingNewAsked ==
  /\ teams' = [t \in Running' |-> teams'[t]]
  /\ \A t \in Running' :
       /\ t \in Running /\ teams'[t] \in [plugin : Plugins, inbox : Seq(PluginMessage)]
       /\ teams'[t].plugin = teams[t].plugin
       /\ \A e \in Elements(teams'[t].inbox) : e.what = "ask" => e \in Elements(teams[t].inbox)

LEMMA SentTo ==
  ASSUME TeamsOK, NEW t \in Running, NEW message \in PluginMessage, teams' = Sent(t, message)
  PROVE  /\ Running' = Running /\ teams' = [u \in Running' |-> teams'[u]]
         /\ \A u \in Running : /\ u # t => teams'[u] = teams[u]
                               /\ teams'[u].plugin = teams[u].plugin
                               /\ teams'[u] \in [plugin : Plugins, inbox : Seq(PluginMessage)]
         /\ Elements(teams'[t].inbox) = Elements(teams[t].inbox) \cup {message}
<1>1. Running' = Running /\ teams' = [u \in Running' |-> teams'[u]]
  BY DEF Sent, Running
<1>2. \A u \in Running : u # t => teams'[u] = teams[u]
  BY DEF Sent, Running
<1>3. \A u \in Running : teams[u] \in [plugin : Plugins, inbox : Seq(PluginMessage)]
  BY DEF TeamsOK
<1>4. teams'[t] = [teams[t] EXCEPT !.inbox = Append(teams[t].inbox, message)]
  BY DEF Sent, Running
<1>5. /\ Append(teams[t].inbox, message) \in Seq(PluginMessage)
      /\ Elements(Append(teams[t].inbox, message)) = Elements(teams[t].inbox) \cup {message}
  BY <1>3, ElementsOfAppend
<1>6. teams'[t].plugin = teams[t].plugin /\ teams'[t].inbox = Append(teams[t].inbox, message)
      /\ teams'[t] \in [plugin : Plugins, inbox : Seq(PluginMessage)]
  BY <1>3, <1>4, <1>5
<1> QED
  BY <1>1, <1>2, <1>3, <1>5, <1>6

LEMMA SentAsksNothing ==
  ASSUME TeamsOK, NEW t \in Running, NEW message \in PluginMessage, message.what # "ask",
         teams' = Sent(t, message)
  PROVE  NothingNewAsked /\ Running' = Running
  BY SentTo DEF NothingNewAsked

LEMMA ToldToEndAsksNothing ==
  ASSUME TeamsOK, NEW them, NEW message \in PluginMessage, message.what # "ask",
         ToldToEnd(them, message)
  PROVE  NothingNewAsked /\ Running' = Running /\ ending' = ending \cup (them \cap Running)
<1>1. Running' = Running /\ teams' = [u \in Running' |-> teams'[u]]
      /\ ending' = ending \cup (them \cap Running)
  BY DEF ToldToEnd, Running
<1>2. ASSUME NEW u \in Running
      PROVE  /\ teams'[u] \in [plugin : Plugins, inbox : Seq(PluginMessage)]
             /\ teams'[u].plugin = teams[u].plugin
             /\ \A e \in Elements(teams'[u].inbox) : e.what = "ask" => e \in Elements(teams[u].inbox)
  <2>1. teams[u] \in [plugin : Plugins, inbox : Seq(PluginMessage)]
    BY DEF TeamsOK
  <2>2. CASE u \notin them
    <3>1. teams'[u] = teams[u]
      BY <2>2 DEF ToldToEnd, Running
    <3> QED
      BY <2>1, <3>1
  <2>3. CASE u \in them
    <3>1. teams'[u] = [teams[u] EXCEPT !.inbox = Append(teams[u].inbox, message)]
      BY <2>3 DEF ToldToEnd, Running
    <3>2. /\ Append(teams[u].inbox, message) \in Seq(PluginMessage)
          /\ Elements(Append(teams[u].inbox, message)) = Elements(teams[u].inbox) \cup {message}
      BY <2>1, ElementsOfAppend
    <3>3. teams'[u].plugin = teams[u].plugin /\ teams'[u].inbox = Append(teams[u].inbox, message)
          /\ teams'[u] \in [plugin : Plugins, inbox : Seq(PluginMessage)]
      BY <2>1, <3>1, <3>2
    <3> QED
      BY <3>2, <3>3
  <2> QED
    BY <2>2, <2>3
<1> QED
  BY <1>1, <1>2 DEF NothingNewAsked

LEMMA ReadAsksNothing ==
  ASSUME TeamsOK, NEW t \in Running, teams[t].inbox # <<>>,
         teams' = [teams EXCEPT ![t].inbox = Tail(@)]
  PROVE  NothingNewAsked /\ Running' = Running
<1>1. Running' = Running /\ teams' = [u \in Running' |-> teams'[u]]
  BY DEF Running
<1>2. \A u \in Running : u # t => teams'[u] = teams[u]
  BY DEF Running
<1>3. teams[t] \in [plugin : Plugins, inbox : Seq(PluginMessage)]
  BY DEF TeamsOK
<1>4. teams'[t] = [teams[t] EXCEPT !.inbox = Tail(teams[t].inbox)]
  BY DEF Running
<1>5. /\ Tail(teams[t].inbox) \in Seq(PluginMessage)
      /\ Elements(Tail(teams[t].inbox)) \subseteq Elements(teams[t].inbox)
  BY <1>3, ElementsOfTail
<1>6. teams'[t].plugin = teams[t].plugin /\ teams'[t].inbox = Tail(teams[t].inbox)
      /\ teams'[t] \in [plugin : Plugins, inbox : Seq(PluginMessage)]
  BY <1>3, <1>4, <1>5
<1> QED
  BY <1>1, <1>2, <1>5, <1>6 DEF NothingNewAsked, TeamsOK

LEMMA UnchangedAsksNothing ==
  ASSUME TeamsOK, teams' = teams
  PROVE  NothingNewAsked /\ Running' = Running
  BY DEF TeamsOK, NothingNewAsked, Running

LEMMA EndAsksNothing ==
  ASSUME TeamsOK, NEW t \in Running, teams' = [u \in Running \ {t} |-> teams[u]]
  PROVE  NothingNewAsked /\ Running' = Running \ {t}
  BY DEF TeamsOK, NothingNewAsked, Running

\* What is known of instances stays so while the node that is chosen does.
LEMMA TeamsStay ==
  ASSUME TeamsOK, InboxesOK, NothingNewAsked, chosen' = chosen, serial' = serial
  PROVE  /\ TeamsOK' /\ InboxesOK' /\ \A u : AskedIn(u)' => AskedIn(u)
         /\ Running' \subseteq Running /\ \A t \in Running' : teams'[t].plugin = teams[t].plugin
  BY DEF TeamsOK, InboxesOK, NothingNewAsked, AskedIn

-----------------------------------------------------------------------------
(* Steps in which the node that is chosen stays *)

\* Messages that are left in the queue are as they were.
LEMMA MailStays ==
  ASSUME MailOK, chosen' = chosen, serial' = serial, Running' \subseteq Running,
         \A t \in Running' : teams'[t].plugin = teams[t].plugin,
         NEW m \in mail
  PROVE  /\ m.what = "ready" => ReadyOK(m)'
         /\ m.what = "reply" => ReplyOK(m)'
         /\ m.what = "changed" => m.number \in Nat
         /\ m.what \in {"ready", "reply"} /\ m.serial = serial' => m.of = chosen'
<1>1. ASSUME m.what = "ready" PROVE ReadyOK(m)'
  BY <1>1 DEF MailOK, ReadyOK
<1>2. ASSUME m.what = "reply" PROVE ReplyOK(m)'
  BY <1>2 DEF MailOK, ReplyOK
<1> QED
  BY <1>1, <1>2 DEF MailOK

\* Nobody else is asked.
LEMMA RequestStays ==
  ASSUME WindowInv, NothingNewAsked, chosen' = chosen, serial' = serial, sessions' = sessions,
         MailOK', \A u : AnsweredBy(u)' => AskedNow(u)
  PROVE  /\ TeamsOK' /\ SessionsOK' /\ InboxesOK' /\ OneIsAsked'
         /\ \A u : AskedNow(u)' => AskedNow(u)
<1>1. /\ TeamsOK' /\ InboxesOK' /\ \A u : AskedIn(u)' => AskedIn(u)
      /\ Running' \subseteq Running /\ \A t \in Running' : teams'[t].plugin = teams[t].plugin
  BY TeamsStay DEF WindowInv
<1>2. \A u : AskedNow(u)' => AskedNow(u)
  BY <1>1 DEF AskedNow
<1>3. SessionsOK'
  BY <1>1 DEF WindowInv, SessionsOK, Session
<1>4. OneIsAsked'
  BY <1>1, <1>2 DEF WindowInv, OneIsAsked, Session
<1> QED
  BY <1>1, <1>2, <1>3, <1>4

\* The one that was started is waited for as before, or there is none any more.
LEMMA StartedStays ==
  ASSUME WindowInv, TeamsOK', chosen' = chosen, serial' = serial,
         Running' \subseteq Running, ending \subseteq ending', \A u : AskedNow(u)' => AskedNow(u),
         \/ started' = 0
         \/ /\ started' = started /\ waiting' = waiting
            /\ started \notin ending' => (started \in left => started \in left')
  PROVE  StartedOK'
<1>1. CASE started' = 0
  <2>1. 0 \notin Running'
    BY DEF TeamsOK
  <2> QED
    BY <1>1, <2>1 DEF StartedOK
<1>2. CASE /\ started' = started /\ waiting' = waiting
           /\ started \notin ending' => (started \in left => started \in left')
  BY <1>2 DEF WindowInv, StartedOK
<1> QED
  BY <1>1, <1>2

\* So it is when the queue and the questions to the server become fewer.
LEMMA QuietStep ==
  ASSUME WindowInv, NothingNewAsked, chosen' = chosen, serial' = serial, sessions' = sessions,
         mail' \subseteq mail, asked' \subseteq asked
  PROVE  /\ TeamsOK' /\ SessionsOK' /\ AskedOK' /\ InboxesOK' /\ MailOK' /\ OneIsAsked'
         /\ \A u : AskedNow(u)' => AskedNow(u)
<1>1. Running' \subseteq Running /\ \A t \in Running' : teams'[t].plugin = teams[t].plugin
  BY DEF NothingNewAsked
<1>2. MailOK'
  <2> SUFFICES ASSUME NEW m \in mail'
               PROVE  /\ m.what = "ready" => ReadyOK(m)'
                      /\ m.what = "reply" => ReplyOK(m)'
                      /\ m.what = "changed" => m.number \in Nat
                      /\ m.what \in {"ready", "reply"} /\ m.serial = serial' => m.of = chosen'
    BY DEF MailOK
  <2> QED
    BY <1>1, MailStays DEF WindowInv
<1>3. \A u : AnsweredBy(u)' => AskedNow(u)
  BY DEF AnsweredBy, AskedNow
<1>4. AskedOK'
  BY DEF WindowInv, AskedOK
<1> QED
  BY <1>2, <1>3, <1>4, RequestStays

\* And when a message came that is no answer of a plugin.
LEMMA MessageStep ==
  ASSUME WindowInv, teams' = teams, chosen' = chosen, serial' = serial, sessions' = sessions,
         asked' \subseteq asked, NEW n, mail' = mail \cup {n}, n.what # "reply",
         n.what = "ready" => ReadyOK(n) /\ (n.serial = serial => n.of = chosen),
         n.what = "changed" => n.number \in Nat
  PROVE  /\ TeamsOK' /\ SessionsOK' /\ AskedOK' /\ InboxesOK' /\ MailOK' /\ OneIsAsked'
         /\ Running' = Running /\ \A u : AskedNow(u)' => AskedNow(u)
<1>0. NothingNewAsked /\ Running' = Running
  BY UnchangedAsksNothing DEF WindowInv
<1>1. Running' \subseteq Running /\ \A t \in Running' : teams'[t].plugin = teams[t].plugin
  BY <1>0
<1>2. MailOK'
  <2> SUFFICES ASSUME NEW m \in mail'
               PROVE  /\ m.what = "ready" => ReadyOK(m)'
                      /\ m.what = "reply" => ReplyOK(m)'
                      /\ m.what = "changed" => m.number \in Nat
                      /\ m.what \in {"ready", "reply"} /\ m.serial = serial' => m.of = chosen'
    BY DEF MailOK
  <2>1. CASE m \in mail
    BY <2>1, <1>1, MailStays DEF WindowInv
  <2>2. CASE m = n
    BY <2>2 DEF ReadyOK
  <2> QED
    BY <2>1, <2>2
<1>3. \A u : AnsweredBy(u)' => AskedNow(u)
  BY DEF AnsweredBy, AskedNow
<1>4. AskedOK'
  BY DEF WindowInv, AskedOK
<1> QED
  BY <1>0, <1>2, <1>3, <1>4, RequestStays

-----------------------------------------------------------------------------
(* Another node is chosen *)

\* Nobody was asked with the new serial, and who was started and is waited for was left.
LEMMA RenewedFacts ==
  ASSUME WindowInv, NEW node \in Scopes \cup Plugins, Renewed(node)
  PROVE  /\ open /\ chosen' = node /\ serial' = serial + 1 /\ serial' \in Nat
         /\ left \subseteq left' /\ (waiting /\ started # 0 => started \in left')
         /\ \A m \in mail : m.what \in {"ready", "reply"} => m.serial # serial'
         /\ \A t \in Running : \A e \in Elements(teams[t].inbox) : e.what = "ask" => e.number # serial'
         /\ serial' \notin Running /\ started # serial'
         /\ \A t \in Running \ (ending \cup left') : sessions[teams[t].plugin] = t
<1>1. open /\ chosen' = node /\ serial' = serial + 1 /\ serial \in Nat /\ serial' \in Nat
  BY DEF WindowInv, WindowOK, Renewed
<1>2. left \subseteq left' /\ (waiting /\ started # 0 => started \in left')
  BY DEF Renewed
<1>3. \A m \in mail : m.what \in {"ready", "reply"} => m.serial # serial'
  BY <1>1 DEF WindowInv, MailOK, ReadyOK, ReplyOK
<1>4. \A t \in Running : \A e \in Elements(teams[t].inbox) : e.what = "ask" => e.number # serial'
  BY <1>1 DEF WindowInv, InboxesOK
<1>5. serial' \notin Running /\ started # serial'
  BY <1>1 DEF WindowInv, WindowOK, TeamsOK
<1>6. ASSUME NEW t \in Running \ (ending \cup left') PROVE sessions[teams[t].plugin] = t
  <2>1. t # 0
    BY DEF WindowInv, TeamsOK
  <2> QED
    BY <1>2, <2>1 DEF WindowInv, PluginsAreLetGo
<1> QED
  BY <1>1, <1>2, <1>3, <1>4, <1>5, <1>6

\* The answers that are in the queue are late ones.
LEMMA RenewedMail ==
  ASSUME WindowInv, NEW node \in Scopes \cup Plugins, Renewed(node), mail' = mail,
         Running' \subseteq Running \cup {serial'},
         \A t \in Running : t \in Running' => teams'[t].plugin = teams[t].plugin
  PROVE  MailOK' /\ \A u : ~AnsweredBy(u)'
<1>1. /\ serial' = serial + 1 /\ serial' \in Nat /\ serial \in Nat
      /\ \A m \in mail : m.what \in {"ready", "reply"} => m.serial # serial'
  BY RenewedFacts DEF WindowInv, WindowOK
<1>2. ASSUME NEW m \in mail, m.what = "reply" PROVE ReplyOK(m)'
  <2>1. ReplyOK(m)
    BY <1>2 DEF WindowInv, MailOK
  <2>2. m.team # serial'
    BY <1>1, <2>1 DEF ReplyOK
  <2>3. m.team \in Running' => teams'[m.team].plugin = m.of
    BY <2>1, <2>2 DEF ReplyOK
  <2> QED
    BY <1>1, <2>1, <2>3 DEF ReplyOK
<1>3. ASSUME NEW m \in mail, m.what = "ready" PROVE ReadyOK(m)'
  <2>1. ReadyOK(m)
    BY <1>3 DEF WindowInv, MailOK
  <2> QED
    BY <1>1, <2>1 DEF ReadyOK
<1>4. \A m \in mail : m.what = "changed" => m.number \in Nat
  BY DEF WindowInv, MailOK
<1>5. MailOK'
  BY <1>1, <1>2, <1>3, <1>4 DEF MailOK
<1>6. \A u : ~AnsweredBy(u)'
  BY <1>1 DEF AnsweredBy
<1> QED
  BY <1>5, <1>6

\* The parts of the invariant after another node was chosen and nobody that runs was asked.
LEMMA SelectScopeKeeps ==
  ASSUME WindowInv, NEW s \in Scopes, SelectScope(s) PROVE WindowInv'
<1>1. /\ Renewed(s) /\ waiting' = TRUE /\ mail' = mail /\ teams' = teams /\ started' = started
      /\ sessions' = sessions /\ open' = open /\ ending' = ending /\ changes' = changes
      /\ form' = form /\ visible' = visible /\ late' = late
      /\ asked' \subseteq asked \cup {[serial |-> serial', scope |-> s]}
  BY DEF SelectScope, form_, programs
<1>2. /\ open /\ chosen' = s /\ serial' = serial + 1 /\ serial' \in Nat /\ serial \in Nat
      /\ left \subseteq left' /\ (waiting /\ started # 0 => started \in left')
      /\ \A t \in Running : \A e \in Elements(teams[t].inbox) : e.what = "ask" => e.number # serial'
      /\ \A t \in Running \ (ending \cup left') : sessions[teams[t].plugin] = t
  BY <1>1, RenewedFacts DEF WindowInv, WindowOK
<1>3. Running' = Running
  BY <1>1 DEF Running
<1>4. MailOK' /\ \A u : ~AnsweredBy(u)'
  BY <1>1, <1>3, RenewedMail
<1>5. WindowOK'
  BY <1>1, <1>2 DEF WindowInv, WindowOK
<1>6. TeamsOK'
  BY <1>1, <1>2, <1>3 DEF WindowInv, TeamsOK
<1>7. SessionsOK'
  BY <1>1, <1>2, <1>3 DEF WindowInv, SessionsOK, Session
<1>8. AskedOK'
  <2> SUFFICES ASSUME NEW r \in asked'
               PROVE  r.serial \in 1..serial' /\ r.scope \in Scopes /\ (r.serial = serial' => r.scope = s)
    BY <1>2 DEF AskedOK
  <2>1. CASE r \in asked
    BY <2>1, <1>2 DEF WindowInv, AskedOK
  <2>2. CASE r = [serial |-> serial', scope |-> s]
    BY <2>2, <1>2
  <2> QED
    BY <1>1, <2>1, <2>2
<1>9. InboxesOK'
  BY <1>1, <1>2, <1>3 DEF WindowInv, InboxesOK
<1>10. \A u : ~AskedNow(u)'
  BY <1>1, <1>2, <1>3, <1>4 DEF AskedNow, AskedIn
<1>11. OneIsAsked'
  BY <1>10 DEF OneIsAsked
<1>12. StartedOK'
  <2>1. 0 \notin Running
    BY DEF WindowInv, TeamsOK
  <2> QED
    BY <2>1, <1>1, <1>2, <1>3 DEF WindowInv, StartedOK
<1>13. FormIsOfChosen'
  BY <1>1 DEF FormIsOfChosen
<1>14. PluginsAreLetGo'
  BY <1>1, <1>2, <1>3 DEF PluginsAreLetGo
<1> QED
  BY <1>4, <1>5, <1>6, <1>7, <1>8, <1>9, <1>11, <1>12, <1>13, <1>14 DEF WindowInv

\* A plugin: its instance with a session is asked,
LEMMA SessionAskedKeeps ==
  ASSUME WindowInv, NEW p \in Plugins, Renewed(p), Session(p),
         visible' = FALSE, waiting' = TRUE, teams' = Sent(sessions[p], Ask(serial')),
         started' = started, sessions' = sessions, open' = open, mail' = mail, asked' = asked,
         ending' = ending, changes' = changes, late' = late
  PROVE  WindowInv'
<1> DEFINE i == sessions[p]
<1>2. /\ open /\ chosen' = p /\ serial' = serial + 1 /\ serial' \in Nat /\ serial \in Nat
      /\ left \subseteq left' /\ (waiting /\ started # 0 => started \in left')
      /\ \A t \in Running : \A e \in Elements(teams[t].inbox) : e.what = "ask" => e.number # serial'
      /\ \A t \in Running \ (ending \cup left') : sessions[teams[t].plugin] = t
  BY RenewedFacts DEF WindowInv, WindowOK
<1>3. i \in Running /\ TeamsOK /\ teams[i].plugin = p
  BY DEF WindowInv, SessionsOK, Session
<1>a. Ask(serial') \in PluginMessage /\ Ask(serial').number = serial'
  BY <1>2 DEF Ask, PluginMessage
<1>b. /\ Running' = Running /\ teams' = [u \in Running' |-> teams'[u]]
      /\ \A u \in Running : u # i => teams'[u] = teams[u]
      /\ Elements(teams'[i].inbox) = Elements(teams[i].inbox) \cup {Ask(serial')}
  BY <1>3, <1>a, SentTo
<1>c. \A u \in Running : /\ teams'[u] \in [plugin : Plugins, inbox : Seq(PluginMessage)]
                         /\ teams'[u].plugin = teams[u].plugin
  BY <1>3, <1>a, SentTo
<1>4. MailOK' /\ \A u : ~AnsweredBy(u)'
  BY <1>b, <1>c, RenewedMail
<1>5. WindowOK'
  <2>1. chosen' \in Scopes \cup Plugins /\ serial' \in Nat /\ started' \in Nat /\ started' <= serial'
        /\ changes' \in Nat
    BY <1>2 DEF WindowInv, WindowOK
  <2>2. waiting' \in BOOLEAN /\ visible' \in BOOLEAN /\ late' \in BOOLEAN /\ open' \in BOOLEAN
    BY Zenon DEF WindowInv, WindowOK
  <2> QED
    BY <2>1, <2>2 DEF WindowOK
<1>6. TeamsOK'
  <2>1. \A t \in Running : t \in 1..serial /\ teams[t] \in [plugin : Plugins, inbox : Seq(PluginMessage)]
    BY DEF WindowInv, TeamsOK
  <2>2. \A t \in Running' : t \in 1..serial' /\ teams'[t] \in [plugin : Plugins, inbox : Seq(PluginMessage)]
    BY <1>2, <1>b, <1>c, <2>1
  <2> QED
    BY <1>b, <2>2 DEF TeamsOK
<1>7. SessionsOK'
  BY <1>2, <1>b, <1>c DEF WindowInv, SessionsOK, Session
<1>8. AskedOK'
  BY <1>2 DEF WindowInv, AskedOK
<1>9. InboxesOK'
  <2> SUFFICES ASSUME NEW t \in Running, NEW e \in Elements(teams'[t].inbox), e.what = "ask"
               PROVE  e.number \in 1..serial' /\ (e.number = serial' => teams'[t].plugin = p)
    BY <1>2, <1>b DEF InboxesOK
  <2>1. CASE e \in Elements(teams[t].inbox)
    BY <2>1, <1>2, <1>c DEF WindowInv, InboxesOK
  <2>2. CASE e \notin Elements(teams[t].inbox)
    <3>1. t = i /\ e = Ask(serial')
      BY <2>2, <1>b
    <3> QED
      BY <3>1, <1>2, <1>3, <1>a, <1>c
  <2> QED
    BY <2>1, <2>2
<1>10. \A u : AskedNow(u)' => u = i
  <2> SUFFICES ASSUME NEW u \in Running, NEW e \in Elements(teams'[u].inbox),
                      e.what = "ask", e.number = serial', u # i
               PROVE  FALSE
    BY <1>b, <1>4 DEF AskedNow, AskedIn
  <2> QED
    BY <1>2, <1>b
<1>11. OneIsAsked'
  BY <1>2, <1>10 DEF OneIsAsked
<1>12. StartedOK'
  <2>1. 0 \notin Running
    BY DEF WindowInv, TeamsOK
  <2> QED
    BY <2>1, <1>2, <1>b DEF WindowInv, StartedOK
<1>13. FormIsOfChosen'
  BY DEF FormIsOfChosen
<1>14. PluginsAreLetGo'
  BY <1>2, <1>b, <1>c DEF PluginsAreLetGo
<1> QED
  BY <1>4, <1>5, <1>6, <1>7, <1>8, <1>9, <1>11, <1>12, <1>13, <1>14 DEF WindowInv

\* or one is started,
LEMMA StartedKeeps ==
  ASSUME WindowInv, NEW p \in Plugins, Renewed(p), ~Session(p),
         visible' = FALSE, waiting' = TRUE, started' = serial',
         teams' = [t \in Running \cup {serial'} |->
                     IF t = serial' THEN [plugin |-> p, inbox |-> <<Ask(serial')>>] ELSE teams[t]],
         sessions' = sessions, open' = open, mail' = mail, asked' = asked,
         ending' = ending, changes' = changes, late' = late
  PROVE  WindowInv'
<1>1. /\ open /\ chosen' = p /\ serial' = serial + 1 /\ serial' \in Nat /\ serial \in Nat
      /\ left \subseteq left' /\ (waiting /\ started # 0 => started \in left')
      /\ \A t \in Running : \A e \in Elements(teams[t].inbox) : e.what = "ask" => e.number # serial'
      /\ serial' \notin Running
      /\ \A t \in Running \ (ending \cup left') : sessions[teams[t].plugin] = t
  BY RenewedFacts DEF WindowInv, WindowOK
<1>2. Running' = Running \cup {serial'} /\ teams' = [u \in Running' |-> teams'[u]]
  BY DEF Running
<1>3. \A u \in Running : teams'[u] = teams[u]
  BY <1>1
<1>4. teams'[serial'] = [plugin |-> p, inbox |-> <<Ask(serial')>>]
  OBVIOUS
<1>5. Ask(serial') \in PluginMessage /\ Ask(serial').number = serial'
  BY <1>1 DEF Ask, PluginMessage
<1>6. <<Ask(serial')>> \in Seq(PluginMessage) /\ Elements(<<Ask(serial')>>) = {Ask(serial')}
  BY <1>5 DEF Elements
<1>7. /\ teams'[serial'] \in [plugin : Plugins, inbox : Seq(PluginMessage)]
      /\ teams'[serial'].plugin = p /\ Elements(teams'[serial'].inbox) = {Ask(serial')}
  BY <1>4, <1>6
<1>8. MailOK' /\ \A u : ~AnsweredBy(u)'
  BY <1>2, <1>3, RenewedMail
<1>9. WindowOK'
  <2>1. chosen' \in Scopes \cup Plugins /\ serial' \in Nat /\ started' \in Nat /\ started' <= serial'
        /\ changes' \in Nat
    BY <1>1 DEF WindowInv, WindowOK
  <2>2. waiting' \in BOOLEAN /\ visible' \in BOOLEAN /\ late' \in BOOLEAN /\ open' \in BOOLEAN
    BY Zenon DEF WindowInv, WindowOK
  <2> QED
    BY <2>1, <2>2 DEF WindowOK
<1>10. TeamsOK'
  <2>1. \A t \in Running : t \in 1..serial /\ teams[t] \in [plugin : Plugins, inbox : Seq(PluginMessage)]
    BY DEF WindowInv, TeamsOK
  <2>2. ASSUME NEW t \in Running'
        PROVE  t \in 1..serial' /\ teams'[t] \in [plugin : Plugins, inbox : Seq(PluginMessage)]
    <3>1. CASE t \in Running
      <4>1. teams'[t] = teams[t]
        BY <1>3, <3>1
      <4> QED
        BY <1>1, <2>1, <3>1, <4>1
    <3>2. CASE t = serial'
      <4>1. serial' \in 1..serial'
        BY <1>1
      <4> QED
        BY <1>7, <3>2, <4>1
    <3> QED
      BY <1>2, <2>2, <3>1, <3>2
  <2> QED
    BY <1>2, <2>2 DEF TeamsOK
<1>11. \A q \in Plugins : sessions[q] \in Nat /\ sessions[q] <= serial /\ sessions[q] # serial'
  BY <1>1 DEF WindowInv, SessionsOK
<1>12. SessionsOK'
  BY <1>1, <1>2, <1>3, <1>11 DEF WindowInv, SessionsOK, Session
<1>13. AskedOK'
  BY <1>1 DEF WindowInv, AskedOK
<1>14. InboxesOK'
  <2> SUFFICES ASSUME NEW t \in Running', NEW e \in Elements(teams'[t].inbox), e.what = "ask"
               PROVE  e.number \in 1..serial' /\ (e.number = serial' => teams'[t].plugin = p)
    BY <1>1 DEF InboxesOK
  <2>1. CASE t \in Running
    <3>1. teams'[t] = teams[t]
      BY <1>3, <2>1
    <3> QED
      BY <2>1, <3>1, <1>1 DEF WindowInv, InboxesOK
  <2>2. CASE t = serial'
    BY <1>1, <1>5, <1>7, <2>2
  <2> QED
    BY <1>2, <2>1, <2>2
<1>15. \A u : AskedNow(u)' => u = serial'
  <2> SUFFICES ASSUME NEW u \in Running, NEW e \in Elements(teams'[u].inbox),
                      e.what = "ask", e.number = serial'
               PROVE  FALSE
    BY <1>2, <1>8 DEF AskedNow, AskedIn
  <2>1. teams'[u] = teams[u]
    BY <1>3
  <2> QED
    BY <1>1, <2>1
<1>16. ~Session(p)'
  BY <1>2, <1>11 DEF Session
<1>17. OneIsAsked'
  BY <1>1, <1>15, <1>16 DEF OneIsAsked
<1>18. StartedOK'
  BY <1>1, <1>15 DEF StartedOK
<1>19. FormIsOfChosen'
  BY DEF FormIsOfChosen
<1>20. PluginsAreLetGo'
  <2> SUFFICES ASSUME NEW t \in Running' \ (ending' \cup left')
               PROVE  open' /\ (sessions'[teams'[t].plugin] = t \/ (waiting' /\ started' = t))
    BY DEF PluginsAreLetGo
  <2>1. CASE t = serial'
    BY <1>1, <2>1
  <2>2. CASE t \in Running
    BY <1>1, <1>3, <2>2
  <2> QED
    BY <1>2, <2>1, <2>2
<1> QED
  BY <1>8, <1>9, <1>10, <1>12, <1>13, <1>14, <1>17, <1>18, <1>19, <1>20 DEF WindowInv

\* or nobody is asked.
LEMMA NotStartedKeeps ==
  ASSUME WindowInv, NEW p \in Plugins, Renewed(p), ~Session(p),
         visible' = FALSE, waiting' = FALSE, started' = started, teams' = teams,
         sessions' = sessions, open' = open, mail' = mail, asked' = asked,
         ending' = ending, changes' = changes, late' = late
  PROVE  WindowInv'
<1>1. /\ open /\ chosen' = p /\ serial' = serial + 1 /\ serial' \in Nat /\ serial \in Nat
      /\ left \subseteq left' /\ (waiting /\ started # 0 => started \in left')
      /\ \A t \in Running : \A e \in Elements(teams[t].inbox) : e.what = "ask" => e.number # serial'
      /\ \A t \in Running \ (ending \cup left') : sessions[teams[t].plugin] = t
  BY RenewedFacts DEF WindowInv, WindowOK
<1>2. Running' = Running
  BY DEF Running
<1>3. MailOK' /\ \A u : ~AnsweredBy(u)'
  BY <1>2, RenewedMail
<1>4. WindowOK'
  <2>1. chosen' \in Scopes \cup Plugins /\ serial' \in Nat /\ started' \in Nat /\ started' <= serial'
        /\ changes' \in Nat
    BY <1>1 DEF WindowInv, WindowOK
  <2>2. waiting' \in BOOLEAN /\ visible' \in BOOLEAN /\ late' \in BOOLEAN /\ open' \in BOOLEAN
    BY Zenon DEF WindowInv, WindowOK
  <2> QED
    BY <2>1, <2>2 DEF WindowOK
<1>5. TeamsOK'
  BY <1>1, <1>2 DEF WindowInv, TeamsOK
<1>6. SessionsOK'
  BY <1>1, <1>2 DEF WindowInv, SessionsOK, Session
<1>7. AskedOK'
  BY <1>1 DEF WindowInv, AskedOK
<1>8. InboxesOK'
  BY <1>1, <1>2 DEF WindowInv, InboxesOK
<1>9. \A u : ~AskedNow(u)'
  BY <1>1, <1>2, <1>3 DEF AskedNow, AskedIn
<1>10. OneIsAsked'
  BY <1>9 DEF OneIsAsked
<1>11. StartedOK'
  <2>1. 0 \notin Running
    BY DEF WindowInv, TeamsOK
  <2> QED
    BY <2>1, <1>1, <1>2 DEF WindowInv, StartedOK
<1>12. FormIsOfChosen'
  BY DEF FormIsOfChosen
<1>13. PluginsAreLetGo'
  BY <1>1, <1>2 DEF PluginsAreLetGo
<1> QED
  BY <1>3, <1>4, <1>5, <1>6, <1>7, <1>8, <1>10, <1>11, <1>12, <1>13 DEF WindowInv

LEMMA SelectPluginKeeps ==
  ASSUME WindowInv, NEW p \in Plugins, SelectPlugin(p) PROVE WindowInv'
<1>1. /\ Renewed(p) /\ visible' = FALSE
      /\ late' = late /\ sessions' = sessions /\ open' = open /\ mail' = mail /\ asked' = asked
      /\ ending' = ending /\ changes' = changes
  BY DEF SelectPlugin
<1>2. CASE /\ Session(p) /\ waiting' = TRUE
           /\ teams' = Sent(sessions[p], Ask(serial')) /\ started' = started
  BY <1>1, <1>2, SessionAskedKeeps
<1>3. CASE /\ ~Session(p) /\ waiting' = TRUE /\ started' = serial'
           /\ teams' = [t \in Running \cup {serial'} |->
                IF t = serial' THEN [plugin |-> p, inbox |-> <<Ask(serial')>>] ELSE teams[t]]
  BY <1>1, <1>3, StartedKeeps
<1>4. CASE ~Session(p) /\ waiting' = FALSE /\ teams' = teams /\ started' = started
  BY <1>1, <1>4, NotStartedKeeps
<1> QED
  BY <1>2, <1>3, <1>4 DEF SelectPlugin

-----------------------------------------------------------------------------
(* The window handles a message *)

\* An answer to the current request is of the node that is chosen.
LEMMA CurrentAnswer ==
  ASSUME WindowAssumption, WindowInv, NEW m \in mail, m.what \in {"ready", "reply"}, m.serial = serial
  PROVE  /\ m.of = chosen /\ m.ok \in BOOLEAN
         /\ m.what = "reply" => ReplyOK(m) /\ AskedNow(m.team) /\ chosen \in Plugins
         /\ m.what # "reply" => chosen \notin Plugins
  BY DEF WindowInv, MailOK, ReadyOK, ReplyOK, AskedNow, AnsweredBy, WindowAssumption

LEMMA ReadyKeeps ==
  ASSUME WindowAssumption, WindowInv, NEW m \in mail, Ready(m) PROVE WindowInv'
<1>1. /\ m.what \in {"ready", "reply"} /\ m.serial = serial
      /\ waiting' = FALSE /\ started' = 0 /\ visible' = m.ok
      /\ form' = IF m.ok THEN m.of ELSE form
      /\ late' = (late /\ ~m.ok)
      /\ sessions' = IF m.what = "reply" /\ m.team \in Running
                     THEN [sessions EXCEPT ![chosen] = m.team] ELSE sessions
      /\ mail' \subseteq mail
      /\ chosen' = chosen /\ serial' = serial /\ left' = left /\ teams' = teams /\ ending' = ending
      /\ open /\ open' = open /\ asked' = asked /\ changes' = changes
  BY DEF Ready, programs
<1>2. /\ m.of = chosen /\ m.ok \in BOOLEAN
      /\ m.what = "reply" => ReplyOK(m) /\ AskedNow(m.team) /\ chosen \in Plugins
      /\ m.what # "reply" => chosen \notin Plugins
  BY <1>1, CurrentAnswer
<1>3. NothingNewAsked /\ Running' = Running
  BY <1>1, UnchangedAsksNothing DEF WindowInv
<1>4. /\ TeamsOK' /\ InboxesOK' /\ \A u : AskedIn(u)' => AskedIn(u)
      /\ \A t \in Running' : teams'[t].plugin = teams[t].plugin
  BY <1>1, <1>3, TeamsStay DEF WindowInv
<1>5. MailOK'
  <2> SUFFICES ASSUME NEW n \in mail'
               PROVE  /\ n.what = "ready" => ReadyOK(n)'
                      /\ n.what = "reply" => ReplyOK(n)'
                      /\ n.what = "changed" => n.number \in Nat
                      /\ n.what \in {"ready", "reply"} /\ n.serial = serial' => n.of = chosen'
    BY DEF MailOK
  <2> QED
    BY <1>1, <1>3, <1>4, MailStays DEF WindowInv
<1>6. \A u : AskedNow(u)' => AskedNow(u)
  BY <1>1, <1>4 DEF AskedNow, AnsweredBy
<1>7. WindowOK'
  <2>1. chosen' \in Scopes \cup Plugins /\ serial' \in Nat /\ started' \in Nat /\ started' <= serial'
        /\ changes' \in Nat
    BY <1>1 DEF WindowInv, WindowOK
  <2>2. waiting' \in BOOLEAN /\ visible' \in BOOLEAN /\ late' \in BOOLEAN /\ open' \in BOOLEAN
    BY <1>1, <1>2, Zenon DEF WindowInv, WindowOK
  <2> QED
    BY <2>1, <2>2 DEF WindowOK
<1>8. AskedOK'
  BY <1>1 DEF WindowInv, AskedOK
<1>9. ASSUME m.what = "reply" /\ m.team \in Running
      PROVE  SessionsOK' /\ OneIsAsked' /\ PluginsAreLetGo'
  <2>1. sessions' = [sessions EXCEPT ![chosen] = m.team] /\ chosen \in Plugins /\ AskedNow(m.team)
        /\ m.team \in 1..serial /\ teams[m.team].plugin = chosen
    BY <1>1, <1>2, <1>9 DEF ReplyOK
  <2>2. /\ sessions' \in [Plugins -> Nat] /\ sessions'[chosen] = m.team
        /\ \A p \in Plugins : p # chosen => sessions'[p] = sessions[p]
    BY <2>1 DEF WindowInv, SessionsOK
  <2>3. SessionsOK'
    <3> SUFFICES ASSUME NEW p \in Plugins
                 PROVE  sessions'[p] <= serial /\ (sessions'[p] \in Running => teams[sessions'[p]].plugin = p)
      BY <1>1, <1>3, <2>2 DEF SessionsOK, Session
    <3>1. CASE p = chosen
      BY <3>1, <2>1, <2>2 DEF WindowInv, WindowOK
    <3>2. CASE p # chosen
      BY <3>2, <2>2 DEF WindowInv, SessionsOK, Session
    <3> QED
      BY <3>1, <3>2
  <2>4. OneIsAsked'
    BY <1>1, <1>6, <2>1, <2>2 DEF WindowInv, OneIsAsked
  <2>5. PluginsAreLetGo'
    <3> SUFFICES ASSUME NEW t \in Running, t \notin ending, t \notin left
                 PROVE  sessions'[teams[t].plugin] = t
      BY <1>1, <1>3 DEF PluginsAreLetGo
    <3>1. CASE sessions[teams[t].plugin] = t
      <4>1. teams[t].plugin = chosen => Session(chosen) /\ sessions[chosen] = m.team
        BY <2>1, <3>1 DEF WindowInv, OneIsAsked, Session
      <4>2. teams[t].plugin \in Plugins
        BY DEF WindowInv, TeamsOK
      <4> QED
        BY <2>2, <3>1, <4>1, <4>2
    <3>2. CASE waiting /\ started = t
      BY <2>1, <2>2, <3>2 DEF WindowInv, StartedOK
    <3> QED
      BY <3>1, <3>2 DEF WindowInv, PluginsAreLetGo
  <2> QED
    BY <2>3, <2>4, <2>5
<1>10. ASSUME ~(m.what = "reply" /\ m.team \in Running)
       PROVE  SessionsOK' /\ OneIsAsked' /\ PluginsAreLetGo'
  <2>1. sessions' = sessions
    BY <1>1, <1>10
  <2>2. SessionsOK'
    BY <1>1, <1>3, <2>1 DEF WindowInv, SessionsOK, Session
  <2>3. OneIsAsked'
    BY <1>1, <1>3, <1>6, <2>1 DEF WindowInv, OneIsAsked, Session
  <2>4. PluginsAreLetGo'
    <3> SUFFICES ASSUME NEW t \in Running, t \notin ending, t \notin left
                 PROVE  sessions[teams[t].plugin] = t
      BY <1>1, <1>3, <2>1 DEF PluginsAreLetGo
    <3>1. ~(waiting /\ started = t)
      BY <1>2, <1>10 DEF WindowInv, StartedOK
    <3> QED
      BY <3>1 DEF WindowInv, PluginsAreLetGo
  <2> QED
    BY <2>2, <2>3, <2>4
<1>11. StartedOK'
  BY <1>1, <1>3, <1>4, <1>6, StartedStays
<1>12. FormIsOfChosen'
  BY <1>1, <1>2 DEF FormIsOfChosen
<1> QED
  BY <1>4, <1>5, <1>7, <1>8, <1>9, <1>10, <1>11, <1>12 DEF WindowInv

LEMMA ReadyLateKeeps ==
  ASSUME WindowInv, NEW m \in mail, ReadyLate(m) PROVE WindowInv'
<1> DEFINE them == IF Unused(m) THEN {m.team} ELSE {}
<1>1. /\ open /\ ToldToEnd(them, Close)
      /\ left' = IF Unused(m) THEN left \ {m.team} ELSE left
      /\ mail' \subseteq mail
      /\ form' = form /\ visible' = visible /\ late' = late /\ chosen' = chosen /\ serial' = serial
      /\ waiting' = waiting /\ started' = started /\ sessions' = sessions
      /\ open' = open /\ asked' = asked /\ changes' = changes
  BY DEF ReadyLate, form_
<1>2. Close \in PluginMessage /\ Close.what # "ask"
  BY DEF Close, PluginMessage
<1>3. NothingNewAsked /\ Running' = Running /\ ending' = ending \cup (them \cap Running)
  BY <1>1, <1>2, ToldToEndAsksNothing DEF WindowInv
<1>4. /\ TeamsOK' /\ SessionsOK' /\ AskedOK' /\ InboxesOK' /\ MailOK' /\ OneIsAsked'
      /\ \A u : AskedNow(u)' => AskedNow(u)
  BY <1>1, <1>3, QuietStep
<1>5. \A t \in Running : t \notin ending' => (t \in left' <=> t \in left)
  BY <1>1, <1>3 DEF Unused
<1>6. WindowOK'
  <2>1. chosen' \in Scopes \cup Plugins /\ serial' \in Nat /\ started' \in Nat /\ started' <= serial'
        /\ changes' \in Nat
    BY <1>1 DEF WindowInv, WindowOK
  <2>2. waiting' \in BOOLEAN /\ visible' \in BOOLEAN /\ late' \in BOOLEAN /\ open' \in BOOLEAN
    BY <1>1, Zenon DEF WindowInv, WindowOK
  <2> QED
    BY <2>1, <2>2 DEF WindowOK
<1>7. StartedOK'
  BY <1>1, <1>3, <1>4, <1>5 DEF WindowInv, StartedOK
<1>8. FormIsOfChosen'
  BY <1>1 DEF WindowInv, FormIsOfChosen
<1>9. \A t \in Running : teams'[t].plugin = teams[t].plugin
  BY <1>3 DEF NothingNewAsked
<1>10. PluginsAreLetGo'
  BY <1>1, <1>3, <1>5, <1>9 DEF WindowInv, PluginsAreLetGo
<1> QED
  BY <1>4, <1>6, <1>7, <1>8, <1>10 DEF WindowInv

LEMMA TimeoutOfCurrentKeeps ==
  ASSUME WindowInv, NEW m \in mail, TimeoutOfCurrent(m) PROVE WindowInv'
<1>1. /\ open /\ ToldToEnd({started}, Quit)
      /\ waiting' = FALSE /\ started' = 0 /\ visible' = FALSE /\ mail' \subseteq mail
      /\ late' = late /\ chosen' = chosen /\ serial' = serial /\ left' = left
      /\ sessions' = sessions /\ open' = open /\ asked' = asked /\ changes' = changes
  BY DEF TimeoutOfCurrent
<1>2. Quit \in PluginMessage /\ Quit.what # "ask"
  BY DEF Quit, PluginMessage
<1>3. NothingNewAsked /\ Running' = Running /\ ending' = ending \cup ({started} \cap Running)
  BY <1>1, <1>2, ToldToEndAsksNothing DEF WindowInv
<1>4. /\ TeamsOK' /\ SessionsOK' /\ AskedOK' /\ InboxesOK' /\ MailOK' /\ OneIsAsked'
      /\ \A u : AskedNow(u)' => AskedNow(u)
  BY <1>1, <1>3, QuietStep
<1>5. WindowOK'
  <2>1. chosen' \in Scopes \cup Plugins /\ serial' \in Nat /\ started' \in Nat /\ started' <= serial'
        /\ changes' \in Nat
    BY <1>1 DEF WindowInv, WindowOK
  <2>2. waiting' \in BOOLEAN /\ visible' \in BOOLEAN /\ late' \in BOOLEAN /\ open' \in BOOLEAN
    BY <1>1, Zenon DEF WindowInv, WindowOK
  <2> QED
    BY <2>1, <2>2 DEF WindowOK
<1>6. StartedOK'
  <2>1. 0 \notin Running'
    BY <1>4 DEF TeamsOK
  <2> QED
    BY <1>1, <2>1 DEF StartedOK
<1>7. FormIsOfChosen'
  BY <1>1 DEF FormIsOfChosen
<1>8. \A t \in Running : teams'[t].plugin = teams[t].plugin
  BY <1>3 DEF NothingNewAsked
<1>9. PluginsAreLetGo'
  BY <1>1, <1>3, <1>8 DEF WindowInv, PluginsAreLetGo
<1> QED
  BY <1>4, <1>5, <1>6, <1>7, <1>9 DEF WindowInv

\* A message that changes nothing but the queue, or what instances and the server have to read.
LEMMA NothingChosenKeeps ==
  ASSUME WindowInv, NothingNewAsked, Running' \subseteq Running,
         TeamsOK', SessionsOK', AskedOK', InboxesOK', MailOK', OneIsAsked',
         \A u : AskedNow(u)' => AskedNow(u),
         form' = form, visible' = visible, late' = late, chosen' = chosen, serial' = serial,
         waiting' = waiting, left' = left, ending' = ending, started' = started,
         sessions' = sessions, open' = open, changes' \in Nat
  PROVE  WindowInv'
<1>1. WindowOK'
  <2>1. chosen' \in Scopes \cup Plugins /\ serial' \in Nat /\ started' \in Nat /\ started' <= serial'
        /\ changes' \in Nat
    BY DEF WindowInv, WindowOK
  <2>2. waiting' \in BOOLEAN /\ visible' \in BOOLEAN /\ late' \in BOOLEAN /\ open' \in BOOLEAN
    BY Zenon DEF WindowInv, WindowOK
  <2> QED
    BY <2>1, <2>2 DEF WindowOK
<1>2. StartedOK'
  BY StartedStays
<1>3. FormIsOfChosen'
  BY DEF WindowInv, FormIsOfChosen
<1>4. PluginsAreLetGo'
  <2>1. \A t \in Running' : t \in Running /\ teams'[t].plugin = teams[t].plugin
    BY DEF NothingNewAsked
  <2> QED
    BY <2>1 DEF WindowInv, PluginsAreLetGo
<1> QED
  BY <1>1, <1>2, <1>3, <1>4 DEF WindowInv

LEMMA TimeoutLateKeeps ==
  ASSUME WindowInv, NEW m \in mail, TimeoutLate(m) PROVE WindowInv'
<1>1. /\ mail' \subseteq mail
      /\ form' = form /\ visible' = visible /\ late' = late /\ chosen' = chosen /\ serial' = serial
      /\ waiting' = waiting /\ left' = left /\ teams' = teams /\ ending' = ending
      /\ started' = started /\ sessions' = sessions /\ open' = open /\ asked' = asked
      /\ changes' = changes
  BY DEF TimeoutLate, form_, request_, programs
<1>2. NothingNewAsked /\ Running' = Running /\ changes' \in Nat
  BY <1>1, UnchangedAsksNothing DEF WindowInv, WindowOK
<1>3. /\ TeamsOK' /\ SessionsOK' /\ AskedOK' /\ InboxesOK' /\ MailOK' /\ OneIsAsked'
      /\ \A u : AskedNow(u)' => AskedNow(u)
  BY <1>1, <1>2, QuietStep
<1> QED
  BY <1>1, <1>2, <1>3, NothingChosenKeeps

LEMMA ChangedKeeps ==
  ASSUME WindowInv, NEW m \in mail, Changed(m) PROVE WindowInv'
<1>1. /\ mail' \subseteq mail /\ m.what = "changed"
      /\ form' = form /\ visible' = visible /\ late' = late /\ chosen' = chosen /\ serial' = serial
      /\ waiting' = waiting /\ left' = left /\ ending' = ending
      /\ started' = started /\ sessions' = sessions /\ open' = open /\ asked' = asked
      /\ changes' = changes
  BY DEF Changed, form_, request_
<1> DEFINE message == [what |-> "set", number |-> m.number]
<1>2. message \in PluginMessage /\ message.what # "ask" /\ TeamsOK
  BY <1>1 DEF WindowInv, MailOK, PluginMessage
<1>3. NothingNewAsked /\ Running' = Running
  <2>1. CASE teams' = teams
    BY <2>1, <1>2, UnchangedAsksNothing
  <2>2. CASE Session(chosen) /\ teams' = Sent(sessions[chosen], message)
    <3>1. sessions[chosen] \in Running
      BY <2>2 DEF Session
    <3> HIDE DEF message
    <3> QED
      BY <2>2, <3>1, <1>2, SentAsksNothing
  <2> QED
    BY <2>1, <2>2 DEF Changed
<1>4. /\ TeamsOK' /\ SessionsOK' /\ AskedOK' /\ InboxesOK' /\ MailOK' /\ OneIsAsked'
      /\ \A u : AskedNow(u)' => AskedNow(u)
  BY <1>1, <1>3, QuietStep
<1>5. changes' \in Nat
  BY <1>1 DEF WindowInv, WindowOK
<1> QED
  BY <1>1, <1>3, <1>4, <1>5, NothingChosenKeeps

\* What is put into the form by the answer to a change of another node is told apart.
LEMMA AnsweredKeeps ==
  ASSUME WindowInv, NEW m \in mail, Answered(m) PROVE WindowInv'
<1>1. /\ mail' \subseteq mail /\ form' = m.of /\ late' = (m.of # chosen)
      /\ visible' = visible /\ chosen' = chosen /\ serial' = serial
      /\ waiting' = waiting /\ left' = left /\ teams' = teams /\ ending' = ending
      /\ started' = started /\ sessions' = sessions /\ open' = open /\ asked' = asked
      /\ changes' = changes
  BY DEF Answered, request_, programs
<1>2. NothingNewAsked /\ Running' = Running
  BY <1>1, UnchangedAsksNothing DEF WindowInv
<1>3. /\ TeamsOK' /\ SessionsOK' /\ AskedOK' /\ InboxesOK' /\ MailOK' /\ OneIsAsked'
      /\ \A u : AskedNow(u)' => AskedNow(u)
  BY <1>1, <1>2, QuietStep
<1>4. WindowOK'
  <2>1. chosen' \in Scopes \cup Plugins /\ serial' \in Nat /\ started' \in Nat /\ started' <= serial'
        /\ changes' \in Nat
    BY <1>1 DEF WindowInv, WindowOK
  <2>2. waiting' \in BOOLEAN /\ visible' \in BOOLEAN /\ late' \in BOOLEAN /\ open' \in BOOLEAN
    BY <1>1, Zenon DEF WindowInv, WindowOK
  <2> QED
    BY <2>1, <2>2 DEF WindowOK
<1>5. StartedOK'
  BY <1>1, <1>2, <1>3, StartedStays
<1>6. FormIsOfChosen'
  BY <1>1 DEF FormIsOfChosen
<1>7. PluginsAreLetGo'
  BY <1>1, <1>2 DEF WindowInv, PluginsAreLetGo
<1> QED
  BY <1>3, <1>4, <1>5, <1>6, <1>7 DEF WindowInv

LEMMA QuitRequestedKeeps ==
  ASSUME WindowInv, QuitRequested PROVE WindowInv'
<1> DEFINE them == {sessions[p] : p \in Plugins}
<1>1. /\ open /\ open' = FALSE /\ ToldToEnd(them, Close)
      /\ left' = IF waiting /\ started # 0 THEN left \cup {started} ELSE left
      /\ mail' = {} /\ asked' = {}
      /\ form' = form /\ visible' = visible /\ late' = late /\ chosen' = chosen /\ serial' = serial
      /\ waiting' = waiting /\ started' = started /\ sessions' = sessions /\ changes' = changes
  BY DEF QuitRequested, Closed, form_
<1>2. Close \in PluginMessage /\ Close.what # "ask"
  BY DEF Close, PluginMessage
<1>3. NothingNewAsked /\ Running' = Running /\ ending' = ending \cup (them \cap Running)
  BY <1>1, <1>2, ToldToEndAsksNothing DEF WindowInv
<1>4. /\ TeamsOK' /\ SessionsOK' /\ AskedOK' /\ InboxesOK' /\ MailOK' /\ OneIsAsked'
      /\ \A u : AskedNow(u)' => AskedNow(u)
  BY <1>1, <1>3, QuietStep
<1>5. WindowOK'
  <2>1. chosen' \in Scopes \cup Plugins /\ serial' \in Nat /\ started' \in Nat /\ started' <= serial'
        /\ changes' \in Nat
    BY <1>1 DEF WindowInv, WindowOK
  <2>2. waiting' \in BOOLEAN /\ visible' \in BOOLEAN /\ late' \in BOOLEAN /\ open' \in BOOLEAN
    BY <1>1, Zenon DEF WindowInv, WindowOK
  <2> QED
    BY <2>1, <2>2 DEF WindowOK
<1>6. StartedOK'
  BY <1>1, <1>3, <1>4, StartedStays
<1>7. FormIsOfChosen'
  BY <1>1 DEF WindowInv, FormIsOfChosen
<1>8. PluginsAreLetGo'
  <2>1. \A t \in Running : t \in ending' \cup left'
    <3> SUFFICES ASSUME NEW t \in Running, t \notin ending, t \notin left PROVE t \in ending' \cup left'
      BY <1>1, <1>3
    <3>1. t # 0 /\ teams[t].plugin \in Plugins
      BY DEF WindowInv, TeamsOK
    <3>2. CASE sessions[teams[t].plugin] = t
      BY <3>1, <3>2, <1>3
    <3>3. CASE waiting /\ started = t
      BY <3>1, <3>3, <1>1
    <3> QED
      BY <3>2, <3>3 DEF WindowInv, PluginsAreLetGo
  <2> QED
    BY <1>3, <2>1 DEF PluginsAreLetGo
<1> QED
  BY <1>4, <1>5, <1>6, <1>7, <1>8 DEF WindowInv

-----------------------------------------------------------------------------
(* The user, the message runner, the server and the plugins *)

LEMMA ChangeKeeps ==
  ASSUME WindowInv, Change PROVE WindowInv'
<1> DEFINE n == [what |-> "changed", number |-> changes']
<1>1. /\ mail' = mail \cup {n} /\ changes' = changes + 1
      /\ form' = form /\ visible' = visible /\ late' = late /\ chosen' = chosen /\ serial' = serial
      /\ waiting' = waiting /\ left' = left /\ teams' = teams /\ ending' = ending
      /\ started' = started /\ sessions' = sessions /\ open' = open /\ asked' = asked
  BY DEF Change, form_, request_, programs
<1>2. changes' \in Nat
  BY <1>1 DEF WindowInv, WindowOK
<1>3. n.what = "changed" /\ n.number \in Nat
  BY <1>2
<1>4. NothingNewAsked
  BY <1>1, UnchangedAsksNothing DEF WindowInv
<1>5. /\ TeamsOK' /\ SessionsOK' /\ AskedOK' /\ InboxesOK' /\ MailOK' /\ OneIsAsked'
      /\ Running' = Running /\ \A u : AskedNow(u)' => AskedNow(u)
  <2> HIDE DEF n
  <2> QED
    BY <1>1, <1>3, MessageStep
<1> QED
  BY <1>1, <1>2, <1>4, <1>5, NothingChosenKeeps

LEMMA FireKeeps ==
  ASSUME WindowInv, Fire PROVE WindowInv'
<1> DEFINE n == [what |-> "timeout", serial |-> timer]
<1>1. /\ mail' = mail \cup {n}
      /\ form' = form /\ visible' = visible /\ late' = late /\ chosen' = chosen /\ serial' = serial
      /\ waiting' = waiting /\ left' = left /\ teams' = teams /\ ending' = ending
      /\ started' = started /\ sessions' = sessions /\ open' = open /\ asked' = asked
      /\ changes' = changes
  BY DEF Fire, form_, programs
<1>2. changes' \in Nat
  BY <1>1 DEF WindowInv, WindowOK
<1>3. n.what = "timeout"
  OBVIOUS
<1>4. NothingNewAsked
  BY <1>1, UnchangedAsksNothing DEF WindowInv
<1>5. /\ TeamsOK' /\ SessionsOK' /\ AskedOK' /\ InboxesOK' /\ MailOK' /\ OneIsAsked'
      /\ Running' = Running /\ \A u : AskedNow(u)' => AskedNow(u)
  <2> HIDE DEF n
  <2> QED
    BY <1>1, <1>3, MessageStep
<1> QED
  BY <1>1, <1>2, <1>4, <1>5, NothingChosenKeeps

LEMMA ServedKeeps ==
  ASSUME WindowInv, NEW r \in asked, Served(r) PROVE WindowInv'
<1>1. /\ asked' \subseteq asked
      /\ form' = form /\ visible' = visible /\ late' = late /\ chosen' = chosen /\ serial' = serial
      /\ waiting' = waiting /\ left' = left /\ teams' = teams /\ ending' = ending
      /\ started' = started /\ sessions' = sessions /\ open' = open /\ changes' = changes
  BY DEF Served, form_, request_, programs
<1>2. PICK ok \in BOOLEAN :
        mail' = mail \cup {[what |-> "ready", serial |-> r.serial, of |-> r.scope, team |-> 0, ok |-> ok]}
  BY DEF Served
<1> DEFINE n == [what |-> "ready", serial |-> r.serial, of |-> r.scope, team |-> 0, ok |-> ok]
<1>3. r.serial \in 1..serial /\ r.scope \in Scopes /\ (r.serial = serial => r.scope = chosen)
  BY DEF WindowInv, AskedOK
<1>4. n.what = "ready" /\ ReadyOK(n) /\ (n.serial = serial => n.of = chosen)
  BY <1>3 DEF ReadyOK
<1>5. NothingNewAsked /\ changes' \in Nat
  BY <1>1, UnchangedAsksNothing DEF WindowInv, WindowOK
<1>6. /\ TeamsOK' /\ SessionsOK' /\ AskedOK' /\ InboxesOK' /\ MailOK' /\ OneIsAsked'
      /\ Running' = Running /\ \A u : AskedNow(u)' => AskedNow(u)
  <2>1. mail' = mail \cup {n}
    BY <1>2
  <2> HIDE DEF n
  <2> QED
    BY <1>1, <1>4, <2>1, MessageStep
<1> QED
  BY <1>1, <1>5, <1>6, NothingChosenKeeps

LEMMA SetServedKeeps ==
  ASSUME WindowInv, NEW c \in told, SetServed(c) PROVE WindowInv'
<1> DEFINE n == [what |-> "answer", number |-> c.number, of |-> c.scope]
<1>1. /\ mail' = mail \cup {n}
      /\ form' = form /\ visible' = visible /\ late' = late /\ chosen' = chosen /\ serial' = serial
      /\ waiting' = waiting /\ left' = left /\ teams' = teams /\ ending' = ending
      /\ started' = started /\ sessions' = sessions /\ open' = open /\ asked' = asked
      /\ changes' = changes
  BY DEF SetServed, form_, request_, programs
<1>2. n.what = "answer"
  OBVIOUS
<1>3. NothingNewAsked /\ changes' \in Nat
  BY <1>1, UnchangedAsksNothing DEF WindowInv, WindowOK
<1>4. /\ TeamsOK' /\ SessionsOK' /\ AskedOK' /\ InboxesOK' /\ MailOK' /\ OneIsAsked'
      /\ Running' = Running /\ \A u : AskedNow(u)' => AskedNow(u)
  <2> HIDE DEF n
  <2> QED
    BY <1>1, <1>2, MessageStep
<1> QED
  BY <1>1, <1>3, <1>4, NothingChosenKeeps

\* Who answers the current request was asked by it.
LEMMA PluginStepKeeps ==
  ASSUME WindowInv, NEW t \in Running, PluginStep(t) PROVE WindowInv'
<1> DEFINE message == Head(teams[t].inbox)
<1>1. /\ form' = form /\ visible' = visible /\ late' = late /\ chosen' = chosen /\ serial' = serial
      /\ waiting' = waiting /\ left' = left /\ ending' = ending
      /\ started' = started /\ sessions' = sessions /\ open' = open /\ asked' = asked
      /\ changes' = changes
      /\ teams[t].inbox # <<>> /\ teams' = [teams EXCEPT ![t].inbox = Tail(@)]
      /\ Read(t, message)
  BY DEF PluginStep, form_, request_
<1>2. NothingNewAsked /\ Running' = Running
  BY <1>1, ReadAsksNothing DEF WindowInv
<1>3. changes' \in Nat
  BY <1>1 DEF WindowInv, WindowOK
<1>4. /\ t \in 1..serial /\ teams[t] \in [plugin : Plugins, inbox : Seq(PluginMessage)]
      /\ message \in Elements(teams[t].inbox)
  BY <1>1, ElementsOfTail DEF WindowInv, TeamsOK
<1>5. /\ Running' \subseteq Running /\ \A u \in Running' : teams'[u].plugin = teams[u].plugin
      /\ \A u \in Running : teams'[u].plugin = teams[u].plugin
  BY <1>2 DEF NothingNewAsked
<1>6. ASSUME NEW n, n \in mail' \ mail
      PROVE  \/ n.what = "answer"
             \/ /\ n.what = "reply" /\ ReplyOK(n) /\ n.team = t
                /\ n.serial = serial => n.of = chosen /\ AskedIn(t)
  <2>1. CASE message.what = "set"
             /\ n = [what |-> "answer", number |-> message.number, of |-> teams[t].plugin]
    BY <2>1
  <2>2. CASE /\ message.what = "ask"
             /\ \E ok \in BOOLEAN :
                  n = [what |-> "reply", serial |-> message.number, of |-> teams[t].plugin,
                       team |-> t, ok |-> ok]
    <3>1. message.number \in 1..serial /\ (message.number = serial => teams[t].plugin = chosen)
      BY <2>2, <1>4 DEF WindowInv, InboxesOK
    <3>2. teams[t].plugin \in Plugins
      BY <1>4
    <3>3. message.number = serial => AskedIn(t)
      BY <2>2, <1>4 DEF AskedIn
    <3> HIDE DEF message
    <3> QED
      BY <2>2, <3>1, <3>2, <3>3, <1>4 DEF ReplyOK
  <2> QED
    BY <1>1, <1>6, <2>1, <2>2 DEF Read
<1>7. MailOK'
  <2> SUFFICES ASSUME NEW n \in mail'
               PROVE  /\ n.what = "ready" => ReadyOK(n)'
                      /\ n.what = "reply" => ReplyOK(n)'
                      /\ n.what = "changed" => n.number \in Nat
                      /\ n.what \in {"ready", "reply"} /\ n.serial = serial' => n.of = chosen'
    BY DEF MailOK
  <2>1. CASE n \in mail
    BY <2>1, <1>1, <1>5, MailStays DEF WindowInv
  <2>2. CASE n \notin mail /\ n.what = "answer"
    BY <2>2
  <2>3. CASE n \notin mail /\ n.what = "reply" /\ ReplyOK(n) /\ (n.serial = serial => n.of = chosen)
    BY <2>3, <1>1, <1>5 DEF ReplyOK
  <2> QED
    BY <1>6, <2>1, <2>2, <2>3
<1>8. \A u : AnsweredBy(u)' => AskedNow(u)
  <2> SUFFICES ASSUME NEW u, NEW n \in mail', n.what = "reply", n.serial = serial, n.team = u
               PROVE  AskedNow(u)
    BY <1>1 DEF AnsweredBy
  <2>1. CASE n \in mail
    BY <2>1 DEF AskedNow, AnsweredBy
  <2>2. CASE n \notin mail
    BY <2>2, <1>6 DEF AskedNow
  <2> QED
    BY <2>1, <2>2
<1>9. /\ TeamsOK' /\ SessionsOK' /\ InboxesOK' /\ OneIsAsked' /\ \A u : AskedNow(u)' => AskedNow(u)
  BY <1>1, <1>2, <1>7, <1>8, RequestStays
<1>10. AskedOK'
  BY <1>1 DEF WindowInv, AskedOK
<1> QED
  BY <1>1, <1>2, <1>3, <1>7, <1>9, <1>10, NothingChosenKeeps

LEMMA PluginEndsKeeps ==
  ASSUME WindowInv, NEW t \in Running, PluginEnds(t) PROVE WindowInv'
<1>1. /\ mail' \subseteq mail /\ teams' = [u \in Running \ {t} |-> teams[u]]
      /\ form' = form /\ visible' = visible /\ late' = late /\ chosen' = chosen /\ serial' = serial
      /\ waiting' = waiting /\ left' = left /\ ending' = ending
      /\ started' = started /\ sessions' = sessions /\ open' = open /\ asked' = asked
      /\ changes' = changes
  BY DEF PluginEnds, form_, request_
<1>2. NothingNewAsked /\ Running' \subseteq Running /\ changes' \in Nat
  BY <1>1, EndAsksNothing DEF WindowInv, WindowOK
<1>3. /\ TeamsOK' /\ SessionsOK' /\ AskedOK' /\ InboxesOK' /\ MailOK' /\ OneIsAsked'
      /\ \A u : AskedNow(u)' => AskedNow(u)
  BY <1>1, <1>2, QuietStep
<1> QED
  BY <1>1, <1>2, <1>3, NothingChosenKeeps

LEMMA StutterKeeps ==
  ASSUME WindowInv, UNCHANGED windowVars PROVE WindowInv'
<1>1. /\ mail' \subseteq mail /\ teams' = teams
      /\ form' = form /\ visible' = visible /\ late' = late /\ chosen' = chosen /\ serial' = serial
      /\ waiting' = waiting /\ left' = left /\ ending' = ending
      /\ started' = started /\ sessions' = sessions /\ open' = open /\ asked' = asked
      /\ changes' = changes
  BY DEF windowVars, form_, request_, programs
<1>2. NothingNewAsked /\ Running' \subseteq Running /\ changes' \in Nat
  BY <1>1, UnchangedAsksNothing DEF WindowInv, WindowOK
<1>3. /\ TeamsOK' /\ SessionsOK' /\ AskedOK' /\ InboxesOK' /\ MailOK' /\ OneIsAsked'
      /\ \A u : AskedNow(u)' => AskedNow(u)
  BY <1>1, <1>2, QuietStep
<1> QED
  BY <1>1, <1>2, <1>3, NothingChosenKeeps

-----------------------------------------------------------------------------
(* The theorems *)

LEMMA InitWindowInv ==
  ASSUME WindowInit PROVE WindowInv
<1>1. Running = {} /\ teams = [t \in Running |-> teams[t]]
  BY DEF WindowInit, Running
<1>2. WindowOK
  <2>1. chosen \in Scopes \cup Plugins /\ serial \in Nat /\ started \in Nat /\ started <= serial
        /\ changes \in Nat
    BY DEF WindowInit
  <2>2. waiting \in BOOLEAN /\ visible \in BOOLEAN /\ late \in BOOLEAN /\ open \in BOOLEAN
    BY Zenon DEF WindowInit
  <2> QED
    BY <2>1, <2>2 DEF WindowOK
<1>3. TeamsOK /\ InboxesOK
  BY <1>1 DEF TeamsOK, InboxesOK
<1>4. SessionsOK
  BY <1>1 DEF WindowInit, SessionsOK, Session
<1>5. AskedOK /\ MailOK
  BY DEF WindowInit, AskedOK, MailOK
<1>6. \A u : ~AskedNow(u)
  BY <1>1 DEF WindowInit, AskedNow, AskedIn, AnsweredBy
<1>7. OneIsAsked /\ StartedOK
  BY <1>1, <1>6 DEF OneIsAsked, StartedOK
<1>8. FormIsOfChosen /\ PluginsAreLetGo
  BY <1>1 DEF WindowInit, FormIsOfChosen, PluginsAreLetGo
<1> QED
  BY <1>2, <1>3, <1>4, <1>5, <1>7, <1>8 DEF WindowInv

LEMMA NextWindowInv ==
  ASSUME WindowInv, [WindowNext]_windowVars PROVE WindowInv'
<1>1. CASE \E s \in Scopes : SelectScope(s)
  BY <1>1, SelectScopeKeeps
<1>2. CASE \E p \in Plugins : SelectPlugin(p)
  BY <1>2, SelectPluginKeeps
<1>3. CASE Handle
  <2> PICK m \in mail : Ready(m) \/ ReadyLate(m) \/ TimeoutOfCurrent(m) \/ TimeoutLate(m)
                          \/ Changed(m) \/ Answered(m)
    BY <1>3 DEF Handle
  <2> QED
    BY WindowAssumption, ReadyKeeps, ReadyLateKeeps, TimeoutOfCurrentKeeps, TimeoutLateKeeps,
       ChangedKeeps, AnsweredKeeps
<1>4. CASE QuitRequested
  BY <1>4, QuitRequestedKeeps
<1>5. CASE Change
  BY <1>5, ChangeKeeps
<1>6. CASE Fire
  BY <1>6, FireKeeps
<1>7. CASE \E r \in asked : Served(r)
  BY <1>7, ServedKeeps
<1>8. CASE \E c \in told : SetServed(c)
  BY <1>8, SetServedKeeps
<1>9. CASE \E t \in Running : PluginStep(t) \/ PluginEnds(t)
  BY <1>9, PluginStepKeeps, PluginEndsKeeps
<1>10. CASE Done \/ UNCHANGED windowVars
  BY <1>10, StutterKeeps DEF Done
<1> QED
  BY <1>1, <1>2, <1>3, <1>4, <1>5, <1>6, <1>7, <1>8, <1>9, <1>10 DEF WindowNext

\* However many nodes are chosen and changes are made, what the form shows while nothing is
\* waited for are the settings of the node that is chosen, unless a late answer to a change of
\* another node was put there (SenSettingsWindow::_Ready, _Answered).
THEOREM FormShowsChosen == WindowSpec => []FormIsOfChosen
<1>1. WindowInv /\ [WindowNext]_windowVars => WindowInv'
  BY NextWindowInv
<1>2. WindowInv => FormIsOfChosen
  BY DEF WindowInv
<1> QED
  BY <1>1, <1>2, InitWindowInv, PTL DEF WindowSpec

\* However many instances of plugins the window started, each that runs has a session or is
\* waited for, was told to end, or was left before it answered (_Request, _Ready, QuitRequested).
THEOREM InstancesAreLetGo == WindowSpec => []PluginsAreLetGo
<1>1. WindowInv /\ [WindowNext]_windowVars => WindowInv'
  BY NextWindowInv
<1>2. WindowInv => PluginsAreLetGo
  BY DEF WindowInv
<1> QED
  BY <1>1, <1>2, InitWindowInv, PTL DEF WindowSpec

=============================================================================
