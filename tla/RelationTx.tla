----------------------------- MODULE RelationTx -----------------------------
(***************************************************************************)
(* The requests of Relations, taken apart into the writes of their         *)
(* attributes.  A request reads what it needs, and then writes one         *)
(* attribute after the other through a snapshot: the relations of the      *)
(* source, its list, the relations of the target, its list, in this order. *)
(* Each write can fail, and a list that is full makes it fail; the server  *)
(* can die between two writes.                                             *)
(*                                                                         *)
(* No other request runs meanwhile (all are handled in the looper of the   *)
(* server), and the files do not change while one runs.                    *)
(***************************************************************************)
EXTENDS AttrSnapshot, Sequences, FiniteSets

\* The constants of Relations.
CONSTANTS RelIds, NewId(_, _), NoRelationId, NoLabel, NoCreator, Files, Classifications, Types, Association,
          Bidirectional, InverseLabel, Inputs, Updates, Senders, OwnLabels, RemoveModes, NoData,
          Copied, Deleted, Sticking, Server, NoProperties, NoFile, NoType, MaxSets, MaxStored, MaxIds

VARIABLES files, ids, \* as in Relations
          script,     \* the writes that the request still has to make
          idsBefore,  \* history: ids when the request began (between requests: ids)
          pairs,      \* history: the pairs of files that the request is about
          spoilt,     \* history: attributes that the request wrote and did not capture, or did not put back
          torn        \* history: the pairs of requests that left damage

txVars == <<snapshotVars, files, ids, script, idsBefore, pairs, spoilt, torn>>

RelAttrs == {"SEN:REL"} \X Files \X Types
ListAttrs == {"list"} \X Files \X {"SEN:TO", "SEN:META"}

ASSUME TxAttrsAssumption == Attrs = RelAttrs \cup ListAttrs

ASSUME TxBoundsAssumption == MaxSets \in Nat /\ MaxStored \in Nat /\ MaxIds \in Nat

\* What Restore would leave: the state before the request, as long as it runs.
ViewRel == [f \in Files |-> [T \in Types |-> View(<<"SEN:REL", f, T>>)]]
ViewList == [f \in Files |-> [L \in {"SEN:TO", "SEN:META"} |-> View(<<"list", f, L>>)]]

\* The requests as single steps, on that state.  No classification sticks, and
\* no file is on the disk twice.
R == INSTANCE Relations WITH
       rel <- ViewRel, list <- ViewList, ids <- idsBefore, sticky <- {}, ambiguous <- {}

\* As in Relations: what is known of the files, of what clients send, and of id::New().
ASSUME TxFilesAssumption ==
  /\ Classifications \subseteq Files /\ Deleted \subseteq Files /\ Bidirectional \subseteq Types
  /\ NoFile \notin Files /\ NoType \notin Types

ASSUME TxSentAssumption == R!Sent \subseteq R!PropertySet

ASSUME TxNewIdAssumption ==
  /\ NoRelationId \notin RelIds
  /\ \A used \in SUBSET RelIds : Cardinality(used) <= 2 * MaxSets =>
       \A k \in 1 .. 2 * (MaxSets + 1) :
         /\ NewId(used, k) \in RelIds \ used
         /\ \A j \in 1 .. k - 1 : NewId(used, j) # NewId(used, k)

-----------------------------------------------------------------------------
(* The writes of a request *)

NoTargets == [g \in Files |-> <<>>]

RelAttr(f, T) == <<"SEN:REL", f, T>>

ListAttr(f, T) == <<"list", f, R!ListAttrFor(T)>>

\* The writes of the attributes, with the values that they have in st.
Writes(st, attrs) ==
  [i \in DOMAIN attrs |-> LET a == attrs[i] IN
    [attr |-> a, value |-> IF a \in RelAttrs THEN st.rel[a[2]][a[3]] ELSE st.list[a[2]][a[3]]]]

AddWrites(st, s, t, T, p, q) ==
  LET inverts == s # t /\ R!ShouldWriteInverse(T, s, t)
      fills   == inverts /\ R!CanFill(st.rel[t][T][s], R!InverseProperties(T, p))
  IN Writes(R!AddTx(st, {<<s, t>>}, T, p, q),
       IF ~R!InUse(st.rel[s][T][t], p)
       THEN <<RelAttr(s, T), ListAttr(s, T)>> \o (IF inverts THEN <<RelAttr(t, T), ListAttr(t, T)>> ELSE <<>>)
       ELSE IF R!CanFill(st.rel[s][T][t], p)
       THEN <<RelAttr(s, T)>> \o (IF fills THEN <<RelAttr(t, T)>> ELSE <<>>)
       ELSE <<>>)

\* Fault: the target is left alone.
RemoveWritesOfSource(old, new, s, T, t) ==
  Writes(new, <<RelAttr(s, T)>> \o (IF new.rel[s][T][t] = <<>> THEN <<ListAttr(s, T)>> ELSE <<>>))

\* The lists lose a file when the last of its sets is gone.
RemoveWrites(old, new, s, T, t) ==
  LET Side(f, g) == <<RelAttr(f, T)>> \o (IF new.rel[f][T][g] = <<>> THEN <<ListAttr(f, T)>> ELSE <<>>)
      found == s # t /\ new.rel[t][T][s] # old.rel[t][T][s]
  IN Writes(new, Side(s, t) \o (IF found THEN Side(t, s) ELSE <<>>))

ReplaceWrites(old, new, s, T, t, rid) ==
  LET found == R!FindsInverse(s, t) /\ R!FindSet(old.rel[t][T][s], rid) # {}
  IN Writes(new, <<RelAttr(s, T)>> \o (IF found THEN <<RelAttr(t, T)>> ELSE <<>>))

-----------------------------------------------------------------------------
(* The requests *)

Request(writes, about) ==
  /\ BeginTx
  /\ script' = writes
  /\ pairs' = about
  /\ UNCHANGED <<files, idsBefore, spoilt, torn>>

\* The ids are made first, and are not captured.
BeginAdd(source, target, T, properties, sender, own) ==
  LET s == IF R!Swaps(T, source, target) THEN target ELSE source
      t == IF R!Swaps(T, source, target) THEN source ELSE target
      p == R!AddedProperties(T, properties, sender)
      q == R!AddedInverse(T, p, own)
  IN /\ {s, t} \subseteq files
     /\ R!FitsBounds(R!AddTx(R!Store, {<<s, t>>}, T, p, q))
     /\ Request(AddWrites(R!Store, s, t, T, p, q), {{s, t}})
     /\ ids' = ids \cup {s, t} \cup R!StickyIds(T, properties)

BeginRemove(s, T, t, rid, mode) ==
  /\ s \in files
  /\ \E i \in R!Addressed(R!Store.rel[s][T][t], rid, mode = "override") :
       Request(RemoveWrites(R!Store, R!RemoveOne(R!Store, s, T, t, i), s, T, t), {{s, t}})
  /\ UNCHANGED ids

BeginRemoveAllSets(s, T, t, mode) ==
  /\ s \in files
  /\ R!RemovesAll(R!Store.rel[s][T][t], mode)
  /\ Request(RemoveWrites(R!Store, R!RemoveWhole(R!Store, s, {<<T, t>>}), s, T, t), {{s, t}})
  /\ UNCHANGED ids

BeginUpdate(s, T, t, rid, properties, newTarget, newType, mode) ==
  LET to == IF newTarget = NoFile THEN t ELSE newTarget
      U  == IF newType = NoType THEN T ELSE newType
      old == R!Store
  IN /\ s \in files
     /\ \E i \in R!Addressed(old.rel[s][T][t], rid, mode = "override") :
          LET id       == old.rel[s][T][t][i].rid
              replaced == IF properties = NoProperties THEN old ELSE R!Replace(old, s, T, t, i, properties)
              set      == R!WithoutId(replaced.rel[s][T][t][i])
              inverse  == R!InverseProperties(U, set)
              added    == R!AddTx(replaced, {<<s, to>>}, U, set, inverse)
              replaces == IF properties = NoProperties THEN <<>> ELSE ReplaceWrites(old, replaced, s, T, t, id)
              moves    == AddWrites(replaced, s, to, U, set, inverse)
                            \o RemoveWrites(added, R!RemoveOne(added, s, T, t, i), s, T, t)
          IN /\ newTarget = NoFile => ((newType = NoType) \/ R!Resolves(t))
             /\ newTarget # NoFile => newTarget \in files
             /\ \/ /\ to = t /\ U = T
                   /\ Request(replaces, {{s, t}})
                   /\ UNCHANGED ids
                \/ /\ to # t \/ U # T
                   /\ R!FitsBounds(added)
                   /\ Request(replaces \o moves, {{s, t}, {s, to}})
                   /\ ids' = ids \cup {s, to}

-----------------------------------------------------------------------------
(* The steps of a request *)

requestVars == <<files, ids, idsBefore, pairs>>

\* Fault: a list takes one id more than it may.
OverflowsLate(write) == write.attr \in ListAttrs /\ Cardinality(write.value) > MaxIds + 1

\* AddToIdList says B_BUFFER_OVERFLOW.
Overflows(write) == write.attr \in ListAttrs /\ Cardinality(write.value) > MaxIds

\* Bound: one request leaves damage.
Undamaged == torn = {}

\* What is written without being captured is not put back.
Written(a) ==
  /\ spoilt' = spoilt \cup ({a} \ DOMAIN saved')
  /\ spoilt' # spoilt => Undamaged

WriteNext ==
  /\ script # <<>>
  /\ ~Overflows(Head(script))
  /\ WriteAttr(Head(script).attr, Head(script).value)
  /\ script' = Tail(script)
  /\ Written(Head(script).attr)
  /\ UNCHANGED <<requestVars, torn>>

\* An attribute whose write failed is as it was, or empty.
WriteNextFails ==
  /\ script # <<>>
  /\ LET a == Head(script).attr IN
       \/ WriteFails(a, store[a])
       \/ /\ ~Overflows(Head(script))
          /\ WriteFails(a, IF a \in ListAttrs THEN {} ELSE NoTargets)
  /\ script' = <<>>
  /\ Written(Head(script).attr)
  /\ UNCHANGED <<requestVars, torn>>

\* What the next write needs cannot be read, or a file cannot be opened.
StepFailsTx ==
  /\ script # <<>>
  /\ StepFails
  /\ script' = <<>>
  /\ UNCHANGED <<requestVars, spoilt, torn>>

RestoreNext ==
  /\ \E a \in Attrs :
       /\ RestoreAttr(a)
       /\ \/ store'[a] = saved[a] /\ UNCHANGED spoilt
          \/ store'[a] # saved[a] /\ Undamaged /\ spoilt' = spoilt \cup {a}
  /\ UNCHANGED <<script, requestVars, torn>>

\* A write that failed may have damaged all relations of its file.
Damaged ==
  pairs \cup {{a[2], g} : a \in spoilt \cup (IF phase = "restoring" THEN DOMAIN saved ELSE {}), g \in Files}

\* The request is over.
Done == idsBefore' = ids /\ pairs' = {} /\ spoilt' = {} /\ UNCHANGED <<files, ids>>

RestoreDoneTx ==
  /\ RestoreDone
  /\ torn' = IF spoilt = {} THEN torn ELSE torn \cup Damaged
  /\ Done
  /\ UNCHANGED script

CommitTx ==
  /\ script = <<>>
  /\ Commit
  /\ Done
  /\ UNCHANGED <<script, torn>>

CrashTx ==
  /\ Undamaged /\ Crash
  /\ script' = <<>>
  /\ torn' = torn \cup Damaged
  /\ Done

InitTx ==
  /\ store = [a \in Attrs |-> IF a \in ListAttrs THEN {} ELSE NoTargets]
  /\ saved = Nothing /\ phase = "idle" /\ before = store /\ crashes = 0
  /\ files = Files /\ ids = {}
  /\ script = <<>> /\ idsBefore = {} /\ pairs = {} /\ spoilt = {} /\ torn = {}

Requests ==
  \E s, t \in Files, T \in Types :
    \/ \E p \in Inputs, sender \in Senders, own \in OwnLabels : BeginAdd(s, t, T, p, sender, own)
    \/ \E rid \in R!RequestIds(s, T, t), mode \in R!OneModes : BeginRemove(s, T, t, rid, mode)
    \/ \E mode \in R!OneModes : BeginRemoveAllSets(s, T, t, mode)
    \/ \E rid \in R!RequestIds(s, T, t), p \in Updates, to \in Files \cup {NoFile}, mode \in R!OneModes :
         \E U \in Types \cup (IF to = NoFile THEN {NoType} ELSE {}) : BeginUpdate(s, T, t, rid, p, to, U, mode)

\* Between requests the user deletes files.
DeleteFile(f) ==
  /\ phase = "idle"
  /\ f \in Deleted \cap files
  /\ files' = files \ {f} /\ ids' = ids \ {f} /\ idsBefore' = ids'
  /\ store' = [a \in Attrs |-> IF a[2] # f THEN store[a] ELSE IF a \in ListAttrs THEN {} ELSE NoTargets]
  /\ before' = store'
  /\ UNCHANGED <<saved, phase, crashes, script, pairs, spoilt, torn>>

NextTx == Requests \/ WriteNext \/ WriteNextFails \/ StepFailsTx \/ RestoreNext \/ RestoreDoneTx \/ CommitTx \/ CrashTx
          \/ \E f \in Files : DeleteFile(f)

SpecTx == InitTx /\ [][NextTx]_txVars

-----------------------------------------------------------------------------
(* Properties *)

\* RelationWrite.cpp 18-19: every request is all-or-nothing.  Seen from the
\* state that Restore would leave, each step but the death of the server is a
\* step of Relations: a request happens when it is committed, or fails as a
\* whole, and nothing of it is there before.  Left out are requests with an
\* attribute that could not be read or not be put back.
RequestsAreAtomic ==
  R!Init /\ [][R!Next \/ crashes' # crashes \/ spoilt # {} \/ spoilt' # {}]_(R!vars)

\* The type shares its list of targets with no other one.
OwnList(T) == \A U \in Types : R!ListAttrFor(U) = R!ListAttrFor(T) => U = T

\* A death of the server in the middle of a request, or a request that fails
\* and cannot be taken back, damages the pairs of files that the request is
\* about (after a failed write, those of the files it wrote), and no later
\* request spreads the damage: all other relations are in step, and what is
\* listed is related, and the other way round for a type with a list of its own
\* (in a shared list the removal of one relation takes the target of all away).
DamageStaysLocal ==
  phase = "idle" =>
    \A f, g \in files : {f, g} \notin torn =>
      \A T \in Types :
        /\ R!ShouldWriteInverse(T, f, g) => ViewRel[f][T][g] = ViewRel[g][T][f]
        /\ OwnList(T) /\ ViewRel[f][T][g] # <<>> => g \in ViewList[f][R!ListAttrFor(T)]
        /\ g \in ViewList[f][R!ListAttrFor(T)] =>
             \E U \in Types : R!ListAttrFor(U) = R!ListAttrFor(T) /\ ViewRel[f][U][g] # <<>>
=============================================================================
