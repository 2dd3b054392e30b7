---------------------------- MODULE AttrSnapshot ----------------------------
(***************************************************************************)
(* The snapshot that makes a request that changes several attributes of    *)
(* several files all-or-nothing (relations/AttrSnapshot.h).  A request     *)
(* captures each attribute before it writes it; if a step fails the        *)
(* captured values are put back, one attribute after the other.            *)
(*                                                                         *)
(* What goes wrong: a write fails or is short; an attribute can be written *)
(* but not read (it is then not captured); putting one back fails; the     *)
(* server dies in the middle, and the snapshot with it.                    *)
(***************************************************************************)
EXTENDS Naturals

CONSTANTS Attrs,       \* the attributes of all files
          Values,      \* their values, that an attribute is not there included
          Unreadable,  \* the attributes that Capture may fail to read
          Stubborn,    \* the attributes that Restore may fail to write
          MaxCrashes   \* bound: how often the server dies in a request

ASSUME AttrsAssumption ==
  /\ Unreadable \subseteq Attrs
  /\ Stubborn \subseteq Attrs
  /\ MaxCrashes \in Nat

VARIABLES store,    \* the attributes on the disk
          saved,    \* the captured attributes, with their first value
          phase,    \* "idle", "open" (in a request) or "restoring"
          before,   \* history: the attributes when the request began (between requests: store)
          crashes   \* history: how often the server died in a request

snapshotVars == <<store, saved, phase, before, crashes>>

Nothing == [a \in {} |-> a]

-----------------------------------------------------------------------------

BeginTx ==
  /\ phase = "idle"
  /\ phase' = "open"
  /\ UNCHANGED <<store, saved, before, crashes>>

\* Fault: the last state before a write is the one to return to.
CaptureAgain(a) == [b \in DOMAIN saved \cup {a} |-> IF b = a THEN store[a] ELSE saved[b]]

\* The first state is the one to return to.
Capture(a) == [b \in DOMAIN saved \cup {a} |-> IF b \in DOMAIN saved THEN saved[b] ELSE store[b]]

\* Capture before a write: of an attribute that cannot be read nothing is kept.
Captures(a) ==
  \/ saved' = Capture(a)
  \/ a \in Unreadable /\ saved' = saved

\* The attribute is captured and written.
WriteAttr(a, v) ==
  /\ phase = "open"
  /\ Captures(a)
  /\ store' = [store EXCEPT ![a] = v]
  /\ UNCHANGED <<phase, before, crashes>>

\* The attribute is captured, but the write fails and leaves v: the old value
\* or something else (a short write).  The request puts back what it saved.
WriteFails(a, v) ==
  /\ phase = "open"
  /\ Captures(a)
  /\ store' = [store EXCEPT ![a] = v]
  /\ phase' = "restoring"
  /\ UNCHANGED <<before, crashes>>

\* A step that writes nothing fails (reading a relation, an id, a config).
StepFails ==
  /\ phase = "open"
  /\ phase' = "restoring"
  /\ UNCHANGED <<store, saved, before, crashes>>

\* Fault: Restore stops at the first error.
RestoreAttrOrStop(a) ==
  /\ phase = "restoring"
  /\ a \in DOMAIN saved
  /\ \/ store' = [store EXCEPT ![a] = saved[a]] /\ saved' = [b \in DOMAIN saved \ {a} |-> saved[b]]
     \/ a \in Stubborn /\ store' = store /\ saved' = Nothing
  /\ UNCHANGED <<phase, before, crashes>>

\* Restore goes on after an error: the attribute is as it was left.
RestoreAttr(a) ==
  /\ phase = "restoring"
  /\ a \in DOMAIN saved
  /\ \/ store' = [store EXCEPT ![a] = saved[a]]
     \/ a \in Stubborn /\ store' = store
  /\ saved' = [b \in DOMAIN saved \ {a} |-> saved[b]]
  /\ UNCHANGED <<phase, before, crashes>>

RestoreDone ==
  /\ phase = "restoring"
  /\ DOMAIN saved = {}
  /\ phase' = "idle"
  /\ before' = store
  /\ UNCHANGED <<store, saved, crashes>>

Commit ==
  /\ phase = "open"
  /\ phase' = "idle"
  /\ saved' = Nothing
  /\ before' = store
  /\ UNCHANGED <<store, crashes>>

\* The server dies: what was written stays.
Crash ==
  /\ phase # "idle"
  /\ crashes < MaxCrashes
  /\ crashes' = crashes + 1
  /\ phase' = "idle"
  /\ saved' = Nothing
  /\ before' = store
  /\ UNCHANGED store

InitSnapshot ==
  /\ store \in [Attrs -> Values]
  /\ saved = Nothing
  /\ phase = "idle"
  /\ before = store
  /\ crashes = 0

NextSnapshot ==
  \/ BeginTx
  \/ \E a \in Attrs, v \in Values : WriteAttr(a, v) \/ WriteFails(a, v)
  \/ \E a \in Attrs : RestoreAttr(a)
  \/ StepFails
  \/ RestoreDone
  \/ Commit
  \/ Crash

SpecSnapshot == InitSnapshot /\ [][NextSnapshot]_snapshotVars

-----------------------------------------------------------------------------
(* Properties *)

\* The attributes that can be read and written.
Sound == Attrs \ (Unreadable \cup Stubborn)

\* What Restore would leave of an attribute.
View(a) == IF a \in DOMAIN saved THEN saved[a] ELSE store[a]

\* RelationWrite.cpp 18-19: whatever a request wrote, and in whichever order
\* and how often, at each moment putting back what was captured would give the
\* state in which the request began.
CanRollBack == phase # "idle" => \A a \in Sound : View(a) = before[a]

\* A request that failed leaves every attribute as it was, except those that
\* could not be read or not be put back; it does not stop at them.
AllOrNothing ==
  [][phase = "restoring" /\ phase' = "idle" /\ crashes' = crashes =>
       \A a \in Sound : store'[a] = before[a]]_snapshotVars
=============================================================================
