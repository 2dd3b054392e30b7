------------------------- MODULE RelationTx_proofs --------------------------
(***************************************************************************)
(* Proofs about AttrSnapshot and RelationTx.  First the snapshot, for any  *)
(* attributes, any of which may be unreadable or stubborn, and any number  *)
(* of deaths of the server.  Then the requests of RelationTx: what their   *)
(* writes lead to is what the requests of Relations do in one step, so     *)
(* that RelationTx implements Relations.                                   *)
(***************************************************************************)
EXTENDS RelationTx, FiniteSetTheorems, TLAPS

-----------------------------------------------------------------------------
(* The snapshot *)

\* What the snapshot is made of.
SnapshotTypeOK ==
  /\ store = [a \in Attrs |-> store[a]]
  /\ before = [a \in Attrs |-> before[a]]
  /\ DOMAIN saved \subseteq Attrs
  /\ phase \in {"idle", "open", "restoring"}
  /\ crashes \in Nat

\* Between requests there is nothing to put back.
Rest == phase = "idle" => DOMAIN saved = {} /\ before = store

SnapshotInv == SnapshotTypeOK /\ Rest /\ CanRollBack

\* CanRollBack for one attribute, in any phase.
Keeps(a) == View(a) = before[a]

\* In every phase, also between requests, Restore would give what was before.
LEMMA KeepsAll == SnapshotInv => \A a \in Sound : Keeps(a)
BY DEF SnapshotInv, Rest, CanRollBack, Keeps, View, Sound

\* A write changes what Restore would give of no attribute but one that was not captured.
LEMMA WriteView ==
  ASSUME SnapshotTypeOK, NEW a \in Attrs, NEW v, Captures(a), store' = [store EXCEPT ![a] = v]
  PROVE  /\ DOMAIN saved \subseteq DOMAIN saved' /\ DOMAIN saved' \subseteq Attrs
         /\ a \notin Unreadable => a \in DOMAIN saved'
         /\ \A b \in Attrs : b # a \/ a \in DOMAIN saved' => View(b)' = View(b)
<1>1. CASE saved' = Capture(a)
  <2>1. DOMAIN saved' = DOMAIN saved \cup {a}
    BY <1>1 DEF Capture
  <2>2. ASSUME NEW b \in DOMAIN saved'
        PROVE  saved'[b] = IF b \in DOMAIN saved THEN saved[b] ELSE store[b]
    BY <1>1, <2>1 DEF Capture
  <2> QED
    BY <2>1, <2>2 DEF View, SnapshotTypeOK
<1>2. CASE a \in Unreadable /\ saved' = saved
  BY <1>2 DEF View, SnapshotTypeOK
<1> QED
  BY <1>1, <1>2 DEF Captures

\* Putting one attribute back does not, if it succeeds.
LEMMA RestoreView ==
  ASSUME SnapshotTypeOK, NEW a \in Attrs, RestoreAttr(a)
  PROVE  /\ DOMAIN saved' \subseteq Attrs
         /\ store' = [b \in Attrs |-> store'[b]]
         /\ \A b \in Attrs : b # a \/ store'[a] = saved[a] => View(b)' = View(b)
         /\ a \notin Stubborn => store'[a] = saved[a]
<1>1. DOMAIN saved' = DOMAIN saved \ {a} /\ a \in DOMAIN saved
  BY DEF RestoreAttr
<1>2. \A b \in DOMAIN saved' : saved'[b] = saved[b]
  BY DEF RestoreAttr
<1>3. store' = [store EXCEPT ![a] = saved[a]] \/ (a \in Stubborn /\ store' = store)
  BY DEF RestoreAttr
<1> QED
  BY <1>1, <1>2, <1>3 DEF View, SnapshotTypeOK

LEMMA WriteKeeps ==
  ASSUME SnapshotInv, NEW a \in Attrs, NEW v, WriteAttr(a, v) \/ WriteFails(a, v)
  PROVE  SnapshotInv'
<1>1. /\ Captures(a) /\ store' = [store EXCEPT ![a] = v] /\ before' = before /\ crashes' = crashes
      /\ phase' \in {"open", "restoring"}
  BY DEF WriteAttr, WriteFails
<1>2. /\ DOMAIN saved' \subseteq Attrs
      /\ \A b \in Sound : View(b)' = View(b)
  BY <1>1, WriteView DEF SnapshotInv, Sound
<1> QED
  BY <1>1, <1>2, KeepsAll DEF SnapshotInv, SnapshotTypeOK, Rest, CanRollBack, Keeps

LEMMA RestoreKeeps ==
  ASSUME SnapshotInv, NEW a \in Attrs, RestoreAttr(a)
  PROVE  SnapshotInv'
<1>1. phase = "restoring" /\ UNCHANGED <<phase, before, crashes>>
  BY DEF RestoreAttr
<1>2. /\ DOMAIN saved' \subseteq Attrs
      /\ store' = [b \in Attrs |-> store'[b]]
      /\ \A b \in Sound : View(b)' = View(b)
  BY RestoreView DEF SnapshotInv, Sound
<1> QED
  BY <1>1, <1>2, KeepsAll DEF SnapshotInv, SnapshotTypeOK, Rest, CanRollBack, Keeps

\* The steps that write nothing.
LEMMA OthersKeep ==
  ASSUME SnapshotInv,
         BeginTx \/ StepFails \/ RestoreDone \/ Commit \/ Crash \/ UNCHANGED snapshotVars
  PROVE  SnapshotInv'
<1> USE DEF SnapshotInv, SnapshotTypeOK, Rest
<1>0. \A a \in Sound : Keeps(a)
  BY KeepsAll
<1>1. CASE BeginTx
  BY <1>0, <1>1 DEF BeginTx, CanRollBack, Keeps, View
<1>2. CASE StepFails
  BY <1>0, <1>2 DEF StepFails, CanRollBack, Keeps, View
<1>3. CASE RestoreDone
  BY <1>3 DEF RestoreDone, CanRollBack
<1>4. CASE Commit
  BY <1>4 DEF Commit, CanRollBack, Nothing
<1>5. CASE Crash
  BY <1>5 DEF Crash, CanRollBack, Nothing
<1>6. CASE UNCHANGED snapshotVars
  BY <1>6 DEF snapshotVars, CanRollBack, View
<1> QED
  BY <1>1, <1>2, <1>3, <1>4, <1>5, <1>6

LEMMA InitSnapshotInv == InitSnapshot => SnapshotInv
BY DEF InitSnapshot, SnapshotInv, SnapshotTypeOK, Rest, CanRollBack, Nothing

LEMMA NextSnapshotInv == SnapshotInv /\ [NextSnapshot]_snapshotVars => SnapshotInv'
BY WriteKeeps, RestoreKeeps, OthersKeep DEF NextSnapshot

\* The strengthening holds in every state.
THEOREM SnapshotInvariant == SpecSnapshot => []SnapshotInv
BY InitSnapshotInv, NextSnapshotInv, PTL DEF SpecSnapshot

\* At every moment, whatever was written by then in which order and whatever
\* failed, putting back what was captured would give the state before it.
THEOREM RollBackIsPossible == SpecSnapshot => []CanRollBack
<1>1. SnapshotInv => CanRollBack
  BY DEF SnapshotInv
<1> QED
  BY <1>1, SnapshotInvariant, PTL

\* The end of a request that failed.
LEMMA RestoredIsBefore ==
  ASSUME SnapshotInv, RestoreDone, NEW a \in Sound
  PROVE  store'[a] = before[a]
BY DEF SnapshotInv, CanRollBack, RestoreDone, View

\* A request that fails leaves every attribute that can be read and written as
\* it was before the request.
THEOREM RequestsAreAllOrNothing == SpecSnapshot => AllOrNothing
<1>1. SnapshotInv /\ [NextSnapshot]_snapshotVars =>
        [phase = "restoring" /\ phase' = "idle" /\ crashes' = crashes =>
           \A a \in Sound : store'[a] = before[a]]_snapshotVars
  <2> SUFFICES ASSUME SnapshotInv, NextSnapshot,
                      phase = "restoring", phase' = "idle", crashes' = crashes
               PROVE  \A a \in Sound : store'[a] = before[a]
    BY DEF snapshotVars
  <2>1. RestoreDone
    BY DEF NextSnapshot, BeginTx, WriteAttr, WriteFails, StepFails, RestoreAttr, Commit, Crash,
           SnapshotInv, SnapshotTypeOK
  <2> QED
    BY <2>1, RestoredIsBefore
<1> QED
  BY <1>1, SnapshotInvariant, PTL DEF SpecSnapshot, AllOrNothing

-----------------------------------------------------------------------------
(* Sequences of writes *)

\* The value of an attribute in a store of Relations, and all of them.
Value(st, a) == IF a \in RelAttrs THEN st.rel[a[2]][a[3]] ELSE st.list[a[2]][a[3]]

AttrsOf(st) == [a \in Attrs |-> Value(st, a)]

\* What an attribute can hold.
GoodValue(a, v) == IF a \in RelAttrs THEN v = [g \in Files |-> v[g]] ELSE IsFiniteSet(v)

GoodStore(st) ==
  /\ st.rel = [f \in Files |-> [T \in Types |-> st.rel[f][T]]]
  /\ \A f \in Files, T \in Types : st.rel[f][T] = [g \in Files |-> st.rel[f][T][g]]
  /\ st.list = [f \in Files |-> [L \in {"SEN:TO", "SEN:META"} |-> st.list[f][L]]]
  /\ \A f \in Files, L \in {"SEN:TO", "SEN:META"} : IsFiniteSet(st.list[f][L])

IsSeq(w) == w \in Seq({w[i] : i \in DOMAIN w})

\* A script: a sequence of writes of attributes.
Script(w) == IsSeq(w) /\ \A i \in DOMAIN w : w[i].attr \in Attrs /\ GoodValue(w[i].attr, w[i].value)

\* From its k-th write on (0: from the beginning) w leaves a with the value v.
SettlesAt(st, w, a, v, k) ==
  /\ k = 0 => st[a] = v
  /\ k > 0 => w[k].attr = a /\ w[k].value = v
  /\ \A j \in k + 1 .. Len(w) : w[j].attr = a => w[j].value = v

\* The writes w of a request take the attributes from st to goal.
Leads(st, w, goal) == \A a \in Attrs : \E k \in 0 .. Len(w) : SettlesAt(st, w, a, goal[a], k)

LEMMA SeqIsSeq == ASSUME NEW S, NEW w \in Seq(S) PROVE IsSeq(w)
BY DEF IsSeq

LEMMA NoWrites ==
  ASSUME NEW st, NEW goal, st = [a \in Attrs |-> st[a]], goal = [a \in Attrs |-> goal[a]]
  PROVE  Script(<<>>) /\ (Leads(st, <<>>, goal) <=> st = goal)
<1>1. IsSeq(<<>>) /\ Len(<<>>) = 0 /\ DOMAIN <<>> = {}
  BY DEF IsSeq
<1>2. Script(<<>>)
  BY <1>1 DEF Script
<1>3. ASSUME NEW a \in Attrs PROVE (\E k \in 0 .. Len(<<>>) : SettlesAt(st, <<>>, a, goal[a], k)) <=> st[a] = goal[a]
  <2>1. SettlesAt(st, <<>>, a, goal[a], 0) <=> st[a] = goal[a]
    BY <1>1 DEF SettlesAt
  <2>2. \A k : k \in 0 .. Len(<<>>) <=> k = 0
    BY <1>1
  <2> QED
    BY <2>1, <2>2
<1>4. Leads(st, <<>>, goal) <=> \A a \in Attrs : st[a] = goal[a]
  BY <1>3 DEF Leads
<1>5. (\A a \in Attrs : st[a] = goal[a]) <=> st = goal
  OBVIOUS
<1> QED
  BY <1>2, <1>4, <1>5

LEMMA ScriptTail ==
  ASSUME NEW w, Script(w), w # <<>>
  PROVE  /\ Script(Tail(w))
         /\ Len(w) \in Nat \ {0} /\ Len(Tail(w)) = Len(w) - 1 /\ Head(w) = w[1] /\ DOMAIN w = 1 .. Len(w)
         /\ \A i \in 1 .. Len(w) - 1 : i \in DOMAIN Tail(w) /\ Tail(w)[i] = w[i + 1]
<1> DEFINE S == {w[i] : i \in DOMAIN w}
<1>1. w \in Seq(S) /\ Len(w) \in Nat \ {0} /\ Head(w) = w[1]
  BY DEF Script, IsSeq
<1>2. /\ Tail(w) \in Seq(S) /\ Len(Tail(w)) = Len(w) - 1
      /\ \A i \in 1 .. Len(w) - 1 : Tail(w)[i] = w[i + 1]
      /\ DOMAIN Tail(w) = 1 .. Len(w) - 1 /\ DOMAIN w = 1 .. Len(w)
  BY <1>1
<1> DEFINE tail == Tail(w)
<1> HIDE DEF tail
<1>3. IsSeq(tail)
  BY <1>2, SeqIsSeq DEF tail
<1>4. \A i \in DOMAIN tail : i + 1 \in DOMAIN w /\ tail[i] = w[i + 1]
  BY <1>1, <1>2 DEF tail
<1>5. Script(tail)
  BY <1>3, <1>4 DEF Script
<1> QED
  BY <1>1, <1>2, <1>5 DEF tail

\* The first write is made.
LEMMA FirstWrite ==
  ASSUME NEW st, NEW goal, NEW w, st = [a \in Attrs |-> st[a]], Script(w), w # <<>>, Leads(st, w, goal)
  PROVE  Script(Tail(w)) /\ Leads([st EXCEPT ![Head(w).attr] = Head(w).value], Tail(w), goal)
<1> DEFINE tail == Tail(w)
           next == [st EXCEPT ![Head(w).attr] = Head(w).value]
<1>1. /\ Len(w) \in Nat \ {0} /\ Len(tail) = Len(w) - 1 /\ Head(w) = w[1]
      /\ \A i \in 1 .. Len(w) - 1 : tail[i] = w[i + 1]
  BY ScriptTail
<1>2. Script(tail)
  BY ScriptTail
<1> HIDE DEF tail, next
<1>3. ASSUME NEW a \in Attrs PROVE \E k \in 0 .. Len(tail) : SettlesAt(next, tail, a, goal[a], k)
  <2> PICK k \in 0 .. Len(w) : SettlesAt(st, w, a, goal[a], k)
    BY DEF Leads
  <2>1. \A j \in k + 1 .. Len(w) : w[j].attr = a => w[j].value = goal[a]
    BY DEF SettlesAt
  <2>2. CASE k > 1
    <3>1. tail[k - 1].attr = a /\ tail[k - 1].value = goal[a] /\ k - 1 > 0 /\ k - 1 \in 0 .. Len(tail)
      BY <1>1, <2>2 DEF SettlesAt
    <3>2. \A j \in (k - 1) + 1 .. Len(tail) : tail[j] = w[j + 1] /\ j + 1 \in k + 1 .. Len(w)
      BY <1>1, <2>2
    <3>3. SettlesAt(next, tail, a, goal[a], k - 1)
      BY <2>1, <3>1, <3>2 DEF SettlesAt
    <3> QED
      BY <3>1, <3>3
  <2>3. CASE k \in {0, 1}
    <3>1. next[a] = goal[a]
      <4>1. CASE w[1].attr = a
        <5>1. w[1].value = goal[a]
          BY <1>1, <2>1, <2>3, <4>1 DEF SettlesAt
        <5> QED
          BY <1>1, <4>1, <5>1 DEF next
      <4>2. CASE w[1].attr # a
        BY <1>1, <2>3, <4>2 DEF SettlesAt, next
      <4> QED
        BY <4>1, <4>2
    <3>2. \A j \in 0 + 1 .. Len(tail) : tail[j] = w[j + 1] /\ j + 1 \in k + 1 .. Len(w)
      BY <1>1, <2>3
    <3>3. SettlesAt(next, tail, a, goal[a], 0)
      BY <2>1, <3>1, <3>2 DEF SettlesAt
    <3>4. 0 \in 0 .. Len(tail)
      BY <1>1
    <3> QED
      BY <3>3, <3>4
  <2> QED
    BY <1>1, <2>2, <2>3
<1> QED
  BY <1>2, <1>3 DEF Leads, tail, next

\* One sequence after the other.
LEMMA WritesFollow ==
  ASSUME NEW st, NEW mid, NEW goal, NEW v, NEW w, Script(v), Script(w), Leads(st, v, mid), Leads(mid, w, goal)
  PROVE  Script(v \o w) /\ Leads(st, v \o w, goal)
<1> DEFINE S == {v[i] : i \in DOMAIN v} \cup {w[i] : i \in DOMAIN w}
           vw == v \o w
<1>1. v \in Seq(S) /\ w \in Seq(S) /\ Len(v) \in Nat /\ Len(w) \in Nat
  BY DEF Script, IsSeq
<1>2. /\ vw \in Seq(S) /\ Len(vw) = Len(v) + Len(w)
      /\ \A i \in 1 .. Len(v) : vw[i] = v[i]
      /\ \A i \in 1 .. Len(w) : vw[Len(v) + i] = w[i]
      /\ DOMAIN vw = 1 .. Len(v) + Len(w) /\ DOMAIN v = 1 .. Len(v) /\ DOMAIN w = 1 .. Len(w)
  BY <1>1
<1>3. \A i \in DOMAIN vw : i \in DOMAIN v \/ (i - Len(v) \in DOMAIN w /\ vw[i] = w[i - Len(v)])
  BY <1>1, <1>2
<1> HIDE DEF vw
<1>4. Script(vw)
  BY <1>2, <1>3, SeqIsSeq DEF Script
<1>5. ASSUME NEW a \in Attrs PROVE \E k \in 0 .. Len(vw) : SettlesAt(st, vw, a, goal[a], k)
  <2> PICK k \in 0 .. Len(w) : SettlesAt(mid, w, a, goal[a], k)
    BY DEF Leads
  <2> PICK i \in 0 .. Len(v) : SettlesAt(st, v, a, mid[a], i)
    BY DEF Leads
  <2>1. CASE k > 0
    <3>1. vw[Len(v) + k] = w[k] /\ Len(v) + k > 0 /\ Len(v) + k \in 0 .. Len(vw)
      BY <1>1, <1>2, <2>1
    <3>2. \A j \in Len(v) + k + 1 .. Len(vw) : vw[j] = w[j - Len(v)] /\ j - Len(v) \in k + 1 .. Len(w)
      BY <1>1, <1>2
    <3>3. w[k].attr = a /\ w[k].value = goal[a] /\ \A j \in k + 1 .. Len(w) : w[j].attr = a => w[j].value = goal[a]
      BY <2>1 DEF SettlesAt
    <3>4. \A j \in (Len(v) + k) + 1 .. Len(vw) : vw[j].attr = a => vw[j].value = goal[a]
      BY <3>2, <3>3
    <3>5. SettlesAt(st, vw, a, goal[a], Len(v) + k)
      BY <1>1, <3>1, <3>3, <3>4 DEF SettlesAt
    <3> QED
      BY <3>1, <3>5
  <2>2. CASE k = 0
    <3>1. mid[a] = goal[a] /\ \A j \in 1 .. Len(w) : w[j].attr = a => w[j].value = goal[a]
      BY <2>2 DEF SettlesAt
    <3>2. \A j \in i + 1 .. Len(vw) :
            \/ j \in i + 1 .. Len(v) /\ vw[j] = v[j]
            \/ j - Len(v) \in 1 .. Len(w) /\ vw[j] = w[j - Len(v)]
      BY <1>1, <1>2, <1>3
    <3>3. i > 0 => vw[i] = v[i]
      BY <1>1, <1>2
    <3>4. SettlesAt(st, vw, a, goal[a], i)
      BY <1>1, <3>1, <3>2, <3>3 DEF SettlesAt
    <3> QED
      BY <1>1, <1>2, <3>4
  <2> QED
    BY <1>1, <2>1, <2>2
<1> QED
  BY <1>4, <1>5 DEF Leads, vw

LEMMA GoodAttrs ==
  ASSUME NEW st, GoodStore(st), NEW a \in Attrs
  PROVE  /\ AttrsOf(st)[a] = Value(st, a)
         /\ GoodValue(a, Value(st, a))
         /\ a \in RelAttrs => a[2] \in Files /\ a[3] \in Types /\ a = RelAttr(a[2], a[3])
         /\ a \notin RelAttrs => /\ a \in ListAttrs /\ a[2] \in Files /\ a[3] \in {"SEN:TO", "SEN:META"}
                                 /\ a = <<"list", a[2], a[3]>>
<1>1. AttrsOf(st)[a] = Value(st, a)
  BY DEF AttrsOf
<1>2. a \in RelAttrs \/ a \in ListAttrs
  BY TxAttrsAssumption
<1>3. CASE a \in RelAttrs
  <2>1. a[2] \in Files /\ a[3] \in Types /\ a = RelAttr(a[2], a[3])
    BY <1>3 DEF RelAttrs, RelAttr
  <2>2. Value(st, a) = st.rel[a[2]][a[3]]
    BY <1>3 DEF Value
  <2> DEFINE v == st.rel[a[2]][a[3]]
  <2>3. v = [g \in Files |-> v[g]]
    BY <2>1 DEF GoodStore
  <2>4. GoodValue(a, v)
    BY <1>3, <2>3 DEF GoodValue
  <2> QED
    BY <1>1, <1>3, <2>1, <2>2, <2>4
<1>4. CASE a \notin RelAttrs
  <2>1. a[2] \in Files /\ a[3] \in {"SEN:TO", "SEN:META"} /\ a = <<"list", a[2], a[3]>>
    BY <1>2, <1>4 DEF ListAttrs
  <2>2. Value(st, a) = st.list[a[2]][a[3]]
    BY <1>4 DEF Value
  <2> QED
    BY <1>1, <1>2, <1>4, <2>1, <2>2 DEF GoodValue, GoodStore
<1> QED
  BY <1>3, <1>4

\* Only these attributes may differ.
Changed(old, new, attrs) == \A a \in Attrs : a \notin attrs => Value(old, a) = Value(new, a)

Includes(w, a) == \E i \in DOMAIN w : w[i] = a

LEMMA ConcatIncludes ==
  ASSUME NEW v \in Seq(Attrs), NEW w \in Seq(Attrs)
  PROVE  v \o w \in Seq(Attrs) /\ \A a : Includes(v, a) \/ Includes(w, a) => Includes(v \o w, a)
<1> DEFINE vw == v \o w
<1>1. /\ vw \in Seq(Attrs) /\ Len(v) \in Nat /\ Len(w) \in Nat
      /\ \A i \in 1 .. Len(v) : vw[i] = v[i]
      /\ \A i \in 1 .. Len(w) : vw[Len(v) + i] = w[i]
      /\ DOMAIN vw = 1 .. Len(v) + Len(w) /\ DOMAIN v = 1 .. Len(v) /\ DOMAIN w = 1 .. Len(w)
  OBVIOUS
<1>2. ASSUME NEW a, Includes(v, a) PROVE Includes(vw, a)
  <2> HIDE DEF vw
  <2> QED
    BY <1>1, <1>2 DEF Includes
<1>3. ASSUME NEW a, Includes(w, a) PROVE Includes(vw, a)
  <2> HIDE DEF vw
  <2> PICK i \in DOMAIN w : w[i] = a
    BY <1>3 DEF Includes
  <2>1. Len(v) + i \in DOMAIN vw /\ vw[Len(v) + i] = a
    BY <1>1
  <2> QED
    BY <2>1 DEF Includes
<1> QED
  BY <1>1, <1>2, <1>3

LEMMA TupleIncludes ==
  ASSUME NEW a \in Attrs, NEW b \in Attrs
  PROVE  /\ <<>> \in Seq(Attrs)
         /\ <<a>> \in Seq(Attrs) /\ Includes(<<a>>, a)
         /\ <<a, b>> \in Seq(Attrs) /\ Includes(<<a, b>>, a) /\ Includes(<<a, b>>, b)
<1>1. DOMAIN <<a>> = 1 .. 1 /\ DOMAIN <<a, b>> = 1 .. 2 /\ <<a>>[1] = a /\ <<a, b>>[1] = a /\ <<a, b>>[2] = b
  OBVIOUS
<1>2. Includes(<<a>>, a) /\ Includes(<<a, b>>, a) /\ Includes(<<a, b>>, b)
  BY <1>1 DEF Includes
<1> QED
  BY <1>2

Has(w, a, v) == \E i \in DOMAIN w : w[i].attr = a /\ w[i].value = v

\* w writes every attribute whose new value is another.
Covers(old, w, new) == \A a \in Attrs : Value(new, a) = Value(old, a) \/ Has(w, a, Value(new, a))

LEMMA ConcatHas ==
  ASSUME NEW v, NEW w, Script(v), Script(w), NEW a, NEW x, Has(v, a, x) \/ Has(w, a, x)
  PROVE  Has(v \o w, a, x)
<1> DEFINE S == {v[i] : i \in DOMAIN v} \cup {w[i] : i \in DOMAIN w}
           vw == v \o w
<1>1. v \in Seq(S) /\ w \in Seq(S) /\ Len(v) \in Nat /\ Len(w) \in Nat
  BY DEF Script, IsSeq
<1>2. /\ \A i \in 1 .. Len(v) : vw[i] = v[i]
      /\ \A i \in 1 .. Len(w) : vw[Len(v) + i] = w[i]
      /\ DOMAIN vw = 1 .. Len(v) + Len(w) /\ DOMAIN v = 1 .. Len(v) /\ DOMAIN w = 1 .. Len(w)
  BY <1>1
<1> HIDE DEF vw
<1>3. CASE Has(v, a, x)
  <2> PICK i \in DOMAIN v : v[i].attr = a /\ v[i].value = x
    BY <1>3 DEF Has
  <2>1. i \in DOMAIN vw /\ vw[i] = v[i]
    BY <1>1, <1>2
  <2> QED
    BY <2>1 DEF Has, vw
<1>4. CASE Has(w, a, x)
  <2> PICK i \in DOMAIN w : w[i].attr = a /\ w[i].value = x
    BY <1>4 DEF Has
  <2>1. Len(v) + i \in DOMAIN vw /\ vw[Len(v) + i] = w[i]
    BY <1>1, <1>2
  <2> QED
    BY <2>1 DEF Has, vw
<1> QED
  BY <1>3, <1>4

LEMMA TailHas ==
  ASSUME NEW w, Script(w), w # <<>>, NEW a, NEW v, Has(w, a, v)
  PROVE  (Head(w).attr = a /\ Head(w).value = v) \/ Has(Tail(w), a, v)
<1> PICK i \in DOMAIN w : w[i].attr = a /\ w[i].value = v
  BY DEF Has
<1>1. /\ Len(w) \in Nat \ {0} /\ Head(w) = w[1] /\ DOMAIN w = 1 .. Len(w)
      /\ \A k \in 1 .. Len(w) - 1 : k \in DOMAIN Tail(w) /\ Tail(w)[k] = w[k + 1]
  BY ScriptTail
<1>2. CASE i = 1
  BY <1>1, <1>2
<1>3. CASE i # 1
  <2>1. i - 1 \in 1 .. Len(w) - 1 /\ w[(i - 1) + 1] = w[i]
    BY <1>1, <1>3
  <2>2. i - 1 \in DOMAIN Tail(w) /\ Tail(w)[i - 1] = w[i]
    BY <1>1, <2>1
  <2> QED
    BY <2>2 DEF Has
<1> QED
  BY <1>2, <1>3

\* The writes of all attributes that differ lead to the new store.
LEMMA WritesLead ==
  ASSUME NEW old, NEW new, GoodStore(new), NEW attrs \in Seq(Attrs),
         NEW changed, Changed(old, new, changed), \A a \in changed : Includes(attrs, a)
  PROVE  LET w == Writes(new, attrs) IN Script(w) /\ Leads(AttrsOf(old), w, AttrsOf(new)) /\ Covers(old, w, new)
<1> DEFINE w == Writes(new, attrs)
<1>1. Len(attrs) \in Nat /\ DOMAIN attrs = 1 .. Len(attrs)
  OBVIOUS
<1>2. ASSUME NEW i \in DOMAIN attrs
      PROVE  w[i].attr = attrs[i] /\ w[i].value = Value(new, attrs[i]) /\ attrs[i] \in Attrs
  BY DEF Writes, Value
<1>3. DOMAIN w = 1 .. Len(attrs) /\ w \in Seq({w[i] : i \in DOMAIN w}) /\ Len(w) = Len(attrs)
  BY <1>1 DEF Writes
<1> HIDE DEF w
<1>4. Script(w)
  BY <1>1, <1>2, <1>3, GoodAttrs DEF Script, IsSeq
<1>5. ASSUME NEW a \in Attrs
      PROVE  \E k \in 0 .. Len(w) : SettlesAt(AttrsOf(old), w, a, AttrsOf(new)[a], k)
  <2>1. AttrsOf(old)[a] = Value(old, a) /\ AttrsOf(new)[a] = Value(new, a)
    BY DEF AttrsOf
  <2>2. CASE \E i \in DOMAIN attrs : attrs[i] = a
    BY <1>1, <1>2, <1>3, <2>1, <2>2 DEF SettlesAt
  <2>3. CASE \A i \in DOMAIN attrs : attrs[i] # a
    <3>1. SettlesAt(AttrsOf(old), w, a, AttrsOf(new)[a], 0)
      BY <1>1, <1>2, <1>3, <2>1, <2>3 DEF SettlesAt, Changed, Includes
    <3> QED
      BY <1>1, <1>3, <3>1
  <2> QED
    BY <2>2, <2>3
<1>6. Covers(old, w, new)
  BY <1>1, <1>2, <1>3 DEF Covers, Has, Changed, Includes
<1> QED
  BY <1>4, <1>5, <1>6 DEF Leads, w

-----------------------------------------------------------------------------
(* What the requests of Relations change, and that it is written *)

LEMMA AttrsOfPair ==
  ASSUME NEW f \in Files, NEW T \in Types
  PROVE  /\ RelAttr(f, T) \in RelAttrs /\ RelAttr(f, T) \in Attrs
         /\ ListAttr(f, T) \in ListAttrs /\ ListAttr(f, T) \in Attrs /\ ListAttr(f, T) \notin RelAttrs
<1>1. RelAttr(f, T) \in RelAttrs /\ ListAttr(f, T) \in ListAttrs
  BY DEF RelAttr, ListAttr, RelAttrs, ListAttrs, R!ListAttrFor
<1>2. ListAttr(f, T) \notin RelAttrs
  BY DEF ListAttr, RelAttrs
<1> QED
  BY <1>1, <1>2, TxAttrsAssumption

\* The relations of which files differ, and the lists.
LEMMA ChangedAttrs ==
  ASSUME NEW old, NEW new, NEW attrs, NEW T \in Types, GoodStore(old), GoodStore(new),
         \A f \in Files, U \in Types : (U = T /\ RelAttr(f, T) \in attrs) \/ new.rel[f][U] = old.rel[f][U],
         \A f \in Files, L \in {"SEN:TO", "SEN:META"} :
           (L = R!ListAttrFor(T) /\ ListAttr(f, T) \in attrs) \/ new.list[f][L] = old.list[f][L]
  PROVE  Changed(old, new, attrs)
<1> SUFFICES ASSUME NEW a \in Attrs, a \notin attrs PROVE Value(old, a) = Value(new, a)
  BY DEF Changed
<1>1. CASE a \in RelAttrs
  <2>1. a[2] \in Files /\ a[3] \in Types /\ a = RelAttr(a[2], a[3])
    BY <1>1, GoodAttrs
  <2> QED
    BY <1>1, <2>1 DEF Value
<1>2. CASE a \notin RelAttrs
  <2>1. a[2] \in Files /\ a[3] \in {"SEN:TO", "SEN:META"} /\ a = <<"list", a[2], a[3]>>
    BY <1>2, GoodAttrs
  <2>2. a[3] = R!ListAttrFor(T) => a = ListAttr(a[2], T)
    BY <2>1 DEF ListAttr
  <2> QED
    BY <1>2, <2>1, <2>2 DEF Value
<1> QED
  BY <1>1, <1>2

\* What AddRelationTx leaves alone: all but the relations of the two files of
\* one type, and their lists, the target only if the inverse is written.
AddChanges(st, new, s, t, T, p) ==
  LET forward  == st.rel[s][T][t]
      inverts  == s # t /\ R!ShouldWriteInverse(T, s, t)
  IN /\ GoodStore(new)
     /\ \A f \in Files, U \in Types : U # T \/ f \notin {s, t} => new.rel[f][U] = st.rel[f][U]
     /\ R!InUse(forward, p) /\ ~R!CanFill(forward, p) => new.rel[s][T] = st.rel[s][T]
     /\ s # t /\ \/ ~inverts
                 \/ R!InUse(forward, p) /\ ~R!CanFill(forward, p)
                 \/ R!InUse(forward, p) /\ ~R!CanFill(st.rel[t][T][s], R!InverseProperties(T, p))
          => new.rel[t][T] = st.rel[t][T]
     /\ \A f \in Files, L \in {"SEN:TO", "SEN:META"} :
          \/ L # R!ListAttrFor(T) \/ f \notin {s, t} \/ R!InUse(forward, p)
          \/ s # t /\ f = t /\ ~inverts
          => new.list[f][L] = st.list[f][L]

LEMMA AddTxChanges ==
  ASSUME NEW st, GoodStore(st), NEW s \in Files, NEW t \in Files, NEW T \in Types, NEW p, NEW q
  PROVE  AddChanges(st, R!AddTx(st, {<<s, t>>}, T, p, q), s, t, T, p)
<1> DEFINE new == R!AddTx(st, {<<s, t>>}, T, p, q)
           M == R!ListAttrFor(T)
           forward == st.rel[s][T][t]
           inverts == s # t /\ R!ShouldWriteInverse(T, s, t)
           Column(f) == [g \in Files |-> IF <<f, g>> \in {<<s, t>>} THEN R!Forward(st.rel, T, f, g, p)
                                    ELSE IF <<g, f>> \in {<<s, t>>} /\ g # f /\ R!ShouldWriteInverse(T, g, f)
                                    THEN R!Opposite(st.rel, T, g, f, p, q)
                                    ELSE st.rel[f][T][g]]
           Targets(f) == {g \in Files : \/ <<f, g>> \in {<<s, t>>} /\ ~R!InUse(st.rel[f][T][g], p)
                                        \/ /\ <<g, f>> \in {<<s, t>>} /\ g # f /\ R!ShouldWriteInverse(T, g, f)
                                           /\ ~R!InUse(st.rel[g][T][f], p)}
<1>1. /\ new.rel = [f \in Files |-> [st.rel[f] EXCEPT ![T] = Column(f)]]
      /\ new.list = [f \in Files |-> [st.list[f] EXCEPT ![M] = @ \cup Targets(f)]]
  BY DEF R!AddTx
<1>2. M \in {"SEN:TO", "SEN:META"}
  BY DEF R!ListAttrFor
<1> HIDE DEF new, M
<1>3. ASSUME NEW f \in Files
      PROVE  /\ \A U \in Types : new.rel[f][U] = IF U = T THEN Column(f) ELSE st.rel[f][U]
             /\ \A L \in {"SEN:TO", "SEN:META"} :
                  new.list[f][L] = IF L = M THEN st.list[f][L] \cup Targets(f) ELSE st.list[f][L]
             /\ new.rel[f] = [U \in Types |-> new.rel[f][U]]
             /\ new.list[f] = [L \in {"SEN:TO", "SEN:META"} |-> new.list[f][L]]
  <2> HIDE DEF Column, Targets
  <2>1. st.rel[f] = [U \in Types |-> st.rel[f][U]]
    BY DEF GoodStore
  <2>2. st.list[f] = [L \in {"SEN:TO", "SEN:META"} |-> st.list[f][L]]
    BY DEF GoodStore
  <2>3. new.rel[f] = [st.rel[f] EXCEPT ![T] = Column(f)]
    BY <1>1
  <2>4. new.list[f] = [st.list[f] EXCEPT ![M] = @ \cup Targets(f)]
    BY <1>1
  <2>5. /\ \A U \in Types : new.rel[f][U] = IF U = T THEN Column(f) ELSE st.rel[f][U]
        /\ new.rel[f] = [U \in Types |-> new.rel[f][U]]
    BY <2>1, <2>3
  <2>6. /\ \A L \in {"SEN:TO", "SEN:META"} :
             new.list[f][L] = IF L = M THEN st.list[f][L] \cup Targets(f) ELSE st.list[f][L]
        /\ new.list[f] = [L \in {"SEN:TO", "SEN:META"} |-> new.list[f][L]]
    BY <1>2, <2>2, <2>4
  <2> QED
    BY <2>5, <2>6
<1>4. ASSUME NEW f \in Files PROVE Column(f) = [g \in Files |-> Column(f)[g]] /\ IsFiniteSet(Targets(f))
  <2>1. Targets(f) \subseteq {s} \cup {t}
    OBVIOUS
  <2>2. IsFiniteSet({s} \cup {t})
    BY FS_Singleton, FS_Union
  <2>3. IsFiniteSet(Targets(f))
    <3> HIDE DEF Targets
    <3> QED
      BY <2>1, <2>2, FS_Subset
  <2> QED
    BY <2>3
<1>5. GoodStore(new)
  <2> HIDE DEF Column, Targets
  <2>1. /\ new.rel = [f \in Files |-> [U \in Types |-> new.rel[f][U]]]
        /\ new.list = [f \in Files |-> [L \in {"SEN:TO", "SEN:META"} |-> new.list[f][L]]]
    BY <1>1, <1>3
  <2>2. ASSUME NEW f \in Files, NEW U \in Types PROVE new.rel[f][U] = [g \in Files |-> new.rel[f][U][g]]
    <3>1. st.rel[f][U] = [g \in Files |-> st.rel[f][U][g]]
      BY DEF GoodStore
    <3>2. new.rel[f][U] = IF U = T THEN Column(f) ELSE st.rel[f][U]
      BY <1>3
    <3>3. Column(f) = [g \in Files |-> Column(f)[g]]
      BY <1>4
    <3> QED
      BY <3>1, <3>2, <3>3
  <2>3. ASSUME NEW f \in Files, NEW L \in {"SEN:TO", "SEN:META"} PROVE IsFiniteSet(new.list[f][L])
    <3>1. IsFiniteSet(st.list[f][L])
      BY DEF GoodStore
    <3>2. IsFiniteSet(Targets(f))
      BY <1>4
    <3>3. IsFiniteSet(st.list[f][L] \cup Targets(f))
      BY <3>1, <3>2, FS_Union
    <3>4. new.list[f][L] = IF L = M THEN st.list[f][L] \cup Targets(f) ELSE st.list[f][L]
      BY <1>3
    <3> QED
      BY <3>1, <3>3, <3>4
  <2> QED
    BY <2>1, <2>2, <2>3 DEF GoodStore
<1>6. ASSUME NEW f \in Files, NEW U \in Types, U # T \/ f \notin {s, t} PROVE new.rel[f][U] = st.rel[f][U]
  <2>1. CASE U # T
    BY <1>3, <2>1
  <2>2. CASE U = T /\ f \notin {s, t}
    <3>1. Column(f) = [g \in Files |-> st.rel[f][T][g]]
      BY <2>2
    <3>2. Column(f) = st.rel[f][T]
      BY <3>1 DEF GoodStore
    <3> QED
      BY <1>3, <2>2, <3>2
  <2> QED
    BY <1>6, <2>1, <2>2
<1>7. ASSUME R!InUse(forward, p), ~R!CanFill(forward, p) PROVE new.rel[s][T] = st.rel[s][T]
  <2>1. R!Forward(st.rel, T, s, t, p) = st.rel[s][T][t]
    BY <1>7 DEF R!Forward, R!FillProvenance
  <2>2. s # t \/ <<s, s>> \in {<<s, t>>}
    OBVIOUS
  <2>3. Column(s) = [g \in Files |-> st.rel[s][T][g]]
    BY <2>1
  <2>4. st.rel[s][T] = [g \in Files |-> st.rel[s][T][g]]
    BY DEF GoodStore
  <2>5. new.rel[s][T] = Column(s)
    BY <1>3
  <2> QED
    BY <2>3, <2>4, <2>5
<1>8. ASSUME s # t, \/ ~inverts
                    \/ R!InUse(forward, p) /\ ~R!CanFill(forward, p)
                    \/ R!InUse(forward, p) /\ ~R!CanFill(st.rel[t][T][s], R!InverseProperties(T, p))
      PROVE  new.rel[t][T] = st.rel[t][T]
  <2>1. inverts => R!Opposite(st.rel, T, s, t, p, q) = st.rel[t][T][s]
    BY <1>8 DEF R!Opposite, R!FillProvenance
  <2>2. Column(t) = [g \in Files |-> st.rel[t][T][g]]
    BY <1>8, <2>1
  <2>3. st.rel[t][T] = [g \in Files |-> st.rel[t][T][g]]
    BY DEF GoodStore
  <2>4. new.rel[t][T] = Column(t)
    BY <1>3
  <2> QED
    BY <2>2, <2>3, <2>4
<1>9. ASSUME NEW f \in Files, NEW L \in {"SEN:TO", "SEN:META"},
             L # M \/ f \notin {s, t} \/ R!InUse(forward, p) \/ (s # t /\ f = t /\ ~inverts)
      PROVE  new.list[f][L] = st.list[f][L]
  <2>1. CASE L # M
    BY <1>3, <2>1
  <2>2. CASE f \notin {s, t} \/ R!InUse(forward, p) \/ (s # t /\ f = t /\ ~inverts)
    <3>1. Targets(f) = {}
      BY <2>2
    <3> HIDE DEF Targets
    <3>2. st.list[f][L] \cup Targets(f) = st.list[f][L]
      BY <3>1
    <3>3. new.list[f][L] = IF L = M THEN st.list[f][L] \cup Targets(f) ELSE st.list[f][L]
      BY <1>3
    <3> QED
      BY <3>2, <3>3
  <2> QED
    BY <1>9, <2>1, <2>2
<1> QED
  BY <1>5, <1>6, <1>7, <1>8, <1>9 DEF AddChanges, new, M

LEMMA AddLeads ==
  ASSUME NEW st, GoodStore(st), NEW s \in Files, NEW t \in Files, NEW T \in Types, NEW p, NEW q
  PROVE  LET new == R!AddTx(st, {<<s, t>>}, T, p, q)
             w   == AddWrites(st, s, t, T, p, q)
         IN GoodStore(new) /\ Script(w) /\ Leads(AttrsOf(st), w, AttrsOf(new)) /\ Covers(st, w, new)
<1> DEFINE new == R!AddTx(st, {<<s, t>>}, T, p, q)
           forward == st.rel[s][T][t]
           inverts == s # t /\ R!ShouldWriteInverse(T, s, t)
           inUse == R!InUse(forward, p)
           canFill == R!CanFill(forward, p)
           fills == inverts /\ R!CanFill(st.rel[t][T][s], R!InverseProperties(T, p))
           own == <<RelAttr(s, T), ListAttr(s, T)>>
           opposite == <<RelAttr(t, T), ListAttr(t, T)>>
           attrs == IF ~inUse THEN own \o (IF inverts THEN opposite ELSE <<>>)
                    ELSE IF canFill THEN <<RelAttr(s, T)>> \o (IF fills THEN <<RelAttr(t, T)>> ELSE <<>>)
                    ELSE <<>>
           changed == {a \in Attrs : Includes(attrs, a)}
<1>1. /\ GoodStore(new)
      /\ \A f \in Files, U \in Types : U # T \/ f \notin {s, t} => new.rel[f][U] = st.rel[f][U]
      /\ inUse /\ ~canFill => new.rel[s][T] = st.rel[s][T]
      /\ s # t /\ (~inverts \/ (inUse /\ ~canFill) \/ (inUse /\ ~fills)) => new.rel[t][T] = st.rel[t][T]
      /\ \A f \in Files, L \in {"SEN:TO", "SEN:META"} :
           L # R!ListAttrFor(T) \/ f \notin {s, t} \/ inUse \/ (s # t /\ f = t /\ ~inverts)
             => new.list[f][L] = st.list[f][L]
  <2> DEFINE canFillInverse == R!CanFill(st.rel[t][T][s], R!InverseProperties(T, p))
  <2> HIDE DEF inUse, canFill, inverts, new, canFillInverse
  <2>1. /\ GoodStore(new)
        /\ \A f \in Files, U \in Types : U # T \/ f \notin {s, t} => new.rel[f][U] = st.rel[f][U]
        /\ inUse /\ ~canFill => new.rel[s][T] = st.rel[s][T]
        /\ s # t /\ (~inverts \/ (inUse /\ ~canFill) \/ (inUse /\ ~canFillInverse)) => new.rel[t][T] = st.rel[t][T]
        /\ \A f \in Files, L \in {"SEN:TO", "SEN:META"} :
             L # R!ListAttrFor(T) \/ f \notin {s, t} \/ inUse \/ (s # t /\ f = t /\ ~inverts)
               => new.list[f][L] = st.list[f][L]
    <3>1. AddChanges(st, R!AddTx(st, {<<s, t>>}, T, p, q), s, t, T, p)
      BY AddTxChanges
    <3> QED
      BY <3>1 DEF AddChanges, inUse, canFill, inverts, new, canFillInverse, forward
  <2>2. fills <=> inverts /\ canFillInverse
    BY DEF canFillInverse
  <2> HIDE DEF fills
  <2> QED
    BY <2>1, <2>2
<1>2. AddWrites(st, s, t, T, p, q) = Writes(new, attrs)
  BY DEF AddWrites
<1> HIDE DEF new, forward, inverts, inUse, canFill, fills, attrs
<1>3. /\ RelAttr(s, T) \in Attrs /\ ListAttr(s, T) \in Attrs
      /\ RelAttr(t, T) \in Attrs /\ ListAttr(t, T) \in Attrs
  BY AttrsOfPair
<1>4. /\ <<>> \in Seq(Attrs)
      /\ <<RelAttr(s, T)>> \in Seq(Attrs) /\ Includes(<<RelAttr(s, T)>>, RelAttr(s, T))
      /\ <<RelAttr(t, T)>> \in Seq(Attrs) /\ Includes(<<RelAttr(t, T)>>, RelAttr(t, T))
      /\ own \in Seq(Attrs) /\ Includes(own, RelAttr(s, T)) /\ Includes(own, ListAttr(s, T))
      /\ opposite \in Seq(Attrs) /\ Includes(opposite, RelAttr(t, T)) /\ Includes(opposite, ListAttr(t, T))
  BY <1>3, TupleIncludes
<1> HIDE DEF own, opposite
<1>5. /\ attrs \in Seq(Attrs)
      /\ ~inUse \/ canFill => Includes(attrs, RelAttr(s, T))
      /\ inverts /\ (~inUse \/ (canFill /\ fills)) => Includes(attrs, RelAttr(t, T))
      /\ ~inUse => Includes(attrs, ListAttr(s, T))
      /\ ~inUse /\ inverts => Includes(attrs, ListAttr(t, T))
  <2>1. CASE ~inUse /\ inverts
    <3>1. attrs = own \o opposite
      BY <2>1 DEF attrs
    <3> QED
      BY <2>1, <3>1, <1>4, ConcatIncludes
  <2>2. CASE ~inUse /\ ~inverts
    <3>1. attrs = own \o <<>>
      BY <2>2 DEF attrs
    <3> QED
      BY <2>2, <3>1, <1>4, ConcatIncludes
  <2>3. CASE inUse /\ canFill /\ fills
    <3>1. attrs = <<RelAttr(s, T)>> \o <<RelAttr(t, T)>>
      BY <2>3 DEF attrs
    <3> QED
      BY <2>3, <3>1, <1>4, ConcatIncludes
  <2>4. CASE inUse /\ canFill /\ ~fills
    <3>1. attrs = <<RelAttr(s, T)>> \o <<>>
      BY <2>4 DEF attrs
    <3> QED
      BY <2>4, <3>1, <1>4, ConcatIncludes
  <2>5. CASE inUse /\ ~canFill
    <3>1. attrs = <<>>
      BY <2>5 DEF attrs
    <3> QED
      BY <2>5, <3>1, <1>4
  <2> QED
    BY <2>1, <2>2, <2>3, <2>4, <2>5
<1>6. ~inverts => ~fills
  BY DEF fills
<1>7. Changed(st, new, changed)
  <2>1. ASSUME NEW f \in Files, NEW U \in Types
        PROVE  (U = T /\ RelAttr(f, T) \in changed) \/ new.rel[f][U] = st.rel[f][U]
    BY <1>1, <1>3, <1>5, <1>6
  <2>2. ASSUME NEW f \in Files, NEW L \in {"SEN:TO", "SEN:META"}
        PROVE  (L = R!ListAttrFor(T) /\ ListAttr(f, T) \in changed) \/ new.list[f][L] = st.list[f][L]
    BY <1>1, <1>3, <1>5
  <2> HIDE DEF changed
  <2> QED
    BY <1>1, <2>1, <2>2, ChangedAttrs
<1>8. \A a \in changed : Includes(attrs, a)
  OBVIOUS
<1> HIDE DEF changed
<1> DEFINE w == Writes(new, attrs)
<1>9. Script(w) /\ Leads(AttrsOf(st), w, AttrsOf(new)) /\ Covers(st, w, new)
  BY <1>1, <1>5, <1>7, <1>8, WritesLead
<1> QED
  BY <1>1, <1>2, <1>9 DEF new

\* The writes of a request that changes the sets of one pair of files.
LEMMA PairLeads ==
  ASSUME NEW old, GoodStore(old), NEW new, GoodStore(new), NEW s \in Files, NEW t \in Files, NEW T \in Types,
         \A f \in Files, U \in Types : U # T \/ f \notin {s, t} => new.rel[f][U] = old.rel[f][U],
         s # t /\ new.rel[t][T][s] = old.rel[t][T][s] => new.rel[t][T] = old.rel[t][T],
         \A f \in Files, L \in {"SEN:TO", "SEN:META"} :
           \/ L # R!ListAttrFor(T) \/ f \notin {s, t}
           \/ f = s /\ new.rel[s][T][t] # <<>>
           \/ f = t /\ s # t /\ (new.rel[t][T][s] # <<>> \/ new.rel[t][T][s] = old.rel[t][T][s])
           => new.list[f][L] = old.list[f][L]
  PROVE  LET w == RemoveWrites(old, new, s, T, t) IN Script(w) /\ Leads(AttrsOf(old), w, AttrsOf(new))
<1> DEFINE Side(f, g) == <<RelAttr(f, T)>> \o (IF new.rel[f][T][g] = <<>> THEN <<ListAttr(f, T)>> ELSE <<>>)
           found == s # t /\ new.rel[t][T][s] # old.rel[t][T][s]
           attrs == Side(s, t) \o (IF found THEN Side(t, s) ELSE <<>>)
           changed == {a \in Attrs : Includes(attrs, a)}
<1>1. RemoveWrites(old, new, s, T, t) = Writes(new, attrs)
  BY DEF RemoveWrites
<1>2. ASSUME NEW f \in Files, NEW g
      PROVE  /\ Side(f, g) \in Seq(Attrs) /\ Includes(Side(f, g), RelAttr(f, T))
             /\ new.rel[f][T][g] = <<>> => Includes(Side(f, g), ListAttr(f, T))
             /\ RelAttr(f, T) \in Attrs /\ ListAttr(f, T) \in Attrs
  <2>1. RelAttr(f, T) \in Attrs /\ ListAttr(f, T) \in Attrs
    BY AttrsOfPair
  <2>2. /\ <<>> \in Seq(Attrs)
        /\ <<RelAttr(f, T)>> \in Seq(Attrs) /\ Includes(<<RelAttr(f, T)>>, RelAttr(f, T))
        /\ <<ListAttr(f, T)>> \in Seq(Attrs) /\ Includes(<<ListAttr(f, T)>>, ListAttr(f, T))
    BY <2>1, TupleIncludes
  <2>3. CASE new.rel[f][T][g] = <<>>
    <3>1. Side(f, g) = <<RelAttr(f, T)>> \o <<ListAttr(f, T)>>
      BY <2>3
    <3> QED
      BY <2>1, <2>2, <3>1, ConcatIncludes
  <2>4. CASE new.rel[f][T][g] # <<>>
    <3>1. Side(f, g) = <<RelAttr(f, T)>> \o <<>>
      BY <2>4
    <3> QED
      BY <2>1, <2>2, <2>4, <3>1, ConcatIncludes
  <2> QED
    BY <2>3, <2>4
<1> HIDE DEF Side
<1>3. /\ attrs \in Seq(Attrs)
      /\ \A a : Includes(Side(s, t), a) \/ (found /\ Includes(Side(t, s), a)) => Includes(attrs, a)
  <2>1. CASE found
    <3>1. attrs = Side(s, t) \o Side(t, s)
      BY <2>1
    <3>2. Side(s, t) \in Seq(Attrs) /\ Side(t, s) \in Seq(Attrs)
      BY <1>2
    <3> HIDE DEF attrs, found
    <3> QED
      BY <3>1, <3>2, ConcatIncludes
  <2>2. CASE ~found
    <3>1. attrs = Side(s, t) \o <<>>
      BY <2>2
    <3>2. Side(s, t) \in Seq(Attrs) /\ <<>> \in Seq(Attrs)
      BY <1>2
    <3> HIDE DEF attrs, found
    <3> QED
      BY <2>2, <3>1, <3>2, ConcatIncludes
  <2> QED
    BY <2>1, <2>2
<1> HIDE DEF attrs
<1>4. /\ RelAttr(s, T) \in changed
      /\ new.rel[s][T][t] = <<>> => ListAttr(s, T) \in changed
      /\ found => RelAttr(t, T) \in changed
      /\ found /\ new.rel[t][T][s] = <<>> => ListAttr(t, T) \in changed
  BY <1>2, <1>3
<1>5. \A a \in changed : Includes(attrs, a)
  OBVIOUS
<1> HIDE DEF changed
<1>6. Changed(old, new, changed)
  <2>1. ASSUME NEW f \in Files, NEW U \in Types
        PROVE  (U = T /\ RelAttr(f, T) \in changed) \/ new.rel[f][U] = old.rel[f][U]
    BY <1>4
  <2>2. ASSUME NEW f \in Files, NEW L \in {"SEN:TO", "SEN:META"}
        PROVE  (L = R!ListAttrFor(T) /\ ListAttr(f, T) \in changed) \/ new.list[f][L] = old.list[f][L]
    BY <1>4
  <2> QED
    BY <2>1, <2>2, ChangedAttrs
<1> QED
  BY <1>1, <1>3, <1>5, <1>6, WritesLead

LEMMA StorePairChanges ==
  ASSUME NEW st, GoodStore(st), NEW s \in Files, NEW t \in Files, NEW T \in Types, NEW forward, NEW inverse
  PROVE  LET new == R!StorePair(st, T, s, t, forward, inverse) IN
         /\ GoodStore(new)
         /\ \A f \in Files, U \in Types : U # T \/ f \notin {s, t} => new.rel[f][U] = st.rel[f][U]
         /\ new.rel[s][T][t] = forward
         /\ s # t => new.rel[t][T][s] = inverse
         /\ s # t /\ inverse = st.rel[t][T][s] => new.rel[t][T] = st.rel[t][T]
         /\ \A f \in Files, L \in {"SEN:TO", "SEN:META"} :
              \/ L # R!ListAttrFor(T) \/ f \notin {s, t}
              \/ f = s /\ forward # <<>>
              \/ f = t /\ s # t /\ (inverse # <<>> \/ inverse = st.rel[t][T][s])
              => new.list[f][L] = st.list[f][L]
<1> DEFINE new == R!StorePair(st, T, s, t, forward, inverse)
           M == R!ListAttrFor(T)
           Column(f) == [g \in Files |-> IF f = s /\ g = t THEN forward
                                    ELSE IF f = t /\ g = s THEN inverse ELSE st.rel[f][T][g]]
           found == s # t /\ st.rel[t][T][s] # <<>>
           Targets(f) == IF f = s THEN R!Unlisted(st.list[f][M], t, forward)
                         ELSE IF f = t /\ found THEN R!Unlisted(st.list[f][M], s, inverse) ELSE st.list[f][M]
<1>1. /\ new.rel = [f \in Files |-> [st.rel[f] EXCEPT ![T] = Column(f)]]
      /\ new.list = [f \in Files |-> [st.list[f] EXCEPT ![M] = Targets(f)]]
  BY DEF R!StorePair
<1>2. M \in {"SEN:TO", "SEN:META"}
  BY DEF R!ListAttrFor
<1> HIDE DEF new, M
<1>3. ASSUME NEW f \in Files
      PROVE  /\ \A U \in Types : new.rel[f][U] = IF U = T THEN Column(f) ELSE st.rel[f][U]
             /\ \A L \in {"SEN:TO", "SEN:META"} : new.list[f][L] = IF L = M THEN Targets(f) ELSE st.list[f][L]
             /\ new.rel[f] = [U \in Types |-> new.rel[f][U]]
             /\ new.list[f] = [L \in {"SEN:TO", "SEN:META"} |-> new.list[f][L]]
  <2> HIDE DEF Column, Targets
  <2>1. st.rel[f] = [U \in Types |-> st.rel[f][U]]
    BY DEF GoodStore
  <2>2. st.list[f] = [L \in {"SEN:TO", "SEN:META"} |-> st.list[f][L]]
    BY DEF GoodStore
  <2>3. new.rel[f] = [st.rel[f] EXCEPT ![T] = Column(f)]
    BY <1>1
  <2>4. new.list[f] = [st.list[f] EXCEPT ![M] = Targets(f)]
    BY <1>1
  <2>5. /\ \A U \in Types : new.rel[f][U] = IF U = T THEN Column(f) ELSE st.rel[f][U]
        /\ new.rel[f] = [U \in Types |-> new.rel[f][U]]
    BY <2>1, <2>3
  <2>6. /\ \A L \in {"SEN:TO", "SEN:META"} : new.list[f][L] = IF L = M THEN Targets(f) ELSE st.list[f][L]
        /\ new.list[f] = [L \in {"SEN:TO", "SEN:META"} |-> new.list[f][L]]
    BY <1>2, <2>2, <2>4
  <2> QED
    BY <2>5, <2>6
<1>4. ASSUME NEW f \in Files PROVE Column(f) = [g \in Files |-> Column(f)[g]] /\ IsFiniteSet(Targets(f))
  <2>1. Targets(f) \subseteq st.list[f][M]
    BY DEF R!Unlisted
  <2>2. IsFiniteSet(st.list[f][M])
    BY <1>2 DEF GoodStore
  <2>3. IsFiniteSet(Targets(f))
    <3> HIDE DEF Targets
    <3> QED
      BY <2>1, <2>2, FS_Subset
  <2> QED
    BY <2>3
<1>5. GoodStore(new)
  <2> HIDE DEF Column, Targets
  <2>1. /\ new.rel = [f \in Files |-> [U \in Types |-> new.rel[f][U]]]
        /\ new.list = [f \in Files |-> [L \in {"SEN:TO", "SEN:META"} |-> new.list[f][L]]]
    BY <1>1, <1>3
  <2>2. ASSUME NEW f \in Files, NEW U \in Types PROVE new.rel[f][U] = [g \in Files |-> new.rel[f][U][g]]
    <3>1. st.rel[f][U] = [g \in Files |-> st.rel[f][U][g]]
      BY DEF GoodStore
    <3>2. new.rel[f][U] = IF U = T THEN Column(f) ELSE st.rel[f][U]
      BY <1>3
    <3>3. Column(f) = [g \in Files |-> Column(f)[g]]
      BY <1>4
    <3> QED
      BY <3>1, <3>2, <3>3
  <2>3. ASSUME NEW f \in Files, NEW L \in {"SEN:TO", "SEN:META"} PROVE IsFiniteSet(new.list[f][L])
    <3>1. IsFiniteSet(st.list[f][L])
      BY DEF GoodStore
    <3>2. IsFiniteSet(Targets(f))
      BY <1>4
    <3>3. new.list[f][L] = IF L = M THEN Targets(f) ELSE st.list[f][L]
      BY <1>3
    <3> QED
      BY <3>1, <3>2, <3>3
  <2> QED
    BY <2>1, <2>2, <2>3 DEF GoodStore
<1>6. ASSUME NEW f \in Files, NEW U \in Types, U # T \/ f \notin {s, t} PROVE new.rel[f][U] = st.rel[f][U]
  <2>1. CASE U # T
    BY <1>3, <2>1
  <2>2. CASE U = T /\ f \notin {s, t}
    <3>1. Column(f) = [g \in Files |-> st.rel[f][T][g]]
      BY <2>2
    <3>2. Column(f) = st.rel[f][T]
      BY <3>1 DEF GoodStore
    <3> QED
      BY <1>3, <2>2, <3>2
  <2> QED
    BY <1>6, <2>1, <2>2
<1>7. new.rel[s][T][t] = forward /\ (s # t => new.rel[t][T][s] = inverse)
  <2>1. new.rel[s][T] = Column(s) /\ new.rel[t][T] = Column(t)
    BY <1>3
  <2> QED
    BY <2>1
<1>8. ASSUME s # t, inverse = st.rel[t][T][s] PROVE new.rel[t][T] = st.rel[t][T]
  <2>1. Column(t) = [g \in Files |-> st.rel[t][T][g]]
    BY <1>8
  <2>2. st.rel[t][T] = [g \in Files |-> st.rel[t][T][g]]
    BY DEF GoodStore
  <2>3. new.rel[t][T] = Column(t)
    BY <1>3
  <2> QED
    BY <2>1, <2>2, <2>3
<1>9. ASSUME NEW f \in Files, NEW L \in {"SEN:TO", "SEN:META"},
             \/ L # M \/ f \notin {s, t}
             \/ f = s /\ forward # <<>>
             \/ f = t /\ s # t /\ (inverse # <<>> \/ inverse = st.rel[t][T][s])
      PROVE  new.list[f][L] = st.list[f][L]
  <2>1. CASE L # M
    BY <1>3, <2>1
  <2>2. CASE L = M
    <3>1. Targets(f) = st.list[f][M]
      BY <1>9, <2>2 DEF R!Unlisted
    <3> HIDE DEF Targets
    <3> QED
      BY <1>3, <2>2, <3>1
  <2> QED
    BY <2>1, <2>2
<1> QED
  BY <1>5, <1>6, <1>7, <1>8, <1>9 DEF new, M

LEMMA RemoveOneLeads ==
  ASSUME NEW st, GoodStore(st), NEW s \in Files, NEW t \in Files, NEW T \in Types, NEW i
  PROVE  LET new == R!RemoveOne(st, s, T, t, i)
             w   == RemoveWrites(st, new, s, T, t)
         IN GoodStore(new) /\ Script(w) /\ Leads(AttrsOf(st), w, AttrsOf(new))
<1> DEFINE forward == R!RemoveSet(st.rel[s][T][t], i)
           inverse == IF R!FindsInverse(s, t) THEN R!InverseWithout(st.rel[t][T][s], st.rel[s][T][t][i].rid)
                      ELSE st.rel[t][T][s]
           new == R!StorePair(st, T, s, t, forward, inverse)
<1>1. R!RemoveOne(st, s, T, t, i) = new
  BY DEF R!RemoveOne
<1> HIDE DEF forward, inverse
<1>2. /\ GoodStore(new)
      /\ \A f \in Files, U \in Types : U # T \/ f \notin {s, t} => new.rel[f][U] = st.rel[f][U]
      /\ new.rel[s][T][t] = forward
      /\ s # t => new.rel[t][T][s] = inverse
      /\ s # t /\ inverse = st.rel[t][T][s] => new.rel[t][T] = st.rel[t][T]
      /\ \A f \in Files, L \in {"SEN:TO", "SEN:META"} :
           \/ L # R!ListAttrFor(T) \/ f \notin {s, t}
           \/ f = s /\ forward # <<>>
           \/ f = t /\ s # t /\ (inverse # <<>> \/ inverse = st.rel[t][T][s])
           => new.list[f][L] = st.list[f][L]
  BY StorePairChanges
<1> HIDE DEF new
<1>3. LET w == RemoveWrites(st, new, s, T, t) IN Script(w) /\ Leads(AttrsOf(st), w, AttrsOf(new))
  BY <1>2, PairLeads
<1> QED
  BY <1>1, <1>2, <1>3


LEMMA RemoveWholeLeads ==
  ASSUME NEW st, GoodStore(st), NEW s \in Files, NEW t \in Files, NEW T \in Types
  PROVE  LET new == R!RemoveWhole(st, s, {<<T, t>>})
             w   == RemoveWrites(st, new, s, T, t)
         IN GoodStore(new) /\ Script(w) /\ Leads(AttrsOf(st), w, AttrsOf(new))
<1> DEFINE gone == {<<T, t>>}
           new == R!RemoveWhole(st, s, gone)
           inverts(U, f) == <<U, f>> \in gone /\ R!FindsInverse(s, f)
           M == R!ListAttrFor(T)
           Sets(f, U, g) == IF (f = s /\ <<U, g>> \in gone) \/ (g = s /\ inverts(U, f)) THEN <<>> ELSE st.rel[f][U][g]
           Targets(f, L) ==
             IF f = s
             THEN st.list[f][L] \ {g \in Files : \E U \in Types : R!ListAttrFor(U) = L /\ <<U, g>> \in gone}
             ELSE IF \E U \in Types : R!ListAttrFor(U) = L /\ inverts(U, f) /\ st.rel[f][U][s] # <<>>
             THEN st.list[f][L] \ {s}
             ELSE st.list[f][L]
<1>1. /\ new.rel = [f \in Files |-> [U \in Types |-> [g \in Files |-> Sets(f, U, g)]]]
      /\ new.list = [f \in Files |-> [L \in {"SEN:TO", "SEN:META"} |-> Targets(f, L)]]
  BY DEF R!RemoveWhole, R!Lists
<1>2. M \in {"SEN:TO", "SEN:META"}
  BY DEF R!ListAttrFor
<1>3. ASSUME NEW f \in Files, NEW L \in {"SEN:TO", "SEN:META"}
      PROVE  /\ Targets(f, L) \subseteq st.list[f][L]
             /\ \/ L # M \/ f \notin {s, t}
                \/ f = t /\ s # t /\ (~R!FindsInverse(s, t) \/ st.rel[t][T][s] = <<>>)
                => Targets(f, L) = st.list[f][L]
  OBVIOUS
<1>4. ASSUME NEW f \in Files, NEW U \in Types, NEW g \in Files
      PROVE  /\ U # T \/ f \notin {s, t} => Sets(f, U, g) = st.rel[f][U][g]
             /\ f = t /\ s # t /\ (g # s \/ ~R!FindsInverse(s, t)) => Sets(f, U, g) = st.rel[f][U][g]
             /\ Sets(s, T, t) = <<>>
             /\ s # t /\ R!FindsInverse(s, t) => Sets(t, T, s) = <<>>
  OBVIOUS
<1> HIDE DEF new, Sets, Targets, M
<1>5. GoodStore(new)
  <2>1. /\ new.rel = [f \in Files |-> [U \in Types |-> new.rel[f][U]]]
        /\ \A f \in Files, U \in Types : new.rel[f][U] = [g \in Files |-> new.rel[f][U][g]]
    BY <1>1
  <2>2. new.list = [f \in Files |-> [L \in {"SEN:TO", "SEN:META"} |-> new.list[f][L]]]
    BY <1>1
  <2>3. ASSUME NEW f \in Files, NEW L \in {"SEN:TO", "SEN:META"} PROVE IsFiniteSet(new.list[f][L])
    <3>1. IsFiniteSet(st.list[f][L])
      BY DEF GoodStore
    <3>2. new.list[f][L] \subseteq st.list[f][L]
      BY <1>1, <1>3
    <3> QED
      BY <3>1, <3>2, FS_Subset
  <2> QED
    BY <2>1, <2>2, <2>3 DEF GoodStore
<1>6. ASSUME NEW f \in Files, NEW U \in Types, U # T \/ f \notin {s, t} PROVE new.rel[f][U] = st.rel[f][U]
  <2>1. st.rel[f][U] = [g \in Files |-> st.rel[f][U][g]]
    BY DEF GoodStore
  <2>2. new.rel[f][U] = [g \in Files |-> Sets(f, U, g)]
    BY <1>1
  <2>3. \A g \in Files : Sets(f, U, g) = st.rel[f][U][g]
    BY <1>4, <1>6
  <2> QED
    BY <2>1, <2>2, <2>3
<1>7. new.rel[s][T][t] = <<>> /\ new.rel[t][T][s] = Sets(t, T, s)
  BY <1>1, <1>4
<1>8. ASSUME s # t, new.rel[t][T][s] = st.rel[t][T][s] PROVE new.rel[t][T] = st.rel[t][T]
  <2>1. st.rel[t][T] = [g \in Files |-> st.rel[t][T][g]]
    BY DEF GoodStore
  <2>2. new.rel[t][T] = [g \in Files |-> Sets(t, T, g)]
    BY <1>1
  <2>3. \A g \in Files : Sets(t, T, g) = st.rel[t][T][g]
    BY <1>4, <1>7, <1>8
  <2> QED
    BY <2>1, <2>2, <2>3
<1>9. ASSUME NEW f \in Files, NEW L \in {"SEN:TO", "SEN:META"},
             \/ L # M \/ f \notin {s, t}
             \/ f = s /\ new.rel[s][T][t] # <<>>
             \/ f = t /\ s # t /\ (new.rel[t][T][s] # <<>> \/ new.rel[t][T][s] = st.rel[t][T][s])
      PROVE  new.list[f][L] = st.list[f][L]
  <2>1. new.list[f][L] = Targets(f, L)
    BY <1>1
  <2>2. s # t /\ R!FindsInverse(s, t) => new.rel[t][T][s] = <<>>
    BY <1>4, <1>7
  <2> QED
    BY <1>3, <1>7, <1>9, <2>1, <2>2
<1>10. LET w == RemoveWrites(st, new, s, T, t) IN Script(w) /\ Leads(AttrsOf(st), w, AttrsOf(new))
  BY <1>5, <1>6, <1>8, <1>9, PairLeads DEF M
<1> QED
  BY <1>5, <1>10 DEF new

\* An update of the properties changes no list, and the inverse only if the set is found there.
LEMMA ReplaceLeads ==
  ASSUME NEW st, GoodStore(st), NEW s \in Files, NEW t \in Files, NEW T \in Types,
         NEW i \in DOMAIN st.rel[s][T][t], NEW p
  PROVE  LET new == R!Replace(st, s, T, t, i, p)
             w   == ReplaceWrites(st, new, s, T, t, st.rel[s][T][t][i].rid)
         IN /\ GoodStore(new) /\ Script(w) /\ Leads(AttrsOf(st), w, AttrsOf(new))
            /\ \A f \in Files, L \in {"SEN:TO", "SEN:META"} : new.list[f][L] = st.list[f][L]
<1> DEFINE rid == st.rel[s][T][t][i].rid
           forward == R!ReplaceSet(st.rel[s][T][t], i, p)
           inverse == IF R!FindsInverse(s, t) THEN R!ReplaceInverse(T, st.rel[t][T][s], rid, p) ELSE st.rel[t][T][s]
           new == R!StorePair(st, T, s, t, forward, inverse)
           found == R!FindsInverse(s, t) /\ R!FindSet(st.rel[t][T][s], rid) # {}
           attrs == <<RelAttr(s, T)>> \o (IF found THEN <<RelAttr(t, T)>> ELSE <<>>)
           changed == {a \in Attrs : Includes(attrs, a)}
<1>1. R!Replace(st, s, T, t, i, p) = new /\ ReplaceWrites(st, new, s, T, t, rid) = Writes(new, attrs)
  BY DEF R!Replace, ReplaceWrites
<1>2. forward # <<>>
  <2>1. DOMAIN forward = DOMAIN st.rel[s][T][t]
    BY DEF R!ReplaceSet
  <2>2. i \in DOMAIN forward
    BY <2>1
  <2> HIDE DEF forward
  <2> QED
    BY <2>2
<1>3. inverse # <<>> \/ inverse = st.rel[t][T][s]
  <2>1. CASE found
    <3> DEFINE old == st.rel[t][T][s]
    <3>1. PICK k : k \in R!FindSet(old, rid)
      BY <2>1
    <3>2. k \in DOMAIN old
      BY <3>1 DEF R!FindSet
    <3>3. DOMAIN R!ReplaceInverse(T, old, rid, p) = DOMAIN old
      BY DEF R!ReplaceInverse, R!ReplaceSet
    <3>4. inverse = R!ReplaceInverse(T, old, rid, p)
      BY <2>1
    <3> HIDE DEF old, inverse
    <3>5. k \in DOMAIN inverse
      BY <3>2, <3>3, <3>4
    <3> QED
      BY <3>5
  <2>2. CASE ~found
    BY <2>2 DEF R!ReplaceInverse
  <2> QED
    BY <2>1, <2>2
<1>4. ~found => inverse = st.rel[t][T][s]
  BY DEF R!ReplaceInverse
<1> HIDE DEF forward, inverse, rid
<1>5. /\ GoodStore(new)
      /\ \A f \in Files, U \in Types : U # T \/ f \notin {s, t} => new.rel[f][U] = st.rel[f][U]
      /\ s # t /\ inverse = st.rel[t][T][s] => new.rel[t][T] = st.rel[t][T]
      /\ \A f \in Files, L \in {"SEN:TO", "SEN:META"} :
           \/ L # R!ListAttrFor(T) \/ f \notin {s, t}
           \/ f = s /\ forward # <<>>
           \/ f = t /\ s # t /\ (inverse # <<>> \/ inverse = st.rel[t][T][s])
           => new.list[f][L] = st.list[f][L]
  BY StorePairChanges
<1> HIDE DEF new, found
<1>6. \A f \in Files, L \in {"SEN:TO", "SEN:META"} : new.list[f][L] = st.list[f][L]
  BY <1>2, <1>3, <1>5
<1>7. /\ RelAttr(s, T) \in Attrs /\ RelAttr(t, T) \in Attrs
      /\ <<>> \in Seq(Attrs)
      /\ <<RelAttr(s, T)>> \in Seq(Attrs) /\ Includes(<<RelAttr(s, T)>>, RelAttr(s, T))
      /\ <<RelAttr(t, T)>> \in Seq(Attrs) /\ Includes(<<RelAttr(t, T)>>, RelAttr(t, T))
  BY AttrsOfPair, TupleIncludes
<1>8. /\ attrs \in Seq(Attrs)
      /\ Includes(attrs, RelAttr(s, T))
      /\ found => Includes(attrs, RelAttr(t, T))
  <2>1. CASE found
    <3>1. attrs = <<RelAttr(s, T)>> \o <<RelAttr(t, T)>>
      BY <2>1
    <3> HIDE DEF attrs
    <3> QED
      BY <3>1, <1>7, ConcatIncludes
  <2>2. CASE ~found
    <3>1. attrs = <<RelAttr(s, T)>> \o <<>>
      BY <2>2
    <3> HIDE DEF attrs
    <3> QED
      BY <2>2, <3>1, <1>7, ConcatIncludes
  <2> QED
    BY <2>1, <2>2
<1> HIDE DEF attrs
<1>9. Changed(st, new, changed) /\ \A a \in changed : Includes(attrs, a)
  <2>1. ASSUME NEW f \in Files, NEW U \in Types
        PROVE  (U = T /\ RelAttr(f, T) \in changed) \/ new.rel[f][U] = st.rel[f][U]
    BY <1>4, <1>5, <1>7, <1>8
  <2>2. \A a \in changed : Includes(attrs, a)
    OBVIOUS
  <2> HIDE DEF changed
  <2>3. ASSUME NEW f \in Files, NEW L \in {"SEN:TO", "SEN:META"}
        PROVE  (L = R!ListAttrFor(T) /\ ListAttr(f, T) \in changed) \/ new.list[f][L] = st.list[f][L]
    BY <1>6
  <2>4. Changed(st, new, changed)
    BY <1>5, <2>1, <2>3, ChangedAttrs
  <2> QED
    BY <2>2, <2>4
<1> HIDE DEF changed
<1>10. Script(Writes(new, attrs)) /\ Leads(AttrsOf(st), Writes(new, attrs), AttrsOf(new))
  BY <1>5, <1>8, <1>9, WritesLead
<1> QED
  BY <1>1, <1>5, <1>6, <1>10 DEF rid

\* A relation that moves: its properties, its new place, its old place.
LEMMA MoveLeads ==
  ASSUME NEW st, GoodStore(st), NEW s \in Files, NEW t \in Files, NEW T \in Types, NEW i,
         NEW to \in Files, NEW U \in Types, NEW p, NEW q
  PROVE  LET added == R!AddTx(st, {<<s, to>>}, U, p, q)
             new   == R!RemoveOne(added, s, T, t, i)
             w     == AddWrites(st, s, to, U, p, q) \o RemoveWrites(added, new, s, T, t)
         IN GoodStore(new) /\ Script(w) /\ Leads(AttrsOf(st), w, AttrsOf(new)) /\ Covers(st, w, added)
<1> DEFINE added == R!AddTx(st, {<<s, to>>}, U, p, q)
           new == R!RemoveOne(added, s, T, t, i)
           v == AddWrites(st, s, to, U, p, q)
           w == RemoveWrites(added, new, s, T, t)
<1>1. GoodStore(added) /\ Script(v) /\ Leads(AttrsOf(st), v, AttrsOf(added)) /\ Covers(st, v, added)
  BY AddLeads
<1> HIDE DEF added, v
<1>2. GoodStore(new) /\ Script(w) /\ Leads(AttrsOf(added), w, AttrsOf(new))
  BY <1>1, RemoveOneLeads
<1> HIDE DEF new, w
<1>3. Script(v \o w) /\ Leads(AttrsOf(st), v \o w, AttrsOf(new))
  BY <1>1, <1>2, WritesFollow
<1>4. Covers(st, v \o w, added)
  BY <1>1, <1>2, ConcatHas DEF Covers
<1> QED
  BY <1>2, <1>3, <1>4 DEF added, new, v, w

-----------------------------------------------------------------------------
(* The invariant of RelationTx *)

\* What each attribute holds, or is put back: no list is too long.
GoodContents(a, v) == GoodValue(a, v) /\ (a \in ListAttrs => Cardinality(v) <= MaxIds)

TxTypeOK ==
  /\ \A a \in Attrs : GoodContents(a, store[a])
  /\ \A a \in DOMAIN saved : GoodContents(a, saved[a])
  /\ Script(script)
  /\ phase # "open" => script = <<>>
  /\ phase = "idle" => ids = idsBefore /\ spoilt = {}

\* What the request that runs does to the view, if it is committed: the state
\* it ends in, the state whose lists must not be too long, and the ids it makes.
AddIs(goal, full, made, source, target, T, properties, sender, own) ==
  LET s == IF R!Swaps(T, source, target) THEN target ELSE source
      t == IF R!Swaps(T, source, target) THEN source ELSE target
      p == R!AddedProperties(T, properties, sender)
  IN /\ {s, t} \subseteq files
     /\ goal = R!AddTx(R!Store, {<<s, t>>}, T, p, R!AddedInverse(T, p, own))
     /\ R!FitsBounds(goal)
     /\ full = goal
     /\ made = {s, t}

AddMeant(goal, full, made) ==
  \E source, target \in Files, T \in Types, properties \in Inputs, sender \in Senders, own \in OwnLabels :
    AddIs(goal, full, made, source, target, T, properties, sender, own)

RemoveMeant(goal, full, made) ==
  /\ full = R!Store
  /\ made = {}
  /\ \E s, t \in Files, T \in Types : \E rid \in R!RequestIds(s, T, t), mode \in R!OneModes :
       \E i \in R!Addressed(R!Store.rel[s][T][t], rid, mode = "override") :
         s \in files /\ goal = R!RemoveOne(R!Store, s, T, t, i)

RemoveAllMeant(goal, full, made) ==
  /\ full = R!Store
  /\ made = {}
  /\ \E s, t \in Files, T \in Types, mode \in R!OneModes :
       /\ s \in files
       /\ R!RemovesAll(R!Store.rel[s][T][t], mode)
       /\ goal = R!RemoveWhole(R!Store, s, {<<T, t>>})

UpdateIs(goal, full, made, s, T, t, rid, properties, newTarget, newType, mode, i) ==
  LET to       == IF newTarget = NoFile THEN t ELSE newTarget
      U        == IF newType = NoType THEN T ELSE newType
      replaced == IF properties = NoProperties THEN R!Store ELSE R!Replace(R!Store, s, T, t, i, properties)
      set      == R!WithoutId(replaced.rel[s][T][t][i])
      added    == R!AddTx(replaced, {<<s, to>>}, U, set, R!InverseProperties(U, set))
  IN /\ s \in files
     /\ i \in R!Addressed(R!Store.rel[s][T][t], rid, mode = "override")
     /\ newTarget = NoFile => (newType = NoType \/ R!Resolves(t))
     /\ newTarget # NoFile => newTarget \in files
     /\ \/ to = t /\ U = T /\ goal = replaced /\ full = R!Store /\ made = {}
        \/ /\ to # t \/ U # T
           /\ R!FitsBounds(added)
           /\ goal = R!RemoveOne(added, s, T, t, i) /\ full = added /\ made = {s, to}

UpdateMeant(goal, full, made) ==
  \E s, t \in Files, T \in Types : \E rid \in R!RequestIds(s, T, t), properties \in Updates,
       newTarget \in Files \cup {NoFile}, mode \in R!OneModes :
    \E newType \in Types \cup (IF newTarget = NoFile THEN {NoType} ELSE {}), i \in DOMAIN R!Store.rel[s][T][t] :
      UpdateIs(goal, full, made, s, T, t, rid, properties, newTarget, newType, mode, i)

Meant(goal, full, made) ==
  \/ AddMeant(goal, full, made) \/ RemoveMeant(goal, full, made)
  \/ RemoveAllMeant(goal, full, made) \/ UpdateMeant(goal, full, made)

\* The lists of full are short enough, or still to be written (and then checked).
Passes(full) == \A a \in ListAttrs : Cardinality(Value(full, a)) <= MaxIds \/ Has(script, a, Value(full, a))

\* The writes that are left lead to goal.
Underway(goal, full) ==
  phase = "open" => GoodStore(goal) /\ Leads(store, script, AttrsOf(goal)) /\ Passes(full)

RequestInv ==
  phase # "idle" /\ spoilt = {} =>
    \E goal, full, made : Meant(goal, full, made) /\ ids = idsBefore \cup made /\ Underway(goal, full)

TxInv == SnapshotInv /\ TxTypeOK /\ RequestInv

\* What the requests mean hangs on nothing else.
LEMMA SameMeaning ==
  ASSUME files' = files, idsBefore' = idsBefore, ViewRel' = ViewRel, ViewList' = ViewList,
         NEW goal, NEW full, NEW made, Meant(goal, full, made)
  PROVE  Meant(goal, full, made)'
<1>1. R!Store' = R!Store
  BY DEF R!Store
<1>2. \A st, s, T, t, i : R!RemoveOne(st, s, T, t, i)' = R!RemoveOne(st, s, T, t, i)
  BY DEF R!RemoveOne, R!FindsInverse, R!Resolves
<1>3. \A st, s, T, t, i, p : R!Replace(st, s, T, t, i, p)' = R!Replace(st, s, T, t, i, p)
  BY DEF R!Replace, R!FindsInverse, R!Resolves
<1>4. \A st, s, gone : R!RemoveWhole(st, s, gone)' = R!RemoveWhole(st, s, gone)
  BY DEF R!RemoveWhole, R!FindsInverse, R!Resolves
<1>5. \A t : R!Resolves(t)' <=> R!Resolves(t)
  BY DEF R!Resolves
<1>6. \A T, p, sender : R!AddedProperties(T, p, sender)' = R!AddedProperties(T, p, sender)
  BY DEF R!AddedProperties, R!StickyClassifications
<1>7. ASSUME NEW source, NEW target, NEW T, NEW properties, NEW sender, NEW own,
             AddIs(goal, full, made, source, target, T, properties, sender, own)
      PROVE  AddIs(goal, full, made, source, target, T, properties, sender, own)'
  BY <1>1, <1>6, <1>7 DEF AddIs
<1>8. AddMeant(goal, full, made) => AddMeant(goal, full, made)'
  BY <1>7 DEF AddMeant
<1>9. \A s, T, t : R!RequestIds(s, T, t)' = R!RequestIds(s, T, t)
  BY DEF R!RequestIds
<1>10. RemoveMeant(goal, full, made) => RemoveMeant(goal, full, made)'
  BY <1>1, <1>2, <1>9 DEF RemoveMeant
<1>11. RemoveAllMeant(goal, full, made) => RemoveAllMeant(goal, full, made)'
  BY <1>1, <1>4 DEF RemoveAllMeant
<1>12. ASSUME NEW s, NEW t, NEW T, NEW rid, NEW properties, NEW newTarget, NEW newType, NEW mode, NEW i,
              UpdateIs(goal, full, made, s, T, t, rid, properties, newTarget, newType, mode, i)
       PROVE  UpdateIs(goal, full, made, s, T, t, rid, properties, newTarget, newType, mode, i)'
  BY <1>1, <1>2, <1>3, <1>5, <1>12 DEF UpdateIs
<1>13. UpdateMeant(goal, full, made) => UpdateMeant(goal, full, made)'
  BY <1>1, <1>9, <1>12 DEF UpdateMeant
<1> QED
  BY <1>8, <1>10, <1>11, <1>13 DEF Meant

\* The view of a store as attributes.
LEMMA StoreOfView ==
  ASSUME TxTypeOK
  PROVE  /\ GoodStore(R!Store)
         /\ \A a \in Attrs : Value(R!Store, a) = View(a) /\ GoodContents(a, View(a))
<1>1. R!Store.rel = ViewRel /\ R!Store.list = ViewList
  BY DEF R!Store
<1>2. ASSUME NEW a \in Attrs PROVE GoodContents(a, View(a))
  BY DEF View, TxTypeOK
<1>3. ASSUME NEW f \in Files, NEW T \in Types
      PROVE  /\ RelAttr(f, T) \in Attrs /\ ViewRel[f][T] = View(RelAttr(f, T))
             /\ ViewRel[f][T] = [g \in Files |-> ViewRel[f][T][g]]
  <2>1. RelAttr(f, T) \in RelAttrs /\ RelAttr(f, T) \in Attrs
    BY AttrsOfPair
  <2>2. ViewRel[f][T] = View(RelAttr(f, T))
    BY DEF ViewRel, RelAttr
  <2>3. GoodValue(RelAttr(f, T), ViewRel[f][T])
    BY <1>2, <2>1, <2>2 DEF GoodContents
  <2> QED
    BY <2>1, <2>2, <2>3 DEF GoodValue
<1>4. ASSUME NEW f \in Files, NEW L \in {"SEN:TO", "SEN:META"}
      PROVE  /\ <<"list", f, L>> \in Attrs /\ <<"list", f, L>> \notin RelAttrs
             /\ ViewList[f][L] = View(<<"list", f, L>>)
             /\ IsFiniteSet(ViewList[f][L])
  <2>1. <<"list", f, L>> \in Attrs /\ <<"list", f, L>> \notin RelAttrs
    BY TxAttrsAssumption DEF ListAttrs, RelAttrs
  <2>2. ViewList[f][L] = View(<<"list", f, L>>)
    BY DEF ViewList
  <2>3. GoodValue(<<"list", f, L>>, ViewList[f][L])
    BY <1>2, <2>1, <2>2 DEF GoodContents
  <2> QED
    BY <2>1, <2>2, <2>3 DEF GoodValue
<1>5. GoodStore(R!Store)
  <2>1. ViewRel = [f \in Files |-> [T \in Types |-> ViewRel[f][T]]]
    BY DEF ViewRel
  <2>2. ViewList = [f \in Files |-> [L \in {"SEN:TO", "SEN:META"} |-> ViewList[f][L]]]
    BY DEF ViewList
  <2> QED
    BY <1>1, <1>3, <1>4, <2>1, <2>2 DEF GoodStore
<1>6. ASSUME NEW a \in Attrs PROVE Value(R!Store, a) = View(a)
  <2>1. CASE a \in RelAttrs
    <3>1. a[2] \in Files /\ a[3] \in Types /\ a = RelAttr(a[2], a[3])
      BY <1>5, <2>1, GoodAttrs
    <3> QED
      BY <1>1, <1>3, <2>1, <3>1 DEF Value
  <2>2. CASE a \notin RelAttrs
    <3>1. a[2] \in Files /\ a[3] \in {"SEN:TO", "SEN:META"} /\ a = <<"list", a[2], a[3]>>
      BY <1>5, <2>2, GoodAttrs
    <3> QED
      BY <1>1, <1>4, <2>2, <3>1 DEF Value
  <2> QED
    BY <2>1, <2>2
<1> QED
  BY <1>2, <1>5, <1>6

\* The beginning of a request: nothing is captured yet, and nothing is written.
LEMMA Begun ==
  ASSUME TxInv, NEW writes, NEW about, Request(writes, about), NEW goal, NEW full, NEW made,
         Meant(goal, full, made), ids' = idsBefore \cup made,
         Script(writes), GoodStore(goal), Leads(AttrsOf(R!Store), writes, AttrsOf(goal)),
         \A a \in ListAttrs : Value(full, a) = Value(R!Store, a) \/ Has(writes, a, Value(full, a))
  PROVE  TxInv' /\ UNCHANGED R!vars
<1> USE DEF Request, BeginTx
<1>1. /\ phase = "idle" /\ phase' = "open" /\ spoilt' = spoilt /\ spoilt = {}
      /\ script' = writes /\ UNCHANGED <<store, saved, before, crashes, files, idsBefore>>
  BY DEF TxInv, TxTypeOK
<1>2. ViewRel' = ViewRel /\ ViewList' = ViewList
  BY <1>1 DEF ViewRel, ViewList, View
<1>3. UNCHANGED R!vars
  BY <1>1, <1>2 DEF R!vars
<1>4. SnapshotInv'
  BY OthersKeep DEF TxInv
<1>5. TxTypeOK'
  BY <1>1 DEF TxInv, TxTypeOK
<1>6. /\ store = AttrsOf(R!Store)
      /\ \A a \in Attrs : Value(R!Store, a) = View(a) /\ GoodContents(a, View(a))
  <2>1. \A a \in Attrs : Value(R!Store, a) = View(a) /\ GoodContents(a, View(a))
    BY StoreOfView DEF TxInv
  <2>2. \A a \in Attrs : View(a) = store[a]
    BY <1>1 DEF TxInv, SnapshotInv, Rest, View
  <2>3. store = [a \in Attrs |-> store[a]]
    BY DEF TxInv, SnapshotInv, SnapshotTypeOK
  <2> QED
    BY <2>1, <2>2, <2>3 DEF AttrsOf
<1>7. \A a \in ListAttrs : Cardinality(Value(full, a)) <= MaxIds \/ Has(writes, a, Value(full, a))
  <2> SUFFICES ASSUME NEW a \in ListAttrs
               PROVE  Cardinality(Value(full, a)) <= MaxIds \/ Has(writes, a, Value(full, a))
    OBVIOUS
  <2>1. a \in Attrs /\ Cardinality(Value(R!Store, a)) <= MaxIds
    BY <1>6, TxAttrsAssumption DEF GoodContents
  <2> QED
    BY <2>1
<1>8. Leads(store, writes, AttrsOf(goal))
  BY <1>6
<1>9. Underway(goal, full)'
  BY <1>1, <1>7, <1>8 DEF Underway, Passes
<1>10. Meant(goal, full, made)'
  BY <1>1, <1>2, SameMeaning
<1>11. RequestInv'
  BY <1>1, <1>9, <1>10 DEF RequestInv
<1> QED
  BY <1>3, <1>4, <1>5, <1>11 DEF TxInv

LEMMA BeginAddKeeps ==
  ASSUME TxInv, NEW source \in Files, NEW target \in Files, NEW T \in Types,
         NEW properties \in Inputs, NEW sender \in Senders, NEW own \in OwnLabels,
         BeginAdd(source, target, T, properties, sender, own)
  PROVE  TxInv' /\ UNCHANGED R!vars
<1> DEFINE s == IF R!Swaps(T, source, target) THEN target ELSE source
           t == IF R!Swaps(T, source, target) THEN source ELSE target
           p == R!AddedProperties(T, properties, sender)
           q == R!AddedInverse(T, p, own)
           goal == R!AddTx(R!Store, {<<s, t>>}, T, p, q)
           writes == AddWrites(R!Store, s, t, T, p, q)
<1>1. /\ {s, t} \subseteq files /\ R!FitsBounds(goal)
      /\ Request(writes, {{s, t}})
      /\ ids' = ids \cup {s, t} \cup R!StickyIds(T, properties)
  BY DEF BeginAdd
<1>2. s \in Files /\ t \in Files
  OBVIOUS
<1>3. AddMeant(goal, goal, {s, t})
  BY <1>1 DEF AddMeant, AddIs
<1>4. Meant(goal, goal, {s, t})
  BY <1>3 DEF Meant
<1>5. ids' = idsBefore \cup {s, t}
  <2>1. ids = idsBefore
    BY <1>1 DEF TxInv, TxTypeOK, Request, BeginTx
  <2>2. R!StickyIds(T, properties) = {}
    BY DEF R!StickyIds, R!StickyClassifications
  <2> QED
    BY <1>1, <2>1, <2>2
<1>6. GoodStore(R!Store)
  BY StoreOfView DEF TxInv
<1> HIDE DEF s, t, p, q
<1>7. GoodStore(goal) /\ Script(writes) /\ Leads(AttrsOf(R!Store), writes, AttrsOf(goal))
      /\ Covers(R!Store, writes, goal)
  BY <1>2, <1>6, AddLeads
<1> HIDE DEF goal, writes
<1>8. \A a \in ListAttrs : Value(goal, a) = Value(R!Store, a) \/ Has(writes, a, Value(goal, a))
  BY <1>7, TxAttrsAssumption DEF Covers
<1> QED
  BY <1>1, <1>4, <1>5, <1>7, <1>8, Begun

LEMMA BeginRemoveKeeps ==
  ASSUME TxInv, NEW s \in Files, NEW t \in Files, NEW T \in Types, NEW rid \in R!RequestIds(s, T, t),
         NEW mode \in R!OneModes, BeginRemove(s, T, t, rid, mode)
  PROVE  TxInv' /\ UNCHANGED R!vars
<1>1. PICK i \in R!Addressed(R!Store.rel[s][T][t], rid, mode = "override") :
        Request(RemoveWrites(R!Store, R!RemoveOne(R!Store, s, T, t, i), s, T, t), {{s, t}})
  BY DEF BeginRemove
<1> DEFINE goal == R!RemoveOne(R!Store, s, T, t, i)
           writes == RemoveWrites(R!Store, goal, s, T, t)
<1>2. s \in files /\ ids' = ids
  BY DEF BeginRemove
<1>3. RemoveMeant(goal, R!Store, {})
  BY <1>2 DEF RemoveMeant
<1>4. Meant(goal, R!Store, {})
  BY <1>3 DEF Meant
<1>5. ids' = idsBefore \cup {}
  BY <1>1, <1>2 DEF TxInv, TxTypeOK, Request, BeginTx
<1>6. GoodStore(R!Store)
  BY StoreOfView DEF TxInv
<1>7. GoodStore(goal) /\ Script(writes) /\ Leads(AttrsOf(R!Store), writes, AttrsOf(goal))
  BY <1>6, RemoveOneLeads
<1>8. Request(writes, {{s, t}})
  BY <1>1
<1> HIDE DEF goal, writes
<1> QED
  BY <1>4, <1>5, <1>7, <1>8, Begun

LEMMA BeginRemoveAllSetsKeeps ==
  ASSUME TxInv, NEW s \in Files, NEW t \in Files, NEW T \in Types, NEW mode \in R!OneModes,
         BeginRemoveAllSets(s, T, t, mode)
  PROVE  TxInv' /\ UNCHANGED R!vars
<1> DEFINE goal == R!RemoveWhole(R!Store, s, {<<T, t>>})
           writes == RemoveWrites(R!Store, goal, s, T, t)
<1>1. /\ s \in files /\ ids' = ids /\ R!RemovesAll(R!Store.rel[s][T][t], mode)
      /\ Request(writes, {{s, t}})
  BY DEF BeginRemoveAllSets
<1>3. RemoveAllMeant(goal, R!Store, {})
  BY <1>1 DEF RemoveAllMeant
<1>4. Meant(goal, R!Store, {})
  BY <1>3 DEF Meant
<1>5. ids' = idsBefore \cup {}
  BY <1>1 DEF TxInv, TxTypeOK, Request, BeginTx
<1>6. GoodStore(R!Store)
  BY StoreOfView DEF TxInv
<1>7. GoodStore(goal) /\ Script(writes) /\ Leads(AttrsOf(R!Store), writes, AttrsOf(goal))
  BY <1>6, RemoveWholeLeads
<1> HIDE DEF goal, writes
<1> QED
  BY <1>1, <1>4, <1>5, <1>7, Begun

LEMMA BeginUpdateKeeps ==
  ASSUME TxInv, NEW s \in Files, NEW t \in Files, NEW T \in Types, NEW rid \in R!RequestIds(s, T, t),
         NEW properties \in Updates, NEW newTarget \in Files \cup {NoFile}, NEW mode \in R!OneModes,
         NEW newType \in Types \cup (IF newTarget = NoFile THEN {NoType} ELSE {}),
         BeginUpdate(s, T, t, rid, properties, newTarget, newType, mode)
  PROVE  TxInv' /\ UNCHANGED R!vars
<1> DEFINE to == IF newTarget = NoFile THEN t ELSE newTarget
           U  == IF newType = NoType THEN T ELSE newType
           old == R!Store
           id(i)       == old.rel[s][T][t][i].rid
           replaced(i) == IF properties = NoProperties THEN old ELSE R!Replace(old, s, T, t, i, properties)
           set(i)      == R!WithoutId(replaced(i).rel[s][T][t][i])
           inverse(i)  == R!InverseProperties(U, set(i))
           added(i)    == R!AddTx(replaced(i), {<<s, to>>}, U, set(i), inverse(i))
           replaces(i) == IF properties = NoProperties THEN <<>> ELSE ReplaceWrites(old, replaced(i), s, T, t, id(i))
           new(i)      == R!RemoveOne(added(i), s, T, t, i)
           moves(i)    == AddWrites(replaced(i), s, to, U, set(i), inverse(i)) \o RemoveWrites(added(i), new(i), s, T, t)
<1>1. PICK i \in R!Addressed(old.rel[s][T][t], rid, mode = "override") :
        /\ newTarget = NoFile => ((newType = NoType) \/ R!Resolves(t))
        /\ newTarget # NoFile => newTarget \in files
        /\ \/ /\ to = t /\ U = T
              /\ Request(replaces(i), {{s, t}})
              /\ UNCHANGED ids
           \/ /\ to # t \/ U # T
              /\ R!FitsBounds(added(i))
              /\ Request(replaces(i) \o moves(i), {{s, t}, {s, to}})
              /\ ids' = ids \cup {s, to}
  BY DEF BeginUpdate
<1>2. s \in files
  BY DEF BeginUpdate
<1>3. i \in DOMAIN old.rel[s][T][t]
  BY DEF R!Addressed, R!FindSet
<1>4. GoodStore(old) /\ ids = idsBefore
  BY <1>1, StoreOfView DEF TxInv, TxTypeOK, Request, BeginTx
<1>5. to \in Files /\ U \in Types
  OBVIOUS
<1>6. /\ GoodStore(replaced(i)) /\ Script(replaces(i))
      /\ Leads(AttrsOf(old), replaces(i), AttrsOf(replaced(i)))
      /\ \A f \in Files, L \in {"SEN:TO", "SEN:META"} : replaced(i).list[f][L] = old.list[f][L]
  <2>1. CASE properties = NoProperties
    <3>1. replaced(i) = old /\ replaces(i) = <<>>
      BY <2>1
    <3>2. AttrsOf(old) = [a \in Attrs |-> AttrsOf(old)[a]]
      BY DEF AttrsOf
    <3>3. Script(<<>>) /\ Leads(AttrsOf(old), <<>>, AttrsOf(old))
      BY <3>2, NoWrites
    <3> HIDE DEF replaced, replaces, old
    <3> QED
      BY <1>4, <3>1, <3>3
  <2>2. CASE properties # NoProperties
    <3> DEFINE rep == R!Replace(old, s, T, t, i, properties)
               wri == ReplaceWrites(old, rep, s, T, t, id(i))
    <3>1. replaced(i) = rep /\ replaces(i) = wri
      BY <2>2
    <3>2. /\ GoodStore(rep) /\ Script(wri) /\ Leads(AttrsOf(old), wri, AttrsOf(rep))
          /\ \A f \in Files, L \in {"SEN:TO", "SEN:META"} : rep.list[f][L] = old.list[f][L]
      BY <1>3, <1>4, ReplaceLeads
    <3> HIDE DEF replaced, replaces, old, rep, wri
    <3> QED
      BY <3>1, <3>2
  <2> QED
    BY <2>1, <2>2
<1>7. CASE to = t /\ U = T
  <2>1. UpdateIs(replaced(i), old, {}, s, T, t, rid, properties, newTarget, newType, mode, i)
    BY <1>1, <1>2, <1>7 DEF UpdateIs
  <2>2. Request(replaces(i), {{s, t}}) /\ ids' = idsBefore \cup {}
    BY <1>1, <1>4, <1>7
  <2> DEFINE goal == replaced(i)
             writes == replaces(i)
  <2> HIDE DEF goal, writes, old
  <2>3. UpdateMeant(goal, old, {})
    BY <1>3, <2>1 DEF UpdateMeant, goal, old
  <2>4. Meant(goal, old, {})
    BY <2>3 DEF Meant
  <2> QED
    BY <1>6, <2>2, <2>4, Begun DEF goal, writes, old
<1>8. CASE to # t \/ U # T
  <2> DEFINE goal == new(i)
             full == added(i)
             rep == replaced(i)
             v == replaces(i)
             w == moves(i)
  <2>1. UpdateIs(goal, full, {s, to}, s, T, t, rid, properties, newTarget, newType, mode, i)
    BY <1>1, <1>2, <1>8 DEF UpdateIs
  <2>2. Request(v \o w, {{s, t}, {s, to}}) /\ ids' = idsBefore \cup {s, to}
    BY <1>1, <1>4, <1>8
  <2>3. UpdateMeant(goal, full, {s, to})
    <3> HIDE DEF goal, full, to
    <3> QED
      BY <1>3, <2>1 DEF UpdateMeant
  <2>4. Meant(goal, full, {s, to})
    BY <2>3 DEF Meant
  <2>5. GoodStore(goal) /\ Script(w) /\ Leads(AttrsOf(rep), w, AttrsOf(goal)) /\ Covers(rep, w, full)
    <3> HIDE DEF rep, to, U, set, inverse
    <3>1. GoodStore(rep)
      BY <1>6 DEF rep
    <3> QED
      BY <1>5, <3>1, MoveLeads DEF rep
  <2> HIDE DEF goal, full, rep, v, w, to, old
  <2>6. /\ GoodStore(rep) /\ Script(v) /\ Leads(AttrsOf(old), v, AttrsOf(rep))
        /\ \A f \in Files, L \in {"SEN:TO", "SEN:META"} : rep.list[f][L] = old.list[f][L]
    BY <1>6 DEF rep, v
  <2>7. Script(v \o w) /\ Leads(AttrsOf(old), v \o w, AttrsOf(goal))
    BY <2>5, <2>6, WritesFollow
  <2>8. \A a \in ListAttrs : Value(full, a) = Value(old, a) \/ Has(v \o w, a, Value(full, a))
    <3> SUFFICES ASSUME NEW a \in ListAttrs
                 PROVE  Value(full, a) = Value(old, a) \/ Has(v \o w, a, Value(full, a))
      OBVIOUS
    <3>1. a \in Attrs /\ a \notin RelAttrs /\ a[2] \in Files /\ a[3] \in {"SEN:TO", "SEN:META"}
      BY TxAttrsAssumption DEF ListAttrs, RelAttrs
    <3>2. Value(rep, a) = Value(old, a)
      BY <2>6, <3>1 DEF Value
    <3>3. Value(full, a) = Value(rep, a) \/ Has(w, a, Value(full, a))
      BY <2>5, <3>1 DEF Covers
    <3> QED
      BY <2>5, <2>6, <3>2, <3>3, ConcatHas
  <2> QED
    BY <2>2, <2>4, <2>5, <2>7, <2>8, Begun DEF old
<1> QED
  BY <1>7, <1>8

\* As long as nothing is spoilt the view stays as it is.
LEMMA WriteKeepsView ==
  ASSUME TxInv, NEW a \in Attrs, NEW v, WriteAttr(a, v) \/ WriteFails(a, v), Written(a), spoilt' = {}
  PROVE  spoilt = {} /\ \A b \in Attrs : View(b)' = View(b)
<1>1. spoilt = {} /\ a \in DOMAIN saved'
  BY DEF Written
<1>2. Captures(a) /\ store' = [store EXCEPT ![a] = v]
  BY DEF WriteAttr, WriteFails
<1>3. SnapshotTypeOK
  BY DEF TxInv, SnapshotInv
<1> QED
  BY <1>1, <1>2, <1>3, WriteView

LEMMA RestoreKeepsView ==
  ASSUME TxInv, RestoreNext, spoilt' = {}
  PROVE  spoilt = {} /\ \A b \in Attrs : View(b)' = View(b)
<1>1. PICK a \in Attrs : /\ RestoreAttr(a)
                         /\ \/ store'[a] = saved[a] /\ UNCHANGED spoilt
                            \/ store'[a] # saved[a] /\ Undamaged /\ spoilt' = spoilt \cup {a}
  BY DEF RestoreNext
<1>2. store'[a] = saved[a] /\ spoilt = {}
  BY <1>1
<1>3. SnapshotTypeOK
  BY DEF TxInv, SnapshotInv
<1> QED
  BY <1>1, <1>2, <1>3, RestoreView

LEMMA ViewStores ==
  ASSUME \A b \in Attrs : View(b)' = View(b)
  PROVE  ViewRel' = ViewRel /\ ViewList' = ViewList
<1>1. ASSUME NEW f \in Files, NEW T \in Types PROVE View(<<"SEN:REL", f, T>>)' = View(<<"SEN:REL", f, T>>)
  BY TxAttrsAssumption DEF RelAttrs
<1>2. ASSUME NEW f \in Files, NEW L \in {"SEN:TO", "SEN:META"}
      PROVE  View(<<"list", f, L>>)' = View(<<"list", f, L>>)
  BY TxAttrsAssumption DEF ListAttrs
<1> QED
  BY <1>1, <1>2 DEF ViewRel, ViewList

\* What was not written is not changed, and what was was good.
LEMMA ContentsStay ==
  ASSUME TxTypeOK, SnapshotTypeOK, NEW a \in Attrs, NEW v, GoodContents(a, v), WriteAttr(a, v) \/ WriteFails(a, v)
  PROVE  /\ \A b \in Attrs : GoodContents(b, store'[b])
         /\ \A b \in DOMAIN saved' : GoodContents(b, saved'[b])
<1>1. Captures(a) /\ store' = [store EXCEPT ![a] = v]
  BY DEF WriteAttr, WriteFails
<1>2. \A b \in Attrs : store'[b] = IF b = a THEN v ELSE store[b]
  BY <1>1 DEF SnapshotTypeOK
<1>3. ASSUME NEW b \in DOMAIN saved'
      PROVE  (b \in DOMAIN saved /\ saved'[b] = saved[b]) \/ (b \in Attrs /\ saved'[b] = store[b])
  BY <1>1, <1>3 DEF Captures, Capture, SnapshotTypeOK
<1> QED
  BY <1>2, <1>3 DEF TxTypeOK

\* A write that is not an overflow.
LEMMA GoodWrite ==
  ASSUME Script(script), script # <<>>
  PROVE  /\ Head(script).attr \in Attrs
         /\ ~Overflows(Head(script)) => GoodContents(Head(script).attr, Head(script).value)
<1>1. 1 \in DOMAIN script /\ Head(script) = script[1]
  BY DEF Script, IsSeq
<1>2. Head(script).attr \in Attrs /\ GoodValue(Head(script).attr, Head(script).value)
  BY <1>1 DEF Script
<1>3. ASSUME ~Overflows(Head(script)), Head(script).attr \in ListAttrs PROVE Cardinality(Head(script).value) <= MaxIds
  <2>1. Head(script).attr \notin RelAttrs
    BY <1>3 DEF ListAttrs, RelAttrs
  <2>2. Cardinality(Head(script).value) \in Nat
    BY <1>2, <2>1, FS_CardinalityType DEF GoodValue
  <2> QED
    BY <1>3, <2>2, TxBoundsAssumption DEF Overflows
<1> QED
  BY <1>2, <1>3 DEF GoodContents

LEMMA WriteNextKeeps ==
  ASSUME TxInv, WriteNext
  PROVE  TxInv' /\ (spoilt' = {} => UNCHANGED R!vars)
<1> DEFINE a == Head(script).attr
           v == Head(script).value
<1>1. /\ phase = "open" /\ phase' = "open" /\ UNCHANGED <<files, ids, idsBefore>>
      /\ script # <<>> /\ ~Overflows(Head(script)) /\ script' = Tail(script)
      /\ WriteAttr(a, v) /\ Written(a) /\ store' = [store EXCEPT ![a] = v]
  BY DEF WriteNext, WriteAttr, requestVars
<1>2. a \in Attrs /\ GoodContents(a, v) /\ Script(script)
  BY <1>1, GoodWrite DEF TxInv, TxTypeOK
<1>3. SnapshotInv'
  BY <1>1, <1>2, WriteKeeps DEF TxInv
<1>4. store = [b \in Attrs |-> store[b]] /\ SnapshotTypeOK
  BY DEF TxInv, SnapshotInv, SnapshotTypeOK
<1>5. Script(Tail(script))
  BY <1>1, <1>2, ScriptTail
<1>6. TxTypeOK'
  BY <1>1, <1>2, <1>4, <1>5, ContentsStay DEF TxInv, TxTypeOK
<1>7. ASSUME spoilt' = {} PROVE RequestInv' /\ UNCHANGED R!vars
  <2>1. spoilt = {} /\ ViewRel' = ViewRel /\ ViewList' = ViewList
    BY <1>1, <1>2, <1>7, WriteKeepsView, ViewStores
  <2>2. UNCHANGED R!vars
    BY <1>1, <2>1 DEF R!vars
  <2> PICK goal, full, made : Meant(goal, full, made) /\ ids = idsBefore \cup made /\ Underway(goal, full)
    BY <1>1, <2>1 DEF TxInv, RequestInv
  <2>3. Meant(goal, full, made)'
    BY <1>1, <2>1, SameMeaning
  <2>4. GoodStore(goal) /\ Leads(store, script, AttrsOf(goal)) /\ Passes(full)
    BY <1>1 DEF Underway
  <2>5. Leads([store EXCEPT ![a] = v], Tail(script), AttrsOf(goal))
    BY <1>1, <1>2, <1>4, <2>4, FirstWrite
  <2>6. ASSUME NEW b \in ListAttrs
        PROVE  Cardinality(Value(full, b)) <= MaxIds \/ Has(Tail(script), b, Value(full, b))
    <3>1. CASE Cardinality(Value(full, b)) <= MaxIds
      BY <3>1
    <3>2. CASE Has(script, b, Value(full, b))
      <4>1. (a = b /\ v = Value(full, b)) \/ Has(Tail(script), b, Value(full, b))
        BY <1>1, <1>2, <3>2, TailHas
      <4> QED
        BY <1>2, <2>6, <4>1 DEF GoodContents
    <3> QED
      BY <2>4, <3>1, <3>2 DEF Passes
  <2>7. Underway(goal, full)'
    BY <1>1, <2>4, <2>5, <2>6 DEF Underway, Passes
  <2> QED
    BY <1>1, <2>2, <2>3, <2>7 DEF RequestInv
<1>8. spoilt' # {} => RequestInv'
  BY DEF RequestInv
<1> QED
  BY <1>3, <1>6, <1>7, <1>8 DEF TxInv

\* A request that fails: its ids stay, the view stays, and nothing is written any more.
LEMMA FailedKeeps ==
  ASSUME TxInv, SnapshotInv', phase \in {"open", "restoring"}, phase' = "restoring", script' = <<>>,
         UNCHANGED <<files, ids, idsBefore>>,
         \A b \in Attrs : GoodContents(b, store'[b]),
         \A b \in DOMAIN saved' : GoodContents(b, saved'[b]),
         spoilt' = {} => spoilt = {} /\ \A b \in Attrs : View(b)' = View(b)
  PROVE  TxInv' /\ (spoilt' = {} => UNCHANGED R!vars)
<1>1. Script(<<>>)
  BY DEF Script, IsSeq
<1>2. TxTypeOK'
  BY <1>1 DEF TxTypeOK
<1>3. ASSUME spoilt' = {} PROVE RequestInv' /\ UNCHANGED R!vars
  <2>1. spoilt = {} /\ ViewRel' = ViewRel /\ ViewList' = ViewList
    BY <1>3, ViewStores
  <2> PICK goal, full, made : Meant(goal, full, made) /\ ids = idsBefore \cup made
    BY <2>1 DEF TxInv, RequestInv
  <2>2. Meant(goal, full, made)'
    BY <2>1, SameMeaning
  <2>3. Underway(goal, full)'
    BY DEF Underway
  <2>4. RequestInv'
    BY <2>2, <2>3 DEF RequestInv
  <2> QED
    BY <2>1, <2>4 DEF R!vars
<1>4. spoilt' # {} => RequestInv'
  BY DEF RequestInv
<1> QED
  BY <1>2, <1>3, <1>4 DEF TxInv

LEMMA WriteNextFailsKeeps ==
  ASSUME TxInv, WriteNextFails
  PROVE  TxInv' /\ (spoilt' = {} => UNCHANGED R!vars)
<1> DEFINE a == Head(script).attr
           empty == IF a \in ListAttrs THEN {} ELSE NoTargets
<1>1. PICK v \in {store[a], empty} : WriteFails(a, v) /\ Written(a)
  BY DEF WriteNextFails
<1>2. /\ phase = "open" /\ phase' = "restoring" /\ UNCHANGED <<files, ids, idsBefore>>
      /\ script # <<>> /\ script' = <<>>
  BY <1>1 DEF WriteNextFails, WriteFails, requestVars
<1>3. a \in Attrs /\ SnapshotTypeOK /\ TxTypeOK
  BY <1>2, GoodWrite DEF TxInv, TxTypeOK, SnapshotInv
<1>4. GoodContents(a, v)
  <2>1. GoodContents(a, store[a])
    BY <1>3 DEF TxTypeOK
  <2>2. GoodContents(a, empty)
    <3>1. CASE a \in ListAttrs
      <4>1. a \notin RelAttrs
        BY <3>1 DEF ListAttrs, RelAttrs
      <4>2. IsFiniteSet({}) /\ Cardinality({}) = 0
        BY FS_EmptySet
      <4> QED
        BY <3>1, <4>1, <4>2, TxBoundsAssumption DEF GoodContents, GoodValue
    <3>2. CASE a \notin ListAttrs
      <4>1. a \in RelAttrs
        BY <1>3, <3>2, TxAttrsAssumption
      <4> QED
        BY <3>2, <4>1 DEF GoodContents, GoodValue, NoTargets
    <3> QED
      BY <3>1, <3>2
  <2> QED
    BY <2>1, <2>2
<1>5. SnapshotInv'
  BY <1>1, <1>3, WriteKeeps DEF TxInv
<1>6. /\ \A b \in Attrs : GoodContents(b, store'[b])
      /\ \A b \in DOMAIN saved' : GoodContents(b, saved'[b])
  BY <1>1, <1>3, <1>4, ContentsStay
<1>7. spoilt' = {} => spoilt = {} /\ \A b \in Attrs : View(b)' = View(b)
  BY <1>1, <1>3, WriteKeepsView
<1> QED
  BY <1>2, <1>5, <1>6, <1>7, FailedKeeps

LEMMA StepFailsTxKeeps ==
  ASSUME TxInv, StepFailsTx
  PROVE  TxInv' /\ (spoilt' = {} => UNCHANGED R!vars)
<1>1. /\ phase = "open" /\ phase' = "restoring" /\ script' = <<>> /\ StepFails
      /\ UNCHANGED <<store, saved, files, ids, idsBefore, spoilt>>
  BY DEF StepFailsTx, StepFails, requestVars
<1>2. SnapshotInv'
  BY <1>1, OthersKeep DEF TxInv
<1>3. \A b \in Attrs : View(b)' = View(b)
  BY <1>1 DEF View
<1> QED
  BY <1>1, <1>2, <1>3, FailedKeeps DEF TxInv, TxTypeOK

LEMMA RestoreNextKeeps ==
  ASSUME TxInv, RestoreNext
  PROVE  TxInv' /\ (spoilt' = {} => UNCHANGED R!vars)
<1>1. PICK a \in Attrs : RestoreAttr(a)
  BY DEF RestoreNext
<1>2. /\ phase = "restoring" /\ phase' = "restoring" /\ UNCHANGED <<files, ids, idsBefore, script>>
      /\ a \in DOMAIN saved /\ saved' = [b \in DOMAIN saved \ {a} |-> saved[b]]
      /\ store' = [store EXCEPT ![a] = saved[a]] \/ store' = store
  BY <1>1 DEF RestoreNext, RestoreAttr, requestVars
<1>3. SnapshotInv'
  BY <1>1, RestoreKeeps DEF TxInv
<1>4. script' = <<>>
  BY <1>2 DEF TxInv, TxTypeOK
<1>5. /\ \A b \in Attrs : GoodContents(b, store'[b])
      /\ \A b \in DOMAIN saved' : GoodContents(b, saved'[b])
  BY <1>2 DEF TxInv, TxTypeOK, SnapshotInv, SnapshotTypeOK
<1> QED
  BY <1>2, <1>3, <1>4, <1>5, RestoreKeepsView, FailedKeeps

\* A request is over, or nothing runs and nothing is captured.
LEMMA RestKeeps ==
  ASSUME SnapshotInv', phase' = "idle", script' = <<>>, ids' = idsBefore', spoilt' = {},
         \A b \in Attrs : GoodContents(b, store'[b])
  PROVE  TxInv'
<1>1. Script(<<>>)
  BY DEF Script, IsSeq
<1>2. DOMAIN saved' = {}
  BY DEF SnapshotInv, Rest
<1>3. TxTypeOK'
  BY <1>1, <1>2 DEF TxTypeOK
<1> QED
  BY <1>3 DEF TxInv, RequestInv

LEMMA DoneKeeps ==
  ASSUME TxInv, RestoreDoneTx \/ CommitTx \/ CrashTx
  PROVE  TxInv'
<1>1. SnapshotInv'
  BY OthersKeep DEF TxInv, RestoreDoneTx, CommitTx, CrashTx
<1>2. phase' = "idle" /\ store' = store /\ ids' = idsBefore' /\ spoilt' = {}
  BY DEF RestoreDoneTx, CommitTx, CrashTx, RestoreDone, Commit, Crash, Done
<1>3. script' = <<>>
  BY DEF RestoreDoneTx, CommitTx, CrashTx, RestoreDone, TxInv, TxTypeOK
<1> QED
  BY <1>1, <1>2, <1>3, RestKeeps DEF TxInv, TxTypeOK

LEMMA DeleteFileKeeps ==
  ASSUME TxInv, NEW f \in Files, DeleteFile(f)
  PROVE  TxInv'
<1>1. /\ phase = "idle" /\ phase' = "idle" /\ ids' = idsBefore'
      /\ store' = [a \in Attrs |-> IF a[2] # f THEN store[a] ELSE IF a \in ListAttrs THEN {} ELSE NoTargets]
      /\ before' = store' /\ UNCHANGED <<saved, crashes, script, spoilt>>
  BY DEF DeleteFile
<1>2. SnapshotInv'
  BY <1>1 DEF TxInv, SnapshotInv, SnapshotTypeOK, Rest, CanRollBack
<1>3. ASSUME NEW a \in Attrs PROVE GoodContents(a, store'[a])
  <2>1. GoodContents(a, store[a])
    BY DEF TxInv, TxTypeOK
  <2>2. CASE a \in ListAttrs
    <3>1. a \notin RelAttrs
      BY <2>2 DEF ListAttrs, RelAttrs
    <3>2. IsFiniteSet({}) /\ Cardinality({}) = 0
      BY FS_EmptySet
    <3>3. GoodContents(a, {})
      BY <2>2, <3>1, <3>2, TxBoundsAssumption DEF GoodContents, GoodValue
    <3> QED
      BY <1>1, <2>1, <2>2, <3>3
  <2>3. CASE a \notin ListAttrs
    <3>1. GoodContents(a, NoTargets)
      <4>1. a \in RelAttrs
        BY <2>3, TxAttrsAssumption
      <4> QED
        BY <2>3, <4>1 DEF GoodContents, GoodValue, NoTargets
    <3> QED
      BY <1>1, <2>1, <2>3, <3>1
  <2> QED
    BY <2>2, <2>3
<1>4. spoilt' = {} /\ script' = <<>>
  BY <1>1 DEF TxInv, TxTypeOK
<1> QED
  BY <1>1, <1>2, <1>3, <1>4, RestKeeps

LEMMA RequestsKeep ==
  ASSUME TxInv, Requests
  PROVE  TxInv' /\ UNCHANGED R!vars
<1> PICK s \in Files, t \in Files, T \in Types :
      \/ \E p \in Inputs, sender \in Senders, own \in OwnLabels : BeginAdd(s, t, T, p, sender, own)
      \/ \E rid \in R!RequestIds(s, T, t), mode \in R!OneModes : BeginRemove(s, T, t, rid, mode)
      \/ \E mode \in R!OneModes : BeginRemoveAllSets(s, T, t, mode)
      \/ \E rid \in R!RequestIds(s, T, t), p \in Updates, to \in Files \cup {NoFile}, mode \in R!OneModes :
           \E U \in Types \cup (IF to = NoFile THEN {NoType} ELSE {}) : BeginUpdate(s, T, t, rid, p, to, U, mode)
  BY DEF Requests
<1>1. CASE \E p \in Inputs, sender \in Senders, own \in OwnLabels : BeginAdd(s, t, T, p, sender, own)
  BY <1>1, BeginAddKeeps
<1>2. CASE \E rid \in R!RequestIds(s, T, t), mode \in R!OneModes : BeginRemove(s, T, t, rid, mode)
  BY <1>2, BeginRemoveKeeps
<1>3. CASE \E mode \in R!OneModes : BeginRemoveAllSets(s, T, t, mode)
  BY <1>3, BeginRemoveAllSetsKeeps
<1>4. CASE \E rid \in R!RequestIds(s, T, t), p \in Updates, to \in Files \cup {NoFile}, mode \in R!OneModes :
             \E U \in Types \cup (IF to = NoFile THEN {NoType} ELSE {}) : BeginUpdate(s, T, t, rid, p, to, U, mode)
  BY <1>4, BeginUpdateKeeps
<1> QED
  BY <1>1, <1>2, <1>3, <1>4

LEMMA NextTxInv == TxInv /\ [NextTx]_txVars => TxInv'
<1> SUFFICES ASSUME TxInv, [NextTx]_txVars PROVE TxInv'
  OBVIOUS
<1>1. CASE Requests
  BY <1>1, RequestsKeep
<1>2. CASE WriteNext \/ WriteNextFails \/ StepFailsTx \/ RestoreNext
  BY <1>2, WriteNextKeeps, WriteNextFailsKeeps, StepFailsTxKeeps, RestoreNextKeeps
<1>3. CASE RestoreDoneTx \/ CommitTx \/ CrashTx
  BY <1>3, DoneKeeps
<1>4. CASE \E f \in Files : DeleteFile(f)
  BY <1>4, DeleteFileKeeps
<1>5. CASE UNCHANGED txVars
  <2>1. SnapshotInv'
    BY <1>5, OthersKeep DEF TxInv, txVars
  <2>2. UNCHANGED <<store, saved, phase, files, ids, script, idsBefore, spoilt>>
    BY <1>5 DEF txVars, snapshotVars
  <2>3. ViewRel' = ViewRel /\ ViewList' = ViewList
    BY <2>2 DEF ViewRel, ViewList, View
  <2>4. TxTypeOK'
    BY <2>2 DEF TxInv, TxTypeOK
  <2>5. \A goal, full : Underway(goal, full) => Underway(goal, full)'
    BY <2>2 DEF Underway, Passes
  <2>6. RequestInv'
    BY <2>2, <2>3, <2>5, SameMeaning DEF TxInv, RequestInv
  <2> QED
    BY <2>1, <2>4, <2>6 DEF TxInv
<1> QED
  BY <1>1, <1>2, <1>3, <1>4, <1>5 DEF NextTx

LEMMA InitTxInv == InitTx => TxInv /\ R!Init
<1> SUFFICES ASSUME InitTx PROVE TxInv /\ R!Init
  OBVIOUS
<1>1. /\ store = [a \in Attrs |-> IF a \in ListAttrs THEN {} ELSE NoTargets]
      /\ saved = Nothing /\ phase = "idle" /\ before = store /\ crashes = 0
      /\ files = Files /\ ids = {} /\ script = <<>> /\ idsBefore = {} /\ spoilt = {}
  BY DEF InitTx
<1>2. SnapshotInv
  BY <1>1 DEF SnapshotInv, SnapshotTypeOK, Rest, CanRollBack, Nothing
<1>3. ASSUME NEW a \in Attrs PROVE GoodContents(a, store[a])
  <2>1. CASE a \in ListAttrs
    <3>1. a \notin RelAttrs
      BY <2>1 DEF ListAttrs, RelAttrs
    <3>2. IsFiniteSet({}) /\ Cardinality({}) = 0
      BY FS_EmptySet
    <3>3. store[a] = {}
      BY <1>1, <2>1
    <3> QED
      BY <2>1, <3>1, <3>2, <3>3, TxBoundsAssumption DEF GoodContents, GoodValue
  <2>2. CASE a \notin ListAttrs
    <3>1. a \in RelAttrs
      BY <2>2, TxAttrsAssumption
    <3>2. store[a] = NoTargets
      BY <1>1, <2>2
    <3> QED
      BY <2>2, <3>1, <3>2 DEF GoodContents, GoodValue, NoTargets
  <2> QED
    BY <2>1, <2>2
<1>4. TxTypeOK
  <2>1. Script(<<>>)
    BY DEF Script, IsSeq
  <2> QED
    BY <1>1, <1>3, <2>1 DEF TxTypeOK, Nothing
<1>5. TxInv
  BY <1>1, <1>2, <1>4 DEF TxInv, RequestInv
<1>6. \A a \in Attrs : View(a) = store[a]
  BY <1>1 DEF View, Nothing
<1>7. ViewRel = [f \in Files |-> [T \in Types |-> [g \in Files |-> <<>>]]]
  <2>1. ASSUME NEW f \in Files, NEW T \in Types PROVE View(<<"SEN:REL", f, T>>) = [g \in Files |-> <<>>]
    <3>1. RelAttr(f, T) \in Attrs /\ RelAttr(f, T) \notin ListAttrs
      <4>1. RelAttr(f, T) \notin ListAttrs
        BY DEF RelAttr, ListAttrs
      <4> QED
        BY <4>1, AttrsOfPair
    <3> QED
      BY <1>1, <1>6, <3>1 DEF RelAttr, NoTargets
  <2> QED
    BY <2>1 DEF ViewRel
<1>8. ViewList = [f \in Files |-> [L \in {"SEN:TO", "SEN:META"} |-> {}]]
  <2>1. ASSUME NEW f \in Files, NEW L \in {"SEN:TO", "SEN:META"} PROVE View(<<"list", f, L>>) = {}
    <3>1. <<"list", f, L>> \in ListAttrs /\ <<"list", f, L>> \in Attrs
      BY TxAttrsAssumption DEF ListAttrs
    <3> QED
      BY <1>1, <1>6, <3>1
  <2> QED
    BY <2>1 DEF ViewList
<1> QED
  BY <1>1, <1>5, <1>7, <1>8 DEF R!Init, R!Lists

-----------------------------------------------------------------------------
(* The steps of RelationTx are steps of Relations *)

\* A request that is committed leaves what it means.
LEMMA Committed ==
  ASSUME TxInv, CommitTx, spoilt = {}
  PROVE  \E goal, full, made :
           /\ Meant(goal, full, made)
           /\ R!Commit(goal)
           /\ R!FitsLists(full)
           /\ idsBefore' = idsBefore \cup made
<1>1. /\ phase = "open" /\ script = <<>> /\ saved' = Nothing /\ store' = store /\ idsBefore' = ids
  BY DEF CommitTx, Commit, Done
<1> PICK goal, full, made : Meant(goal, full, made) /\ ids = idsBefore \cup made /\ Underway(goal, full)
  BY <1>1 DEF TxInv, RequestInv
<1>2. GoodStore(goal) /\ Leads(store, <<>>, AttrsOf(goal)) /\ Passes(full)
  BY <1>1 DEF Underway
<1>3. store = AttrsOf(goal)
  <2>1. store = [a \in Attrs |-> store[a]]
    BY DEF TxInv, SnapshotInv, SnapshotTypeOK
  <2>2. AttrsOf(goal) = [a \in Attrs |-> AttrsOf(goal)[a]]
    BY DEF AttrsOf
  <2> HIDE DEF AttrsOf
  <2> QED
    BY <1>2, <2>1, <2>2, NoWrites
<1>4. \A a \in Attrs : View(a)' = Value(goal, a)
  <2>1. DOMAIN saved' = {}
    BY <1>1 DEF Nothing
  <2>2. \A a \in Attrs : View(a)' = store'[a]
    BY <2>1 DEF View
  <2> QED
    BY <1>1, <1>3, <2>2 DEF AttrsOf
<1>5. ViewRel' = goal.rel
  <2>1. ASSUME NEW f \in Files, NEW T \in Types PROVE View(<<"SEN:REL", f, T>>)' = goal.rel[f][T]
    <3>1. RelAttr(f, T) \in Attrs /\ RelAttr(f, T) \in RelAttrs
      BY AttrsOfPair
    <3>2. Value(goal, RelAttr(f, T)) = goal.rel[f][T]
      BY <3>1 DEF Value, RelAttr
    <3> QED
      BY <1>4, <3>1, <3>2 DEF RelAttr
  <2>2. ViewRel' = [f \in Files |-> [T \in Types |-> goal.rel[f][T]]]
    BY <2>1 DEF ViewRel
  <2> QED
    BY <1>2, <2>2 DEF GoodStore
<1>6. ViewList' = goal.list
  <2>1. ASSUME NEW f \in Files, NEW L \in {"SEN:TO", "SEN:META"} PROVE View(<<"list", f, L>>)' = goal.list[f][L]
    <3>1. <<"list", f, L>> \in Attrs /\ <<"list", f, L>> \notin RelAttrs
      BY TxAttrsAssumption DEF ListAttrs, RelAttrs
    <3>2. Value(goal, <<"list", f, L>>) = goal.list[f][L]
      BY <3>1 DEF Value
    <3> QED
      BY <1>4, <3>1, <3>2
  <2>2. ViewList' = [f \in Files |-> [L \in {"SEN:TO", "SEN:META"} |-> goal.list[f][L]]]
    BY <2>1 DEF ViewList
  <2> QED
    BY <1>2, <2>2 DEF GoodStore
<1>7. R!FitsLists(full)
  <2>1. ASSUME NEW f \in Files, NEW L \in {"SEN:TO", "SEN:META"} PROVE Cardinality(full.list[f][L]) <= MaxIds
    <3>1. <<"list", f, L>> \in ListAttrs /\ <<"list", f, L>> \notin RelAttrs
      BY DEF ListAttrs, RelAttrs
    <3>2. ~Has(<<>>, <<"list", f, L>>, Value(full, <<"list", f, L>>))
      BY DEF Has
    <3>3. Value(full, <<"list", f, L>>) = full.list[f][L]
      BY <3>1 DEF Value
    <3> QED
      BY <1>1, <1>2, <3>1, <3>2, <3>3 DEF Passes
  <2>2. \A S : R!Cardinality(S) = Cardinality(S)
    BY DEF R!Cardinality, Cardinality
  <2> QED
    BY <2>1, <2>2 DEF R!FitsLists, R!Lists
<1> QED
  BY <1>1, <1>5, <1>6, <1>7 DEF R!Commit

\* The files between the beginning and the end of a request.
LEMMA AddCommitted ==
  ASSUME NEW goal, NEW full, NEW made, AddMeant(goal, full, made),
         R!Commit(goal), R!FitsLists(full), idsBefore' = idsBefore \cup made, files' = files
  PROVE  R!Next
<1> PICK source \in Files, target \in Files, T \in Types, properties \in Inputs, sender \in Senders, own \in OwnLabels :
      AddIs(goal, full, made, source, target, T, properties, sender, own)
  BY DEF AddMeant
<1>1. R!StickyIds(T, properties) = {}
  BY DEF R!StickyIds, R!StickyClassifications
<1>2. R!AddRelation(source, target, T, properties, sender, own)
  BY <1>1 DEF R!AddRelation, AddIs
<1> QED
  BY <1>2 DEF R!Next

LEMMA RemoveCommitted ==
  ASSUME NEW goal, NEW full, NEW made, RemoveMeant(goal, full, made),
         R!Commit(goal), idsBefore' = idsBefore \cup made, files' = files
  PROVE  R!Next
<1>1. /\ idsBefore' = idsBefore
      /\ \E s, t \in Files, T \in Types : \E rid \in R!RequestIds(s, T, t), mode \in R!OneModes :
           \E i \in R!Addressed(R!Store.rel[s][T][t], rid, mode = "override") :
             s \in files /\ goal = R!RemoveOne(R!Store, s, T, t, i)
  BY DEF RemoveMeant
<1>2. R!Store.rel = ViewRel
  BY DEF R!Store
<1>3. \E s, t \in Files, T \in Types : \E rid \in R!RequestIds(s, T, t), mode \in R!OneModes :
        R!RemoveRelation(s, T, t, rid, mode)
  BY <1>1, <1>2 DEF R!RemoveRelation
<1> QED
  BY <1>3 DEF R!Next

LEMMA RemoveAllCommitted ==
  ASSUME NEW goal, NEW full, NEW made, RemoveAllMeant(goal, full, made),
         R!Commit(goal), idsBefore' = idsBefore \cup made, files' = files
  PROVE  R!Next
<1>1. /\ idsBefore' = idsBefore
      /\ \E s, t \in Files, T \in Types, mode \in R!OneModes :
           /\ s \in files
           /\ R!RemovesAll(R!Store.rel[s][T][t], mode)
           /\ goal = R!RemoveWhole(R!Store, s, {<<T, t>>})
  BY DEF RemoveAllMeant
<1>2. R!Store.rel = ViewRel
  BY DEF R!Store
<1>3. \E s, t \in Files, T \in Types, mode \in R!OneModes : R!RemoveRelationAllSets(s, T, t, mode)
  BY <1>1, <1>2 DEF R!RemoveRelationAllSets
<1> QED
  BY <1>3 DEF R!Next

LEMMA UpdateCommitted ==
  ASSUME NEW goal, NEW full, NEW made, UpdateMeant(goal, full, made),
         R!Commit(goal), R!FitsLists(full), idsBefore' = idsBefore \cup made, files' = files
  PROVE  R!Next
<1> PICK s \in Files, t \in Files, T \in Types : \E rid \in R!RequestIds(s, T, t), properties \in Updates,
       newTarget \in Files \cup {NoFile}, mode \in R!OneModes :
    \E newType \in Types \cup (IF newTarget = NoFile THEN {NoType} ELSE {}), i \in DOMAIN R!Store.rel[s][T][t] :
      UpdateIs(goal, full, made, s, T, t, rid, properties, newTarget, newType, mode, i)
  BY DEF UpdateMeant
<1> PICK rid \in R!RequestIds(s, T, t), properties \in Updates, newTarget \in Files \cup {NoFile}, mode \in R!OneModes :
    \E newType \in Types \cup (IF newTarget = NoFile THEN {NoType} ELSE {}), i \in DOMAIN R!Store.rel[s][T][t] :
      UpdateIs(goal, full, made, s, T, t, rid, properties, newTarget, newType, mode, i)
  OBVIOUS
<1> PICK newType \in Types \cup (IF newTarget = NoFile THEN {NoType} ELSE {}), i \in DOMAIN R!Store.rel[s][T][t] :
      UpdateIs(goal, full, made, s, T, t, rid, properties, newTarget, newType, mode, i)
  OBVIOUS
<1>1. R!UpdateRelation(s, T, t, rid, properties, newTarget, newType, mode)
  <2>1. R!Store.rel = ViewRel
    BY DEF R!Store
  <2> QED
    BY <2>1 DEF R!UpdateRelation, UpdateIs, R!Resolves
<1> QED
  BY <1>1 DEF R!Next

LEMMA CommitIsStep ==
  ASSUME TxInv, CommitTx, spoilt = {}
  PROVE  R!Next
<1>1. files' = files
  BY DEF CommitTx, Done
<1> PICK goal, full, made : /\ Meant(goal, full, made) /\ R!Commit(goal) /\ R!FitsLists(full)
                            /\ idsBefore' = idsBefore \cup made
  BY Committed
<1> QED
  BY <1>1, AddCommitted, RemoveCommitted, RemoveAllCommitted, UpdateCommitted DEF Meant

\* A request that failed and was taken back as a whole has at most made ids.
LEMMA FailureIsStep ==
  ASSUME TxInv, RestoreDoneTx, spoilt = {}
  PROVE  R!Next \/ UNCHANGED R!vars
<1>1. /\ phase = "restoring" /\ DOMAIN saved = {} /\ saved' = saved /\ store' = store
      /\ files' = files /\ idsBefore' = ids
  BY DEF RestoreDoneTx, RestoreDone, Done
<1>2. ViewRel' = ViewRel /\ ViewList' = ViewList
  BY <1>1 DEF ViewRel, ViewList, View
<1> PICK goal, full, made : Meant(goal, full, made) /\ ids = idsBefore \cup made
  BY <1>1 DEF TxInv, RequestInv
<1>3. CASE made = {}
  BY <1>1, <1>2, <1>3 DEF R!vars
<1>4. CASE AddMeant(goal, full, made)
  <2> PICK source \in Files, target \in Files, T \in Types, properties \in Inputs, sender \in Senders, own \in OwnLabels :
        AddIs(goal, full, made, source, target, T, properties, sender, own)
    BY <1>4 DEF AddMeant
  <2> DEFINE s == IF R!Swaps(T, source, target) THEN target ELSE source
             t == IF R!Swaps(T, source, target) THEN source ELSE target
  <2>1. {s, t} \subseteq files /\ made = {s, t}
    BY DEF AddIs
  <2>2. R!StickyIds(T, properties) = {}
    BY DEF R!StickyIds, R!StickyClassifications
  <2>3. R!Fail({}, s, t)
    <3>1. made = (({} \cup {s, t}) \cap files)
      BY <2>1
    <3> QED
      BY <1>1, <1>2, <3>1 DEF R!Fail, R!attributes
  <2>4. R!AddRelation(source, target, T, properties, sender, own)
    BY <1>1, <2>1, <2>2, <2>3 DEF R!AddRelation
  <2> QED
    BY <2>4 DEF R!Next
<1>5. CASE UpdateMeant(goal, full, made) /\ made # {}
  <2> PICK s \in Files, t \in Files, T \in Types : \E rid \in R!RequestIds(s, T, t), properties \in Updates,
         newTarget \in Files \cup {NoFile}, mode \in R!OneModes :
      \E newType \in Types \cup (IF newTarget = NoFile THEN {NoType} ELSE {}), i \in DOMAIN R!Store.rel[s][T][t] :
        UpdateIs(goal, full, made, s, T, t, rid, properties, newTarget, newType, mode, i)
    BY <1>5 DEF UpdateMeant
  <2> PICK rid \in R!RequestIds(s, T, t), properties \in Updates, newTarget \in Files \cup {NoFile}, mode \in R!OneModes :
      \E newType \in Types \cup (IF newTarget = NoFile THEN {NoType} ELSE {}), i \in DOMAIN R!Store.rel[s][T][t] :
        UpdateIs(goal, full, made, s, T, t, rid, properties, newTarget, newType, mode, i)
    OBVIOUS
  <2> PICK newType \in Types \cup (IF newTarget = NoFile THEN {NoType} ELSE {}), i \in DOMAIN R!Store.rel[s][T][t] :
        UpdateIs(goal, full, made, s, T, t, rid, properties, newTarget, newType, mode, i)
    OBVIOUS
  <2> DEFINE to == IF newTarget = NoFile THEN t ELSE newTarget
             U  == IF newType = NoType THEN T ELSE newType
  <2>1. /\ s \in files /\ made = {s, to} /\ (to # t \/ U # T)
        /\ i \in R!Addressed(R!Store.rel[s][T][t], rid, mode = "override")
        /\ newTarget = NoFile => R!Resolves(t)
        /\ newTarget # NoFile => newTarget \in files
    BY <1>5 DEF UpdateIs
  <2>2. to \in files
    BY <2>1 DEF R!Resolves
  <2>3. R!Fail({}, s, to)
    <3>1. made = (({} \cup {s, to}) \cap files)
      BY <2>1, <2>2
    <3> QED
      BY <1>1, <1>2, <3>1 DEF R!Fail, R!attributes
  <2>4. R!Store.rel = ViewRel
    BY DEF R!Store
  <2>5. R!UpdateRelation(s, T, t, rid, properties, newTarget, newType, mode)
    BY <1>1, <2>1, <2>3, <2>4 DEF R!UpdateRelation
  <2> QED
    BY <2>5 DEF R!Next
<1> QED
  BY <1>3, <1>4, <1>5 DEF Meant, RemoveMeant, RemoveAllMeant

LEMMA DeletionIsStep ==
  ASSUME TxInv, NEW f \in Files, DeleteFile(f)
  PROVE  R!Next
<1>1. /\ phase = "idle" /\ saved' = saved /\ DOMAIN saved = {} /\ ids = idsBefore
      /\ f \in Deleted \cap files
      /\ files' = files \ {f} /\ ids' = ids \ {f} /\ idsBefore' = ids'
      /\ store' = [a \in Attrs |-> IF a[2] # f THEN store[a] ELSE IF a \in ListAttrs THEN {} ELSE NoTargets]
  BY DEF DeleteFile, TxInv, TxTypeOK, SnapshotInv, Rest
<1>2. \A a \in Attrs : View(a) = store[a] /\ View(a)' = store'[a]
  BY <1>1 DEF View
<1>3. ViewRel' = [ViewRel EXCEPT ![f] = [T \in Types |-> [g \in Files |-> <<>>]]]
  <2>1. ASSUME NEW e \in Files, NEW T \in Types
        PROVE  View(<<"SEN:REL", e, T>>)' = IF e = f THEN [g \in Files |-> <<>>] ELSE View(<<"SEN:REL", e, T>>)
    <3>1. RelAttr(e, T) \in Attrs /\ RelAttr(e, T) \notin ListAttrs /\ RelAttr(e, T)[2] = e
      <4>1. RelAttr(e, T) \notin ListAttrs
        BY DEF RelAttr, ListAttrs
      <4>2. RelAttr(e, T)[2] = e
        BY DEF RelAttr
      <4> QED
        BY <4>1, <4>2, AttrsOfPair
    <3> QED
      BY <1>1, <1>2, <3>1 DEF RelAttr, NoTargets
  <2> DEFINE none == [T \in Types |-> [g \in Files |-> <<>>]]
  <2>2. \A e \in Files : ViewRel'[e] = IF e = f THEN none ELSE ViewRel[e]
    <3> TAKE e \in Files
    <3>1. ViewRel'[e] = [T \in Types |-> View(<<"SEN:REL", e, T>>)']
      BY DEF ViewRel
    <3>2. ViewRel[e] = [T \in Types |-> View(<<"SEN:REL", e, T>>)]
      BY DEF ViewRel
    <3> QED
      BY <2>1, <3>1, <3>2
  <2>3. ViewRel' = [e \in Files |-> ViewRel'[e]] /\ ViewRel = [e \in Files |-> ViewRel[e]]
    BY DEF ViewRel
  <2> QED
    BY <2>2, <2>3
<1>4. ViewList' = [ViewList EXCEPT ![f] = [L \in {"SEN:TO", "SEN:META"} |-> {}]]
  <2>1. ASSUME NEW e \in Files, NEW L \in {"SEN:TO", "SEN:META"}
        PROVE  View(<<"list", e, L>>)' = IF e = f THEN {} ELSE View(<<"list", e, L>>)
    <3>1. <<"list", e, L>> \in Attrs /\ <<"list", e, L>> \in ListAttrs /\ <<"list", e, L>>[2] = e
      BY TxAttrsAssumption DEF ListAttrs
    <3> QED
      BY <1>1, <1>2, <3>1
  <2> DEFINE none == [L \in {"SEN:TO", "SEN:META"} |-> {}]
  <2>2. \A e \in Files : ViewList'[e] = IF e = f THEN none ELSE ViewList[e]
    <3> TAKE e \in Files
    <3>1. ViewList'[e] = [L \in {"SEN:TO", "SEN:META"} |-> View(<<"list", e, L>>)']
      BY DEF ViewList
    <3>2. ViewList[e] = [L \in {"SEN:TO", "SEN:META"} |-> View(<<"list", e, L>>)]
      BY DEF ViewList
    <3> QED
      BY <2>1, <3>1, <3>2
  <2>3. ViewList' = [e \in Files |-> ViewList'[e]] /\ ViewList = [e \in Files |-> ViewList[e]]
    BY DEF ViewList
  <2> QED
    BY <2>2, <2>3
<1>5. R!DeleteFile(f)
  BY <1>1, <1>3, <1>4 DEF R!DeleteFile, R!Lists
<1> QED
  BY <1>5 DEF R!Next

\* Each step of RelationTx is a step of Relations, or none.
LEMMA StepIsStep ==
  ASSUME TxInv, [NextTx]_txVars
  PROVE  [R!Next \/ crashes' # crashes \/ spoilt # {} \/ spoilt' # {}]_(R!vars)
<1> SUFFICES ASSUME spoilt = {}, spoilt' = {}, crashes' = crashes
             PROVE  R!Next \/ UNCHANGED R!vars
  OBVIOUS
<1>1. CASE Requests
  BY <1>1, RequestsKeep
<1>2. CASE WriteNext \/ WriteNextFails \/ StepFailsTx \/ RestoreNext
  BY <1>2, WriteNextKeeps, WriteNextFailsKeeps, StepFailsTxKeeps, RestoreNextKeeps
<1>3. CASE RestoreDoneTx
  BY <1>3, FailureIsStep
<1>4. CASE CommitTx
  BY <1>4, CommitIsStep
<1>5. CASE CrashTx
  BY <1>5 DEF CrashTx, Crash, TxInv, SnapshotInv, SnapshotTypeOK
<1>6. CASE \E f \in Files : DeleteFile(f)
  BY <1>6, DeletionIsStep
<1>7. CASE UNCHANGED txVars
  BY <1>7 DEF txVars, snapshotVars, R!vars, ViewRel, ViewList, View
<1> QED
  BY <1>1, <1>2, <1>3, <1>4, <1>5, <1>6, <1>7 DEF NextTx

\* The strengthening holds in every state: while a request runs of which
\* nothing is spoilt, the writes that are left lead to what the request means.
THEOREM TxInvariant == SpecTx => []TxInv
<1>1. InitTx => TxInv
  BY InitTxInv
<1> QED
  BY <1>1, NextTxInv, PTL DEF SpecTx

\* RelationTx implements Relations: for any files, types, bounds, failures and
\* attributes that cannot be read or put back, every request happens as a whole
\* when it is committed, or not at all, unless the server dies in it or an
\* attribute of it is spoilt.
THEOREM TxImplementsRelations == SpecTx => RequestsAreAtomic
<1>1. InitTx => R!Init
  BY InitTxInv
<1>2. TxInv /\ [NextTx]_txVars => [R!Next \/ crashes' # crashes \/ spoilt # {} \/ spoilt' # {}]_(R!vars)
  BY StepIsStep
<1> QED
  BY <1>1, <1>2, TxInvariant, PTL DEF SpecTx, RequestsAreAtomic

\* The requests of RelationTx can be rolled back at every moment, too.
THEOREM TxCanRollBack == SpecTx => []CanRollBack
<1>1. TxInv => CanRollBack
  BY DEF TxInv, SnapshotInv
<1> QED
  BY <1>1, TxInvariant, PTL

\* A request of RelationTx that fails leaves the attributes as they were.
THEOREM TxAllOrNothing == SpecTx => AllOrNothing
<1>1. TxInv /\ [NextTx]_txVars =>
        [phase = "restoring" /\ phase' = "idle" /\ crashes' = crashes =>
           \A a \in Sound : store'[a] = before[a]]_snapshotVars
  <2> SUFFICES ASSUME TxInv, NextTx, phase = "restoring", phase' = "idle", crashes' = crashes
               PROVE  \A a \in Sound : store'[a] = before[a]
    BY DEF txVars
  <2>1. ~Requests
    BY DEF Requests, BeginAdd, BeginRemove, BeginRemoveAllSets, BeginUpdate, Request, BeginTx
  <2>2. RestoreDone
    BY <2>1 DEF NextTx, WriteNext, WriteNextFails, StepFailsTx, RestoreNext, RestoreDoneTx, CommitTx, CrashTx, DeleteFile,
           WriteAttr, WriteFails, StepFails, RestoreAttr, Commit, Crash, TxInv, SnapshotInv, SnapshotTypeOK
  <2> QED
    BY <2>2, RestoredIsBefore DEF TxInv
<1> QED
  BY <1>1, TxInvariant, PTL DEF SpecTx, AllOrNothing

-----------------------------------------------------------------------------
(* Damage stays local.  What is proved of the functions of Relations in     *)
(* Relations_proofs is used here; nothing is ever copied.                    *)

Anything(T, f) == TRUE

P == INSTANCE Relations_proofs WITH
       rel <- ViewRel, list <- ViewList, ids <- idsBefore, sticky <- {}, ambiguous <- {},
       Copied <- {}, Sticking <- {}, Dynamic <- {}, Fits <- Anything,
       ForwardLabel <- [T \in Types |-> NoLabel], TypeName <- [T \in Types |-> NoLabel]

\* The functions of both instances are the same.
LEMMA SameTypes ==
  /\ P!Sent = R!Sent /\ P!Labels = R!Labels /\ P!PropertySet = R!PropertySet
  /\ P!Lists = R!Lists
  /\ \A T : P!ListAttrFor(T) = R!ListAttrFor(T)
  /\ \A T, f, g : P!ShouldWriteInverse(T, f, g) <=> R!ShouldWriteInverse(T, f, g)
  /\ \A T, p : P!InverseProperties(T, p) = R!InverseProperties(T, p)
  /\ \A T, p, own : P!AddedInverse(T, p, own) = R!AddedInverse(T, p, own)
  /\ \A set : P!WithoutId(set) = R!WithoutId(set)
  /\ \A S : P!Cardinality(S) = Cardinality(S)
BY DEF P!Sent, R!Sent, P!Labels, R!Labels, P!PropertySet, R!PropertySet, P!Lists, R!Lists,
       P!ListAttrFor, R!ListAttrFor, P!IsMetaRelation, R!IsMetaRelation,
       P!ShouldWriteInverse, R!ShouldWriteInverse, P!InverseProperties, R!InverseProperties,
       P!AddedInverse, R!AddedInverse, P!WithoutId, R!WithoutId, P!Cardinality, Cardinality

LEMMA SameRemoveOne ==
  ASSUME NEW st, NEW s, NEW T, NEW t, NEW i
  PROVE  P!RemoveOne(st, s, T, t, i) = R!RemoveOne(st, s, T, t, i)
BY DEF P!RemoveOne, R!RemoveOne, P!StorePair, R!StorePair, P!FindsInverse, R!FindsInverse, P!Resolves, R!Resolves,
       P!InverseWithout, R!InverseWithout, P!Unlisted, R!Unlisted, P!RemoveSet, R!RemoveSet, P!FindSet, R!FindSet,
       P!First, R!First, P!ListAttrFor, R!ListAttrFor, P!IsMetaRelation, R!IsMetaRelation,
       P!RemoveAt, R!RemoveAt, P!WithoutId, R!WithoutId

LEMMA SameReplace ==
  ASSUME NEW st, NEW s, NEW T, NEW t, NEW i, NEW p
  PROVE  P!Replace(st, s, T, t, i, p) = R!Replace(st, s, T, t, i, p)
BY DEF P!Replace, R!Replace, P!StorePair, R!StorePair, P!FindsInverse, R!FindsInverse, P!Resolves, R!Resolves,
       P!ReplaceInverse, R!ReplaceInverse, P!Unlisted, R!Unlisted, P!ReplaceSet, R!ReplaceSet, P!FindSet, R!FindSet,
       P!First, R!First, P!ListAttrFor, R!ListAttrFor, P!IsMetaRelation, R!IsMetaRelation,
       P!InverseProperties, R!InverseProperties

LEMMA SameRemoveWhole ==
  ASSUME NEW st, NEW s, NEW gone
  PROVE  P!RemoveWhole(st, s, gone) = R!RemoveWhole(st, s, gone)
BY DEF P!RemoveWhole, R!RemoveWhole, P!FindsInverse, R!FindsInverse, P!Resolves, R!Resolves,
       P!ListAttrFor, R!ListAttrFor, P!IsMetaRelation, R!IsMetaRelation, P!Lists, R!Lists

LEMMA SameAddTx ==
  ASSUME NEW st, NEW edges, NEW T, NEW p, NEW q
  PROVE  P!AddTx(st, edges, T, p, q) = R!AddTx(st, edges, T, p, q)
BY DEF P!AddTx, R!AddTx, P!Forward, R!Forward, P!Opposite, R!Opposite, P!InUse, R!InUse, P!SameAs, R!SameAs,
       P!Identity, R!Identity, P!FillProvenance, R!FillProvenance, P!CanFill, R!CanFill, P!Fillable, R!Fillable,
       P!First, R!First, P!AddSet, R!AddSet, P!WithoutId, R!WithoutId, P!CopyIds, R!CopyIds,
       P!ForwardIds, R!ForwardIds, P!InverseIds, R!InverseIds, P!NewIds, R!NewIds, P!UsedIds, R!UsedIds,
       P!ShouldWriteInverse, R!ShouldWriteInverse, P!InverseProperties, R!InverseProperties,
       P!ListAttrFor, R!ListAttrFor, P!IsMetaRelation, R!IsMetaRelation

-----------------------------------------------------------------------------
(* One function on stores after the other.  The attributes of a store may   *)
(* be out of step with each other where an earlier request was cut off; what *)
(* each of them holds is well kept.                                          *)

WellStored(st, known) ==
  /\ st.rel \in [Files -> [Types -> [Files -> Seq(P!PropertySet)]]]
  /\ st.list \in [Files -> [P!Lists -> SUBSET Files]]
  /\ \A f, g \in Files, T \in Types : P!WellKept(st.rel[f][T][g])
  /\ P!HaveIds(st, files, known)

\* What f lists of g is related, and the other way round for a type with its own list.
ListedOK(st, f, g) ==
  \A T \in Types :
    /\ OwnList(T) /\ st.rel[f][T][g] # <<>> => g \in st.list[f][R!ListAttrFor(T)]
    /\ g \in st.list[f][R!ListAttrFor(T)] =>
         \E U \in Types : R!ListAttrFor(U) = R!ListAttrFor(T) /\ st.rel[f][U][g] # <<>>

\* The relations of f to g are in step with those of g to f, and listed.
PairOK(st, f, g) ==
  /\ \A T \in Types : R!ShouldWriteInverse(T, f, g) => st.rel[f][T][g] = st.rel[g][T][f]
  /\ ListedOK(st, f, g)

\* Between old and new only what is stored for the pairs of files in about differs.
OnlyAbout(old, new, about) ==
  \A f, g \in Files : {f, g} \notin about =>
    /\ \A T \in Types : new.rel[f][T][g] = old.rel[f][T][g]
    /\ \A L \in P!Lists : g \in new.list[f][L] <=> g \in old.list[f][L]

\* No pair of files that is in step gets out of it.
PairsStay(old, new) == \A f, g \in files : PairOK(old, f, g) => PairOK(new, f, g)

\* The same relations, with the lists that belong to them where they are damaged.
WithLists(st) ==
  [rel  |-> st.rel,
   list |-> [f \in Files |-> [L \in P!Lists |->
              {g \in Files : /\ \E T \in Types : P!ListAttrFor(T) = L /\ st.rel[f][T][g] # <<>>
                             /\ ListedOK(st, f, g) => g \in st.list[f][L]}]]]

\* Two stores list the same for f and g.
SameListed(st, other, f, g) ==
  \A T \in Types : g \in st.list[f][P!ListAttrFor(T)] <=> g \in other.list[f][P!ListAttrFor(T)]

\* The hypothesis of the theorem: what is written to the target carries the
\* label of the set, as no type and no client has one for the opposite
\* direction, and an update keeps the label of every set.
SameLabels ==
  /\ \A T \in Types : InverseLabel[T] = NoLabel
  /\ OwnLabels \subseteq {NoLabel}
  /\ \A p \in Updates \ {NoProperties} : R!Labels \subseteq {NoLabel, p.label}

LEMMA WithListsOK ==
  ASSUME NEW st, NEW known, WellStored(st, known)
  PROVE  P!StoreOK(WithLists(st)) /\ P!Listed(WithLists(st), files, known)
<1> DEFINE all == WithLists(st)
<1>1. all.rel = st.rel
  BY DEF WithLists
<1>2. \A f \in Files, L \in P!Lists :
        all.list[f][L] = {g \in Files : /\ \E T \in Types : P!ListAttrFor(T) = L /\ st.rel[f][T][g] # <<>>
                                        /\ ListedOK(st, f, g) => g \in st.list[f][L]}
  BY DEF WithLists
<1>3. all.list \in [Files -> [P!Lists -> SUBSET Files]]
  BY DEF WithLists
<1>4. \A T : P!ListAttrFor(T) \in P!Lists
  BY DEF P!ListAttrFor, P!Lists
<1> HIDE DEF all
<1>5. P!StoreOK(all)
  BY <1>1, <1>2, <1>3 DEF P!StoreOK, WellStored
<1>6. P!TargetsListed(all)
  <2> SUFFICES ASSUME NEW T \in Types, P!OwnList(T), NEW f \in Files, NEW g \in Files, st.rel[f][T][g] # <<>>
               PROVE  g \in all.list[f][P!ListAttrFor(T)]
    BY <1>1 DEF P!TargetsListed
  <2>1. ListedOK(st, f, g) => g \in st.list[f][P!ListAttrFor(T)]
    BY SameTypes DEF ListedOK, OwnList, P!OwnList
  <2> QED
    BY <1>2, <1>4, <2>1
<1>7. P!HaveIds(all, files, known)
  BY <1>1 DEF P!HaveIds, WellStored
<1> QED
  BY <1>5, <1>6, <1>7 DEF P!Listed, all

\* What is in step and listed there is so in the new store, if that has the same
\* relations and lists the same for f and g.
LEMMA PairOKFrom ==
  ASSUME NEW st, NEW known, WellStored(st, known), NEW new, NEW other,
         NEW f \in Files, NEW g \in Files, PairOK(st, f, g),
         new.rel = other.rel, SameListed(st, WithLists(st), f, g) => SameListed(new, other, f, g),
         P!StoreOK(other), P!TargetsListed(other),
         P!InStep(WithLists(st), {f, g}) => P!InStep(other, {f, g})
  PROVE  PairOK(new, f, g)
<1>1. SameListed(st, WithLists(st), f, g)
  <2> SUFFICES ASSUME NEW T \in Types
               PROVE  g \in st.list[f][P!ListAttrFor(T)] <=> g \in WithLists(st).list[f][P!ListAttrFor(T)]
    BY DEF SameListed
  <2>1. P!ListAttrFor(T) = R!ListAttrFor(T) /\ P!ListAttrFor(T) \in P!Lists
    BY SameTypes DEF P!ListAttrFor, P!Lists
  <2>2. g \in WithLists(st).list[f][P!ListAttrFor(T)]
          <=> /\ \E U \in Types : P!ListAttrFor(U) = P!ListAttrFor(T) /\ st.rel[f][U][g] # <<>>
              /\ ListedOK(st, f, g) => g \in st.list[f][P!ListAttrFor(T)]
    BY <2>1 DEF WithLists
  <2>3. /\ ListedOK(st, f, g)
        /\ g \in st.list[f][P!ListAttrFor(T)] =>
             \E U \in Types : P!ListAttrFor(U) = P!ListAttrFor(T) /\ st.rel[f][U][g] # <<>>
    BY SameTypes DEF PairOK, ListedOK
  <2> QED
    BY <2>2, <2>3
<1>2. P!InStep(WithLists(st), {f, g})
  <2>1. WithLists(st).rel = st.rel
    BY DEF WithLists
  <2> QED
    BY <2>1, SameTypes DEF P!InStep, PairOK, R!ShouldWriteInverse
<1>3. \A T \in Types : R!ShouldWriteInverse(T, f, g) => new.rel[f][T][g] = new.rel[g][T][f]
  BY <1>2, SameTypes DEF P!InStep
<1>4. ASSUME NEW T \in Types
      PROVE  /\ OwnList(T) /\ new.rel[f][T][g] # <<>> => g \in new.list[f][R!ListAttrFor(T)]
             /\ g \in new.list[f][R!ListAttrFor(T)] =>
                  \E U \in Types : R!ListAttrFor(U) = R!ListAttrFor(T) /\ new.rel[f][U][g] # <<>>
  <2>1. P!ListAttrFor(T) = R!ListAttrFor(T) /\ P!ListAttrFor(T) \in P!Lists
    BY SameTypes DEF P!ListAttrFor, P!Lists
  <2>2. g \in new.list[f][P!ListAttrFor(T)] <=> g \in other.list[f][P!ListAttrFor(T)]
    BY <1>1 DEF SameListed
  <2>3. OwnList(T) /\ other.rel[f][T][g] # <<>> => g \in other.list[f][P!ListAttrFor(T)]
    BY SameTypes DEF OwnList, P!OwnList, P!TargetsListed
  <2>4. g \in other.list[f][P!ListAttrFor(T)] =>
          \E U \in Types : P!ListAttrFor(U) = P!ListAttrFor(T) /\ other.rel[f][U][g] # <<>>
    BY <2>1 DEF P!StoreOK
  <2> QED
    BY <2>1, <2>2, <2>3, <2>4, SameTypes
<1> QED
  BY <1>3, <1>4 DEF PairOK, ListedOK

\* The relations of a store are well stored where other lists stand.
LEMMA WellStoredFrom ==
  ASSUME NEW new, NEW other, NEW known, new.rel = other.rel, P!StoreOK(other), P!HaveIds(other, files, known),
         new.list \in [Files -> [P!Lists -> SUBSET Files]]
  PROVE  WellStored(new, known)
BY DEF WellStored, P!StoreOK, P!HaveIds

-----------------------------------------------------------------------------
(* The functions of Relations, with a store that is well stored *)

\* The assumptions of Relations, for its proofs.
Known ==
  /\ Classifications \subseteq Files /\ Deleted \subseteq Files /\ Bidirectional \subseteq Types
  /\ NoFile \notin Files /\ NoType \notin Types
  /\ MaxSets \in Nat /\ MaxStored \in Nat /\ MaxIds \in Nat
  /\ P!Sent \subseteq P!PropertySet
  /\ NoRelationId \notin RelIds
  /\ \A used \in SUBSET RelIds : P!Cardinality(used) <= 2 * MaxSets =>
       \A k \in 1 .. 2 * (MaxSets + 1) :
         /\ NewId(used, k) \in RelIds \ used
         /\ \A j \in 1 .. k - 1 : NewId(used, j) # NewId(used, k)

LEMMA KnownHolds == Known
<1>1. \A used : P!Cardinality(used) = Cardinality(used)
  BY SameTypes
<1>2. P!Sent \subseteq P!PropertySet
  BY SameTypes, TxSentAssumption
<1> QED
  BY <1>1, <1>2, TxFilesAssumption, TxBoundsAssumption, TxNewIdAssumption DEF Known

LEMMA LabelsKnown == SameLabels => P!SameLabelsNoCopies
BY SameTypes DEF SameLabels, P!SameLabelsNoCopies

\* AddRelationTx looks at the relations of the two files, and at no list.
LEMMA AddTxLocal ==
  ASSUME NEW st, NEW other, NEW known, WellStored(st, known), other.rel = st.rel,
         NEW s \in Files, NEW t \in Files, NEW T \in Types, NEW p, NEW q,
         other.list \in [Files -> [P!Lists -> SUBSET Files]]
  PROVE  LET new == P!AddTx(st, {<<s, t>>}, T, p, q)
             same == P!AddTx(other, {<<s, t>>}, T, p, q)
         IN /\ new.rel = same.rel
            /\ \A f, g \in Files : SameListed(st, other, f, g) => SameListed(new, same, f, g)
            /\ new.list \in [Files -> [P!Lists -> SUBSET Files]]
            /\ OnlyAbout(st, new, {{s, t}})
<1> DEFINE new == P!AddTx(st, {<<s, t>>}, T, p, q)
           same == P!AddTx(other, {<<s, t>>}, T, p, q)
           M == P!ListAttrFor(T)
           Inverts(f, g) == <<f, g>> \in {<<s, t>>} /\ f # g /\ P!ShouldWriteInverse(T, f, g)
           Added(f, g) == ~P!InUse(st.rel[f][T][g], p)
           More(f) == {g \in Files : \/ (<<f, g>> \in {<<s, t>>} /\ Added(f, g))
                                     \/ (Inverts(g, f) /\ Added(g, f))}
<1>1. /\ st.rel \in [Files -> [Types -> [Files -> Seq(P!PropertySet)]]]
      /\ st.list \in [Files -> [P!Lists -> SUBSET Files]]
  BY DEF WellStored
<1>2. new.rel = same.rel
  BY DEF P!AddTx
<1>3. /\ new.list = [f \in Files |-> [st.list[f] EXCEPT ![M] = @ \cup More(f)]]
      /\ same.list = [f \in Files |-> [other.list[f] EXCEPT ![M] = @ \cup More(f)]]
  BY DEF P!AddTx
<1>4. \A f \in Files : More(f) \subseteq Files
  OBVIOUS
<1>5. \A f, g \in Files : g \in More(f) => {f, g} = {s, t}
  OBVIOUS
<1>6. M \in P!Lists
  BY DEF P!ListAttrFor, P!Lists
<1>7. \A f, g \in Files, U \in Types : {f, g} # {s, t} => new.rel[f][U][g] = st.rel[f][U][g]
  BY <1>1 DEF P!AddTx
<1> HIDE DEF new, same, M, More
<1>8. ASSUME NEW f \in Files, NEW L \in P!Lists
      PROVE  /\ new.list[f][L] = IF L = M THEN st.list[f][L] \cup More(f) ELSE st.list[f][L]
             /\ same.list[f][L] = IF L = M THEN other.list[f][L] \cup More(f) ELSE other.list[f][L]
  <2>1. /\ st.list[f] = [K \in P!Lists |-> st.list[f][K]]
        /\ other.list[f] = [K \in P!Lists |-> other.list[f][K]]
    BY <1>1
  <2>2. /\ new.list[f] = [st.list[f] EXCEPT ![M] = @ \cup More(f)]
        /\ same.list[f] = [other.list[f] EXCEPT ![M] = @ \cup More(f)]
    BY <1>3
  <2> QED
    BY <2>1, <2>2
<1>9. new.list \in [Files -> [P!Lists -> SUBSET Files]]
  <2>1. ASSUME NEW f \in Files PROVE [st.list[f] EXCEPT ![M] = @ \cup More(f)] \in [P!Lists -> SUBSET Files]
    <3>1. st.list[f] \in [P!Lists -> SUBSET Files] /\ More(f) \subseteq Files
      BY <1>1, <1>4
    <3>2. \A L \in P!Lists : st.list[f][L] \cup More(f) \in SUBSET Files
      BY <3>1
    <3> QED
      BY <3>1, <3>2
  <2> QED
    BY <1>3, <2>1
<1>10. \A U : P!ListAttrFor(U) \in P!Lists
  BY DEF P!ListAttrFor, P!Lists
<1>11. ASSUME NEW f \in Files, NEW g \in Files, SameListed(st, other, f, g)
       PROVE  SameListed(new, same, f, g)
  <2> SUFFICES ASSUME NEW U \in Types
               PROVE  g \in new.list[f][P!ListAttrFor(U)] <=> g \in same.list[f][P!ListAttrFor(U)]
    BY DEF SameListed
  <2> DEFINE L == P!ListAttrFor(U)
  <2>1. L \in P!Lists /\ (g \in st.list[f][L] <=> g \in other.list[f][L])
    BY <1>10, <1>11 DEF SameListed
  <2> HIDE DEF L
  <2>2. g \in new.list[f][L] <=> g \in same.list[f][L]
    BY <1>8, <2>1
  <2> QED
    BY <2>2 DEF L
<1>12. \A f, g \in Files : {f, g} # {s, t} => \A L \in P!Lists : g \in new.list[f][L] <=> g \in st.list[f][L]
  BY <1>5, <1>8
<1>13. OnlyAbout(st, new, {{s, t}})
  BY <1>7, <1>12 DEF OnlyAbout
<1> QED
  BY <1>2, <1>9, <1>11, <1>13 DEF new, same

LEMMA AddTxStays ==
  ASSUME files \subseteq Files, NEW st, NEW known, WellStored(st, known),
         NEW s \in Files, NEW t \in Files, NEW T \in Types, NEW p \in R!PropertySet, R!InverseProperties(T, p) = p,
         R!FitsBounds(R!AddTx(st, {<<s, t>>}, T, p, p))
  PROVE  LET new == R!AddTx(st, {<<s, t>>}, T, p, p)
         IN WellStored(new, known \cup {s, t}) /\ PairsStay(st, new) /\ OnlyAbout(st, new, {{s, t}})
<1> DEFINE new == P!AddTx(st, {<<s, t>>}, T, p, p)
           all == WithLists(st)
           other == P!AddTx(all, {<<s, t>>}, T, p, p)
<1>1. R!AddTx(st, {<<s, t>>}, T, p, p) = new
  BY SameAddTx
<1>2. P!StoreOK(all) /\ P!Listed(all, files, known)
  BY WithListsOK
<1>3. all.rel = st.rel /\ all.list \in [Files -> [P!Lists -> SUBSET Files]]
  BY DEF WithLists
<1> HIDE DEF all
<1>4. /\ new.rel = other.rel
      /\ \A f, g \in Files : SameListed(st, all, f, g) => SameListed(new, other, f, g)
      /\ new.list \in [Files -> [P!Lists -> SUBSET Files]]
      /\ OnlyAbout(st, new, {{s, t}})
  BY <1>3, AddTxLocal
<1>5. p \in P!PropertySet /\ P!InverseProperties(T, p) = p
  BY SameTypes
<1>6. \A f, g \in Files : Len(other.rel[f][T][g]) <= MaxSets
  <2>1. R!FitsBounds(new)
    BY <1>1
  <2> HIDE DEF new, other
  <2> QED
    BY <1>4, <2>1 DEF R!FitsBounds
<1> DEFINE edges == {<<s, t>>}
<1>7. edges \in SUBSET (Files \X Files)
  OBVIOUS
<1>8. P!StoreOK(other)
  <2> HIDE DEF edges
  <2>1. \A f, g \in Files : Len(P!AddTx(all, edges, T, p, p).rel[f][T][g]) <= MaxSets
    BY <1>6 DEF edges
  <2>2. P!StoreOK(P!AddTx(all, edges, T, p, p))
    BY <1>2, <1>5, <1>7, <2>1, P!AddTxKeeps, KnownHolds DEF Known
  <2> QED
    BY <2>2 DEF edges
<1>9. P!Listed(other, files, known \cup {s, t})
  <2>1. known \subseteq known \cup {s, t} /\ edges \subseteq (known \cup {s, t}) \X (known \cup {s, t})
    OBVIOUS
  <2> HIDE DEF edges
  <2>2. P!Listed(P!AddTx(all, edges, T, p, p), files, known \cup {s, t})
    BY <1>2, <1>5, <2>1, P!AddTxListed, KnownHolds DEF Known
  <2> QED
    BY <2>2 DEF edges
<1>10. ASSUME NEW f \in Files, NEW g \in Files, P!InStep(all, {f, g})
       PROVE  P!InStep(other, {f, g})
  <2>1. {f, g} \in SUBSET Files
    OBVIOUS
  <2>2. \A h, k \in {f, g} : h # k => ~(<<h, k>> \in edges /\ <<k, h>> \in edges)
    OBVIOUS
  <2> HIDE DEF edges
  <2>3. P!InStep(P!AddTx(all, edges, T, p, p), {f, g})
    BY <1>2, <1>5, <1>10, <2>1, <2>2, P!AddTxInStep, KnownHolds DEF Known
  <2> QED
    BY <2>3 DEF edges
<1> HIDE DEF new, other
<1>11. PairsStay(st, new)
  <2> SUFFICES ASSUME NEW f \in files, NEW g \in files, PairOK(st, f, g) PROVE PairOK(new, f, g)
    BY DEF PairsStay
  <2>1. f \in Files /\ g \in Files
    OBVIOUS
  <2>2. P!TargetsListed(other)
    BY <1>9 DEF P!Listed
  <2> QED
    BY <1>4, <1>8, <1>10, <2>1, <2>2, PairOKFrom DEF all
<1>12. WellStored(new, known \cup {s, t})
  BY <1>4, <1>8, <1>9, WellStoredFrom DEF P!Listed
<1> QED
  BY <1>1, <1>4, <1>11, <1>12

\* The change of one pair looks at the relations of the two files, and at no list.
LEMMA StorePairLocal ==
  ASSUME NEW st, NEW other, NEW known, WellStored(st, known), other.rel = st.rel,
         NEW s \in Files, NEW t \in Files, NEW T \in Types, NEW forward, NEW inverse,
         other.list \in [Files -> [P!Lists -> SUBSET Files]]
  PROVE  LET new == P!StorePair(st, T, s, t, forward, inverse)
             same == P!StorePair(other, T, s, t, forward, inverse)
         IN /\ new.rel = same.rel
            /\ \A f, g \in Files : SameListed(st, other, f, g) => SameListed(new, same, f, g)
            /\ new.list \in [Files -> [P!Lists -> SUBSET Files]]
            /\ OnlyAbout(st, new, {{s, t}})
<1> DEFINE new == P!StorePair(st, T, s, t, forward, inverse)
           same == P!StorePair(other, T, s, t, forward, inverse)
           M == P!ListAttrFor(T)
           found == s # t /\ st.rel[t][T][s] # <<>>
           Gone(f) == IF f = s THEN (IF forward = <<>> THEN {t} ELSE {})
                      ELSE IF f = t /\ found THEN (IF inverse = <<>> THEN {s} ELSE {}) ELSE {}
           Left(targets, f) == IF f = s THEN P!Unlisted(targets, t, forward)
                               ELSE IF f = t /\ found THEN P!Unlisted(targets, s, inverse) ELSE targets
<1>1. /\ st.rel \in [Files -> [Types -> [Files -> Seq(P!PropertySet)]]]
      /\ st.list \in [Files -> [P!Lists -> SUBSET Files]]
  BY DEF WellStored
<1>2. new.rel = same.rel
  BY DEF P!StorePair
<1>3. /\ new.list = [f \in Files |-> [st.list[f] EXCEPT ![M] = Left(@, f)]]
      /\ same.list = [f \in Files |-> [other.list[f] EXCEPT ![M] = Left(@, f)]]
  BY DEF P!StorePair
<1>4. \A targets, f : Left(targets, f) = targets \/ Left(targets, f) = targets \ Gone(f)
  BY DEF P!Unlisted
<1>5. \A targets, f : Left(targets, f) = targets \ Gone(f)
  BY DEF P!Unlisted
<1>6. \A f, g \in Files : g \in Gone(f) => {f, g} = {s, t}
  OBVIOUS
<1>7. M \in P!Lists /\ \A U : P!ListAttrFor(U) \in P!Lists
  BY DEF P!ListAttrFor, P!Lists
<1>8. \A f, g \in Files, U \in Types : {f, g} # {s, t} => new.rel[f][U][g] = st.rel[f][U][g]
  BY <1>1 DEF P!StorePair
<1> HIDE DEF new, same, M, Gone, Left
<1>9. ASSUME NEW f \in Files, NEW L \in P!Lists
      PROVE  /\ new.list[f][L] = IF L = M THEN st.list[f][L] \ Gone(f) ELSE st.list[f][L]
             /\ same.list[f][L] = IF L = M THEN other.list[f][L] \ Gone(f) ELSE other.list[f][L]
             /\ new.list[f] = [K \in P!Lists |-> new.list[f][K]]
             /\ st.list[f][L] \subseteq Files
  <2>1. /\ st.list[f] = [K \in P!Lists |-> st.list[f][K]]
        /\ other.list[f] = [K \in P!Lists |-> other.list[f][K]]
        /\ st.list[f][L] \subseteq Files
    BY <1>1
  <2>2. /\ new.list[f] = [st.list[f] EXCEPT ![M] = Left(@, f)]
        /\ same.list[f] = [other.list[f] EXCEPT ![M] = Left(@, f)]
    BY <1>3
  <2> QED
    BY <1>5, <2>1, <2>2
<1>10. new.list \in [Files -> [P!Lists -> SUBSET Files]]
  <2>1. ASSUME NEW f \in Files PROVE new.list[f] \in [P!Lists -> SUBSET Files]
    <3>1. \A L \in P!Lists : new.list[f][L] \in SUBSET Files
      BY <1>9
    <3>2. new.list[f] = [K \in P!Lists |-> new.list[f][K]]
      BY <1>7, <1>9
    <3> QED
      BY <3>1, <3>2
  <2>2. new.list = [f \in Files |-> new.list[f]]
    BY <1>3
  <2> QED
    BY <2>1, <2>2
<1>11. ASSUME NEW f \in Files, NEW g \in Files, SameListed(st, other, f, g)
       PROVE  SameListed(new, same, f, g)
  <2> SUFFICES ASSUME NEW U \in Types
               PROVE  g \in new.list[f][P!ListAttrFor(U)] <=> g \in same.list[f][P!ListAttrFor(U)]
    BY DEF SameListed
  <2> DEFINE L == P!ListAttrFor(U)
  <2>1. L \in P!Lists /\ (g \in st.list[f][L] <=> g \in other.list[f][L])
    BY <1>7, <1>11 DEF SameListed
  <2> HIDE DEF L
  <2>2. g \in new.list[f][L] <=> g \in same.list[f][L]
    BY <1>9, <2>1
  <2> QED
    BY <2>2 DEF L
<1>12. \A f, g \in Files : {f, g} # {s, t} => \A L \in P!Lists : g \in new.list[f][L] <=> g \in st.list[f][L]
  BY <1>6, <1>9
<1>13. OnlyAbout(st, new, {{s, t}})
  BY <1>8, <1>12 DEF OnlyAbout
<1> QED
  BY <1>2, <1>10, <1>11, <1>13 DEF new, same

\* What each function does where the lists belong to the relations, it does where they do not.
LEMMA StaysFrom ==
  ASSUME files \subseteq Files, NEW st, NEW known, WellStored(st, known), NEW new, NEW other, NEW about,
         new.rel = other.rel,
         \A f, g \in Files : SameListed(st, WithLists(st), f, g) => SameListed(new, other, f, g),
         new.list \in [Files -> [P!Lists -> SUBSET Files]], OnlyAbout(st, new, about),
         P!StoreOK(other), P!Listed(other, files, known),
         \A f, g \in files : P!InStep(WithLists(st), {f, g}) => P!InStep(other, {f, g})
  PROVE  WellStored(new, known) /\ PairsStay(st, new) /\ OnlyAbout(st, new, about)
<1>1. P!TargetsListed(other) /\ P!HaveIds(other, files, known)
  BY DEF P!Listed
<1>2. ASSUME NEW f \in files, NEW g \in files, PairOK(st, f, g)
      PROVE  PairOK(new, f, g)
  <2>1. f \in Files /\ g \in Files
    OBVIOUS
  <2> QED
    BY <1>1, <1>2, <2>1, PairOKFrom
<1>3. WellStored(new, known)
  BY <1>1, WellStoredFrom
<1> QED
  BY <1>2, <1>3 DEF PairsStay

LEMMA RemoveOneStays ==
  ASSUME files \subseteq Files, NEW st, NEW known, WellStored(st, known),
         NEW s \in Files, NEW t \in Files, NEW T \in Types, NEW i \in DOMAIN st.rel[s][T][t],
         t \in files /\ t # s => R!FindsInverse(s, t)
  PROVE  LET new == R!RemoveOne(st, s, T, t, i)
         IN WellStored(new, known) /\ PairsStay(st, new) /\ OnlyAbout(st, new, {{s, t}})
<1> DEFINE new == P!RemoveOne(st, s, T, t, i)
           all == WithLists(st)
           other == P!RemoveOne(all, s, T, t, i)
<1>1. R!RemoveOne(st, s, T, t, i) = new
  BY SameRemoveOne
<1>2. P!StoreOK(all) /\ P!Listed(all, files, known)
  BY WithListsOK
<1>3. all.rel = st.rel /\ all.list \in [Files -> [P!Lists -> SUBSET Files]]
  BY DEF WithLists
<1>4. P!FindsInverse(s, t) <=> R!FindsInverse(s, t)
  BY DEF P!FindsInverse, R!FindsInverse, P!Resolves, R!Resolves
<1> HIDE DEF all
<1>5. /\ new.rel = other.rel
      /\ \A f, g \in Files : SameListed(st, all, f, g) => SameListed(new, other, f, g)
      /\ new.list \in [Files -> [P!Lists -> SUBSET Files]]
      /\ OnlyAbout(st, new, {{s, t}})
  <2> DEFINE forward == P!RemoveSet(st.rel[s][T][t], i)
             inverse == IF P!FindsInverse(s, t)
                        THEN P!InverseWithout(st.rel[t][T][s], st.rel[s][T][t][i].rid)
                        ELSE st.rel[t][T][s]
  <2>1. new = P!StorePair(st, T, s, t, forward, inverse) /\ other = P!StorePair(all, T, s, t, forward, inverse)
    BY <1>3 DEF P!RemoveOne
  <2> HIDE DEF new, other, forward, inverse
  <2> DEFINE paired == P!StorePair(st, T, s, t, forward, inverse)
             alike == P!StorePair(all, T, s, t, forward, inverse)
  <2>2. /\ paired.rel = alike.rel
        /\ \A f, g \in Files : SameListed(st, all, f, g) => SameListed(paired, alike, f, g)
        /\ paired.list \in [Files -> [P!Lists -> SUBSET Files]]
        /\ OnlyAbout(st, paired, {{s, t}})
    BY <1>3, StorePairLocal
  <2> HIDE DEF paired, alike
  <2>3. new = paired /\ other = alike
    BY <2>1 DEF paired, alike
  <2> QED
    BY <2>2, <2>3
<1>6. i \in DOMAIN all.rel[s][T][t]
  BY <1>3
<1>7. P!StoreOK(other)
  BY <1>2, <1>6, P!RemoveOneOK, KnownHolds DEF Known
<1>8. P!Listed(other, files, known)
  BY <1>2, <1>6, P!RemoveOneListed, KnownHolds DEF Known
<1>9. ASSUME NEW f \in files, NEW g \in files, P!InStep(all, {f, g})
      PROVE  P!InStep(other, {f, g})
  <2>1. {f, g} \in SUBSET Files
    OBVIOUS
  <2>2. t \in {f, g} /\ t # s => P!FindsInverse(s, t)
    BY <1>4
  <2> QED
    BY <1>2, <1>6, <1>9, <2>1, <2>2, P!RemoveOneInStep, KnownHolds DEF Known
<1> HIDE DEF new, other
<1>10. WellStored(new, known) /\ PairsStay(st, new) /\ OnlyAbout(st, new, {{s, t}})
  BY <1>5, <1>7, <1>8, <1>9, StaysFrom DEF all
<1> QED
  BY <1>1, <1>10

LEMMA ReplaceStays ==
  ASSUME SameLabels, files \subseteq Files, NEW st, NEW known, WellStored(st, known),
         NEW s \in Files, NEW t \in Files, NEW T \in Types, NEW i \in DOMAIN st.rel[s][T][t],
         NEW p \in R!PropertySet, p \in Updates \ {NoProperties}, t \in files /\ t # s => R!FindsInverse(s, t)
  PROVE  LET new == R!Replace(st, s, T, t, i, p)
         IN WellStored(new, known) /\ PairsStay(st, new) /\ OnlyAbout(st, new, {{s, t}})
<1> DEFINE new == P!Replace(st, s, T, t, i, p)
           all == WithLists(st)
           other == P!Replace(all, s, T, t, i, p)
<1>1. R!Replace(st, s, T, t, i, p) = new
  BY SameReplace
<1>2. P!StoreOK(all) /\ P!Listed(all, files, known)
  BY WithListsOK
<1>3. all.rel = st.rel /\ all.list \in [Files -> [P!Lists -> SUBSET Files]]
  BY DEF WithLists
<1>4. P!FindsInverse(s, t) <=> R!FindsInverse(s, t)
  BY DEF P!FindsInverse, R!FindsInverse, P!Resolves, R!Resolves
<1> HIDE DEF all
<1>5. /\ new.rel = other.rel
      /\ \A f, g \in Files : SameListed(st, all, f, g) => SameListed(new, other, f, g)
      /\ new.list \in [Files -> [P!Lists -> SUBSET Files]]
      /\ OnlyAbout(st, new, {{s, t}})
  <2> DEFINE forward == P!ReplaceSet(st.rel[s][T][t], i, p)
             inverse == IF P!FindsInverse(s, t)
                        THEN P!ReplaceInverse(T, st.rel[t][T][s], st.rel[s][T][t][i].rid, p)
                        ELSE st.rel[t][T][s]
  <2>1. new = P!StorePair(st, T, s, t, forward, inverse) /\ other = P!StorePair(all, T, s, t, forward, inverse)
    BY <1>3 DEF P!Replace
  <2> HIDE DEF new, other, forward, inverse
  <2> DEFINE paired == P!StorePair(st, T, s, t, forward, inverse)
             alike == P!StorePair(all, T, s, t, forward, inverse)
  <2>2. /\ paired.rel = alike.rel
        /\ \A f, g \in Files : SameListed(st, all, f, g) => SameListed(paired, alike, f, g)
        /\ paired.list \in [Files -> [P!Lists -> SUBSET Files]]
        /\ OnlyAbout(st, paired, {{s, t}})
    BY <1>3, StorePairLocal
  <2> HIDE DEF paired, alike
  <2>3. new = paired /\ other = alike
    BY <2>1 DEF paired, alike
  <2> QED
    BY <2>2, <2>3
<1>6. i \in DOMAIN all.rel[s][T][t] /\ p \in P!PropertySet /\ P!SameLabelsNoCopies
  BY <1>3, SameTypes, LabelsKnown
<1>7. P!StoreOK(other)
  BY <1>2, <1>6, P!ReplaceOK, KnownHolds DEF Known
<1>8. P!Listed(other, files, known)
  BY <1>2, <1>6, P!ReplaceListed, KnownHolds DEF Known
<1>9. ASSUME NEW f \in files, NEW g \in files, P!InStep(all, {f, g})
      PROVE  P!InStep(other, {f, g})
  <2>1. {f, g} \in SUBSET Files
    OBVIOUS
  <2>2. t \in {f, g} /\ t # s => P!FindsInverse(s, t)
    BY <1>4
  <2> QED
    BY <1>2, <1>6, <1>9, <2>1, <2>2, P!ReplaceInStep, KnownHolds DEF Known
<1> HIDE DEF new, other
<1>10. WellStored(new, known) /\ PairsStay(st, new) /\ OnlyAbout(st, new, {{s, t}})
  BY <1>5, <1>7, <1>8, <1>9, StaysFrom DEF all
<1> QED
  BY <1>1, <1>10

\* As in Relations_proofs, whose assumptions hold here.
LEMMA WholeInStep ==
  ASSUME NEW st, NEW s \in Files, NEW gone \in SUBSET (Types \X Files), P!StoreOK(st),
         NEW there \in SUBSET Files, P!InStep(st, there),
         \A t \in there, T \in Types : t # s /\ st.rel[s][T][t] # <<>> => P!FindsInverse(s, t)
  PROVE  P!InStep(P!RemoveWhole(st, s, gone), there)
BY P!RemoveWholeInStep, KnownHolds DEF Known

LEMMA RemoveWholeStays ==
  ASSUME files \subseteq Files, NEW st, NEW known, WellStored(st, known),
         NEW s \in Files, NEW t \in Files, NEW T \in Types,
         \A g \in files, U \in Types : g # s /\ st.rel[s][U][g] # <<>> => R!FindsInverse(s, g)
  PROVE  LET new == R!RemoveWhole(st, s, {<<T, t>>})
         IN WellStored(new, known) /\ PairsStay(st, new) /\ OnlyAbout(st, new, {{s, t}})
<1> DEFINE gone == {<<T, t>>}
           new == P!RemoveWhole(st, s, gone)
           all == WithLists(st)
           other == P!RemoveWhole(all, s, gone)
           Inverts(U, f) == <<U, f>> \in gone /\ P!FindsInverse(s, f)
           Goes(f, U, g) == (f = s /\ <<U, g>> \in gone) \/ (g = s /\ Inverts(U, f))
           Unlisted(f, L) ==
             IF f = s THEN {g \in Files : \E U \in Types : P!ListAttrFor(U) = L /\ <<U, g>> \in gone}
             ELSE IF \E U \in Types : P!ListAttrFor(U) = L /\ Inverts(U, f) /\ st.rel[f][U][s] # <<>> THEN {s} ELSE {}
<1>0. gone \in SUBSET (Types \X Files) /\ \A U, g : <<U, g>> \in gone => U = T /\ g = t
  OBVIOUS
<1>1. R!RemoveWhole(st, s, {<<T, t>>}) = new
  BY SameRemoveWhole
<1>2. P!StoreOK(all) /\ P!Listed(all, files, known)
  BY WithListsOK
<1>3. all.rel = st.rel /\ all.list \in [Files -> [P!Lists -> SUBSET Files]] /\ st.list \in [Files -> [P!Lists -> SUBSET Files]]
  BY DEF WithLists, WellStored
<1>4. \A g : P!FindsInverse(s, g) <=> R!FindsInverse(s, g)
  BY DEF P!FindsInverse, R!FindsInverse, P!Resolves, R!Resolves
<1> HIDE DEF all, gone
<1>5. /\ \A f, g \in Files, U \in Types : new.rel[f][U][g] = IF Goes(f, U, g) THEN <<>> ELSE st.rel[f][U][g]
      /\ new.rel = other.rel
  BY <1>3 DEF P!RemoveWhole
<1>6. /\ new.list = [f \in Files |-> [L \in P!Lists |-> st.list[f][L] \ Unlisted(f, L)]]
      /\ \A f \in Files, L \in P!Lists : other.list[f][L] = all.list[f][L] \ Unlisted(f, L)
  <2>1. \A f \in Files, L \in P!Lists :
          /\ new.list[f][L] = st.list[f][L] \ Unlisted(f, L)
          /\ other.list[f][L] = all.list[f][L] \ Unlisted(f, L)
    BY <1>3 DEF P!RemoveWhole
  <2>2. new.list = [f \in Files |-> [L \in P!Lists |-> new.list[f][L]]]
    BY DEF P!RemoveWhole
  <2> HIDE DEF new, other, Unlisted
  <2> QED
    BY <2>1, <2>2
<1>7. ASSUME NEW f \in Files, NEW g \in Files, NEW L, g \in Unlisted(f, L) PROVE {f, g} = {s, t}
  BY <1>0, <1>7
<1>8. ASSUME NEW f \in Files, NEW U \in Types, NEW g \in Files, Goes(f, U, g) PROVE {f, g} = {s, t}
  BY <1>0, <1>8
<1>9. P!StoreOK(other)
  BY <1>0, <1>2, P!RemoveWholeOK, KnownHolds DEF Known
<1>10. P!Listed(other, files, known)
  BY <1>0, <1>2, P!RemoveWholeListed, KnownHolds DEF Known
<1>11. ASSUME NEW f \in files, NEW g \in files, P!InStep(all, {f, g})
      PROVE  P!InStep(other, {f, g})
  <2>1. {f, g} \in SUBSET Files
    OBVIOUS
  <2> DEFINE here == {f, g}
  <2>2. \A h \in here, U \in Types : h # s /\ all.rel[s][U][h] # <<>> => P!FindsInverse(s, h)
    BY <1>3, <1>4
  <2>3. here \in SUBSET Files /\ P!InStep(all, here)
    BY <1>11, <2>1
  <2> HIDE DEF here
  <2>4. P!StoreOK(all) /\ gone \in SUBSET (Types \X Files) /\ here \in SUBSET Files /\ P!InStep(all, here)
    BY <1>0, <1>2, <2>3
  <2>5. P!InStep(P!RemoveWhole(all, s, gone), here)
    BY <2>2, <2>4, WholeInStep
  <2> QED
    BY <2>5 DEF here
<1> HIDE DEF new, other, Unlisted, Goes
<1>12. \A U : P!ListAttrFor(U) \in P!Lists
  BY DEF P!ListAttrFor, P!Lists
<1>13. ASSUME NEW f \in Files, NEW g \in Files, SameListed(st, all, f, g)
       PROVE  SameListed(new, other, f, g)
  <2> SUFFICES ASSUME NEW U \in Types
               PROVE  g \in new.list[f][P!ListAttrFor(U)] <=> g \in other.list[f][P!ListAttrFor(U)]
    BY DEF SameListed
  <2> DEFINE L == P!ListAttrFor(U)
  <2>1. L \in P!Lists /\ (g \in st.list[f][L] <=> g \in all.list[f][L])
    BY <1>12, <1>13 DEF SameListed
  <2> HIDE DEF L
  <2>2. g \in new.list[f][L] <=> g \in other.list[f][L]
    BY <1>6, <2>1
  <2> QED
    BY <2>2 DEF L
<1>14. new.list \in [Files -> [P!Lists -> SUBSET Files]]
  <2>1. \A f \in Files, L \in P!Lists : st.list[f][L] \ Unlisted(f, L) \in SUBSET Files
    BY <1>3
  <2> QED
    BY <1>6, <2>1
<1>15. OnlyAbout(st, new, {{s, t}})
  <2> SUFFICES ASSUME NEW f \in Files, NEW g \in Files, {f, g} # {s, t}
               PROVE  /\ \A U \in Types : new.rel[f][U][g] = st.rel[f][U][g]
                      /\ \A L \in P!Lists : g \in new.list[f][L] <=> g \in st.list[f][L]
    BY DEF OnlyAbout
  <2>1. ASSUME NEW U \in Types PROVE new.rel[f][U][g] = st.rel[f][U][g]
    <3>1. ~Goes(f, U, g)
      BY <1>8
    <3> QED
      BY <1>5, <3>1
  <2>2. \A L \in P!Lists : new.list[f][L] = st.list[f][L] \ Unlisted(f, L)
    BY <1>6
  <2>3. \A L : g \notin Unlisted(f, L)
    BY <1>7
  <2> QED
    BY <2>1, <2>2, <2>3
<1>16. WellStored(new, known) /\ PairsStay(st, new) /\ OnlyAbout(st, new, {{s, t}})
  BY <1>5, <1>9, <1>10, <1>11, <1>13, <1>14, <1>15, StaysFrom DEF all
<1> QED
  BY <1>1, <1>16

-----------------------------------------------------------------------------
(* The values that a request writes *)

\* The first store is as well stored where more ids are known.
LEMMA KnownGrows ==
  ASSUME NEW st, NEW known, NEW more, WellStored(st, known), known \subseteq more
  PROVE  WellStored(st, more)
BY DEF WellStored, P!HaveIds

LEMMA OnlyAboutSame == ASSUME NEW st, NEW about PROVE OnlyAbout(st, st, about)
BY DEF OnlyAbout

LEMMA OnlyAboutGrows ==
  ASSUME NEW st, NEW mid, NEW new, NEW few, NEW more, NEW about,
         OnlyAbout(st, mid, few), OnlyAbout(mid, new, more), few \subseteq about, more \subseteq about
  PROVE  OnlyAbout(st, new, about)
BY DEF OnlyAbout

\* What an attribute may hold, as in WellStored.
Held(a, v, known, there) ==
  IF a \in RelAttrs
  THEN /\ v \in [Files -> Seq(P!PropertySet)]
       /\ \A g \in Files : /\ P!WellKept(v[g])
                           /\ v[g] # <<>> => a[2] \in known /\ (g \in there => g \in known)
  ELSE v \in SUBSET Files

\* Two values of an attribute differ only for the pairs of files in about.
Agrees(a, v, w, about) ==
  \A g \in Files : {a[2], g} \notin about => IF a \in RelAttrs THEN v[g] = w[g] ELSE (g \in v <=> g \in w)

\* What is written for a request on st about these pairs.
Local(writes, st, known, about) ==
  \A i \in DOMAIN writes :
    LET a == writes[i].attr
    IN Held(a, writes[i].value, known, files) /\ Agrees(a, writes[i].value, Value(st, a), about)

LEMMA StoredIsHeld ==
  ASSUME NEW st, NEW known, WellStored(st, known), NEW a \in Attrs
  PROVE  Held(a, Value(st, a), known, files)
<1>1. CASE a \in RelAttrs
  <2>1. a[2] \in Files /\ a[3] \in Types
    BY <1>1 DEF RelAttrs
  <2>2. Value(st, a) = st.rel[a[2]][a[3]]
    BY <1>1 DEF Value
  <2>3. /\ st.rel[a[2]][a[3]] \in [Files -> Seq(P!PropertySet)]
        /\ \A g \in Files : P!WellKept(st.rel[a[2]][a[3]][g])
        /\ \A g \in Files : st.rel[a[2]][a[3]][g] # <<>> => a[2] \in known /\ (g \in files => g \in known)
    BY <2>1 DEF WellStored, P!HaveIds
  <2> QED
    BY <1>1, <2>2, <2>3 DEF Held
<1>2. CASE a \notin RelAttrs
  <2>1. a[2] \in Files /\ a[3] \in P!Lists
    BY <1>2, TxAttrsAssumption DEF ListAttrs, P!Lists
  <2>2. st.list[a[2]][a[3]] \in SUBSET Files
    BY <2>1 DEF WellStored
  <2> QED
    BY <1>2, <2>2 DEF Held, Value
<1> QED
  BY <1>1, <1>2

LEMMA AboutAgrees ==
  ASSUME NEW st, NEW new, NEW about, OnlyAbout(st, new, about), NEW a \in Attrs
  PROVE  Agrees(a, Value(new, a), Value(st, a), about)
<1> SUFFICES ASSUME NEW g \in Files, {a[2], g} \notin about
             PROVE  IF a \in RelAttrs THEN Value(new, a)[g] = Value(st, a)[g] ELSE (g \in Value(new, a) <=> g \in Value(st, a))
  BY DEF Agrees
<1>1. CASE a \in RelAttrs
  <2>1. a[2] \in Files /\ a[3] \in Types
    BY <1>1 DEF RelAttrs
  <2> QED
    BY <1>1, <2>1 DEF OnlyAbout, Value
<1>2. CASE a \notin RelAttrs
  <2>1. a[2] \in Files /\ a[3] \in P!Lists
    BY <1>2, TxAttrsAssumption DEF ListAttrs, P!Lists
  <2> QED
    BY <1>2, <2>1 DEF OnlyAbout, Value
<1> QED
  BY <1>1, <1>2

\* The values of a later store of the request.
LEMMA WritesLocal ==
  ASSUME NEW st, NEW new, NEW known, NEW about, WellStored(new, known), OnlyAbout(st, new, about),
         NEW attrs, Script(Writes(new, attrs))
  PROVE  Local(Writes(new, attrs), st, known, about)
<1> SUFFICES ASSUME NEW i \in DOMAIN Writes(new, attrs)
             PROVE  LET a == Writes(new, attrs)[i].attr
                        v == Writes(new, attrs)[i].value
                    IN Held(a, v, known, files) /\ Agrees(a, v, Value(st, a), about)
  BY DEF Local
<1> DEFINE a == Writes(new, attrs)[i].attr
<1>1. a \in Attrs
  BY DEF Script
<1>2. Writes(new, attrs)[i].value = Value(new, a)
  BY DEF Writes, Value
<1> HIDE DEF a
<1>3. Held(a, Value(new, a), known, files) /\ Agrees(a, Value(new, a), Value(st, a), about)
  BY <1>1, StoredIsHeld, AboutAgrees
<1> QED
  BY <1>2, <1>3 DEF a

LEMMA ConcatLocal ==
  ASSUME NEW st, NEW known, NEW about, NEW v, NEW w, Script(v), Script(w),
         Local(v, st, known, about), Local(w, st, known, about)
  PROVE  Local(v \o w, st, known, about)
<1> DEFINE S == {v[i] : i \in DOMAIN v} \cup {w[i] : i \in DOMAIN w}
           vw == v \o w
<1>1. v \in Seq(S) /\ w \in Seq(S)
  BY DEF Script, IsSeq
<1>2. /\ Len(v) \in Nat /\ Len(w) \in Nat /\ DOMAIN v = 1 .. Len(v) /\ DOMAIN w = 1 .. Len(w)
      /\ DOMAIN vw = 1 .. Len(v) + Len(w)
      /\ \A i \in DOMAIN vw : vw[i] = IF i <= Len(v) THEN v[i] ELSE w[i - Len(v)]
  BY <1>1
<1> HIDE DEF vw
<1>3. ASSUME NEW i \in DOMAIN vw
      PROVE  (i \in DOMAIN v /\ vw[i] = v[i]) \/ (i - Len(v) \in DOMAIN w /\ vw[i] = w[i - Len(v)])
  BY <1>2
<1>4. Local(vw, st, known, about)
  BY <1>3 DEF Local
<1> QED
  BY <1>4 DEF vw

\* What a request takes the store to, and what it writes.
Keeping(st, writes, goal, known, about) ==
  /\ GoodStore(goal) /\ Script(writes) /\ Leads(AttrsOf(st), writes, AttrsOf(goal))
  /\ Local(writes, st, known, about)
  /\ PairsStay(st, goal)

\* The target of a relation that is there is found.
LEMMA TargetIsFound ==
  ASSUME NEW st, WellStored(st, idsBefore), NEW s \in Files, NEW t \in files, t \in Files, NEW T \in Types,
         st.rel[s][T][t] # <<>>, t # s
  PROVE  R!FindsInverse(s, t)
BY DEF WellStored, P!HaveIds, R!FindsInverse, R!Resolves

LEMMA RemoveKeeping ==
  ASSUME files \subseteq Files, NEW st, GoodStore(st), WellStored(st, idsBefore),
         NEW s \in Files, NEW t \in Files, NEW T \in Types, NEW i \in DOMAIN st.rel[s][T][t]
  PROVE  LET goal == R!RemoveOne(st, s, T, t, i)
         IN Keeping(st, RemoveWrites(st, goal, s, T, t), goal, idsBefore, {{s, t}})
<1> DEFINE goal == R!RemoveOne(st, s, T, t, i)
           w == RemoveWrites(st, goal, s, T, t)
<1>1. st.rel[s][T][t] # <<>>
  OBVIOUS
<1>2. WellStored(goal, idsBefore) /\ PairsStay(st, goal) /\ OnlyAbout(st, goal, {{s, t}})
  BY <1>1, TargetIsFound, RemoveOneStays
<1>3. GoodStore(goal) /\ Script(w) /\ Leads(AttrsOf(st), w, AttrsOf(goal))
  BY RemoveOneLeads
<1> HIDE DEF goal
<1>4. Local(w, st, idsBefore, {{s, t}})
  <2>1. \E attrs : w = Writes(goal, attrs)
    BY DEF RemoveWrites
  <2> HIDE DEF w
  <2> QED
    BY <1>2, <1>3, <2>1, WritesLocal
<1> QED
  BY <1>2, <1>3, <1>4 DEF Keeping, goal

LEMMA RemoveAllKeeping ==
  ASSUME files \subseteq Files, NEW st, GoodStore(st), WellStored(st, idsBefore),
         NEW s \in Files, NEW t \in Files, NEW T \in Types
  PROVE  LET goal == R!RemoveWhole(st, s, {<<T, t>>})
         IN Keeping(st, RemoveWrites(st, goal, s, T, t), goal, idsBefore, {{s, t}})
<1> DEFINE goal == R!RemoveWhole(st, s, {<<T, t>>})
           w == RemoveWrites(st, goal, s, T, t)
<1>1. \A g \in files, U \in Types : g # s /\ st.rel[s][U][g] # <<>> => R!FindsInverse(s, g)
  BY TargetIsFound
<1>2. WellStored(goal, idsBefore) /\ PairsStay(st, goal) /\ OnlyAbout(st, goal, {{s, t}})
  BY <1>1, RemoveWholeStays
<1>3. GoodStore(goal) /\ Script(w) /\ Leads(AttrsOf(st), w, AttrsOf(goal))
  BY RemoveWholeLeads
<1> HIDE DEF goal
<1>4. Local(w, st, idsBefore, {{s, t}})
  <2>1. \E attrs : w = Writes(goal, attrs)
    BY DEF RemoveWrites
  <2> HIDE DEF w
  <2> QED
    BY <1>2, <1>3, <2>1, WritesLocal
<1> QED
  BY <1>2, <1>3, <1>4 DEF Keeping, goal

\* A set has its own label at the target.
LEMMA NoOtherLabel ==
  ASSUME SameLabels, NEW T \in Types, NEW p \in R!PropertySet, p.rid = NoRelationId
  PROVE  /\ R!InverseProperties(T, p) = p
         /\ \A own \in OwnLabels : R!AddedInverse(T, p, own) = p
<1>1. p \in P!PropertySet /\ P!SameLabelsNoCopies
  BY SameTypes, LabelsKnown
<1>2. P!InverseProperties(T, p) = p
  BY <1>1, P!InverseIsSame, KnownHolds DEF Known
<1>3. \A own \in OwnLabels : P!AddedInverse(T, p, own) = p
  BY <1>1, P!AddedInverseIsSame, KnownHolds DEF Known
<1> QED
  BY <1>2, <1>3, SameTypes

LEMMA AddKeeping ==
  ASSUME files \subseteq Files, NEW st, GoodStore(st), NEW known, WellStored(st, known),
         NEW s \in Files, NEW t \in Files, NEW T \in Types, NEW p \in R!PropertySet, R!InverseProperties(T, p) = p,
         R!FitsBounds(R!AddTx(st, {<<s, t>>}, T, p, p))
  PROVE  LET goal == R!AddTx(st, {<<s, t>>}, T, p, p)
         IN /\ Keeping(st, AddWrites(st, s, t, T, p, p), goal, known \cup {s, t}, {{s, t}})
            /\ WellStored(goal, known \cup {s, t})
            /\ OnlyAbout(st, goal, {{s, t}})
<1> DEFINE goal == R!AddTx(st, {<<s, t>>}, T, p, p)
           w == AddWrites(st, s, t, T, p, p)
<1>1. WellStored(goal, known \cup {s, t}) /\ PairsStay(st, goal) /\ OnlyAbout(st, goal, {{s, t}})
  BY AddTxStays
<1>2. GoodStore(goal) /\ Script(w) /\ Leads(AttrsOf(st), w, AttrsOf(goal))
  BY AddLeads
<1>3. Local(w, st, known \cup {s, t}, {{s, t}})
  <2>1. \E attrs : w = Writes(goal, attrs)
    BY DEF AddWrites
  <2> HIDE DEF w, goal
  <2> QED
    BY <1>1, <1>2, <2>1, WritesLocal
<1> QED
  BY <1>1, <1>2, <1>3 DEF Keeping

LEMMA ReplaceKeeping ==
  ASSUME SameLabels, files \subseteq Files, NEW st, GoodStore(st), WellStored(st, idsBefore),
         NEW s \in Files, NEW t \in Files, NEW T \in Types, NEW i \in DOMAIN st.rel[s][T][t],
         NEW p \in R!PropertySet, p \in Updates \ {NoProperties}
  PROVE  LET goal == R!Replace(st, s, T, t, i, p)
         IN /\ Keeping(st, ReplaceWrites(st, goal, s, T, t, st.rel[s][T][t][i].rid), goal, idsBefore, {{s, t}})
            /\ WellStored(goal, idsBefore)
            /\ OnlyAbout(st, goal, {{s, t}})
<1> DEFINE goal == R!Replace(st, s, T, t, i, p)
           w == ReplaceWrites(st, goal, s, T, t, st.rel[s][T][t][i].rid)
<1>1. st.rel[s][T][t] # <<>>
  OBVIOUS
<1>2. WellStored(goal, idsBefore) /\ PairsStay(st, goal) /\ OnlyAbout(st, goal, {{s, t}})
  BY <1>1, TargetIsFound, ReplaceStays
<1>3. GoodStore(goal) /\ Script(w) /\ Leads(AttrsOf(st), w, AttrsOf(goal))
  BY ReplaceLeads
<1> HIDE DEF goal
<1>4. Local(w, st, idsBefore, {{s, t}})
  <2>1. \E attrs : w = Writes(goal, attrs)
    BY DEF ReplaceWrites
  <2> HIDE DEF w
  <2> QED
    BY <1>2, <1>3, <2>1, WritesLocal
<1> QED
  BY <1>2, <1>3, <1>4 DEF Keeping, goal

\* What AddRelation stores for a client: no classification sticks here.
LEMMA AddedSet ==
  ASSUME NEW T \in Types, NEW p \in Inputs, NEW sender \in Senders
  PROVE  R!AddedProperties(T, p, sender) \in R!PropertySet /\ R!AddedProperties(T, p, sender).rid = NoRelationId
<1> DEFINE added == R!AddedProperties(T, p, sender)
           creator == IF p.provenance # NoCreator THEN p.provenance ELSE sender
           listed == IF R!ListsSticky(T, p) THEN R!StickyClassifications ELSE p.classifications
<1>1. p \in R!PropertySet
  BY TxSentAssumption DEF R!Sent
<1>2. added = [p EXCEPT !.provenance = creator, !.classifications = listed, !.rid = NoRelationId]
  BY DEF R!AddedProperties
<1>3. creator \in {NoCreator, Server} \cup Senders \cup {x.provenance : x \in R!Sent}
  BY <1>1 DEF R!PropertySet
<1>4. listed \in SUBSET Files
  <2>1. R!StickyClassifications = {}
    BY DEF R!StickyClassifications
  <2> QED
    BY <1>1, <2>1 DEF R!PropertySet
<1> HIDE DEF creator, listed, added
<1>5. added \in R!PropertySet /\ added.rid = NoRelationId
  BY <1>1, <1>2, <1>3, <1>4 DEF R!PropertySet
<1> QED
  BY <1>5 DEF added

\* What UpdateRelation stores at the new place.
LEMMA MovingSet ==
  ASSUME SameLabels, NEW st, NEW known, WellStored(st, known), NEW s \in Files, NEW T \in Types, NEW t \in Files,
         NEW i \in DOMAIN st.rel[s][T][t], NEW U \in Types
  PROVE  LET set == R!WithoutId(st.rel[s][T][t][i])
         IN set \in R!PropertySet /\ R!InverseProperties(U, set) = set
<1> DEFINE sets == st.rel[s][T][t]
<1>1. sets \in Seq(P!PropertySet)
  BY DEF WellStored
<1> HIDE DEF sets
<1>2. sets[i] \in P!PropertySet
  BY <1>1 DEF sets
<1>3. P!WithoutId(sets[i]) \in P!PropertySet /\ P!WithoutId(sets[i]).rid = NoRelationId
  BY <1>2 DEF P!WithoutId, P!PropertySet
<1>4. R!WithoutId(sets[i]) \in R!PropertySet /\ R!WithoutId(sets[i]).rid = NoRelationId
  BY <1>3, SameTypes
<1> QED
  BY <1>4, NoOtherLabel DEF sets

\* The relation that moves stays at its old place until it is at the new one.
LEMMA AddedElsewhere ==
  ASSUME NEW st, NEW known, WellStored(st, known), NEW s \in Files, NEW t \in Files, NEW T \in Types,
         NEW to \in Files, NEW U \in Types, NEW p, NEW q, to # t \/ U # T
  PROVE  R!AddTx(st, {<<s, to>>}, U, p, q).rel[s][T][t] = st.rel[s][T][t]
<1>1. st.rel \in [Files -> [Types -> [Files -> Seq(P!PropertySet)]]]
  BY DEF WellStored
<1> QED
  BY <1>1 DEF R!AddTx

LEMMA MoveKeeping ==
  ASSUME SameLabels, files \subseteq Files, NEW st, GoodStore(st), WellStored(st, idsBefore),
         NEW s \in Files, NEW t \in Files, NEW T \in Types, NEW i \in DOMAIN st.rel[s][T][t],
         NEW to \in Files, NEW U \in Types, to # t \/ U # T,
         NEW old, OnlyAbout(old, st, {{s, t}}),
         NEW p \in R!PropertySet, R!InverseProperties(U, p) = p, R!FitsBounds(R!AddTx(st, {<<s, to>>}, U, p, p))
  PROVE  LET added == R!AddTx(st, {<<s, to>>}, U, p, p)
             new   == R!RemoveOne(added, s, T, t, i)
             w     == AddWrites(st, s, to, U, p, p) \o RemoveWrites(added, new, s, T, t)
         IN PairsStay(st, new) /\ Local(w, old, idsBefore \cup {s, to}, {{s, t}, {s, to}})
<1> DEFINE added == R!AddTx(st, {<<s, to>>}, U, p, p)
           new == R!RemoveOne(added, s, T, t, i)
           v == AddWrites(st, s, to, U, p, p)
           w == RemoveWrites(added, new, s, T, t)
           known == idsBefore \cup {s, to}
           about == {{s, t}, {s, to}}
<1>1. t \in files /\ t # s => R!FindsInverse(s, t)
  BY TargetIsFound
<1>2. WellStored(added, known) /\ PairsStay(st, added) /\ OnlyAbout(st, added, {{s, to}})
  BY AddTxStays
<1>3. GoodStore(added) /\ Script(v)
  BY AddLeads
<1>4. added.rel[s][T][t] = st.rel[s][T][t]
  BY AddedElsewhere
<1> HIDE DEF added, known
<1>5. WellStored(new, known) /\ PairsStay(added, new) /\ OnlyAbout(added, new, {{s, t}})
  BY <1>1, <1>2, <1>4, RemoveOneStays
<1>6. Script(w)
  BY <1>3, RemoveOneLeads
<1> HIDE DEF new
<1>7. PairsStay(st, new)
  BY <1>2, <1>5 DEF PairsStay
<1>8. OnlyAbout(old, added, about)
  BY <1>2, OnlyAboutGrows
<1>9. OnlyAbout(old, new, about)
  BY <1>5, <1>8, OnlyAboutGrows
<1>10. Local(v, old, known, about)
  <2>1. \E attrs : v = Writes(added, attrs)
    BY DEF AddWrites, added
  <2> HIDE DEF v, about
  <2> QED
    BY <1>2, <1>3, <1>8, <2>1, WritesLocal
<1>11. Local(w, old, known, about)
  <2>1. \E attrs : w = Writes(new, attrs)
    BY DEF RemoveWrites
  <2> HIDE DEF w, about
  <2> QED
    BY <1>5, <1>6, <1>9, <2>1, WritesLocal
<1>12. Local(v \o w, old, known, about)
  <2> HIDE DEF v, w, about
  <2> QED
    BY <1>3, <1>6, <1>10, <1>11, ConcatLocal
<1> QED
  BY <1>7, <1>12 DEF new, added, known

-----------------------------------------------------------------------------
(* The invariant: what a request writes differs from the state before it    *)
(* only for the pairs of files that it is about, and is in step again when  *)
(* all is written; what is neither spoilt nor captured is as it was.        *)

\* What is stored for f and g is in step, and listed.
PairStored(attrs, f, g) ==
  \A T \in Types :
    /\ R!ShouldWriteInverse(T, f, g) => attrs[RelAttr(f, T)][g] = attrs[RelAttr(g, T)][f]
    /\ OwnList(T) /\ attrs[RelAttr(f, T)][g] # <<>> => g \in attrs[ListAttr(f, T)]
    /\ g \in attrs[ListAttr(f, T)] =>
         \E U \in Types : R!ListAttrFor(U) = R!ListAttrFor(T) /\ attrs[RelAttr(f, U)][g] # <<>>

\* The pairs of files that are there and not damaged.
UndamagedStored(attrs, there, damage) ==
  \A f, g \in there : {f, g} \notin damage => PairStored(attrs, f, g)

AllHeld ==
  /\ \A a \in Attrs : Held(a, before[a], idsBefore, files) /\ Held(a, store[a], ids, files)
  /\ \A a \in DOMAIN saved : Held(a, saved[a], ids, files)

\* What is not spoilt can be put back.
Recoverable == phase # "idle" => \A a \in Attrs \ spoilt : View(a) = before[a]

WritesWell ==
  phase = "open" =>
    /\ \A a \in Attrs : Agrees(a, store[a], before[a], pairs)
    /\ \A i \in DOMAIN script :
         LET a == script[i].attr
         IN Held(a, script[i].value, ids, files) /\ Agrees(a, script[i].value, before[a], pairs)
    /\ \E goal : /\ GoodStore(goal) /\ Leads(store, script, AttrsOf(goal))
                 /\ UndamagedStored(AttrsOf(goal), files, torn)

DamageInv ==
  /\ files \subseteq Files
  /\ AllHeld
  /\ UndamagedStored(before, files, torn)
  /\ Recoverable
  /\ WritesWell

LEMMA StoredPair ==
  ASSUME NEW st, NEW f \in Files, NEW g \in Files
  PROVE  PairStored(AttrsOf(st), f, g) <=> PairOK(st, f, g)
<1>1. ASSUME NEW h \in Files, NEW T \in Types
      PROVE  /\ AttrsOf(st)[RelAttr(h, T)] = st.rel[h][T]
             /\ AttrsOf(st)[ListAttr(h, T)] = st.list[h][R!ListAttrFor(T)]
  <2>1. /\ AttrsOf(st)[RelAttr(h, T)] = Value(st, RelAttr(h, T))
        /\ AttrsOf(st)[ListAttr(h, T)] = Value(st, ListAttr(h, T))
    BY AttrsOfPair DEF AttrsOf
  <2>2. Value(st, RelAttr(h, T)) = st.rel[h][T]
    BY AttrsOfPair DEF Value, RelAttr
  <2>3. Value(st, ListAttr(h, T)) = st.list[h][R!ListAttrFor(T)]
    BY AttrsOfPair DEF Value, ListAttr
  <2> QED
    BY <2>1, <2>2, <2>3
<1> QED
  BY <1>1 DEF PairStored, PairOK, ListedOK

\* Where the attributes of f and g agree on the pair, they store the same of it.
LEMMA PairAgrees ==
  ASSUME NEW attrs, NEW other, NEW about, NEW f \in Files, NEW g \in Files, {f, g} \notin about,
         \A a \in Attrs : a[2] \in {f, g} => Agrees(a, attrs[a], other[a], about), PairStored(other, f, g)
  PROVE  PairStored(attrs, f, g)
<1>1. {g, f} \notin about
  <2>1. {g, f} = {f, g}
    OBVIOUS
  <2> QED
    BY <2>1
<1>2. ASSUME NEW T \in Types
      PROVE  /\ attrs[RelAttr(f, T)][g] = other[RelAttr(f, T)][g]
             /\ attrs[RelAttr(g, T)][f] = other[RelAttr(g, T)][f]
             /\ g \in attrs[ListAttr(f, T)] <=> g \in other[ListAttr(f, T)]
  <2>1. RelAttr(f, T)[2] = f /\ RelAttr(g, T)[2] = g /\ ListAttr(f, T)[2] = f
    BY DEF RelAttr, ListAttr
  <2>2. attrs[RelAttr(f, T)][g] = other[RelAttr(f, T)][g]
    BY <2>1, AttrsOfPair DEF Agrees
  <2>3. attrs[RelAttr(g, T)][f] = other[RelAttr(g, T)][f]
    BY <1>1, <2>1, AttrsOfPair DEF Agrees
  <2>4. g \in attrs[ListAttr(f, T)] <=> g \in other[ListAttr(f, T)]
    BY <2>1, AttrsOfPair DEF Agrees
  <2> QED
    BY <2>2, <2>3, <2>4
<1> QED
  BY <1>2 DEF PairStored

LEMMA SameAgrees == ASSUME NEW a, NEW v, NEW about PROVE Agrees(a, v, v, about)
BY DEF Agrees

LEMMA PairSame ==
  ASSUME NEW attrs, NEW other, NEW f \in Files, NEW g \in Files,
         \A a \in Attrs : a[2] \in {f, g} => attrs[a] = other[a], PairStored(other, f, g)
  PROVE  PairStored(attrs, f, g)
<1>1. {f, g} \notin {}
  OBVIOUS
<1>2. \A a \in Attrs : a[2] \in {f, g} => Agrees(a, attrs[a], other[a], {})
  BY SameAgrees
<1> DEFINE about == {}
<1>3. {f, g} \notin about /\ \A a \in Attrs : a[2] \in {f, g} => Agrees(a, attrs[a], other[a], about)
  BY <1>1, <1>2
<1> HIDE DEF about
<1> QED
  BY <1>3, PairAgrees

LEMMA HeldGrows ==
  ASSUME NEW a, NEW v, NEW known, NEW more, NEW there, Held(a, v, known, there), known \subseteq more
  PROVE  Held(a, v, more, there)
BY DEF Held

LEMMA EmptyHeld ==
  ASSUME NEW a \in Attrs, NEW known, NEW there
  PROVE  Held(a, IF a \in ListAttrs THEN {} ELSE NoTargets, known, there)
<1>1. CASE a \in RelAttrs
  <2>1. a \notin ListAttrs
    BY <1>1 DEF RelAttrs, ListAttrs
  <2>2. P!WellKept(<<>>)
    BY P!NoSets, KnownHolds DEF Known
  <2> QED
    BY <1>1, <2>1, <2>2 DEF Held, NoTargets
<1>2. CASE a \notin RelAttrs
  BY <1>2, TxAttrsAssumption DEF Held
<1> QED
  BY <1>1, <1>2

\* A write, or what it leaves when it fails.
LEMMA WrittenHeld ==
  ASSUME DamageInv, SnapshotTypeOK, NEW a \in Attrs, NEW v, Held(a, v, ids, files),
         Captures(a), store' = [store EXCEPT ![a] = v], Written(a), phase = "open",
         UNCHANGED <<files, ids, idsBefore, before>>
  PROVE  /\ AllHeld'
         /\ \A b \in Attrs \ spoilt' : View(b)' = before[b]
         /\ \A b \in Attrs : store'[b] = IF b = a THEN v ELSE store[b]
<1>1. \A b \in Attrs : store'[b] = IF b = a THEN v ELSE store[b]
  BY DEF SnapshotTypeOK
<1>2. ASSUME NEW b \in DOMAIN saved'
      PROVE  (b \in DOMAIN saved /\ saved'[b] = saved[b]) \/ (b \in Attrs /\ saved'[b] = store[b])
  BY <1>2 DEF Captures, Capture, SnapshotTypeOK
<1>3. AllHeld'
  BY <1>1, <1>2 DEF DamageInv, AllHeld
<1>4. ASSUME NEW b \in Attrs \ spoilt' PROVE View(b)' = before[b]
  <2>1. spoilt' = spoilt \cup ({a} \ DOMAIN saved')
    BY DEF Written
  <2>2. b \notin spoilt /\ (b # a \/ a \in DOMAIN saved')
    BY <2>1
  <2>3. View(b)' = View(b)
    BY <2>2, WriteView
  <2>4. View(b) = before[b]
    BY <2>2 DEF DamageInv, Recoverable
  <2> QED
    BY <2>3, <2>4
<1> QED
  BY <1>1, <1>3, <1>4

LEMMA WriteNextWell ==
  ASSUME TxInv, DamageInv, WriteNext
  PROVE  DamageInv'
<1> DEFINE a == Head(script).attr
           v == Head(script).value
<1>1. /\ phase = "open" /\ phase' = "open" /\ UNCHANGED <<files, ids, idsBefore, pairs, torn, before>>
      /\ script # <<>> /\ script' = Tail(script)
      /\ Captures(a) /\ Written(a) /\ store' = [store EXCEPT ![a] = v]
  BY DEF WriteNext, WriteAttr, requestVars
<1>2. a \in Attrs /\ Script(script) /\ SnapshotTypeOK /\ store = [b \in Attrs |-> store[b]]
  BY <1>1, GoodWrite DEF TxInv, TxTypeOK, SnapshotInv, SnapshotTypeOK
<1>3. /\ Script(Tail(script)) /\ Len(script) \in Nat \ {0} /\ Len(Tail(script)) = Len(script) - 1
      /\ Head(script) = script[1] /\ DOMAIN script = 1 .. Len(script)
      /\ \A i \in 1 .. Len(script) - 1 : Tail(script)[i] = script[i + 1]
  BY <1>1, <1>2, ScriptTail
<1>4. Held(a, v, ids, files) /\ Agrees(a, v, before[a], pairs)
  <2>1. 1 \in DOMAIN script
    BY <1>3
  <2> QED
    BY <1>1, <1>3, <2>1 DEF DamageInv, WritesWell
<1> HIDE DEF a, v
<1>5. /\ AllHeld'
      /\ \A b \in Attrs \ spoilt' : View(b)' = before[b]
      /\ \A b \in Attrs : store'[b] = IF b = a THEN v ELSE store[b]
  BY <1>1, <1>2, <1>4, WrittenHeld
<1>6. \A b \in Attrs : Agrees(b, store'[b], before[b], pairs)
  BY <1>1, <1>4, <1>5 DEF DamageInv, WritesWell
<1>7. ASSUME NEW i \in DOMAIN Tail(script)
      PROVE  Held(Tail(script)[i].attr, Tail(script)[i].value, ids, files)
             /\ Agrees(Tail(script)[i].attr, Tail(script)[i].value, before[Tail(script)[i].attr], pairs)
  <2>1. DOMAIN Tail(script) = 1 .. Len(Tail(script))
    <3> DEFINE tail == Tail(script)
    <3>1. IsSeq(tail)
      BY <1>3 DEF Script
    <3> HIDE DEF tail
    <3>2. DOMAIN tail = 1 .. Len(tail)
      BY <3>1 DEF IsSeq
    <3> QED
      BY <3>2 DEF tail
  <2>2. i \in 1 .. Len(script) - 1 /\ i + 1 \in DOMAIN script
    BY <1>3, <2>1
  <2>3. Tail(script)[i] = script[i + 1]
    BY <1>3, <2>2
  <2> QED
    BY <1>1, <2>2, <2>3 DEF DamageInv, WritesWell
<1>8. \E goal : /\ GoodStore(goal) /\ Leads(store', Tail(script), AttrsOf(goal))
                /\ UndamagedStored(AttrsOf(goal), files, torn)
  <2> PICK goal : /\ GoodStore(goal) /\ Leads(store, script, AttrsOf(goal))
                  /\ UndamagedStored(AttrsOf(goal), files, torn)
    BY <1>1 DEF DamageInv, WritesWell
  <2>1. Leads([store EXCEPT ![a] = v], Tail(script), AttrsOf(goal))
    BY <1>1, <1>2, FirstWrite DEF a, v
  <2> QED
    BY <1>1, <2>1
<1>9. WritesWell'
  BY <1>1, <1>6, <1>7, <1>8 DEF WritesWell
<1>10. Recoverable'
  BY <1>1, <1>5 DEF Recoverable
<1>11. files' \subseteq Files /\ UndamagedStored(before, files, torn)'
  BY <1>1 DEF DamageInv
<1> QED
  BY <1>5, <1>9, <1>10, <1>11 DEF DamageInv

LEMMA WriteNextFailsWell ==
  ASSUME TxInv, DamageInv, WriteNextFails
  PROVE  DamageInv'
<1> DEFINE a == Head(script).attr
           empty == IF a \in ListAttrs THEN {} ELSE NoTargets
<1>1. PICK v \in {store[a], empty} : WriteFails(a, v) /\ Written(a)
  BY DEF WriteNextFails
<1>2. /\ phase = "open" /\ phase' = "restoring" /\ UNCHANGED <<files, ids, idsBefore, torn, before>>
      /\ script # <<>> /\ Captures(a) /\ store' = [store EXCEPT ![a] = v]
  BY <1>1 DEF WriteNextFails, WriteFails, requestVars
<1>3. a \in Attrs /\ SnapshotTypeOK
  BY <1>2, GoodWrite DEF TxInv, TxTypeOK, SnapshotInv
<1>4. Held(a, v, ids, files)
  <2>1. Held(a, store[a], ids, files)
    BY <1>3 DEF DamageInv, AllHeld
  <2>2. Held(a, empty, ids, files)
    BY <1>3, EmptyHeld
  <2> QED
    BY <2>1, <2>2
<1>5. AllHeld' /\ \A b \in Attrs \ spoilt' : View(b)' = before[b]
  BY <1>1, <1>2, <1>3, <1>4, WrittenHeld
<1> QED
  BY <1>2, <1>5 DEF DamageInv, Recoverable, WritesWell

LEMMA StepFailsTxWell ==
  ASSUME TxInv, DamageInv, StepFailsTx
  PROVE  DamageInv'
<1>1. /\ phase = "open" /\ phase' = "restoring"
      /\ UNCHANGED <<store, saved, before, files, ids, idsBefore, spoilt, torn>>
  BY DEF StepFailsTx, StepFails, requestVars
<1>2. \A b : View(b)' = View(b)
  BY <1>1 DEF View
<1>3. AllHeld'
  BY <1>1 DEF DamageInv, AllHeld
<1> QED
  BY <1>1, <1>2, <1>3 DEF DamageInv, Recoverable, WritesWell

LEMMA RestoreNextWell ==
  ASSUME TxInv, DamageInv, RestoreNext
  PROVE  DamageInv'
<1>1. PICK a \in Attrs : /\ RestoreAttr(a)
                         /\ \/ store'[a] = saved[a] /\ UNCHANGED spoilt
                            \/ store'[a] # saved[a] /\ Undamaged /\ spoilt' = spoilt \cup {a}
  BY DEF RestoreNext
<1>2. /\ phase = "restoring" /\ phase' = "restoring"
      /\ UNCHANGED <<before, files, ids, idsBefore, torn>>
      /\ a \in DOMAIN saved /\ saved' = [b \in DOMAIN saved \ {a} |-> saved[b]]
      /\ store' = [store EXCEPT ![a] = saved[a]] \/ store' = store
  BY <1>1 DEF RestoreNext, RestoreAttr, requestVars
<1>3. SnapshotTypeOK
  BY DEF TxInv, SnapshotInv
<1>4. AllHeld'
  BY <1>2, <1>3 DEF DamageInv, AllHeld, SnapshotTypeOK
<1>5. \A b \in Attrs : b # a \/ store'[a] = saved[a] => View(b)' = View(b)
  BY <1>1, <1>3, RestoreView
<1>6. ASSUME NEW b \in Attrs \ spoilt' PROVE View(b)' = before[b]
  <2>1. b \notin spoilt /\ (b # a \/ store'[a] = saved[a])
    BY <1>1
  <2> QED
    BY <1>2, <1>5, <2>1 DEF DamageInv, Recoverable
<1> QED
  BY <1>2, <1>4, <1>6 DEF DamageInv, Recoverable, WritesWell

\* A request is over.
LEMMA DoneWell ==
  ASSUME DamageInv, phase' = "idle", UNCHANGED <<store, files, ids>>, before' = store, idsBefore' = ids,
         DOMAIN saved' = {}, \A f, g \in files : {f, g} \notin torn' => PairStored(store, f, g)
  PROVE  DamageInv'
<1>1. AllHeld'
  BY DEF DamageInv, AllHeld
<1>2. UndamagedStored(before', files', torn')
  BY DEF UndamagedStored
<1> QED
  BY <1>1, <1>2 DEF DamageInv, Recoverable, WritesWell

LEMMA RestoreDoneTxWell ==
  ASSUME TxInv, DamageInv, RestoreDoneTx
  PROVE  DamageInv'
<1>1. /\ phase = "restoring" /\ DOMAIN saved = {} /\ phase' = "idle" /\ before' = store
      /\ UNCHANGED <<store, saved, files, ids>> /\ idsBefore' = ids
      /\ torn' = IF spoilt = {} THEN torn ELSE torn \cup Damaged
  BY DEF RestoreDoneTx, RestoreDone, Done
<1>2. ASSUME NEW f \in files, NEW g \in files, {f, g} \notin torn' PROVE PairStored(store, f, g)
  <2>1. f \in Files /\ g \in Files /\ {f, g} \notin torn
    BY <1>1, <1>2 DEF DamageInv
  <2>2. PairStored(before, f, g)
    BY <2>1 DEF DamageInv, UndamagedStored
  <2>3. ASSUME NEW a \in Attrs, a[2] \in {f, g} PROVE store[a] = before[a]
    <3>1. a \notin spoilt
      <4> SUFFICES ASSUME a \in spoilt PROVE FALSE
        OBVIOUS
      <4>1. {a[2], g} \in Damaged /\ {a[2], f} \in Damaged
        BY <2>1 DEF Damaged
      <4>2. {a[2], g} = {f, g} \/ {a[2], f} = {f, g}
        BY <2>3
      <4> QED
        BY <1>1, <1>2, <4>1, <4>2
    <3> QED
      BY <1>1, <3>1 DEF DamageInv, Recoverable, View
  <2> QED
    BY <2>1, <2>2, <2>3, PairSame
<1> QED
  BY <1>1, <1>2, DoneWell

LEMMA CommitTxWell ==
  ASSUME TxInv, DamageInv, CommitTx
  PROVE  DamageInv'
<1>1. /\ phase = "open" /\ script = <<>> /\ phase' = "idle" /\ before' = store /\ saved' = Nothing
      /\ UNCHANGED <<store, files, ids, torn>> /\ idsBefore' = ids
  BY DEF CommitTx, Commit, Done
<1> PICK goal : GoodStore(goal) /\ Leads(store, <<>>, AttrsOf(goal)) /\ UndamagedStored(AttrsOf(goal), files, torn)
  BY <1>1 DEF DamageInv, WritesWell
<1>2. store = [a \in Attrs |-> store[a]] /\ AttrsOf(goal) = [a \in Attrs |-> AttrsOf(goal)[a]]
  BY DEF TxInv, SnapshotInv, SnapshotTypeOK, AttrsOf
<1>3. store = AttrsOf(goal)
  BY <1>2, NoWrites
<1>4. \A f, g \in files : {f, g} \notin torn' => PairStored(store, f, g)
  BY <1>1, <1>3 DEF UndamagedStored
<1>5. DOMAIN saved' = {}
  BY <1>1 DEF Nothing
<1> QED
  BY <1>1, <1>4, <1>5, DoneWell

LEMMA CrashTxWell ==
  ASSUME TxInv, DamageInv, CrashTx
  PROVE  DamageInv'
<1>1. /\ phase # "idle" /\ phase' = "idle" /\ before' = store /\ saved' = Nothing
      /\ UNCHANGED <<store, files, ids>> /\ idsBefore' = ids /\ torn' = torn \cup Damaged
  BY DEF CrashTx, Crash, Done
<1>2. ASSUME NEW f \in files, NEW g \in files, {f, g} \notin torn' PROVE PairStored(store, f, g)
  <2>1. f \in Files /\ g \in Files /\ {f, g} \notin torn /\ {f, g} \notin Damaged
    BY <1>1, <1>2 DEF DamageInv
  <2>2. PairStored(before, f, g)
    BY <2>1 DEF DamageInv, UndamagedStored
  <2>3. CASE phase = "open"
    <3>1. {f, g} \notin pairs
      BY <2>1 DEF Damaged
    <3>2. \A a \in Attrs : a[2] \in {f, g} => Agrees(a, store[a], before[a], pairs)
      BY <2>3 DEF DamageInv, WritesWell
    <3> QED
      BY <2>1, <2>2, <3>1, <3>2, PairAgrees
  <2>4. CASE phase = "restoring"
    <3>1. ASSUME NEW a \in Attrs, a[2] \in {f, g} PROVE store[a] = before[a]
      <4>1. a \notin spoilt /\ a \notin DOMAIN saved
        <5> SUFFICES ASSUME a \in spoilt \cup DOMAIN saved PROVE FALSE
          OBVIOUS
        <5>1. {a[2], g} \in Damaged /\ {a[2], f} \in Damaged
          BY <2>1, <2>4 DEF Damaged
        <5>2. {a[2], g} = {f, g} \/ {a[2], f} = {f, g}
          BY <3>1
        <5> QED
          BY <2>1, <5>1, <5>2
      <4> QED
        BY <1>1, <4>1 DEF DamageInv, Recoverable, View
    <3> QED
      BY <2>1, <2>2, <3>1, PairSame
  <2> QED
    BY <1>1, <2>3, <2>4 DEF TxInv, SnapshotInv, SnapshotTypeOK
<1>3. DOMAIN saved' = {}
  BY <1>1 DEF Nothing
<1> QED
  BY <1>1, <1>2, <1>3, DoneWell

LEMMA DeleteFileWell ==
  ASSUME TxInv, DamageInv, NEW f \in Files, DeleteFile(f)
  PROVE  DamageInv'
<1>1. /\ phase = "idle" /\ phase' = "idle" /\ files' = files \ {f} /\ ids' = ids \ {f} /\ idsBefore' = ids'
      /\ store' = [a \in Attrs |-> IF a[2] # f THEN store[a] ELSE IF a \in ListAttrs THEN {} ELSE NoTargets]
      /\ before' = store' /\ UNCHANGED <<saved, torn>>
  BY DEF DeleteFile
<1>2. DOMAIN saved = {} /\ before = store /\ DOMAIN saved' = {}
  BY <1>1 DEF TxInv, SnapshotInv, Rest
<1>3. ASSUME NEW a \in Attrs PROVE Held(a, store'[a], ids', files')
  <2>1. CASE a[2] = f
    <3>1. store'[a] = IF a \in ListAttrs THEN {} ELSE NoTargets
      BY <1>1, <2>1
    <3> QED
      BY <3>1, EmptyHeld
  <2>2. CASE a[2] # f
    <3>1. store'[a] = store[a] /\ Held(a, store[a], ids, files)
      BY <1>1, <2>2 DEF DamageInv, AllHeld
    <3> QED
      BY <1>1, <2>2, <3>1 DEF Held
  <2> QED
    BY <2>1, <2>2
<1>4. AllHeld'
  BY <1>1, <1>2, <1>3 DEF AllHeld
<1>5. ASSUME NEW g \in files', NEW h \in files', {g, h} \notin torn' PROVE PairStored(store', g, h)
  <2>1. g \in Files /\ h \in Files /\ g \in files /\ h \in files /\ g # f /\ h # f
    BY <1>1 DEF DamageInv
  <2>2. PairStored(store, g, h)
    BY <1>1, <1>2, <1>5, <2>1 DEF DamageInv, UndamagedStored
  <2>3. \A a \in Attrs : a[2] \in {g, h} => store'[a] = store[a]
    BY <1>1, <2>1
  <2> QED
    BY <2>1, <2>2, <2>3, PairSame
<1> QED
  BY <1>1, <1>4, <1>5 DEF DamageInv, UndamagedStored, Recoverable, WritesWell

LEMMA InitDamageInv == InitTx => DamageInv
<1> SUFFICES ASSUME InitTx PROVE DamageInv
  OBVIOUS
<1>1. /\ store = [a \in Attrs |-> IF a \in ListAttrs THEN {} ELSE NoTargets]
      /\ saved = Nothing /\ phase = "idle" /\ before = store /\ files = Files
  BY DEF InitTx
<1>2. DOMAIN saved = {}
  BY <1>1 DEF Nothing
<1>3. AllHeld
  BY <1>1, <1>2, EmptyHeld DEF AllHeld
<1>4. ASSUME NEW f \in Files, NEW g \in Files PROVE PairStored(store, f, g)
  <2> SUFFICES ASSUME NEW T \in Types
               PROVE  store[RelAttr(f, T)][g] = <<>> /\ store[RelAttr(g, T)][f] = <<>> /\ store[ListAttr(f, T)] = {}
    BY DEF PairStored
  <2>1. RelAttr(f, T) \notin ListAttrs /\ RelAttr(g, T) \notin ListAttrs
    BY DEF RelAttr, ListAttrs
  <2> QED
    BY <1>1, <2>1, AttrsOfPair DEF NoTargets
<1> QED
  BY <1>1, <1>3, <1>4 DEF DamageInv, UndamagedStored, Recoverable, WritesWell

-----------------------------------------------------------------------------
(* The requests *)

\* Between requests the store is well kept, and is what the attributes hold.
LEMMA StoreIsWell ==
  ASSUME TxInv, DamageInv, phase = "idle"
  PROVE  /\ GoodStore(R!Store) /\ WellStored(R!Store, idsBefore) /\ files \subseteq Files
         /\ AttrsOf(R!Store) = store /\ before = store /\ ids = idsBefore
         /\ \A a \in Attrs : Value(R!Store, a) = before[a]
<1> DEFINE st == R!Store
<1>1. GoodStore(st) /\ \A a \in Attrs : Value(st, a) = View(a)
  BY StoreOfView DEF TxInv
<1>2. before = store /\ ids = idsBefore /\ \A a \in Attrs : View(a) = store[a]
  BY DEF TxInv, TxTypeOK, SnapshotInv, Rest, View
<1>3. AttrsOf(st) = store
  BY <1>1, <1>2 DEF AttrsOf, TxInv, SnapshotInv, SnapshotTypeOK
<1> HIDE DEF st
<1>4. ASSUME NEW f \in Files, NEW T \in Types
      PROVE  /\ st.rel[f][T] \in [Files -> Seq(P!PropertySet)]
             /\ \A g \in Files : /\ P!WellKept(st.rel[f][T][g])
                                 /\ st.rel[f][T][g] # <<>> => f \in idsBefore /\ (g \in files => g \in idsBefore)
  <2>1. RelAttr(f, T) \in RelAttrs /\ RelAttr(f, T) \in Attrs /\ RelAttr(f, T)[2] = f /\ RelAttr(f, T)[3] = T
    BY AttrsOfPair DEF RelAttr
  <2>2. Held(RelAttr(f, T), before[RelAttr(f, T)], idsBefore, files)
    BY <2>1 DEF DamageInv, AllHeld
  <2>3. before[RelAttr(f, T)] = st.rel[f][T]
    BY <1>1, <1>2, <2>1 DEF Value
  <2> QED
    BY <2>1, <2>2, <2>3 DEF Held
<1>5. ASSUME NEW f \in Files, NEW L \in P!Lists PROVE st.list[f][L] \in SUBSET Files
  <2> DEFINE a == <<"list", f, L>>
  <2>1. a \notin RelAttrs /\ a \in Attrs /\ a[2] = f /\ a[3] = L
    BY TxAttrsAssumption DEF RelAttrs, ListAttrs, P!Lists
  <2> HIDE DEF a
  <2>2. Held(a, before[a], idsBefore, files)
    BY <2>1 DEF DamageInv, AllHeld
  <2>3. before[a] = st.list[f][L]
    BY <1>1, <1>2, <2>1 DEF Value
  <2> QED
    BY <2>1, <2>2, <2>3 DEF Held
<1>6. st.rel \in [Files -> [Types -> [Files -> Seq(P!PropertySet)]]]
  <2>1. st.rel = [f \in Files |-> [T \in Types |-> st.rel[f][T]]]
    BY <1>1 DEF GoodStore
  <2>2. [f \in Files |-> [T \in Types |-> st.rel[f][T]]] \in [Files -> [Types -> [Files -> Seq(P!PropertySet)]]]
    BY <1>4
  <2> QED
    BY <2>1, <2>2
<1>7. st.list \in [Files -> [P!Lists -> SUBSET Files]]
  <2>1. st.list = [f \in Files |-> [L \in P!Lists |-> st.list[f][L]]]
    BY <1>1 DEF GoodStore, P!Lists
  <2>2. [f \in Files |-> [L \in P!Lists |-> st.list[f][L]]] \in [Files -> [P!Lists -> SUBSET Files]]
    BY <1>5
  <2> QED
    BY <2>1, <2>2
<1>8. WellStored(st, idsBefore)
  BY <1>4, <1>6, <1>7 DEF WellStored, P!HaveIds
<1>9. files \subseteq Files
  BY DEF DamageInv
<1> QED
  BY <1>1, <1>2, <1>3, <1>8, <1>9 DEF st

LEMMA BegunWell ==
  ASSUME TxInv, DamageInv, NEW writes, NEW about, Request(writes, about), ids \subseteq ids',
         NEW goal, NEW known, known \subseteq ids', Keeping(R!Store, writes, goal, known, about)
  PROVE  DamageInv'
<1>1. /\ phase = "idle" /\ phase' = "open" /\ script' = writes /\ pairs' = about
      /\ UNCHANGED <<store, saved, before, files, idsBefore, spoilt, torn>>
  BY DEF Request, BeginTx
<1>2. /\ AttrsOf(R!Store) = store /\ before = store /\ files \subseteq Files
      /\ \A a \in Attrs : Value(R!Store, a) = before[a]
  BY <1>1, StoreIsWell
<1>3. DOMAIN saved = {}
  BY <1>1 DEF TxInv, SnapshotInv, Rest
<1>4. AllHeld'
  BY <1>1, <1>3, HeldGrows DEF DamageInv, AllHeld
<1>5. \A a \in Attrs : Agrees(a, store[a], before[a], about)
  BY <1>2, SameAgrees
<1>6. ASSUME NEW i \in DOMAIN writes
      PROVE  LET a == writes[i].attr
             IN Held(a, writes[i].value, ids', files) /\ Agrees(a, writes[i].value, before[a], about)
  <2> DEFINE a == writes[i].attr
  <2>1. a \in Attrs
    BY DEF Keeping, Script
  <2>2. Held(a, writes[i].value, known, files) /\ Agrees(a, writes[i].value, Value(R!Store, a), about)
    BY DEF Keeping, Local
  <2> HIDE DEF a
  <2>3. Value(R!Store, a) = before[a]
    BY <1>2, <2>1
  <2>4. Held(a, writes[i].value, ids', files)
    BY <2>2, HeldGrows
  <2> QED
    BY <2>2, <2>3, <2>4 DEF a
<1>7. GoodStore(goal) /\ Leads(store, writes, AttrsOf(goal))
  BY <1>2 DEF Keeping
<1>8. ASSUME NEW f \in files, NEW g \in files, {f, g} \notin torn PROVE PairStored(AttrsOf(goal), f, g)
  <2>1. f \in Files /\ g \in Files
    BY <1>2
  <2>2. PairStored(AttrsOf(R!Store), f, g)
    BY <1>2, <1>8, <2>1 DEF DamageInv, UndamagedStored
  <2>3. PairOK(goal, f, g)
    BY <2>1, <2>2, StoredPair DEF Keeping, PairsStay
  <2> QED
    BY <2>1, <2>3, StoredPair
<1>9. WritesWell'
  <2>1. UndamagedStored(AttrsOf(goal), files, torn)
    BY <1>8 DEF UndamagedStored
  <2> QED
    BY <1>1, <1>5, <1>6, <1>7, <2>1 DEF WritesWell
<1>10. Recoverable'
  BY <1>1, <1>2, <1>3 DEF Recoverable, View
<1>11. files' \subseteq Files /\ UndamagedStored(before', files', torn')
  BY <1>1 DEF DamageInv
<1> QED
  BY <1>4, <1>9, <1>10, <1>11 DEF DamageInv

LEMMA BeginAddWell ==
  ASSUME SameLabels, TxInv, DamageInv, NEW source \in Files, NEW target \in Files, NEW T \in Types,
         NEW properties \in Inputs, NEW sender \in Senders, NEW own \in OwnLabels,
         BeginAdd(source, target, T, properties, sender, own)
  PROVE  DamageInv'
<1> DEFINE s == IF R!Swaps(T, source, target) THEN target ELSE source
           t == IF R!Swaps(T, source, target) THEN source ELSE target
           p == R!AddedProperties(T, properties, sender)
           q == R!AddedInverse(T, p, own)
<1>1. /\ R!FitsBounds(R!AddTx(R!Store, {<<s, t>>}, T, p, q))
      /\ Request(AddWrites(R!Store, s, t, T, p, q), {{s, t}})
      /\ ids \cup {s, t} \subseteq ids'
  BY DEF BeginAdd
<1>2. s \in Files /\ t \in Files
  OBVIOUS
<1>3. p \in R!PropertySet /\ p.rid = NoRelationId
  BY AddedSet
<1> HIDE DEF s, t, p
<1>4. R!InverseProperties(T, p) = p /\ q = p
  BY <1>3, NoOtherLabel
<1>5. GoodStore(R!Store) /\ WellStored(R!Store, idsBefore) /\ files \subseteq Files /\ ids = idsBefore
  BY <1>1, StoreIsWell DEF Request, BeginTx
<1> HIDE DEF q
<1> DEFINE goal == R!AddTx(R!Store, {<<s, t>>}, T, p, p)
           writes == AddWrites(R!Store, s, t, T, p, p)
           known == idsBefore \cup {s, t}
<1>6. R!FitsBounds(goal) /\ Request(writes, {{s, t}})
  BY <1>1, <1>4
<1>7. Keeping(R!Store, writes, goal, known, {{s, t}})
  BY <1>2, <1>3, <1>4, <1>5, <1>6, AddKeeping
<1>8. known \subseteq ids' /\ ids \subseteq ids'
  BY <1>1, <1>5
<1> HIDE DEF goal, writes, known
<1> QED
  BY <1>6, <1>7, <1>8, BegunWell

LEMMA BeginRemoveWell ==
  ASSUME TxInv, DamageInv, NEW s \in Files, NEW t \in Files, NEW T \in Types, NEW rid, NEW mode,
         BeginRemove(s, T, t, rid, mode)
  PROVE  DamageInv'
<1>1. PICK i \in R!Addressed(R!Store.rel[s][T][t], rid, mode = "override") :
        Request(RemoveWrites(R!Store, R!RemoveOne(R!Store, s, T, t, i), s, T, t), {{s, t}})
  BY DEF BeginRemove
<1> DEFINE goal == R!RemoveOne(R!Store, s, T, t, i)
           writes == RemoveWrites(R!Store, goal, s, T, t)
<1>2. i \in DOMAIN R!Store.rel[s][T][t]
  BY DEF R!Addressed, R!FindSet
<1>3. GoodStore(R!Store) /\ WellStored(R!Store, idsBefore) /\ files \subseteq Files /\ ids = idsBefore
  BY <1>1, StoreIsWell DEF Request, BeginTx
<1>4. Keeping(R!Store, writes, goal, idsBefore, {{s, t}})
  BY <1>2, <1>3, RemoveKeeping
<1>5. Request(writes, {{s, t}}) /\ ids' = ids
  BY <1>1 DEF BeginRemove
<1> HIDE DEF goal, writes
<1> QED
  BY <1>3, <1>4, <1>5, BegunWell

LEMMA BeginRemoveAllSetsWell ==
  ASSUME TxInv, DamageInv, NEW s \in Files, NEW t \in Files, NEW T \in Types, NEW mode,
         BeginRemoveAllSets(s, T, t, mode)
  PROVE  DamageInv'
<1> DEFINE goal == R!RemoveWhole(R!Store, s, {<<T, t>>})
           writes == RemoveWrites(R!Store, goal, s, T, t)
<1>1. Request(writes, {{s, t}}) /\ ids' = ids
  BY DEF BeginRemoveAllSets
<1>2. GoodStore(R!Store) /\ WellStored(R!Store, idsBefore) /\ files \subseteq Files /\ ids = idsBefore
  BY <1>1, StoreIsWell DEF Request, BeginTx
<1>3. Keeping(R!Store, writes, goal, idsBefore, {{s, t}})
  BY <1>2, RemoveAllKeeping
<1> HIDE DEF goal, writes
<1> QED
  BY <1>1, <1>2, <1>3, BegunWell

\* New properties for the set, or none.
LEMMA ReplacedKeeping ==
  ASSUME SameLabels, files \subseteq Files, NEW st, GoodStore(st), WellStored(st, idsBefore),
         NEW s \in Files, NEW t \in Files, NEW T \in Types, NEW i \in DOMAIN st.rel[s][T][t],
         NEW properties \in Updates
  PROVE  LET goal   == IF properties = NoProperties THEN st ELSE R!Replace(st, s, T, t, i, properties)
             writes == IF properties = NoProperties THEN <<>> ELSE ReplaceWrites(st, goal, s, T, t, st.rel[s][T][t][i].rid)
         IN /\ Keeping(st, writes, goal, idsBefore, {{s, t}})
            /\ WellStored(goal, idsBefore) /\ OnlyAbout(st, goal, {{s, t}})
            /\ i \in DOMAIN goal.rel[s][T][t]
<1>1. CASE properties = NoProperties
  <2>1. AttrsOf(st) = [a \in Attrs |-> AttrsOf(st)[a]]
    BY DEF AttrsOf
  <2>2. Script(<<>>) /\ Leads(AttrsOf(st), <<>>, AttrsOf(st))
    BY <2>1, NoWrites
  <2>3. Local(<<>>, st, idsBefore, {{s, t}})
    BY DEF Local
  <2>4. PairsStay(st, st)
    BY DEF PairsStay
  <2>5. Keeping(st, <<>>, st, idsBefore, {{s, t}})
    BY <2>2, <2>3, <2>4 DEF Keeping
  <2> QED
    BY <1>1, <2>5, OnlyAboutSame
<1>2. CASE properties # NoProperties
  <2> DEFINE goal == R!Replace(st, s, T, t, i, properties)
             writes == ReplaceWrites(st, goal, s, T, t, st.rel[s][T][t][i].rid)
  <2>1. properties \in R!PropertySet /\ properties \in Updates \ {NoProperties}
    BY <1>2, TxSentAssumption DEF R!Sent
  <2>2. /\ Keeping(st, writes, goal, idsBefore, {{s, t}})
        /\ WellStored(goal, idsBefore) /\ OnlyAbout(st, goal, {{s, t}})
    BY <2>1, ReplaceKeeping
  <2>3. i \in DOMAIN goal.rel[s][T][t]
    <3>1. st.rel \in [Files -> [Types -> [Files -> Seq(P!PropertySet)]]]
      BY DEF WellStored
    <3>2. goal.rel[s][T][t] = R!ReplaceSet(st.rel[s][T][t], i, properties)
      BY <3>1 DEF R!Replace, R!StorePair
    <3> HIDE DEF goal
    <3> QED
      BY <3>2 DEF R!ReplaceSet
  <2> QED
    BY <1>2, <2>2, <2>3
<1> QED
  BY <1>1, <1>2

\* One after the other.
LEMMA KeepingFollows ==
  ASSUME NEW st, NEW mid, NEW goal, NEW v, NEW w, NEW known, NEW more, NEW few, NEW about,
         Keeping(st, v, mid, known, few), known \subseteq more, few \subseteq about,
         GoodStore(goal), Script(w), Leads(AttrsOf(mid), w, AttrsOf(goal)), PairsStay(mid, goal),
         Local(w, st, more, about)
  PROVE  Keeping(st, v \o w, goal, more, about)
<1>1. Script(v) /\ Leads(AttrsOf(st), v, AttrsOf(mid)) /\ PairsStay(st, mid)
  BY DEF Keeping
<1>2. Script(v \o w) /\ Leads(AttrsOf(st), v \o w, AttrsOf(goal))
  BY <1>1, WritesFollow
<1>3. Local(v, st, more, about)
  <2> SUFFICES ASSUME NEW i \in DOMAIN v
               PROVE  LET a == v[i].attr
                      IN Held(a, v[i].value, more, files) /\ Agrees(a, v[i].value, Value(st, a), about)
    BY DEF Local
  <2> DEFINE a == v[i].attr
  <2>1. Held(a, v[i].value, known, files) /\ Agrees(a, v[i].value, Value(st, a), few)
    BY DEF Keeping, Local
  <2> HIDE DEF a
  <2>2. Held(a, v[i].value, more, files)
    BY <2>1, HeldGrows
  <2>3. Agrees(a, v[i].value, Value(st, a), about)
    BY <2>1 DEF Agrees
  <2> QED
    BY <2>2, <2>3 DEF a
<1>4. Local(v \o w, st, more, about)
  BY <1>1, <1>3, ConcatLocal
<1>5. PairsStay(st, goal)
  BY <1>1 DEF PairsStay
<1> QED
  BY <1>2, <1>4, <1>5 DEF Keeping

LEMMA BeginUpdateWell ==
  ASSUME SameLabels, TxInv, DamageInv, NEW s \in Files, NEW t \in Files, NEW T \in Types, NEW rid,
         NEW properties \in Updates, NEW newTarget \in Files \cup {NoFile}, NEW mode,
         NEW newType \in Types \cup {NoType},
         BeginUpdate(s, T, t, rid, properties, newTarget, newType, mode)
  PROVE  DamageInv'
<1> DEFINE to == IF newTarget = NoFile THEN t ELSE newTarget
           U  == IF newType = NoType THEN T ELSE newType
           old == R!Store
           id(i)       == old.rel[s][T][t][i].rid
           replaced(i) == IF properties = NoProperties THEN old ELSE R!Replace(old, s, T, t, i, properties)
           set(i)      == R!WithoutId(replaced(i).rel[s][T][t][i])
           inverse(i)  == R!InverseProperties(U, set(i))
           added(i)    == R!AddTx(replaced(i), {<<s, to>>}, U, set(i), inverse(i))
           replaces(i) == IF properties = NoProperties THEN <<>> ELSE ReplaceWrites(old, replaced(i), s, T, t, id(i))
           new(i)      == R!RemoveOne(added(i), s, T, t, i)
           moves(i)    == AddWrites(replaced(i), s, to, U, set(i), inverse(i)) \o RemoveWrites(added(i), new(i), s, T, t)
<1>1. PICK i \in R!Addressed(old.rel[s][T][t], rid, mode = "override") :
        \/ /\ to = t /\ U = T
           /\ Request(replaces(i), {{s, t}})
           /\ UNCHANGED ids
        \/ /\ to # t \/ U # T
           /\ R!FitsBounds(added(i))
           /\ Request(replaces(i) \o moves(i), {{s, t}, {s, to}})
           /\ ids' = ids \cup {s, to}
  BY DEF BeginUpdate
<1>2. i \in DOMAIN old.rel[s][T][t]
  BY DEF R!Addressed, R!FindSet
<1>3. GoodStore(old) /\ WellStored(old, idsBefore) /\ files \subseteq Files /\ ids = idsBefore
  BY <1>1, StoreIsWell DEF Request, BeginTx
<1>4. to \in Files /\ U \in Types
  OBVIOUS
<1> DEFINE rep == replaced(i)
           v == replaces(i)
<1>5. /\ Keeping(old, v, rep, idsBefore, {{s, t}})
      /\ WellStored(rep, idsBefore) /\ OnlyAbout(old, rep, {{s, t}})
      /\ i \in DOMAIN rep.rel[s][T][t]
  <2> HIDE DEF old
  <2> QED
    BY <1>2, <1>3, ReplacedKeeping
<1>6. CASE to = t /\ U = T
  <2>1. Request(v, {{s, t}}) /\ ids' = ids
    BY <1>1, <1>6
  <2> HIDE DEF v, rep
  <2> QED
    BY <1>3, <1>5, <2>1, BegunWell
<1>7. CASE to # t \/ U # T
  <2> DEFINE p == set(i)
             put == R!AddTx(rep, {<<s, to>>}, U, p, p)
             goal == R!RemoveOne(put, s, T, t, i)
             w == AddWrites(rep, s, to, U, p, p) \o RemoveWrites(put, goal, s, T, t)
             known == idsBefore \cup {s, to}
             about == {{s, t}, {s, to}}
  <2>1. p \in R!PropertySet /\ R!InverseProperties(U, p) = p
    <3> HIDE DEF replaced, to, U, old
    <3>1. U \in Types
      BY <1>4
    <3> QED
      BY <1>5, <3>1, MovingSet
  <2>2. inverse(i) = p
    BY <2>1
  <2>3. /\ R!FitsBounds(added(i)) /\ Request(v \o moves(i), about) /\ ids' = ids \cup {s, to}
    BY <1>1, <1>7
  <2> HIDE DEF inverse, set
  <2>4. added(i) = put
    BY <2>2
  <2> HIDE DEF added
  <2>5. moves(i) = w
    BY <2>2, <2>4
  <2>6. R!FitsBounds(put) /\ Request(v \o w, about)
    BY <2>3, <2>4, <2>5
  <2> HIDE DEF old, rep, v, p, to, U, moves, replaced
  <2>7. GoodStore(rep)
    BY <1>5 DEF Keeping
  <2>8. GoodStore(goal) /\ Script(w) /\ Leads(AttrsOf(rep), w, AttrsOf(goal))
    BY <1>4, <2>7, MoveLeads
  <2>9. PairsStay(rep, goal) /\ Local(w, old, known, about)
    BY <1>3, <1>4, <1>5, <1>7, <2>1, <2>6, <2>7, MoveKeeping
  <2> HIDE DEF put, goal, w
  <2>10. Keeping(old, v \o w, goal, known, about)
    BY <1>5, <2>8, <2>9, KeepingFollows
  <2>11. known \subseteq ids' /\ ids \subseteq ids'
    BY <1>3, <2>3
  <2> HIDE DEF known, about
  <2> DEFINE writes == v \o w
  <2> HIDE DEF writes
  <2>12. Keeping(R!Store, writes, goal, known, about) /\ Request(writes, about)
    BY <2>6, <2>10 DEF writes, old
  <2> QED
    BY <2>11, <2>12, BegunWell
<1> QED
  BY <1>6, <1>7

LEMMA RequestsWell ==
  ASSUME SameLabels, TxInv, DamageInv, Requests
  PROVE  DamageInv'
<1> PICK s \in Files, t \in Files, T \in Types :
      \/ \E p \in Inputs, sender \in Senders, own \in OwnLabels : BeginAdd(s, t, T, p, sender, own)
      \/ \E rid \in R!RequestIds(s, T, t), mode \in R!OneModes : BeginRemove(s, T, t, rid, mode)
      \/ \E mode \in R!OneModes : BeginRemoveAllSets(s, T, t, mode)
      \/ \E rid \in R!RequestIds(s, T, t), p \in Updates, to \in Files \cup {NoFile}, mode \in R!OneModes :
           \E U \in Types \cup (IF to = NoFile THEN {NoType} ELSE {}) : BeginUpdate(s, T, t, rid, p, to, U, mode)
  BY DEF Requests
<1>1. CASE \E p \in Inputs, sender \in Senders, own \in OwnLabels : BeginAdd(s, t, T, p, sender, own)
  BY <1>1, BeginAddWell
<1>2. CASE \E rid \in R!RequestIds(s, T, t), mode \in R!OneModes : BeginRemove(s, T, t, rid, mode)
  BY <1>2, BeginRemoveWell
<1>3. CASE \E mode \in R!OneModes : BeginRemoveAllSets(s, T, t, mode)
  BY <1>3, BeginRemoveAllSetsWell
<1>4. CASE \E rid \in R!RequestIds(s, T, t), p \in Updates, to \in Files \cup {NoFile}, mode \in R!OneModes :
             \E U \in Types \cup (IF to = NoFile THEN {NoType} ELSE {}) : BeginUpdate(s, T, t, rid, p, to, U, mode)
  <2> PICK rid \in R!RequestIds(s, T, t), p \in Updates, to \in Files \cup {NoFile}, mode \in R!OneModes :
             \E U \in Types \cup (IF to = NoFile THEN {NoType} ELSE {}) : BeginUpdate(s, T, t, rid, p, to, U, mode)
    BY <1>4
  <2> PICK U \in Types \cup {NoType} : BeginUpdate(s, T, t, rid, p, to, U, mode)
    OBVIOUS
  <2> QED
    BY BeginUpdateWell
<1> QED
  BY <1>1, <1>2, <1>3, <1>4

LEMMA NextDamageInv ==
  ASSUME SameLabels
  PROVE  TxInv /\ DamageInv /\ [NextTx]_txVars => DamageInv'
<1> SUFFICES ASSUME TxInv, DamageInv, [NextTx]_txVars PROVE DamageInv'
  OBVIOUS
<1>1. CASE Requests
  BY <1>1, RequestsWell
<1>2. CASE WriteNext \/ WriteNextFails \/ StepFailsTx \/ RestoreNext
  BY <1>2, WriteNextWell, WriteNextFailsWell, StepFailsTxWell, RestoreNextWell
<1>3. CASE RestoreDoneTx \/ CommitTx \/ CrashTx
  BY <1>3, RestoreDoneTxWell, CommitTxWell, CrashTxWell
<1>4. CASE \E f \in Files : DeleteFile(f)
  BY <1>4, DeleteFileWell
<1>5. CASE UNCHANGED txVars
  <2>1. UNCHANGED <<store, saved, phase, before, files, ids, script, idsBefore, pairs, spoilt, torn>>
    BY <1>5 DEF txVars, snapshotVars
  <2>2. AllHeld' /\ Recoverable'
    BY <2>1 DEF DamageInv, AllHeld, Recoverable, View
  <2>3. WritesWell'
    BY <2>1 DEF DamageInv, WritesWell
  <2> QED
    BY <2>1, <2>2, <2>3 DEF DamageInv
<1> QED
  BY <1>1, <1>2, <1>3, <1>4, <1>5 DEF NextTx

LEMMA DamageIsLocal == TxInv /\ DamageInv => DamageStaysLocal
<1> SUFFICES ASSUME TxInv, DamageInv, phase = "idle", NEW f \in files, NEW g \in files, {f, g} \notin torn, NEW T \in Types
             PROVE  /\ R!ShouldWriteInverse(T, f, g) => ViewRel[f][T][g] = ViewRel[g][T][f]
                    /\ OwnList(T) /\ ViewRel[f][T][g] # <<>> => g \in ViewList[f][R!ListAttrFor(T)]
                    /\ g \in ViewList[f][R!ListAttrFor(T)] =>
                         \E U \in Types : R!ListAttrFor(U) = R!ListAttrFor(T) /\ ViewRel[f][U][g] # <<>>
  BY DEF DamageStaysLocal
<1>1. AttrsOf(R!Store) = store /\ before = store /\ f \in Files /\ g \in Files
  BY StoreIsWell
<1>2. PairStored(AttrsOf(R!Store), f, g)
  BY <1>1 DEF DamageInv, UndamagedStored
<1>3. PairOK(R!Store, f, g)
  BY <1>1, <1>2, StoredPair
<1> QED
  BY <1>3 DEF PairOK, ListedOK, R!Store

\* A request that the death of the server or a failure cuts off damages no
\* other relations than its own, for ever: for any files, types, bounds,
\* failures and attributes that cannot be read or put back, where the opposite
\* direction carries the same labels.
THEOREM DamageAlwaysStaysLocal ==
  ASSUME SameLabels
  PROVE  SpecTx => []DamageStaysLocal
<1>1. InitTx => DamageInv
  BY InitDamageInv
<1>2. TxInv /\ DamageInv /\ [NextTx]_txVars => DamageInv'
  BY NextDamageInv
<1>3. TxInv /\ DamageInv => DamageStaysLocal
  BY DamageIsLocal
<1> QED
  BY <1>1, <1>2, <1>3, TxInvariant, PTL DEF SpecTx
=============================================================================
