--------------------------- MODULE FieldSyncProofs ---------------------------
(***************************************************************************)
(* Theorems about FieldSync, for every set of devices and tasks and every  *)
(* value of the bounds.                                                    *)
(*                                                                         *)
(* That no edit is lost is not inductive: it depends on what the caches    *)
(* read before an await hold when they are written back, and on which      *)
(* push a sync is waiting for.  That the server's verdicts are right       *)
(* depends on no bundle being ahead of the server and on who made each     *)
(* version.  Inv says so.                                                  *)
(***************************************************************************)
EXTENDS FieldSync, FiniteSetTheorems, SequenceTheorems, WellFoundedInduction, TLAPS

Edit == [dev : Device, task : Task, ver : Nat \ {0}, status : Status]

TaskState == [status : Status, ver : Nat \ {0}, by : Seq(Device \cup {Desk})]

Elements(q) == {q[k] : k \in DOMAIN q}

\* What is kept of the server in s = [task, conflicts, applied], the edits being ed.

ServerType(s, ed) ==
    /\ s = [task |-> s.task, conflicts |-> s.conflicts, applied |-> s.applied]
    /\ s.task \in [Task -> TaskState]
    /\ s.conflicts \subseteq DOMAIN ed
    /\ s.applied \in [DOMAIN ed -> Seq(Nat)]
    /\ \A t \in Task : s.task[t].ver = Len(s.task[t].by)

\* An edit was made on a version the task has had; it is applied to that version,
\* which is then behind.
EditsBehind(s, ed) ==
    \A e \in DOMAIN ed :
        /\ ed[e].ver <= s.task[ed[e].task].ver
        /\ s.applied[e] \in {<<>>, <<ed[e].ver>>}
        /\ s.applied[e] # <<>> => ed[e].ver < s.task[ed[e].task].ver

\* A version some device made is the application of an edit of that device.
VersionsHaveAuthors(s, ed) ==
    \A t \in Task : \A k \in 2 .. Len(s.task[t].by) :
        s.task[t].by[k] # Desk =>
            \E o \in DOMAIN ed : /\ ed[o].dev = s.task[t].by[k] /\ ed[o].task = t
                                 /\ s.applied[o] # <<>> /\ ed[o].ver = k - 1

Refusable(s, ed, e) ==
    \/ s.applied[e] # <<>>
    \/ \E k \in ed[e].ver + 1 .. Len(s.task[ed[e].task].by) :
          s.task[ed[e].task].by[k] # ed[e].dev
    \/ \E o \in DOMAIN ed \ {e} :
          ed[o].dev = ed[e].dev /\ ed[o].task = ed[e].task /\ ed[o].ver = ed[e].ver
    \/ ed[e].status = "pending"

ServerGood(s, ed) ==
    /\ ServerType(s, ed)
    /\ EditsBehind(s, ed)
    /\ VersionsHaveAuthors(s, ed)
    /\ \A e \in s.conflicts : Refusable(s, ed, e)

Server == [task |-> task, conflicts |-> conflicts, applied |-> applied]

\* Nothing the browser keeps is ahead of the server tk.

GoodBundle(b, tk) ==
    /\ b \in [Task -> [status : Status, ver : Nat \ {0}]]
    /\ \A t \in Task : b[t].ver <= tk[t].ver

OwnEdits(q, d, ed) == q \in Seq(DOMAIN ed) /\ \A k \in DOMAIN q : ed[q[k]].dev = d

GoodCache(c, d, ed, tk) ==
    \/ c = None
    \/ /\ c = [bundle |-> c.bundle, pending |-> c.pending]
       /\ GoodBundle(c.bundle, tk)
       /\ OwnEdits(c.pending, d, ed)

GoodSync(y, d, ed, tk) ==
    \/ y = Idle
    \/ \E n \in 1 .. MaxWire : y = [at |-> "push", n |-> n]
    \/ y = [at |-> "answer"]
    \/ y = [at |-> "pull"]
    \/ y.at = "clear" /\ y = [at |-> "clear", on |-> y.on] /\ GoodCache(y.on, d, ed, tk)
    \/ y.at = "write" /\ y = [at |-> "write", bundle |-> y.bundle] /\ GoodBundle(y.bundle, tk)

GoodToggles(G, d, ed, tk) ==
    \A g \in G : /\ g = [edit |-> g.edit, on |-> g.on] /\ g.on # None
                 /\ g.edit \in DOMAIN ed /\ ed[g.edit].dev = d
                 /\ GoodCache(g.on, d, ed, tk)

GoodWire(w, ed) ==
    /\ w = [dev |-> w.dev, n |-> w.n, batch |-> w.batch]
    /\ w.dev \in Device /\ w.n \in 1 .. MaxWire
    /\ OwnEdits(w.batch, w.dev, ed)

\* What one device keeps.
DeviceGood(d) ==
    /\ GoodCache(cache[d], d, edits, task)
    /\ GoodCache(view[d], d, edits, task)
    /\ Task # {} /\ view[d] # None => cache[d] # None
    /\ GoodSync(sync[d], d, edits, task)
    /\ GoodToggles(toggles[d], d, edits, task)

BrowserPart ==
    /\ cache = [d \in Device |-> cache[d]]
    /\ view = [d \in Device |-> view[d]]
    /\ sync = [d \in Device |-> sync[d]]
    /\ toggles = [d \in Device |-> toggles[d]]
    /\ \A d \in Device : DeviceGood(d)

WirePart ==
    /\ \A w \in wire : GoodWire(w, edits)
    /\ \A w, x \in wire : w.n = x.n => w = x
    /\ \A d \in Device : \A n \in 1 .. MaxWire :
          sync[d] = [at |-> "push", n |-> n] => \E w \in wire : w.dev = d /\ w.n = n

ServerPart ==
    /\ edits \in Seq(Edit)
    /\ excused \subseteq DOMAIN edits
    /\ ServerGood(Server, edits)

\* An edit whose fate is still open, and that nothing excuses losing.
Open(e) == e \in DOMAIN edits /\ e \notin excused /\ applied[e] = <<>> /\ e \notin conflicts

\* Every copy of the cache a device keeps holds the same open edits; a sync pushes
\* them all, and past its push there are none.
CopiesOf(d, e) ==
    /\ Holds(view[d], e) <=> Holds(cache[d], e)
    /\ \A g \in toggles[d] : Holds(g.on, e) <=> Holds(cache[d], e)
    /\ Holds(cache[d], e) =>
          \/ sync[d] = Idle
          \/ \E w \in wire : /\ sync[d] = [at |-> "push", n |-> w.n]
                             /\ w.dev = d /\ e \in Elements(w.batch)

CopiesAgree == \A d \in Device : \A e \in DOMAIN edits : Open(e) => CopiesOf(d, e)

\* Clicks that overlap a sync, or one another, are excused.
OverlapOf(d) ==
    \A g \in toggles[d] : g.edit \in excused \/ (sync[d] = Idle /\ toggles[d] = {g})

OverlapsExcused == \A d \in Device : OverlapOf(d)

\* An open edit waits where it was made.
Waits(e) == \/ Holds(cache[edits[e].dev], e)
            \/ \E g \in toggles[edits[e].dev] : g.edit = e

OpenEditsWait == \A e \in DOMAIN edits : Open(e) => Waits(e)

Inv ==
    /\ ServerPart
    /\ BrowserPart
    /\ WirePart
    /\ CopiesAgree
    /\ OverlapsExcused
    /\ OpenEditsWait

-----------------------------------------------------------------------------
(* A push, one edit after the other.  The recursion of Pushed is unfolded   *)
(* by the well-founded order of Nat: a least length at which no such        *)
(* function exists, or at which a fact fails, would not be the least.       *)

\* f gives the server after each edit of the batch, from the state s on.
Unfolds(f, s, dev, batch, n) ==
    f = [k \in 0 .. n |-> IF k = 0 THEN s ELSE PushedOne(f[k - 1], dev, batch[k])]

\* Every set of numbers that is not empty has a least one.
LEMMA LeastNumber ==
    ASSUME NEW S \in SUBSET Nat, S # {}
    PROVE  \E m \in S : \A k \in S : m <= k
<1>1. \E m \in S : \A k \in S : ~(<<k, m>> \in OpToRel(<, Nat))
  BY NatLessThanWellFounded, WFMin
<1>2. PICK m \in S : \A k \in S : ~(k < m)
  BY <1>1 DEF OpToRel
<1> QED  BY <1>2

LEMMA UnfoldingExists ==
    ASSUME NEW s, NEW dev, NEW batch, NEW n \in Nat
    PROVE  \E f : Unfolds(f, s, dev, batch, n)
<1> DEFINE Bad == {m \in Nat : ~ \E f : Unfolds(f, s, dev, batch, m)}
<1> SUFFICES ASSUME Bad # {} PROVE FALSE
  OBVIOUS
<1>1. PICK m \in Bad : \A k \in Bad : m <= k
  <2> HIDE DEF Bad
  <2>1. Bad \in SUBSET Nat
    BY DEF Bad
  <2> QED  BY <2>1, LeastNumber
<1>2. m # 0
  <2>1. Unfolds([k \in 0 .. 0 |-> s], s, dev, batch, 0)
    BY DEF Unfolds
  <2> QED  BY <2>1
<1>3. m - 1 \in Nat /\ m - 1 \notin Bad
  BY <1>1, <1>2
<1>4. PICK f : Unfolds(f, s, dev, batch, m - 1)
  BY <1>3
<1> DEFINE g == [k \in 0 .. m |-> IF k = m THEN PushedOne(f[m - 1], dev, batch[m]) ELSE f[k]]
<1>5. Unfolds(g, s, dev, batch, m)
  <2>1. \A k \in 0 .. m - 1 : f[k] = IF k = 0 THEN s ELSE PushedOne(f[k - 1], dev, batch[k])
    BY <1>4 DEF Unfolds
  <2>2. \A k \in 0 .. m :
           g[k] = IF k = 0 THEN s ELSE PushedOne(g[k - 1], dev, batch[k])
    <3> SUFFICES ASSUME NEW k \in 0 .. m
                 PROVE  g[k] = IF k = 0 THEN s ELSE PushedOne(g[k - 1], dev, batch[k])
      OBVIOUS
    <3>1. CASE k = m
      <4>1. g[k] = PushedOne(f[m - 1], dev, batch[m])
        BY <3>1
      <4>2. g[k - 1] = f[m - 1]
        BY <3>1, <1>2, <1>3
      <4> HIDE DEF g
      <4> QED  BY <4>1, <4>2, <3>1, <1>2
    <3>2. CASE k # m
      <4>1. k \in 0 .. m - 1 /\ g[k] = f[k]
        BY <3>2, <1>1
      <4>2. k # 0 => g[k - 1] = f[k - 1]
        BY <3>2, <1>1
      <4> HIDE DEF g
      <4> QED  BY <4>1, <4>2, <2>1
    <3> QED  BY <3>1, <3>2
  <2>3. g = [k \in 0 .. m |-> g[k]]
    OBVIOUS
  <2> HIDE DEF g
  <2> QED  BY <2>2, <2>3 DEF Unfolds
<1> QED  BY <1>1, <1>5

LEMMA PushedUnfolds ==
    ASSUME NEW dev, NEW batch, Len(batch) \in Nat
    PROVE  \E f : /\ Unfolds(f, Server, dev, batch, Len(batch))
                  /\ Pushed(dev, batch) = f[Len(batch)]
<1> DEFINE f == CHOOSE f : Unfolds(f, Server, dev, batch, Len(batch))
<1>1. Unfolds(f, Server, dev, batch, Len(batch))
  BY UnfoldingExists
<1>2. Pushed(dev, batch) = f[Len(batch)]
  BY DEF Pushed, Server, Unfolds
<1> QED  BY <1>1, <1>2

-----------------------------------------------------------------------------
(* What the steps of the server preserve.                                   *)

\* Versions, authors, applications and conflicts are only added.
Grew(s, new) ==
    /\ s.conflicts \subseteq new.conflicts
    /\ \A e \in DOMAIN s.applied : s.applied[e] # <<>> => new.applied[e] # <<>>
    /\ \A t \in Task : /\ s.task[t].ver <= new.task[t].ver
                       /\ \A k \in 1 .. Len(s.task[t].by) : new.task[t].by[k] = s.task[t].by[k]

\* What was made once is the same edit later.
Extends(ed, more) == \A e \in DOMAIN ed : e \in DOMAIN more /\ more[e] = ed[e]

LEMMA AppendIsSome ==
    ASSUME NEW q \in Seq(Nat), NEW x \in Nat
    PROVE  Append(q, x) # <<>>
<1>1. Len(Append(q, x)) = Len(q) + 1 /\ Len(q) \in Nat
  BY AppendProperties, LenProperties
<1>2. Len(<<>>) = 0
  OBVIOUS
<1> SUFFICES ASSUME Append(q, x) = <<>> PROVE FALSE
  OBVIOUS
<1>3. Len(Append(q, x)) = 0
  BY <1>2, Zenon
<1> QED  BY <1>1, <1>3

LEMMA EditFields ==
    ASSUME NEW ed \in Seq(Edit), NEW e \in DOMAIN ed
    PROVE  /\ ed[e].dev \in Device /\ ed[e].task \in Task
           /\ ed[e].ver \in Nat \ {0} /\ ed[e].status \in Status
<1>1. ed[e] \in Edit
  BY ElementOfSeq, LenProperties
<1> QED  BY <1>1 DEF Edit

LEMMA WrittenType ==
    ASSUME NEW old \in TaskState, old.ver = Len(old.by), NEW status \in Status,
           NEW who \in Device \cup {Desk}
    PROVE  /\ Written(old, status, who) \in TaskState
           /\ Written(old, status, who).status = status
           /\ Written(old, status, who).ver = old.ver + 1
           /\ Len(Written(old, status, who).by) = old.ver + 1
           /\ \A k \in 1 .. old.ver : Written(old, status, who).by[k] = old.by[k]
           /\ Written(old, status, who).by[old.ver + 1] = who
<1>1. old.by \in Seq(Device \cup {Desk}) /\ old.ver \in Nat \ {0}
  BY DEF TaskState
<1>2. /\ Append(old.by, who) \in Seq(Device \cup {Desk})
      /\ Len(Append(old.by, who)) = Len(old.by) + 1
      /\ \A k \in 1 .. Len(old.by) : Append(old.by, who)[k] = old.by[k]
      /\ Append(old.by, who)[Len(old.by) + 1] = who
  BY <1>1, AppendProperties
<1> QED  BY <1>1, <1>2 DEF Written, TaskState

\* A reason to refuse an edit stays one.
LEMMA RefusableStays ==
    ASSUME NEW s, NEW ed, NEW new, NEW more, ed \in Seq(Edit), ServerType(s, ed),
           ServerType(new, more), Grew(s, new), Extends(ed, more),
           NEW e \in DOMAIN ed, Refusable(s, ed, e)
    PROVE  Refusable(new, more, e)
<1> DEFINE t == ed[e].task
<1>1. t \in Task /\ ed[e].ver \in Nat /\ more[e] = ed[e]
  BY EditFields DEF Extends
<1>2. CASE s.applied[e] # <<>>
  BY <1>2 DEF Grew, Refusable, ServerType
<1>3. ASSUME NEW k \in ed[e].ver + 1 .. Len(s.task[t].by), s.task[t].by[k] # ed[e].dev
      PROVE  Refusable(new, more, e)
  <2>1. /\ Len(s.task[t].by) \in Nat /\ Len(new.task[t].by) \in Nat
        /\ Len(s.task[t].by) <= Len(new.task[t].by)
    BY <1>1 DEF ServerType, Grew, TaskState
  <2>2. k \in 1 .. Len(s.task[t].by) /\ k \in ed[e].ver + 1 .. Len(new.task[t].by)
    <3>1. PICK v \in Nat : v = ed[e].ver
      BY <1>1
    <3>2. PICK was \in Nat : was = Len(s.task[t].by)
      BY <2>1
    <3>3. PICK now \in Nat : now = Len(new.task[t].by)
      BY <2>1
    <3>4. k \in v + 1 .. was /\ was <= now
      BY <1>3, <2>1, <3>1, <3>2, <3>3
    <3>5. k \in 1 .. was /\ k \in v + 1 .. now
      BY <3>1, <3>2, <3>3, <3>4
    <3> QED  BY <3>1, <3>2, <3>3, <3>5
  <2>3. new.task[t].by[k] = s.task[t].by[k]
    BY <1>1, <2>2 DEF Grew
  <2> QED  BY <1>1, <1>3, <2>2, <2>3 DEF Refusable
<1>4. ASSUME NEW o \in DOMAIN ed \ {e},
             ed[o].dev = ed[e].dev, ed[o].task = ed[e].task, ed[o].ver = ed[e].ver
      PROVE  Refusable(new, more, e)
  <2>1. o \in DOMAIN more \ {e} /\ more[o] = ed[o]
    BY DEF Extends
  <2> QED  BY <1>1, <1>4, <2>1 DEF Refusable
<1>5. CASE ed[e].status = "pending"
  BY <1>1, <1>5 DEF Refusable
<1> QED  BY <1>2, <1>3, <1>4, <1>5 DEF Refusable

\* The server after a version of task t by who: a push of the edit e (applied to
\* it), or the desk (no edit is).
LEMMA WrittenGood ==
    ASSUME edits \in Seq(Edit), NEW s, ServerGood(s, edits), NEW t \in Task,
           NEW status \in Status, NEW who \in Device \cup {Desk}, NEW new,
           new = [task |-> [s.task EXCEPT ![t] = Written(s.task[t], status, who)],
                  conflicts |-> s.conflicts, applied |-> new.applied],
           \/ who = Desk /\ new.applied = s.applied
           \/ \E e \in DOMAIN edits :
                 /\ edits[e].task = t /\ edits[e].dev = who /\ edits[e].ver >= s.task[t].ver
                 /\ new.applied = [s.applied EXCEPT ![e] = Append(s.applied[e], s.task[t].ver)]
    PROVE  ServerGood(new, edits) /\ Grew(s, new)
<1> DEFINE old == s.task[t]
<1>0. /\ s.task \in [Task -> TaskState] /\ old \in TaskState /\ old.ver = Len(old.by)
      /\ s.applied \in [DOMAIN edits -> Seq(Nat)] /\ old.ver \in Nat \ {0}
  BY DEF ServerGood, ServerType, TaskState
<1>1. /\ new.task[t] = Written(old, status, who)
      /\ \A x \in Task \ {t} : new.task[x] = s.task[x]
      /\ new.conflicts = s.conflicts
  BY <1>0
<1>2. /\ new.task[t] \in TaskState
      /\ new.task[t].ver = old.ver + 1
      /\ Len(new.task[t].by) = old.ver + 1
      /\ \A k \in 1 .. old.ver : new.task[t].by[k] = old.by[k]
      /\ new.task[t].by[old.ver + 1] = who
  <2> HIDE DEF old
  <2> QED  BY <1>0, <1>1, WrittenType
<1>3. \A e \in DOMAIN edits : edits[e].task \in Task /\ edits[e].ver \in Nat
  BY EditFields
<1>4. \A e \in DOMAIN edits :
          \/ new.applied[e] = s.applied[e]
          \/ /\ edits[e].task = t /\ edits[e].dev = who /\ edits[e].ver = old.ver
             /\ s.applied[e] = <<>> /\ new.applied[e] = <<edits[e].ver>>
  <2>1. CASE who = Desk /\ new.applied = s.applied
    BY <2>1
  <2>2. ASSUME NEW e \in DOMAIN edits,
               edits[e].task = t, edits[e].dev = who, edits[e].ver >= old.ver,
               new.applied = [s.applied EXCEPT ![e] = Append(s.applied[e], old.ver)]
        PROVE  /\ \A x \in DOMAIN edits \ {e} : new.applied[x] = s.applied[x]
               /\ edits[e].ver = old.ver /\ s.applied[e] = <<>>
               /\ new.applied[e] = <<edits[e].ver>>
    <3>1. edits[e].ver <= old.ver /\ (s.applied[e] # <<>> => edits[e].ver < old.ver)
      BY <2>2 DEF ServerGood, EditsBehind
    <3>2. edits[e].ver = old.ver /\ s.applied[e] = <<>>
      <4> HIDE DEF old
      <4>1. edits[e].ver \in Nat /\ old.ver \in Nat
        BY <1>0, <1>3
      <4>2. edits[e].ver <= old.ver /\ edits[e].ver >= old.ver
        BY <3>1, <2>2
      <4>3. edits[e].ver = old.ver
        BY <4>1, <4>2
      <4> QED  BY <3>1, <4>1, <4>3
    <3>3. new.applied[e] = Append(<<>>, old.ver)
      BY <1>0, <2>2, <3>2
    <3>4. Append(<<>>, old.ver) = <<old.ver>>
      OBVIOUS
    <3> QED  BY <1>0, <2>2, <3>2, <3>3, <3>4
  <2> QED  BY <2>1, <2>2
<1>5. new.applied \in [DOMAIN edits -> Seq(Nat)]
  <2>1. CASE new.applied = s.applied
    BY <1>0, <2>1
  <2>2. ASSUME NEW e \in DOMAIN edits,
               new.applied = [s.applied EXCEPT ![e] = Append(s.applied[e], old.ver)]
        PROVE  new.applied \in [DOMAIN edits -> Seq(Nat)]
    <3>1. Append(s.applied[e], old.ver) \in Seq(Nat)
      BY <1>0, AppendProperties
    <3> QED  BY <1>0, <2>2, <3>1
  <2> QED  BY <2>1, <2>2
<1>6. ServerType(new, edits)
  <2>1. new = [task |-> new.task, conflicts |-> new.conflicts, applied |-> new.applied]
    OBVIOUS
  <2>2. new.task \in [Task -> TaskState]
    <3>1. new.task = [s.task EXCEPT ![t] = Written(old, status, who)]
      OBVIOUS
    <3>2. Written(old, status, who) \in TaskState
      BY <1>1, <1>2
    <3> HIDE DEF old
    <3> QED  BY <1>0, <3>1, <3>2
  <2>3. \A x \in Task : new.task[x].ver = Len(new.task[x].by)
    BY <1>1, <1>2 DEF ServerGood, ServerType
  <2> QED  BY <1>1, <1>5, <2>1, <2>2, <2>3 DEF ServerGood, ServerType
<1>7. Grew(s, new)
  <2>1. \A e \in DOMAIN s.applied : s.applied[e] # <<>> => new.applied[e] # <<>>
    BY <1>0, <1>4
  <2>2. \A x \in Task : /\ s.task[x].ver <= new.task[x].ver
                        /\ \A k \in 1 .. Len(s.task[x].by) : new.task[x].by[k] = s.task[x].by[k]
    <3> SUFFICES ASSUME NEW x \in Task
                 PROVE  /\ s.task[x].ver <= new.task[x].ver
                        /\ \A k \in 1 .. Len(s.task[x].by) : new.task[x].by[k] = s.task[x].by[k]
      OBVIOUS
    <3>1. s.task[x].ver \in Nat
      BY <1>0 DEF TaskState
    <3> QED  BY <1>0, <1>1, <1>2, <3>1
  <2> QED  BY <1>1, <2>1, <2>2 DEF Grew
<1>8. EditsBehind(new, edits)
  <2> SUFFICES ASSUME NEW e \in DOMAIN edits
               PROVE  /\ edits[e].ver <= new.task[edits[e].task].ver
                      /\ new.applied[e] \in {<<>>, <<edits[e].ver>>}
                      /\ new.applied[e] # <<>> => edits[e].ver < new.task[edits[e].task].ver
    BY DEF EditsBehind
  <2> DEFINE x == edits[e].task
  <2>1. /\ edits[e].ver <= s.task[x].ver
        /\ s.applied[e] \in {<<>>, <<edits[e].ver>>}
        /\ s.applied[e] # <<>> => edits[e].ver < s.task[x].ver
    BY DEF ServerGood, EditsBehind
  <2>2. /\ x \in Task /\ s.task[x].ver \in Nat /\ new.task[x].ver \in Nat
        /\ edits[e].ver \in Nat /\ s.task[x].ver <= new.task[x].ver
    BY <1>3, <1>0, <1>6, <1>7 DEF TaskState, Grew, ServerType
  <2>3. CASE new.applied[e] = s.applied[e]
    BY <2>1, <2>2, <2>3
  <2>4. CASE x = t /\ edits[e].ver = old.ver /\ new.applied[e] = <<edits[e].ver>>
    BY <2>2, <2>4, <1>0, <1>2
  <2> QED  BY <2>3, <2>4, <1>4
<1>9. VersionsHaveAuthors(new, edits)
  <2> SUFFICES ASSUME NEW x \in Task, NEW k \in 2 .. Len(new.task[x].by),
                      new.task[x].by[k] # Desk
               PROVE  \E o \in DOMAIN edits :
                         /\ edits[o].dev = new.task[x].by[k] /\ edits[o].task = x
                         /\ new.applied[o] # <<>> /\ edits[o].ver = k - 1
    BY DEF VersionsHaveAuthors
  <2>1. CASE k \in 2 .. Len(s.task[x].by)
    <3>1. k \in 1 .. Len(s.task[x].by)
      BY <2>1
    <3>2. new.task[x].by[k] = s.task[x].by[k]
      BY <1>7, <3>1 DEF Grew
    <3>3. PICK o \in DOMAIN edits :
             /\ edits[o].dev = s.task[x].by[k] /\ edits[o].task = x
             /\ s.applied[o] # <<>> /\ edits[o].ver = k - 1
      BY <2>1, <3>2 DEF ServerGood, VersionsHaveAuthors
    <3>4. new.applied[o] # <<>>
      BY <1>0, <1>7, <3>3 DEF Grew
    <3> QED  BY <3>2, <3>3, <3>4
  <2>2. CASE k \notin 2 .. Len(s.task[x].by)
    <3>1. x = t /\ k = old.ver + 1 /\ new.task[x].by[k] = who
      BY <2>2, <1>0, <1>1, <1>2
    <3>2. PICK e \in DOMAIN edits :
             /\ edits[e].task = t /\ edits[e].dev = who /\ edits[e].ver >= old.ver
             /\ new.applied = [s.applied EXCEPT ![e] = Append(s.applied[e], old.ver)]
      BY <3>1
    <3>3. new.applied[e] = Append(s.applied[e], old.ver)
      BY <1>0, <3>2
    <3>4. Append(s.applied[e], old.ver) # <<>>
      <4>1. s.applied[e] \in Seq(Nat)
        BY <1>0
      <4>2. old.ver \in Nat
        BY <1>0
      <4> HIDE DEF old
      <4> QED  BY <4>1, <4>2, AppendIsSome
    <3>5. edits[e].ver = old.ver
      <4>1. edits[e].ver <= old.ver
        BY <3>2 DEF ServerGood, EditsBehind
      <4> QED  BY <4>1, <3>2, <1>0, <1>3
    <3>6. k - 1 = old.ver
      BY <3>1, <1>0
    <3>7. edits[e].dev = new.task[x].by[k] /\ edits[e].task = x
      BY <3>1, <3>2
    <3>8. new.applied[e] # <<>> /\ edits[e].ver = k - 1
      BY <3>3, <3>4, <3>5, <3>6
    <3> HIDE DEF old
    <3> QED  BY <3>2, <3>7, <3>8
  <2> QED  BY <2>1, <2>2
<1>10. \A e \in new.conflicts : Refusable(new, edits, e)
  <2>1. Extends(edits, edits)
    BY DEF Extends
  <2> QED  BY <1>1, <1>6, <1>7, <2>1, RefusableStays DEF ServerGood, ServerType
<1> QED  BY <1>6, <1>7, <1>8, <1>9, <1>10 DEF ServerGood

Settled(s, e) == s.applied[e] # <<>> \/ e \in s.conflicts

\* One edit of a push is applied, or refused for a reason, and settled either way.
LEMMA PushedOneGood ==
    ASSUME edits \in Seq(Edit), NEW s, ServerGood(s, edits), NEW e \in DOMAIN edits
    PROVE  /\ ServerGood(PushedOne(s, edits[e].dev, e), edits)
           /\ Grew(s, PushedOne(s, edits[e].dev, e))
           /\ Settled(PushedOne(s, edits[e].dev, e), e)
<1> DEFINE t == edits[e].task
           dev == edits[e].dev
           new == PushedOne(s, dev, e)
<1>0. /\ t \in Task /\ dev \in Device /\ edits[e].status \in Status
      /\ edits[e].ver \in Nat \ {0}
      /\ s = [task |-> s.task, conflicts |-> s.conflicts, applied |-> s.applied]
      /\ s.task \in [Task -> TaskState] /\ s.applied \in [DOMAIN edits -> Seq(Nat)]
      /\ s.task[t].ver = Len(s.task[t].by)
      /\ s.conflicts \subseteq DOMAIN edits
  BY EditFields DEF ServerGood, ServerType
<1>1. CASE Accepts(s.task[t], e)
  <2>1. new = [s EXCEPT !.task[t] = Written(s.task[t], edits[e].status, dev),
                        !.applied[e] = Append(s.applied[e], s.task[t].ver)]
    BY <1>1 DEF PushedOne
  <2>2. /\ new = [task |-> [s.task EXCEPT ![t] = Written(s.task[t], edits[e].status, dev)],
                  conflicts |-> s.conflicts, applied |-> new.applied]
        /\ new.applied = [s.applied EXCEPT ![e] = Append(s.applied[e], s.task[t].ver)]
    <3> HIDE DEF new
    <3> QED  BY <1>0, <2>1
  <2>3. edits[e].ver >= s.task[t].ver
    BY <1>1 DEF Accepts
  <2>4. ServerGood(new, edits) /\ Grew(s, new)
    <3>1. \E x \in DOMAIN edits :
             /\ edits[x].task = t /\ edits[x].dev = dev /\ edits[x].ver >= s.task[t].ver
             /\ new.applied = [s.applied EXCEPT ![x] = Append(s.applied[x], s.task[t].ver)]
      BY <2>2, <2>3
    <3> DEFINE st == edits[e].status
    <3>2. /\ st \in Status /\ dev \in Device \cup {Desk}
          /\ new = [task |-> [s.task EXCEPT ![t] = Written(s.task[t], st, dev)],
                    conflicts |-> s.conflicts, applied |-> new.applied]
      BY <1>0, <2>2
    <3> HIDE DEF new, t, dev, st
    <3>3. t \in Task
      BY <1>0
    <3> QED  BY <3>1, <3>2, <3>3, WrittenGood, ZenonT(60)
  <2>5. new.applied[e] # <<>>
    <3>1. s.applied[e] \in Seq(Nat) /\ s.task[t].ver \in Nat
      BY <1>0 DEF TaskState
    <3>2. new.applied[e] = Append(s.applied[e], s.task[t].ver)
      BY <1>0, <2>2
    <3> QED  BY <3>1, <3>2, AppendIsSome
  <2> QED  BY <2>4, <2>5 DEF Settled
<1>2. CASE ~Accepts(s.task[t], e)
  <2>1. new = [s EXCEPT !.conflicts = s.conflicts \cup {e}]
    BY <1>2 DEF PushedOne
  <2>2. /\ new = [task |-> s.task, conflicts |-> s.conflicts \cup {e}, applied |-> s.applied]
        /\ new.task = s.task /\ new.applied = s.applied /\ new.conflicts = s.conflicts \cup {e}
    <3> HIDE DEF new
    <3> QED  BY <1>0, <2>1
  <2>3. ServerType(new, edits) /\ EditsBehind(new, edits) /\ VersionsHaveAuthors(new, edits)
    <3> HIDE DEF new
    <3> QED  BY <2>2 DEF ServerGood, ServerType, EditsBehind, VersionsHaveAuthors
  <2>4. Grew(s, new)
    <3> HIDE DEF new
    <3>1. \A x \in Task : s.task[x].ver \in Nat
      BY <1>0 DEF TaskState
    <3> QED  BY <2>2, <3>1 DEF Grew
  <2>5. Refusable(new, edits, e)
    <3>1. CASE edits[e].ver >= s.task[t].ver
      <4>1. edits[e].status = "pending"
        BY <1>0, <1>2, <3>1 DEF Accepts, Status
      <4> QED  BY <4>1 DEF Refusable
    <3>2. CASE ~(edits[e].ver >= s.task[t].ver)
      <4> DEFINE k == edits[e].ver + 1
      <4>1. s.task[t].ver \in Nat
        BY <1>0 DEF TaskState
      <4>2. k \in 2 .. Len(s.task[t].by) /\ k \in edits[e].ver + 1 .. Len(s.task[t].by)
            /\ k - 1 = edits[e].ver
        BY <1>0, <3>2, <4>1
      <4>3. CASE s.task[t].by[k] # dev
        BY <2>2, <4>2, <4>3 DEF Refusable
      <4>4. CASE s.task[t].by[k] = dev
        <5>1. dev # Desk
          BY <1>0, FieldAssumption
        <5>2. PICK o \in DOMAIN edits :
                 /\ edits[o].dev = dev /\ edits[o].task = t
                 /\ s.applied[o] # <<>> /\ edits[o].ver = k - 1
          <6> HIDE DEF k, t, dev
          <6> QED  BY <1>0, <4>2, <4>4, <5>1 DEF ServerGood, VersionsHaveAuthors
        <5>3. CASE o = e
          BY <2>2, <5>2, <5>3 DEF Refusable
        <5>4. CASE o # e
          BY <4>2, <5>2, <5>4 DEF Refusable
        <5> QED  BY <5>3, <5>4
      <4> QED  BY <4>3, <4>4
    <3> QED  BY <3>1, <3>2
  <2>6. \A x \in s.conflicts : Refusable(new, edits, x)
    <3>1. Extends(edits, edits)
      BY DEF Extends
    <3> HIDE DEF new
    <3> QED  BY <1>0, <2>3, <2>4, <3>1, RefusableStays DEF ServerGood
  <2> QED  BY <2>2, <2>3, <2>4, <2>5, <2>6 DEF ServerGood, Settled
<1> QED  BY <1>1, <1>2

LEMMA GrewReflexive ==
    ASSUME NEW s, NEW ed, ServerType(s, ed)
    PROVE  Grew(s, s)
<1>1. \A t \in Task : s.task[t].ver \in Nat
  BY DEF ServerType, TaskState
<1> QED  BY <1>1 DEF Grew

LEMMA GrewTransitive ==
    ASSUME NEW r, NEW s, NEW u, NEW ed, ServerType(r, ed), ServerType(s, ed), ServerType(u, ed),
           Grew(r, s), Grew(s, u)
    PROVE  Grew(r, u)
<1>1. \A t \in Task : /\ r.task[t].ver \in Nat /\ s.task[t].ver \in Nat /\ u.task[t].ver \in Nat
                      /\ r.task[t].ver = Len(r.task[t].by) /\ s.task[t].ver = Len(s.task[t].by)
  BY DEF ServerType, TaskState
<1>2. DOMAIN r.applied = DOMAIN s.applied
  BY DEF ServerType
<1>3. \A t \in Task : r.task[t].ver <= s.task[t].ver /\ s.task[t].ver <= u.task[t].ver
  BY DEF Grew
<1>4. \A t \in Task : \A k \in 1 .. Len(r.task[t].by) : k \in 1 .. Len(s.task[t].by)
  BY <1>1, <1>3
<1> QED  BY <1>1, <1>2, <1>3, <1>4 DEF Grew

\* A push settles every edit of its batch.
LEMMA PushedGood ==
    ASSUME edits \in Seq(Edit), ServerGood(Server, edits), NEW dev \in Device, NEW batch,
           OwnEdits(batch, dev, edits)
    PROVE  /\ ServerGood(Pushed(dev, batch), edits)
           /\ Grew(Server, Pushed(dev, batch))
           /\ \A k \in DOMAIN batch : Settled(Pushed(dev, batch), batch[k])
<1> DEFINE len == Len(batch)
<1>0. /\ len \in Nat /\ DOMAIN batch = 1 .. len
      /\ \A k \in 1 .. len : batch[k] \in DOMAIN edits /\ edits[batch[k]].dev = dev
  BY LenProperties, ElementOfSeq DEF OwnEdits
<1>1. PICK f : /\ Unfolds(f, Server, dev, batch, len)
               /\ Pushed(dev, batch) = f[len]
  BY <1>0, PushedUnfolds
<1>2. f[0] = Server /\ \A k \in 1 .. len : f[k] = PushedOne(f[k - 1], dev, batch[k])
  <2>1. \A k \in 0 .. len : f[k] = IF k = 0 THEN Server ELSE PushedOne(f[k - 1], dev, batch[k])
    BY <1>1 DEF Unfolds
  <2> HIDE DEF len
  <2> QED  BY <1>0, <2>1
<1> DEFINE Good(k) == /\ ServerGood(f[k], edits) /\ Grew(Server, f[k])
                      /\ \A i \in 1 .. k : Settled(f[k], batch[i])
<1> DEFINE Bad == {k \in 0 .. len : ~Good(k)}
<1>3. Good(0)
  <2>1. Grew(Server, Server)
    BY GrewReflexive DEF ServerGood
  <2> QED  BY <1>2, <2>1
<1>4. ASSUME NEW k \in 1 .. len, Good(k - 1) PROVE Good(k)
  <2>1. batch[k] \in DOMAIN edits /\ edits[batch[k]].dev = dev
    BY <1>0
  <2>2. /\ ServerGood(f[k], edits) /\ Grew(f[k - 1], f[k]) /\ Settled(f[k], batch[k])
    <3>1. ServerGood(f[k - 1], edits)
      BY <1>4
    <3> HIDE DEF Good
    <3> QED  BY <1>2, <2>1, <3>1, PushedOneGood
  <2>3. ServerType(Server, edits) /\ ServerType(f[k - 1], edits) /\ ServerType(f[k], edits)
    BY <1>4, <2>2 DEF ServerGood
  <2>4. Grew(Server, f[k])
    BY <1>4, <2>2, <2>3, GrewTransitive
  <2>5. \A i \in 1 .. k : Settled(f[k], batch[i])
    <3> SUFFICES ASSUME NEW i \in 1 .. k PROVE Settled(f[k], batch[i])
      OBVIOUS
    <3>1. CASE i = k
      BY <2>2, <3>1
    <3>2. CASE i # k
      <4>1. i \in 1 .. k - 1 /\ batch[i] \in DOMAIN edits
        BY <1>0, <3>2
      <4>2. Settled(f[k - 1], batch[i]) /\ DOMAIN f[k - 1].applied = DOMAIN edits
        BY <1>4, <2>3, <4>1 DEF ServerType
      <4> QED  BY <2>2, <4>1, <4>2 DEF Settled, Grew
    <3> QED  BY <3>1, <3>2
  <2> QED  BY <2>2, <2>4, <2>5
<1>5. Bad = {}
  <2> SUFFICES ASSUME Bad # {} PROVE FALSE
    OBVIOUS
  <2>1. PICK m \in Bad : \A k \in Bad : m <= k
    <3>1. Bad \in SUBSET Nat
      BY <1>0
    <3> HIDE DEF Bad
    <3> QED  BY <3>1, LeastNumber
  <2>2. m \in 0 .. len /\ ~Good(m)
    OBVIOUS
  <2> HIDE DEF Good, len
  <2>3. m # 0
    BY <1>3, <2>2
  <2>4. m - 1 \in 0 .. len /\ m \in 1 .. len /\ ~(m <= m - 1)
    BY <1>0, <2>2, <2>3
  <2>5. Good(m - 1)
    BY <2>1, <2>4
  <2> QED  BY <1>4, <2>2, <2>4, <2>5
<1>6. Good(len)
  <2>1. len \in 0 .. len
    BY <1>0
  <2> HIDE DEF Good, len
  <2> QED  BY <1>5, <2>1
<1> QED  BY <1>0, <1>1, <1>6

\* The desk writes a version of its own.
LEMMA DeskGood ==
    ASSUME edits \in Seq(Edit), ServerGood(Server, edits), NEW t \in Task, NEW status \in Status,
           task' = [task EXCEPT ![t] = Written(task[t], status, Desk)],
           UNCHANGED <<conflicts, applied>>
    PROVE  ServerGood(Server', edits) /\ Grew(Server, Server')
<1>1. Server' = [task |-> [Server.task EXCEPT ![t] = Written(Server.task[t], status, Desk)],
                 conflicts |-> Server.conflicts, applied |-> Server'.applied]
  BY DEF Server
<1>2. Server'.applied = Server.applied
  BY DEF Server
<1> DEFINE new == Server'
<1>3. /\ new = [task |-> [Server.task EXCEPT ![t] = Written(Server.task[t], status, Desk)],
                conflicts |-> Server.conflicts, applied |-> new.applied]
      /\ new.applied = Server.applied
  BY <1>1, <1>2
<1>4. Desk \in Device \cup {Desk}
  OBVIOUS
<1> HIDE DEF new
<1>5. ServerGood(new, edits) /\ Grew(Server, new)
  BY <1>3, <1>4, WrittenGood, ZenonT(60)
<1> QED  BY <1>5 DEF new

LEMMA AppendExtends ==
    ASSUME NEW ed \in Seq(Edit), NEW x \in Edit
    PROVE  /\ Append(ed, x) \in Seq(Edit)
           /\ DOMAIN Append(ed, x) = DOMAIN ed \cup {Len(ed) + 1}
           /\ Len(ed) + 1 \notin DOMAIN ed
           /\ Append(ed, x)[Len(ed) + 1] = x
           /\ Extends(ed, Append(ed, x))
<1>1. /\ Append(ed, x) \in Seq(Edit) /\ Len(Append(ed, x)) = Len(ed) + 1
      /\ Append(ed, x)[Len(ed) + 1] = x
      /\ \A i \in 1 .. Len(ed) : Append(ed, x)[i] = ed[i]
  BY AppendProperties
<1>2. DOMAIN Append(ed, x) = 1 .. Len(ed) + 1 /\ DOMAIN ed = 1 .. Len(ed) /\ Len(ed) \in Nat
  BY <1>1, LenProperties
<1> QED  BY <1>1, <1>2 DEF Extends

\* A click makes an edit on a version the task has, and nothing has happened to it.
LEMMA ClickGood ==
    ASSUME edits \in Seq(Edit), ServerGood(Server, edits), NEW x \in Edit,
           x.ver <= task[x.task].ver, applied \in Seq(Seq(Nat)), Len(applied) = Len(edits),
           edits' = Append(edits, x), applied' = Append(applied, <<>>),
           UNCHANGED <<task, conflicts>>
    PROVE  /\ ServerGood(Server', edits') /\ Grew(Server, Server')
           /\ applied' \in Seq(Seq(Nat)) /\ Len(applied') = Len(edits')
<1> DEFINE n == Len(edits) + 1
<1>0. /\ edits' \in Seq(Edit) /\ DOMAIN edits' = DOMAIN edits \cup {n} /\ n \notin DOMAIN edits
      /\ edits'[n] = x /\ Extends(edits, edits')
      /\ DOMAIN edits = 1 .. Len(edits) /\ Len(edits) \in Nat /\ DOMAIN edits' = 1 .. Len(edits')
      /\ Len(edits') = n
  <2>1. edits' \in Seq(Edit) /\ Len(edits') = n
    BY AppendProperties
  <2> QED  BY <2>1, AppendExtends, LenProperties
<1>1. <<>> \in Seq(Nat)
  OBVIOUS
<1>2. /\ applied' \in Seq(Seq(Nat)) /\ Len(applied') = n
      /\ \A e \in DOMAIN edits : applied'[e] = applied[e]
      /\ applied'[n] = <<>>
  BY <1>0, <1>1, AppendProperties
<1>3. applied' \in [DOMAIN edits' -> Seq(Nat)]
  BY <1>0, <1>2, LenProperties
<1>4. /\ Server' = [task |-> task, conflicts |-> conflicts, applied |-> applied']
      /\ Server'.task = task /\ Server'.conflicts = conflicts /\ Server'.applied = applied'
      /\ Server.task = task /\ Server.conflicts = conflicts /\ Server.applied = applied
  BY DEF Server
<1>5. ServerType(Server', edits')
  BY <1>0, <1>3, <1>4 DEF ServerGood, ServerType
<1>6. Grew(Server, Server')
  <2>1. \A t \in Task : task[t].ver \in Nat
    BY <1>4 DEF ServerGood, ServerType, TaskState
  <2>2. DOMAIN applied = DOMAIN edits
    BY <1>4 DEF ServerGood, ServerType
  <2> QED  BY <1>2, <1>4, <2>1, <2>2 DEF Grew
<1>7. EditsBehind(Server', edits')
  BY <1>0, <1>2, <1>4 DEF ServerGood, EditsBehind, Extends
<1>8. VersionsHaveAuthors(Server', edits')
  <2> SUFFICES ASSUME NEW t \in Task, NEW k \in 2 .. Len(task[t].by), task[t].by[k] # Desk
               PROVE  \E o \in DOMAIN edits' :
                         /\ edits'[o].dev = task[t].by[k] /\ edits'[o].task = t
                         /\ applied'[o] # <<>> /\ edits'[o].ver = k - 1
    BY <1>4 DEF VersionsHaveAuthors
  <2>1. PICK o \in DOMAIN edits : /\ edits[o].dev = task[t].by[k] /\ edits[o].task = t
                                  /\ applied[o] # <<>> /\ edits[o].ver = k - 1
    BY <1>4 DEF ServerGood, VersionsHaveAuthors
  <2> QED  BY <2>1, <1>0, <1>2 DEF Extends
<1>9. \A e \in conflicts : Refusable(Server', edits', e)
  <2> SUFFICES ASSUME NEW e \in conflicts PROVE Refusable(Server', edits', e)
    OBVIOUS
  <2>1. e \in DOMAIN edits /\ Refusable(Server, edits, e) /\ ServerType(Server, edits)
    BY <1>4 DEF ServerGood, ServerType
  <2> QED  BY <2>1, <1>0, <1>5, <1>6, RefusableStays
<1> QED  BY <1>0, <1>2, <1>4, <1>5, <1>6, <1>7, <1>8, <1>9 DEF ServerGood

LEMMA AppliedIsSeq ==
    ASSUME edits \in Seq(Edit), ServerGood(Server, edits)
    PROVE  applied \in Seq(Seq(Nat)) /\ Len(applied) = Len(edits)
<1>1. DOMAIN edits = 1 .. Len(edits) /\ Len(edits) \in Nat
  BY LenProperties
<1>2. applied \in [1 .. Len(edits) -> Seq(Nat)]
  BY <1>1 DEF ServerGood, ServerType, Server
<1>3. applied \in Seq(Seq(Nat))
  BY <1>1, <1>2, SeqDef
<1>4. DOMAIN applied = 1 .. Len(applied) /\ Len(applied) \in Nat
  BY <1>3, LenProperties
<1> QED  BY <1>1, <1>2, <1>3, <1>4

-----------------------------------------------------------------------------
(* What the browser keeps stays good while the server moves on.             *)

\* The server and the edits at one time and at a later one.
Later(ed, tk, more, tk2) ==
    /\ Extends(ed, more) /\ ed \in Seq(Edit) /\ more \in Seq(Edit)
    /\ \A t \in Task : tk[t].ver \in Nat /\ tk2[t].ver \in Nat /\ tk[t].ver <= tk2[t].ver

LEMMA GoodBundleLater ==
    ASSUME NEW ed, NEW tk, NEW more, NEW tk2, Later(ed, tk, more, tk2), NEW b, GoodBundle(b, tk)
    PROVE  GoodBundle(b, tk2)
<1> SUFFICES ASSUME NEW t \in Task PROVE b[t].ver <= tk2[t].ver
  BY DEF GoodBundle
<1>1. b[t].ver \in Nat /\ tk[t].ver \in Nat /\ tk2[t].ver \in Nat
  BY DEF GoodBundle, Later
<1>2. b[t].ver <= tk[t].ver /\ tk[t].ver <= tk2[t].ver
  BY DEF GoodBundle, Later
<1> QED  BY <1>1, <1>2

LEMMA OwnEditsLater ==
    ASSUME NEW ed, NEW tk, NEW more, NEW tk2, Later(ed, tk, more, tk2), NEW q, NEW d,
           OwnEdits(q, d, ed)
    PROVE  OwnEdits(q, d, more)
<1>1. q \in Seq(DOMAIN ed) /\ DOMAIN q = 1 .. Len(q) /\ Len(q) \in Nat
      /\ \A k \in 1 .. Len(q) : q[k] \in DOMAIN ed
  BY LenProperties, ElementOfSeq DEF OwnEdits
<1>2. \A k \in 1 .. Len(q) : q[k] \in DOMAIN more /\ more[q[k]] = ed[q[k]]
  BY <1>1 DEF Later, Extends
<1>3. q \in [1 .. Len(q) -> DOMAIN more]
  <2>1. q \in [1 .. Len(q) -> DOMAIN ed]
    BY <1>1, LenProperties
  <2> QED  BY <1>2, <2>1
<1>4. q \in Seq(DOMAIN more)
  BY <1>1, <1>3, SeqDef
<1> QED  BY <1>1, <1>2, <1>4 DEF OwnEdits

LEMMA GoodCacheLater ==
    ASSUME NEW ed, NEW tk, NEW more, NEW tk2, Later(ed, tk, more, tk2), NEW c, NEW d,
           GoodCache(c, d, ed, tk)
    PROVE  GoodCache(c, d, more, tk2)
  BY GoodBundleLater, OwnEditsLater DEF GoodCache

LEMMA GoodSyncLater ==
    ASSUME NEW ed, NEW tk, NEW more, NEW tk2, Later(ed, tk, more, tk2), NEW y, NEW d,
           GoodSync(y, d, ed, tk)
    PROVE  GoodSync(y, d, more, tk2)
  BY GoodBundleLater, GoodCacheLater DEF GoodSync

LEMMA GoodTogglesLater ==
    ASSUME NEW ed, NEW tk, NEW more, NEW tk2, Later(ed, tk, more, tk2), NEW G, NEW d,
           GoodToggles(G, d, ed, tk)
    PROVE  GoodToggles(G, d, more, tk2)
  BY GoodCacheLater DEF GoodToggles, Later, Extends

LEMMA GoodWireLater ==
    ASSUME NEW ed, NEW tk, NEW more, NEW tk2, Later(ed, tk, more, tk2), NEW w, GoodWire(w, ed)
    PROVE  GoodWire(w, more)
  BY OwnEditsLater DEF GoodWire

\* One entry of a function is replaced.
LEMMA Replaced ==
    ASSUME NEW S, NEW f, f = [x \in S |-> f[x]], NEW d \in S, NEW v, NEW g,
           g = [f EXCEPT ![d] = v]
    PROVE  g = [x \in S |-> g[x]] /\ g[d] = v /\ \A x \in S \ {d} : g[x] = f[x]
  OBVIOUS

\* What every step does to the server.
Forward ==
    /\ edits' \in Seq(Edit) /\ ServerGood(Server', edits') /\ Grew(Server, Server')
    /\ Extends(edits, edits')
    /\ excused \subseteq excused' /\ excused' \subseteq DOMAIN edits'

LEMMA ForwardLater ==
    ASSUME ServerPart, Forward
    PROVE  Later(edits, task, edits', task')
<1>1. \A t \in Task : task[t].ver \in Nat /\ task'[t].ver \in Nat
  BY DEF ServerPart, Forward, ServerGood, ServerType, Server, TaskState
<1>2. \A t \in Task : task[t].ver <= task'[t].ver
  BY DEF Forward, Grew, Server
<1> QED  BY <1>1, <1>2 DEF Later, ServerPart, Forward

LEMMA ForwardServer ==
    ASSUME Forward PROVE ServerPart'
  BY DEF Forward, ServerPart

\* A step closes edits and opens none but the one it makes.
LEMMA OpenShrinks ==
    ASSUME ServerPart, Forward, NEW e \in DOMAIN edits, Open(e)'
    PROVE  Open(e)
<1>1. e \notin excused
  BY DEF Forward, Open
<1>2. e \notin conflicts
  BY DEF Forward, Grew, Server, Open
<1>3. applied[e] = <<>>
  BY DEF Forward, Grew, Server, Open, ServerPart, ServerGood, ServerType
<1> QED  BY <1>1, <1>2, <1>3 DEF Open

\* A step that leaves the server and the edits alone moves it forward.
LEMMA ServerKept ==
    ASSUME ServerPart, UNCHANGED <<server, edits>>,
           excused \subseteq excused', excused' \subseteq DOMAIN edits
    PROVE  Forward
<1>1. Server' = Server /\ edits' = edits
  BY DEF server, Server
<1>2. Grew(Server, Server)
  BY GrewReflexive DEF ServerPart, ServerGood
<1>3. Extends(edits, edits)
  BY DEF Extends
<1> QED  BY <1>1, <1>2, <1>3 DEF Forward, ServerPart

\* A device this step does not touch keeps what it has.
LEMMA DeviceKept ==
    ASSUME ServerPart, Forward, NEW d \in Device, DeviceGood(d),
           cache'[d] = cache[d], view'[d] = view[d], sync'[d] = sync[d], toggles'[d] = toggles[d]
    PROVE  DeviceGood(d)'
<1>1. Later(edits, task, edits', task')
  BY ForwardLater
<1> QED  BY <1>1, GoodCacheLater, GoodSyncLater, GoodTogglesLater DEF DeviceGood

-----------------------------------------------------------------------------
(* A step of one device, or of none.                                        *)

SameOf(x) == /\ cache'[x] = cache[x] /\ view'[x] = view[x]
             /\ sync'[x] = sync[x] /\ toggles'[x] = toggles[x]

\* No copy of a cache holds an edit that does not exist.
LEMMA HeldExists ==
    ASSUME NEW ed, NEW tk, NEW d, NEW c, GoodCache(c, d, ed, tk), NEW e, Holds(c, e)
    PROVE  e \in DOMAIN ed /\ ed[e].dev = d
<1>1. PICK k \in DOMAIN c.pending : c.pending[k] = e
  BY DEF Holds
<1>2. c # None
  <2> SUFFICES ASSUME c = None PROVE FALSE
    OBVIOUS
  <2>1. c.pending = <<>>
    BY DEF None
  <2>2. DOMAIN c.pending = {}
    BY <2>1
  <2> QED  BY <1>1, <2>2
<1>3. OwnEdits(c.pending, d, ed)
  BY <1>2 DEF GoodCache
<1>4. DOMAIN c.pending = 1 .. Len(c.pending)
  BY <1>3, LenProperties DEF OwnEdits
<1> QED  BY <1>1, <1>3, <1>4, ElementOfSeq DEF OwnEdits

LEMMA CopiesKept ==
    ASSUME ServerPart, BrowserPart, CopiesAgree, Forward, NEW d \in Device, SameOf(d),
           \A w \in wire : w.dev = d => w \in wire',
           NEW e \in DOMAIN edits', Open(e)'
    PROVE  CopiesOf(d, e)'
<1>1. CASE e \in DOMAIN edits
  <2>1. CopiesOf(d, e)
    BY <1>1, OpenShrinks DEF CopiesAgree
  <2> QED  BY <2>1 DEF CopiesOf, SameOf, Holds
<1>2. CASE e \notin DOMAIN edits
  <2>1. /\ GoodCache(cache[d], d, edits, task) /\ GoodCache(view[d], d, edits, task)
        /\ \A g \in toggles[d] : GoodCache(g.on, d, edits, task)
    BY DEF BrowserPart, DeviceGood, GoodToggles
  <2>2. /\ ~Holds(cache[d], e) /\ ~Holds(view[d], e)
        /\ \A g \in toggles[d] : ~Holds(g.on, e)
    BY <1>2, <2>1, HeldExists
  <2> QED  BY <2>2 DEF CopiesOf, SameOf, Holds
<1> QED  BY <1>1, <1>2

LEMMA OverlapKept ==
    ASSUME OverlapsExcused, Forward, NEW d \in Device, SameOf(d)
    PROVE  OverlapOf(d)'
  BY DEF OverlapsExcused, OverlapOf, SameOf, Forward

LEMMA WaitsKept ==
    ASSUME ServerPart, OpenEditsWait, Forward, NEW e \in DOMAIN edits, SameOf(edits[e].dev), Open(e)'
    PROVE  Waits(e)'
<1>1. Waits(e)
  BY OpenShrinks DEF OpenEditsWait
<1>2. edits'[e] = edits[e]
  BY DEF Forward, Extends
<1> QED  BY <1>1, <1>2 DEF Waits, SameOf, Holds

LEMMA OneDevice ==
    ASSUME Inv, Forward, NEW d \in Device,
           cache' = [x \in Device |-> cache'[x]], view' = [x \in Device |-> view'[x]],
           sync' = [x \in Device |-> sync'[x]], toggles' = [x \in Device |-> toggles'[x]],
           \A x \in Device \ {d} : SameOf(x),
           \A w \in wire : w.dev # d => w \in wire',
           \A e \in DOMAIN edits' \ DOMAIN edits : edits'[e].dev = d,
           DeviceGood(d)', WirePart', OverlapOf(d)',
           \A e \in DOMAIN edits' : Open(e)' => CopiesOf(d, e)',
           \A e \in DOMAIN edits' : Open(e)' /\ edits'[e].dev = d => Waits(e)'
    PROVE  Inv'
<1>0. ServerPart /\ BrowserPart /\ CopiesAgree /\ OverlapsExcused /\ OpenEditsWait
  BY DEF Inv
<1>1. ServerPart'
  BY ForwardServer
<1>2. BrowserPart'
  <2>1. \A x \in Device : DeviceGood(x)'
    <3> SUFFICES ASSUME NEW x \in Device, x # d PROVE DeviceGood(x)'
      OBVIOUS
    <3>1. DeviceGood(x) /\ SameOf(x)
      BY <1>0 DEF BrowserPart
    <3> QED  BY <1>0, <3>1, DeviceKept DEF SameOf
  <2> QED  BY <2>1 DEF BrowserPart
<1>3. CopiesAgree'
  <2> SUFFICES ASSUME NEW x \in Device, NEW e \in DOMAIN edits', Open(e)' PROVE CopiesOf(x, e)'
    BY DEF CopiesAgree
  <2>1. CASE x = d
    BY <2>1
  <2>2. CASE x # d
    <3>1. SameOf(x) /\ \A w \in wire : w.dev = x => w \in wire'
      BY <2>2
    <3> QED  BY <1>0, <3>1, CopiesKept
  <2> QED  BY <2>1, <2>2
<1>4. OverlapsExcused'
  <2> SUFFICES ASSUME NEW x \in Device, x # d PROVE OverlapOf(x)'
    BY DEF OverlapsExcused
  <2> QED  BY <1>0, OverlapKept
<1>5. OpenEditsWait'
  <2> SUFFICES ASSUME NEW e \in DOMAIN edits', Open(e)', edits'[e].dev # d PROVE Waits(e)'
    BY DEF OpenEditsWait
  <2>1. e \in DOMAIN edits /\ edits'[e] = edits[e]
    BY DEF Forward, Extends
  <2>2. edits[e].dev \in Device \ {d}
    BY <1>0, <2>1, EditFields DEF ServerPart
  <2> QED  BY <1>0, <2>1, <2>2, WaitsKept
<1> QED  BY <1>1, <1>2, <1>3, <1>4, <1>5 DEF Inv

LEMMA NoDevice ==
    ASSUME Inv, Forward, UNCHANGED <<cache, view, sync, toggles, wire, edits>>
    PROVE  Inv'
<1>0. ServerPart /\ BrowserPart /\ CopiesAgree /\ OverlapsExcused /\ OpenEditsWait
  BY DEF Inv
<1>1. ServerPart'
  BY ForwardServer
<1>2. \A x \in Device : SameOf(x)
  BY DEF SameOf
<1>3. BrowserPart'
  <2>1. \A x \in Device : DeviceGood(x)'
    BY <1>0, DeviceKept DEF BrowserPart
  <2> QED  BY <1>0, <2>1 DEF BrowserPart
<1>4. CopiesAgree'
  <2> SUFFICES ASSUME NEW x \in Device, NEW e \in DOMAIN edits', Open(e)' PROVE CopiesOf(x, e)'
    BY DEF CopiesAgree
  <2> QED  BY <1>0, <1>2, CopiesKept
<1>5. OverlapsExcused'
  BY <1>0, <1>2, OverlapKept DEF OverlapsExcused
<1>6. OpenEditsWait'
  <2> SUFFICES ASSUME NEW e \in DOMAIN edits, Open(e)' PROVE Waits(e)'
    BY DEF OpenEditsWait
  <2>1. edits[e].dev \in Device
    BY <1>0, EditFields DEF ServerPart
  <2> QED  BY <1>0, <1>2, <2>1, WaitsKept
<1>7. WirePart'
  BY DEF Inv, WirePart
<1> QED  BY <1>1, <1>3, <1>4, <1>5, <1>6, <1>7 DEF Inv

-----------------------------------------------------------------------------
(* The steps.                                                               *)

LEMMA InitInv == Init => Inv
<1> SUFFICES ASSUME Init PROVE Inv
  OBVIOUS
<1>1. edits = <<>> /\ applied = <<>> /\ DOMAIN edits = {} /\ DOMAIN applied = {}
  BY DEF Init
<1>2. \A t \in Task : task[t] = [status |-> "pending", ver |-> 1, by |-> <<Desk>>]
  BY DEF Init
<1>3. <<Desk>> \in Seq(Device \cup {Desk}) /\ Len(<<Desk>>) = 1
  OBVIOUS
<1>4. ServerType(Server, edits)
  <2>1. task \in [Task -> TaskState]
    BY <1>3 DEF Init, TaskState, Status
  <2>2. applied \in [DOMAIN edits -> Seq(Nat)]
    BY <1>1
  <2>3. conflicts = {} /\ \A t \in Task : task[t].ver = Len(task[t].by)
    BY <1>2, <1>3 DEF Init
  <2> QED  BY <2>1, <2>2, <2>3 DEF ServerType, Server
<1>5. EditsBehind(Server, edits) /\ VersionsHaveAuthors(Server, edits)
  <2>1. \A t \in Task : Len(task[t].by) = 1
    BY <1>2, <1>3
  <2>2. 2 .. 1 = {}
    OBVIOUS
  <2>3. \A t \in Task : \A k \in 2 .. Len(task[t].by) : FALSE
    BY <2>1, <2>2
  <2> QED  BY <1>1, <2>3 DEF EditsBehind, VersionsHaveAuthors, Server
<1>6. ServerPart
  <2>1. edits \in Seq(Edit)
    BY <1>1
  <2>2. excused = {} /\ Server.conflicts = {}
    BY DEF Init, Server
  <2> QED  BY <1>4, <1>5, <2>1, <2>2 DEF ServerPart, ServerGood
<1>7. BrowserPart
  <2>1. \A d \in Device : DeviceGood(d)
    BY DEF Init, DeviceGood, GoodCache, GoodSync, GoodToggles
  <2> QED  BY <2>1 DEF Init, BrowserPart
<1>8. WirePart
  BY DEF Init, WirePart, Idle
<1> QED
  BY <1>1, <1>6, <1>7, <1>8 DEF Init, Inv, CopiesAgree, OverlapsExcused, OverlapOf, OpenEditsWait

\* A push on its way arrives or is lost: what its page waits for is over.
LEMMA WireShrinks ==
    ASSUME Inv, Forward, NEW w \in wire, NEW y, y \in {[at |-> "answer"], Idle},
           wire' = wire \ {w}, UNCHANGED <<cache, view, toggles, edits>>,
           sync' = IF sync[w.dev] = [at |-> "push", n |-> w.n]
                   THEN [sync EXCEPT ![w.dev] = y] ELSE sync,
           y = Idle \/ \A e \in Elements(w.batch) : ~Open(e)'
    PROVE  Inv'
<1> DEFINE d == w.dev
<1>0. /\ ServerPart /\ BrowserPart /\ WirePart /\ CopiesAgree /\ OverlapsExcused /\ OpenEditsWait
      /\ GoodWire(w, edits) /\ d \in Device /\ w.n \in 1 .. MaxWire
  BY DEF Inv, WirePart, GoodWire
<1>1. /\ sync' = [x \in Device |-> sync'[x]] /\ \A x \in Device \ {d} : sync'[x] = sync[x]
      /\ sync[d] = [at |-> "push", n |-> w.n] => sync'[d] = y
      /\ sync[d] # [at |-> "push", n |-> w.n] => sync'[d] = sync[d]
  BY <1>0 DEF BrowserPart
<1>2. \A x \in Device : cache'[x] = cache[x] /\ view'[x] = view[x] /\ toggles'[x] = toggles[x]
  OBVIOUS
<1>3. \A x \in Device : \A n \in 1 .. MaxWire :
          sync'[x] = [at |-> "push", n |-> n] =>
              sync[x] = [at |-> "push", n |-> n] /\ ~(x = d /\ n = w.n)
  <2> SUFFICES ASSUME NEW x \in Device, NEW n \in 1 .. MaxWire,
                      sync'[x] = [at |-> "push", n |-> n]
               PROVE  sync[x] = [at |-> "push", n |-> n] /\ ~(x = d /\ n = w.n)
    OBVIOUS
  <2>1. y # [at |-> "push", n |-> n]
    BY DEF Idle
  <2> HIDE DEF d
  <2> QED  BY <1>1, <2>1
<1>4. WirePart'
  <2>1. \A x \in wire' : GoodWire(x, edits')
    BY <1>0 DEF WirePart
  <2>2. \A x, z \in wire' : x.n = z.n => x = z
    BY <1>0 DEF WirePart
  <2>3. ASSUME NEW x \in Device, NEW n \in 1 .. MaxWire, sync'[x] = [at |-> "push", n |-> n]
        PROVE  \E z \in wire' : z.dev = x /\ z.n = n
    <3>1. sync[x] = [at |-> "push", n |-> n] /\ ~(x = d /\ n = w.n)
      BY <1>3, <2>3
    <3>2. PICK z \in wire : z.dev = x /\ z.n = n
      BY <1>0, <3>1 DEF WirePart
    <3> QED  BY <3>1, <3>2
  <2> QED  BY <2>1, <2>2, <2>3 DEF WirePart
<1>5. DeviceGood(d)'
  <2>1. DeviceGood(d) /\ Later(edits, task, edits', task')
    BY <1>0, ForwardLater DEF BrowserPart
  <2>2. GoodSync(sync'[d], d, edits', task')
    <3>1. GoodSync(sync[d], d, edits', task')
      BY <2>1, GoodSyncLater DEF DeviceGood
    <3>2. GoodSync(y, d, edits', task')
      BY DEF GoodSync
    <3> QED  BY <1>1, <3>1, <3>2
  <2> HIDE DEF d
  <2> QED  BY <1>2, <1>0, <2>1, <2>2, GoodCacheLater, GoodTogglesLater DEF DeviceGood
<1>6. OverlapOf(d)'
  <2>1. OverlapOf(d) /\ excused \subseteq excused'
    BY <1>0 DEF OverlapsExcused, Forward
  <2>2. sync[d] = Idle => sync'[d] = Idle
    BY <1>1 DEF Idle
  <2> HIDE DEF d
  <2> QED  BY <1>2, <1>0, <2>1, <2>2 DEF OverlapOf
<1>7. ASSUME NEW e \in DOMAIN edits', Open(e)' PROVE CopiesOf(d, e)'
  <2>1. Open(e) /\ CopiesOf(d, e)
    BY <1>0, <1>7, OpenShrinks DEF CopiesAgree
  <2>2. /\ Holds(view'[d], e) <=> Holds(cache'[d], e)
        /\ \A g \in toggles'[d] : Holds(g.on, e) <=> Holds(cache'[d], e)
    BY <1>2, <1>0, <2>1 DEF CopiesOf, Holds
  <2>3. ASSUME Holds(cache'[d], e)
        PROVE  \/ sync'[d] = Idle
               \/ \E z \in wire' : /\ sync'[d] = [at |-> "push", n |-> z.n]
                                   /\ z.dev = d /\ e \in Elements(z.batch)
    <3>1. CASE sync[d] = Idle
      BY <1>1, <3>1 DEF Idle
    <3>2. ASSUME NEW z \in wire, sync[d] = [at |-> "push", n |-> z.n], z.dev = d,
                 e \in Elements(z.batch)
          PROVE  \/ sync'[d] = Idle
                 \/ \E x \in wire' : /\ sync'[d] = [at |-> "push", n |-> x.n]
                                     /\ x.dev = d /\ e \in Elements(x.batch)
      <4>1. CASE z = w
        BY <1>1, <1>7, <3>2, <4>1
      <4>2. CASE z # w
        <5>1. z.n # w.n
          BY <1>0, <4>2 DEF WirePart
        <5>2. sync[d] # [at |-> "push", n |-> w.n]
          BY <3>2, <5>1
        <5> QED  BY <1>1, <3>2, <4>2, <5>2
      <4> QED  BY <4>1, <4>2
    <3>3. Holds(cache[d], e)
      BY <1>2, <1>0, <2>3
    <3> QED  BY <2>1, <3>1, <3>2, <3>3 DEF CopiesOf
  <2> QED  BY <2>2, <2>3 DEF CopiesOf, Holds, Elements
<1>8. ASSUME NEW e \in DOMAIN edits', Open(e)', edits'[e].dev = d PROVE Waits(e)'
  <2>1. Waits(e)
    BY <1>0, <1>8, OpenShrinks DEF OpenEditsWait
  <2> QED  BY <1>2, <1>0, <1>8, <2>1 DEF Waits, Holds
<1>9. \A x \in Device \ {d} : SameOf(x)
  BY <1>1, <1>2 DEF SameOf
<1>10. \A x \in wire : x.dev # d => x \in wire'
  OBVIOUS
<1>11. /\ cache' = [x \in Device |-> cache'[x]] /\ view' = [x \in Device |-> view'[x]]
       /\ toggles' = [x \in Device |-> toggles'[x]]
  BY <1>0 DEF BrowserPart
<1> HIDE DEF d
<1> QED  BY <1>0, <1>1, <1>4, <1>5, <1>6, <1>7, <1>8, <1>9, <1>10, <1>11, OneDevice

LEMMA WireKept ==
    ASSUME Inv, Forward, wire' = wire,
           \A x \in Device : \A n \in 1 .. MaxWire :
               sync'[x] = [at |-> "push", n |-> n] => sync[x] = [at |-> "push", n |-> n]
    PROVE  WirePart'
<1>1. Later(edits, task, edits', task')
  BY ForwardLater DEF Inv
<1>2. \A w \in wire : GoodWire(w, edits')
  BY <1>1, GoodWireLater DEF Inv, WirePart
<1> QED  BY <1>2 DEF Inv, WirePart

\* A sync goes from one stage past its push to another, or ends there; the caches
\* stay, and no open edit is in them.
LEMMA SyncMoves ==
    ASSUME Inv, NEW d \in Device, NEW y, GoodSync(y, d, edits, task),
           sync[d].at \in {"answer", "clear", "pull", "write"},
           \A n \in 1 .. MaxWire : y # [at |-> "push", n |-> n],
           sync' = [sync EXCEPT ![d] = y],
           UNCHANGED <<server, cache, view, toggles, wire, edits, excused>>
    PROVE  Inv'
<1>0. /\ ServerPart /\ BrowserPart /\ WirePart /\ CopiesAgree /\ OverlapsExcused /\ OpenEditsWait
  BY DEF Inv
<1>1. Forward
  BY <1>0, ServerKept DEF ServerPart
<1>2. /\ sync' = [x \in Device |-> sync'[x]] /\ sync'[d] = y
      /\ \A x \in Device \ {d} : sync'[x] = sync[x]
  BY <1>0, Replaced DEF BrowserPart
<1>3. WirePart'
  BY <1>1, <1>2, WireKept
<1>4. DeviceGood(d)'
  BY <1>0, <1>2 DEF BrowserPart, DeviceGood, server
<1>5. sync[d] # Idle /\ \A n : sync[d] # [at |-> "push", n |-> n]
  BY DEF Idle
<1>6. OverlapOf(d)'
  BY <1>0, <1>5 DEF OverlapsExcused, OverlapOf
<1>7. ASSUME NEW e \in DOMAIN edits', Open(e)' PROVE CopiesOf(d, e)'
  <2>1. CopiesOf(d, e)
    BY <1>0, <1>1, <1>7, OpenShrinks DEF CopiesAgree
  <2> QED  BY <1>5, <2>1 DEF CopiesOf, Holds, Elements
<1>8. ASSUME NEW e \in DOMAIN edits', Open(e)', edits'[e].dev = d PROVE Waits(e)'
  <2>1. Waits(e)
    BY <1>0, <1>1, <1>8, OpenShrinks DEF OpenEditsWait
  <2> QED  BY <2>1 DEF Waits, Holds
<1>9. \A x \in Device \ {d} : SameOf(x)
  BY <1>2 DEF SameOf
<1>10. /\ cache' = [x \in Device |-> cache'[x]] /\ view' = [x \in Device |-> view'[x]]
       /\ toggles' = [x \in Device |-> toggles'[x]]
  BY <1>0 DEF BrowserPart
<1> QED  BY <1>1, <1>2, <1>3, <1>4, <1>6, <1>7, <1>8, <1>9, <1>10, OneDevice

\* What the stage of a sync says it holds.
LEMMA SyncStage ==
    ASSUME Inv, NEW d \in Device
    PROVE  /\ sync[d].at = "clear" => GoodCache(sync[d].on, d, edits, task)
           /\ sync[d].at = "write" => GoodBundle(sync[d].bundle, task)
  BY DEF Inv, BrowserPart, DeviceGood, GoodSync, Idle

LEMMA AnswerPushInv ==
    ASSUME Inv, NEW d \in Device, AnswerPush(d)
    PROVE  Inv'
<1> DEFINE y == [at |-> "clear", on |-> cache[d]]
<1>1. GoodCache(cache[d], d, edits, task)
  BY DEF Inv, BrowserPart, DeviceGood
<1>2. GoodSync(y, d, edits, task)
  BY <1>1 DEF GoodSync
<1>3. \A n \in 1 .. MaxWire : y # [at |-> "push", n |-> n]
  OBVIOUS
<1>4. sync' = [sync EXCEPT ![d] = y] /\ sync[d].at = "answer"
      /\ UNCHANGED <<server, cache, view, toggles, wire, edits, excused>>
  BY DEF AnswerPush
<1> HIDE DEF y
<1> QED  BY <1>2, <1>3, <1>4, SyncMoves

LEMMA BundleGood ==
    ASSUME ServerPart
    PROVE  GoodBundle(Bundle, task)
<1>1. \A t \in Task : task[t] \in TaskState
  BY DEF ServerPart, ServerGood, ServerType, Server
<1>2. \A t \in Task : task[t].status \in Status /\ task[t].ver \in Nat \ {0}
  BY <1>1 DEF TaskState
<1> QED  BY <1>2 DEF GoodBundle, Bundle

LEMMA PullInv ==
    ASSUME Inv, NEW d \in Device, Pull(d)
    PROVE  Inv'
<1> DEFINE y == [at |-> "write", bundle |-> Bundle]
<1>2. GoodSync(y, d, edits, task)
  BY BundleGood DEF GoodSync, Inv
<1>3. \A n \in 1 .. MaxWire : y # [at |-> "push", n |-> n]
  OBVIOUS
<1>4. sync' = [sync EXCEPT ![d] = y] /\ sync[d].at = "pull"
      /\ UNCHANGED <<server, cache, view, toggles, wire, edits, excused>>
  BY DEF Pull
<1> HIDE DEF y
<1> QED  BY <1>2, <1>3, <1>4, SyncMoves

LEMMA FailSyncInv ==
    ASSUME Inv, NEW d \in Device, FailSync(d)
    PROVE  Inv'
<1>2. GoodSync(Idle, d, edits, task)
  BY DEF GoodSync
<1>3. \A n \in 1 .. MaxWire : Idle # [at |-> "push", n |-> n]
  BY DEF Idle
<1>4. sync' = [sync EXCEPT ![d] = Idle] /\ sync[d].at \in {"answer", "clear", "pull", "write"}
      /\ UNCHANGED <<server, cache, view, toggles, wire, edits, excused>>
  BY DEF FailSync
<1> QED  BY <1>2, <1>3, <1>4, SyncMoves

\* The caches of a device are overwritten at a time when no copy of them holds an
\* open edit.
Overwritten(d, c, v, y) ==
    /\ cache' = [cache EXCEPT ![d] = c]
    /\ view' = [view EXCEPT ![d] = v]
    /\ sync' = [sync EXCEPT ![d] = y]
    /\ UNCHANGED <<server, toggles, wire, edits, excused>>

LEMMA Emptied ==
    ASSUME Inv, NEW d \in Device, NEW c, NEW v, NEW y,
           sync[d].at \in {"answer", "clear", "pull", "write"},
           GoodSync(y, d, edits, task), \A n \in 1 .. MaxWire : y # [at |-> "push", n |-> n],
           GoodCache(c, d, edits, task), c.pending = <<>> \/ c = cache[d],
           GoodCache(v, d, edits, task), v.pending = <<>> \/ v = view[d],
           Task # {} /\ v # None => c # None,
           Overwritten(d, c, v, y)
    PROVE  Inv'
<1>0. /\ ServerPart /\ BrowserPart /\ WirePart /\ CopiesAgree /\ OverlapsExcused /\ OpenEditsWait
  BY DEF Inv
<1>1. Forward
  BY <1>0, ServerKept DEF ServerPart, Overwritten
<1>2. /\ sync' = [x \in Device |-> sync'[x]] /\ sync'[d] = y
      /\ \A x \in Device \ {d} : sync'[x] = sync[x]
  BY <1>0, Replaced DEF BrowserPart, Overwritten
<1>21. /\ cache' = [x \in Device |-> cache'[x]] /\ cache'[d] = c
       /\ \A x \in Device \ {d} : cache'[x] = cache[x]
  BY <1>0, Replaced DEF BrowserPart, Overwritten
<1>22. /\ view' = [x \in Device |-> view'[x]] /\ view'[d] = v
       /\ \A x \in Device \ {d} : view'[x] = view[x]
  BY <1>0, Replaced DEF BrowserPart, Overwritten
<1>3. WirePart'
  BY <1>1, <1>2, WireKept DEF Overwritten
<1>4. DeviceGood(d)'
  BY <1>0, <1>2, <1>21, <1>22 DEF BrowserPart, DeviceGood, server, Overwritten
<1>5. sync[d] # Idle /\ \A n : sync[d] # [at |-> "push", n |-> n]
  BY DEF Idle
<1>6. OverlapOf(d)'
  BY <1>0, <1>5 DEF OverlapsExcused, OverlapOf, Overwritten
<1>7. ASSUME NEW e \in DOMAIN edits', Open(e)'
      PROVE  /\ ~Holds(cache[d], e) /\ ~Holds(view[d], e) /\ \A g \in toggles[d] : ~Holds(g.on, e)
             /\ ~Holds(c, e) /\ ~Holds(v, e)
  <2>1. CopiesOf(d, e)
    BY <1>0, <1>1, <1>7, OpenShrinks DEF CopiesAgree, Overwritten
  <2>2. /\ ~Holds(cache[d], e) /\ ~Holds(view[d], e) /\ \A g \in toggles[d] : ~Holds(g.on, e)
    BY <1>5, <2>1 DEF CopiesOf
  <2>3. c.pending = <<>> => ~Holds(c, e)
    BY DEF Holds
  <2>4. v.pending = <<>> => ~Holds(v, e)
    BY DEF Holds
  <2> QED  BY <2>2, <2>3, <2>4
<1>8. ASSUME NEW e \in DOMAIN edits', Open(e)' PROVE CopiesOf(d, e)'
  BY <1>7, <1>8, <1>21, <1>22 DEF CopiesOf, Holds, Elements, Overwritten
<1>9. ASSUME NEW e \in DOMAIN edits', Open(e)', edits'[e].dev = d PROVE Waits(e)'
  <2>1. Waits(e)
    BY <1>0, <1>1, <1>9, OpenShrinks DEF OpenEditsWait, Overwritten
  <2>2. \E g \in toggles[d] : g.edit = e
    BY <2>1, <1>7, <1>9 DEF Waits, Overwritten
  <2> QED  BY <2>2, <1>9 DEF Waits, Overwritten
<1>10. \A x \in Device \ {d} : SameOf(x)
  BY <1>2, <1>21, <1>22 DEF SameOf, Overwritten
<1>11. toggles' = [x \in Device |-> toggles'[x]] /\ UNCHANGED <<wire, edits>>
  BY <1>0 DEF BrowserPart, Overwritten
<1> QED  BY <1>1, <1>2, <1>21, <1>22, <1>3, <1>4, <1>6, <1>8, <1>9, <1>10, <1>11, OneDevice

LEMMA BundledIsSome ==
    ASSUME NEW b, NEW tk, GoodBundle(b, tk), NEW q, Task # {}
    PROVE  [bundle |-> b, pending |-> q] # None
<1> SUFFICES ASSUME [bundle |-> b, pending |-> q] = None PROVE FALSE
  OBVIOUS
<1>1. b = <<>>
  BY DEF None
<1>2. DOMAIN b = {} /\ DOMAIN b = Task
  BY <1>1 DEF GoodBundle
<1> QED  BY <1>2

LEMMA DownloadedGood ==
    ASSUME NEW b, GoodBundle(b, task), NEW d
    PROVE  /\ GoodCache(Downloaded(b), d, edits, task)
           /\ Downloaded(b).pending = <<>>
           /\ Task # {} => Downloaded(b) # None
<1>1. <<>> \in Seq(DOMAIN edits) /\ DOMAIN <<>> = {}
  OBVIOUS
<1>2. OwnEdits(<<>>, d, edits)
  BY <1>1 DEF OwnEdits
<1> QED  BY <1>2, BundledIsSome DEF Downloaded, GoodCache

LEMMA ClearPendingInv ==
    ASSUME Inv, NEW d \in Device, ClearPending(d)
    PROVE  Inv'
<1> DEFINE y == [at |-> "pull"]
           on == sync[d].on
           c == IF on = None THEN cache[d] ELSE [on EXCEPT !.pending = <<>>]
<1>0. /\ cache = [x \in Device |-> cache[x]] /\ view = [x \in Device |-> view[x]]
      /\ GoodCache(cache[d], d, edits, task) /\ GoodCache(view[d], d, edits, task)
      /\ Task # {} /\ view[d] # None => cache[d] # None
      /\ GoodCache(on, d, edits, task)
  BY SyncStage DEF Inv, BrowserPart, DeviceGood, ClearPending
<1>1. on # None => c = Downloaded(on.bundle) /\ GoodBundle(on.bundle, task)
  BY <1>0 DEF GoodCache, Downloaded
<1>2. /\ GoodCache(c, d, edits, task)
      /\ Task # {} /\ view[d] # None => c # None
      /\ c.pending = <<>> \/ c = cache[d]
  <2>1. CASE on = None
    BY <1>0, <2>1
  <2>2. CASE on # None
    <3> HIDE DEF c, on
    <3> QED  BY <1>1, <2>2, DownloadedGood
  <2> QED  BY <2>1, <2>2
<1>3. cache' = [cache EXCEPT ![d] = c] /\ view' = [view EXCEPT ![d] = view[d]]
  BY <1>0 DEF ClearPending
<1>4. GoodSync(y, d, edits, task) /\ \A n \in 1 .. MaxWire : y # [at |-> "push", n |-> n]
  BY DEF GoodSync
<1>5. /\ sync[d].at \in {"answer", "clear", "pull", "write"} /\ sync' = [sync EXCEPT ![d] = y]
      /\ UNCHANGED <<server, toggles, wire, edits, excused>>
  BY DEF ClearPending
<1> DEFINE v == view[d]
<1>6. /\ GoodCache(v, d, edits, task) /\ (v.pending = <<>> \/ v = view[d])
      /\ Task # {} /\ v # None => c # None
      /\ Overwritten(d, c, v, y)
  BY <1>0, <1>2, <1>3, <1>5 DEF Overwritten
<1> HIDE DEF c, y, v
<1> QED  BY <1>2, <1>4, <1>5, <1>6, Emptied

LEMMA WriteBundleInv ==
    ASSUME Inv, NEW d \in Device, WriteBundle(d)
    PROVE  Inv'
<1> DEFINE c == Downloaded(sync[d].bundle)
<1>1. sync[d].at = "write" /\ GoodBundle(sync[d].bundle, task)
  BY SyncStage DEF WriteBundle
<1>2. GoodCache(c, d, edits, task) /\ c.pending = <<>> /\ (Task # {} => c # None)
  BY <1>1, DownloadedGood
<1>3. /\ cache' = [cache EXCEPT ![d] = c] /\ view' = [view EXCEPT ![d] = c]
      /\ sync' = [sync EXCEPT ![d] = Idle]
      /\ UNCHANGED <<server, toggles, wire, edits, excused>>
  BY DEF WriteBundle
<1>4. GoodSync(Idle, d, edits, task) /\ \A n \in 1 .. MaxWire : Idle # [at |-> "push", n |-> n]
  BY DEF GoodSync, Idle
<1>5. /\ sync[d].at \in {"answer", "clear", "pull", "write"}
      /\ Task # {} /\ c # None => c # None
      /\ c.pending = <<>> \/ c = cache[d]
      /\ c.pending = <<>> \/ c = view[d]
      /\ Overwritten(d, c, c, Idle)
  BY <1>1, <1>2, <1>3 DEF Overwritten
<1> HIDE DEF c
<1> QED  BY <1>2, <1>4, <1>5, Emptied

LEMMA LeaveInv ==
    ASSUME Inv, NEW d \in Device, NEW left, Leave(d, left), GoodCache(left, d, edits, task)
    PROVE  Inv'
<1> DEFINE dropped == IF left = cache[d] THEN {} ELSE {cache[d].pending[k] : k \in DOMAIN cache[d].pending}
<1>0. /\ ServerPart /\ BrowserPart /\ WirePart /\ CopiesAgree /\ OverlapsExcused /\ OpenEditsWait
      /\ DeviceGood(d)
  BY DEF Inv, BrowserPart
<1>1. /\ sync' = [x \in Device |-> sync'[x]] /\ sync'[d] = Idle
      /\ \A x \in Device \ {d} : sync'[x] = sync[x]
  BY <1>0, Replaced DEF BrowserPart, Leave
<1>2. /\ cache' = [x \in Device |-> cache'[x]] /\ cache'[d] = left
      /\ \A x \in Device \ {d} : cache'[x] = cache[x]
  BY <1>0, Replaced DEF BrowserPart, Leave
<1>3. /\ view' = [x \in Device |-> view'[x]] /\ view'[d] = left
      /\ \A x \in Device \ {d} : view'[x] = view[x]
  BY <1>0, Replaced DEF BrowserPart, Leave
<1>4. /\ toggles' = [x \in Device |-> toggles'[x]] /\ toggles'[d] = {}
      /\ \A x \in Device \ {d} : toggles'[x] = toggles[x]
  BY <1>0, Replaced DEF BrowserPart, Leave
<1>5. /\ excused' = (excused \cup {g.edit : g \in toggles[d]}) \cup dropped
      /\ UNCHANGED <<server, wire, edits>>
  BY DEF Leave
<1>6. Forward
  <2>1. \A g \in toggles[d] : g.edit \in DOMAIN edits
    BY <1>0 DEF DeviceGood, GoodToggles
  <2>2. dropped \subseteq DOMAIN edits
    <3> SUFFICES ASSUME NEW k \in DOMAIN cache[d].pending
                 PROVE  cache[d].pending[k] \in DOMAIN edits
      OBVIOUS
    <3> QED  BY <1>0, HeldExists DEF DeviceGood, Holds
  <2>3. excused \subseteq DOMAIN edits
    BY <1>0 DEF ServerPart
  <2>4. excused \subseteq excused' /\ excused' \subseteq DOMAIN edits
    <3> HIDE DEF dropped
    <3> QED  BY <1>5, <2>1, <2>2, <2>3
  <2> QED  BY <1>0, <1>5, <2>4, ServerKept
<1>7. WirePart'
  <2>1. \A x \in Device : \A n \in 1 .. MaxWire :
           sync'[x] = [at |-> "push", n |-> n] => sync[x] = [at |-> "push", n |-> n]
    BY <1>1 DEF Idle
  <2> QED  BY <1>5, <1>6, <2>1, WireKept
<1>8. DeviceGood(d)'
  <2>1. GoodSync(Idle, d, edits, task) /\ GoodToggles({}, d, edits, task)
    BY DEF GoodSync, GoodToggles
  <2> QED  BY <1>1, <1>2, <1>3, <1>4, <1>5, <2>1 DEF DeviceGood, server
<1>9. OverlapOf(d)'
  BY <1>4 DEF OverlapOf
<1>10. \A e \in DOMAIN edits' : Open(e)' => CopiesOf(d, e)'
  BY <1>1, <1>2, <1>3, <1>4 DEF CopiesOf, Holds
<1>11. ASSUME NEW e \in DOMAIN edits', Open(e)', edits'[e].dev = d PROVE Waits(e)'
  <2>1. Waits(e) /\ e \notin excused'
    BY <1>0, <1>5, <1>6, <1>11, OpenShrinks DEF OpenEditsWait, Open
  <2>2. ~ \E g \in toggles[d] : g.edit = e
    BY <1>5, <2>1
  <2>3. Holds(cache[d], e)
    BY <1>5, <1>11, <2>1, <2>2 DEF Waits
  <2>4. left = cache[d]
    BY <1>5, <2>1, <2>3 DEF Holds
  <2> QED  BY <1>2, <1>11, <2>3, <2>4 DEF Waits, Holds
<1>12. \A x \in Device \ {d} : SameOf(x)
  BY <1>1, <1>2, <1>3, <1>4 DEF SameOf
<1> HIDE DEF dropped
<1> QED  BY <1>1, <1>2, <1>3, <1>4, <1>5, <1>6, <1>7, <1>8, <1>9, <1>10, <1>11, <1>12, OneDevice

\* Queueing an edit of the device adds it to the copy it was clicked on.
LEMMA QueuedGood ==
    ASSUME ServerPart, NEW d \in Device, NEW on, GoodCache(on, d, edits, task), on # None,
           NEW e \in DOMAIN edits, edits[e].dev = d
    PROVE  /\ GoodCache(Queued(on, e), d, edits, task) /\ Queued(on, e) # None
           /\ \A x : Holds(Queued(on, e), x) <=> Holds(on, x) \/ x = e
<1>1. GoodBundle(on.bundle, task) /\ OwnEdits(on.pending, d, edits)
  BY DEF GoodCache
<1>2. edits[e].task \in Task /\ edits[e].status \in Status
  BY EditFields DEF ServerPart
<1> DEFINE b == [on.bundle EXCEPT ![edits[e].task].status = edits[e].status]
           q == Append(on.pending, e)
<1>3. GoodBundle(b, task)
  <2>1. on.bundle \in [Task -> [status : Status, ver : Nat \ {0}]]
    BY <1>1 DEF GoodBundle
  <2>2. b \in [Task -> [status : Status, ver : Nat \ {0}]] /\ \A t \in Task : b[t].ver = on.bundle[t].ver
    BY <1>2, <2>1
  <2> HIDE DEF b
  <2> QED  BY <1>1, <2>2 DEF GoodBundle
<1>4. /\ on.pending \in Seq(DOMAIN edits) /\ DOMAIN on.pending = 1 .. Len(on.pending)
      /\ Len(on.pending) \in Nat
  BY <1>1, LenProperties DEF OwnEdits
<1>5. /\ q \in Seq(DOMAIN edits) /\ Len(q) = Len(on.pending) + 1 /\ DOMAIN q = 1 .. Len(q)
      /\ q[Len(on.pending) + 1] = e
      /\ \A k \in 1 .. Len(on.pending) : q[k] = on.pending[k]
  <2>1. q \in Seq(DOMAIN edits) /\ Len(q) = Len(on.pending) + 1
        /\ q[Len(on.pending) + 1] = e /\ \A k \in 1 .. Len(on.pending) : q[k] = on.pending[k]
    BY <1>4, AppendProperties
  <2> HIDE DEF q
  <2> QED  BY <2>1, LenProperties
<1>6. \A k \in DOMAIN q : k \in DOMAIN on.pending \/ k = Len(on.pending) + 1
  <2> HIDE DEF q
  <2> QED  BY <1>4, <1>5
<1>7. OwnEdits(q, d, edits)
  <2> HIDE DEF q
  <2> QED  BY <1>1, <1>4, <1>5, <1>6 DEF OwnEdits
<1>8. Queued(on, e) = [bundle |-> b, pending |-> q]
  BY DEF Queued
<1>9. Task # {}
  BY <1>2
<1> HIDE DEF b, q
<1>10. \A x : Holds([bundle |-> b, pending |-> q], x) <=> Holds(on, x) \/ x = e
  <2> SUFFICES ASSUME NEW x
               PROVE  (\E k \in DOMAIN q : q[k] = x)
                      <=> (\E k \in DOMAIN on.pending : on.pending[k] = x) \/ x = e
    BY DEF Holds
  <2>1. \A k \in DOMAIN on.pending : k \in DOMAIN q /\ q[k] = on.pending[k]
    BY <1>4, <1>5
  <2>2. Len(on.pending) + 1 \in DOMAIN q
    BY <1>4, <1>5
  <2> QED  BY <1>4, <1>5, <1>6, <2>1, <2>2
<1> QED  BY <1>3, <1>7, <1>8, <1>9, <1>10, BundledIsSome DEF GoodCache

LEMMA QueueInv ==
    ASSUME Inv, NEW d \in Device, NEW g \in toggles[d], Queue(d, g)
    PROVE  Inv'
<1> DEFINE c == Queued(g.on, g.edit)
<1>0. /\ ServerPart /\ BrowserPart /\ WirePart /\ CopiesAgree /\ OverlapsExcused /\ OpenEditsWait
      /\ DeviceGood(d)
      /\ g.on # None /\ g.edit \in DOMAIN edits /\ edits[g.edit].dev = d
      /\ GoodCache(g.on, d, edits, task)
  BY DEF Inv, BrowserPart, DeviceGood, GoodToggles
<1>1. /\ GoodCache(c, d, edits, task) /\ c # None
      /\ \A x : Holds(c, x) <=> Holds(g.on, x) \/ x = g.edit
  BY <1>0, QueuedGood
<1>2. /\ cache' = [cache EXCEPT ![d] = c] /\ view' = [view EXCEPT ![d] = c]
      /\ toggles' = [toggles EXCEPT ![d] = toggles[d] \ {g}]
      /\ UNCHANGED <<server, sync, wire, edits, excused>>
  BY <1>0 DEF Queue
<1> HIDE DEF c
<1>3. /\ cache' = [x \in Device |-> cache'[x]] /\ cache'[d] = c
      /\ \A x \in Device \ {d} : cache'[x] = cache[x]
  BY <1>0, <1>2, Replaced DEF BrowserPart
<1>4. /\ view' = [x \in Device |-> view'[x]] /\ view'[d] = c
      /\ \A x \in Device \ {d} : view'[x] = view[x]
  BY <1>0, <1>2, Replaced DEF BrowserPart
<1>5. /\ toggles' = [x \in Device |-> toggles'[x]] /\ toggles'[d] = toggles[d] \ {g}
      /\ \A x \in Device \ {d} : toggles'[x] = toggles[x]
  BY <1>0, <1>2, Replaced DEF BrowserPart
<1>6. Forward
  BY <1>0, <1>2, ServerKept DEF ServerPart
<1>7. WirePart'
  BY <1>2, <1>6, WireKept
<1>8. DeviceGood(d)'
  BY <1>0, <1>1, <1>2, <1>3, <1>4, <1>5 DEF DeviceGood, GoodToggles, server
<1>9. OverlapOf(d)'
  <2>1. \A h \in toggles[d] \ {g} : h.edit \in excused
    BY <1>0 DEF OverlapsExcused, OverlapOf
  <2> QED  BY <1>2, <1>5, <2>1 DEF OverlapOf
<1>10. ASSUME NEW e \in DOMAIN edits', Open(e)' PROVE CopiesOf(d, e)'
  <2>1. Open(e) /\ CopiesOf(d, e)
    BY <1>0, <1>2, <1>6, <1>10, OpenShrinks DEF CopiesAgree
  <2>2. CASE e = g.edit
    <3>1. sync[d] = Idle /\ toggles[d] = {g}
      BY <1>0, <2>1, <2>2 DEF OverlapsExcused, OverlapOf, Open
    <3>2. toggles'[d] = {} /\ sync'[d] = Idle
      BY <1>2, <1>5, <3>1
    <3> QED  BY <1>3, <1>4, <3>2 DEF CopiesOf, Holds
  <2>3. CASE e # g.edit
    <3>1. Holds(c, e) <=> Holds(cache[d], e)
      BY <1>1, <2>1, <2>3 DEF CopiesOf
    <3>2. Holds(cache'[d], e) <=> Holds(cache[d], e)
      BY <1>3, <3>1
    <3>3. Holds(view'[d], e) <=> Holds(cache[d], e)
      BY <1>4, <3>1
    <3>4. \A h \in toggles'[d] : Holds(h.on, e) <=> Holds(cache[d], e)
      BY <1>5, <2>1 DEF CopiesOf
    <3>5. Holds(cache[d], e) =>
             \/ sync'[d] = Idle
             \/ \E w \in wire' : /\ sync'[d] = [at |-> "push", n |-> w.n]
                                 /\ w.dev = d /\ e \in Elements(w.batch)
      BY <1>2, <2>1 DEF CopiesOf
    <3> QED  BY <3>2, <3>3, <3>4, <3>5 DEF CopiesOf, Holds, Elements
  <2> QED  BY <2>2, <2>3
<1>11. ASSUME NEW e \in DOMAIN edits', Open(e)', edits'[e].dev = d PROVE Waits(e)'
  <2>1. Open(e) /\ Waits(e) /\ CopiesOf(d, e) /\ edits[e].dev = d
    BY <1>0, <1>2, <1>6, <1>11, OpenShrinks DEF OpenEditsWait, CopiesAgree
  <2>2. CASE e = g.edit
    <3>1. Holds(cache'[d], e)
      BY <1>1, <1>3, <2>2
    <3> QED  BY <1>11, <3>1 DEF Waits, Holds
  <2>3. CASE e # g.edit /\ Holds(cache[d], e)
    <3>1. Holds(cache'[d], e)
      BY <1>1, <1>3, <2>1, <2>3 DEF CopiesOf
    <3> QED  BY <1>11, <3>1 DEF Waits, Holds
  <2>4. CASE e # g.edit /\ ~Holds(cache[d], e)
    <3>1. \E h \in toggles'[d] : h.edit = e
      BY <1>5, <2>1, <2>4 DEF Waits
    <3> QED  BY <1>11, <3>1 DEF Waits
  <2> QED  BY <2>2, <2>3, <2>4
<1>12. \A x \in Device \ {d} : SameOf(x)
  BY <1>2, <1>3, <1>4, <1>5 DEF SameOf
<1>13. /\ sync' = [x \in Device |-> sync'[x]]
       /\ \A w \in wire : w.dev # d => w \in wire'
       /\ \A e \in DOMAIN edits' \ DOMAIN edits : edits'[e].dev = d
  BY <1>0, <1>2 DEF BrowserPart
<1> QED  BY <1>3, <1>4, <1>5, <1>6, <1>7, <1>8, <1>9, <1>10, <1>11, <1>12, <1>13, OneDevice

LEMMA StartSyncInv ==
    ASSUME Inv, NEW d \in Device, StartSync(d)
    PROVE  Inv'
<1>0. /\ ServerPart /\ BrowserPart /\ WirePart /\ CopiesAgree /\ OverlapsExcused /\ OpenEditsWait
      /\ DeviceGood(d) /\ view[d] # None /\ sync[d] = Idle
  BY DEF Inv, BrowserPart, StartSync
<1>1. /\ excused' = excused \cup {g.edit : g \in toggles[d]}
      /\ UNCHANGED <<server, cache, view, toggles, edits>>
  BY DEF StartSync
<1>2. Forward
  <2>1. \A g \in toggles[d] : g.edit \in DOMAIN edits
    BY <1>0 DEF DeviceGood, GoodToggles
  <2>2. excused \subseteq excused' /\ excused' \subseteq DOMAIN edits
    BY <1>0, <1>1, <2>1 DEF ServerPart
  <2> QED  BY <1>0, <1>1, <2>2, ServerKept
<1>3. OwnEdits(view[d].pending, d, edits)
  BY <1>0 DEF DeviceGood, GoodCache
<1>4. PICK y : /\ sync' = [sync EXCEPT ![d] = y]
               /\ \/ /\ view[d].pending = <<>> /\ y = [at |-> "pull"] /\ wire' = wire
                  \/ \E n \in 1 .. MaxWire :
                        /\ \A w \in wire : w.n # n
                        /\ y = [at |-> "push", n |-> n]
                        /\ wire' = wire \cup {[dev |-> d, n |-> n, batch |-> view[d].pending]}
  <2>1. CASE view[d].pending = <<>>
    BY <2>1 DEF StartSync
  <2>2. CASE view[d].pending # <<>>
    <3>1. PICK n \in {k \in 1 .. MaxWire : \A w \in wire : w.n # k} :
             /\ sync' = [sync EXCEPT ![d] = [at |-> "push", n |-> n]]
             /\ wire' = wire \cup {[dev |-> d, n |-> n, batch |-> view[d].pending]}
      BY <2>2 DEF StartSync
    <3> QED  BY <3>1
  <2> QED  BY <2>1, <2>2
<1>5. /\ sync' = [x \in Device |-> sync'[x]] /\ sync'[d] = y
      /\ \A x \in Device \ {d} : sync'[x] = sync[x]
  BY <1>0, <1>4, Replaced DEF BrowserPart
<1>6. wire \subseteq wire'
  BY <1>4
<1>7. WirePart'
  <2>1. CASE wire' = wire /\ y = [at |-> "pull"]
    <3>1. \A x \in Device : \A n \in 1 .. MaxWire :
             sync'[x] = [at |-> "push", n |-> n] => sync[x] = [at |-> "push", n |-> n]
      BY <1>5, <2>1
    <3> QED  BY <1>2, <2>1, <3>1, WireKept
  <2>2. ASSUME NEW n \in 1 .. MaxWire, \A w \in wire : w.n # n, y = [at |-> "push", n |-> n],
               wire' = wire \cup {[dev |-> d, n |-> n, batch |-> view[d].pending]}
        PROVE  WirePart'
    <3> DEFINE new == [dev |-> d, n |-> n, batch |-> view[d].pending]
    <3>1. new.n = n /\ new.dev = d /\ new.batch = view[d].pending /\ GoodWire(new, edits)
      BY <1>3 DEF GoodWire
    <3>2. \A w \in wire' : w \in wire \/ w = new
      BY <2>2
    <3>3. new \in wire'
      BY <2>2
    <3> HIDE DEF new
    <3>4. \A w \in wire' : GoodWire(w, edits')
      BY <1>0, <1>1, <3>1, <3>2 DEF WirePart
    <3>5. \A w, x \in wire' : w.n = x.n => w = x
      BY <1>0, <2>2, <3>1, <3>2 DEF WirePart
    <3>6. ASSUME NEW x \in Device, NEW m \in 1 .. MaxWire, sync'[x] = [at |-> "push", n |-> m]
          PROVE  \E w \in wire' : w.dev = x /\ w.n = m
      <4>1. CASE x = d
        <5>1. m = n
          BY <1>5, <2>2, <3>6, <4>1
        <5> QED  BY <3>1, <3>3, <4>1, <5>1
      <4>2. CASE x # d
        BY <1>0, <1>5, <1>6, <3>6, <4>2 DEF WirePart
      <4> QED  BY <4>1, <4>2
    <3> QED  BY <3>4, <3>5, <3>6 DEF WirePart
  <2> QED  BY <1>4, <2>1, <2>2
<1>8. DeviceGood(d)'
  <2>1. GoodSync(y, d, edits, task)
    BY <1>4 DEF GoodSync
  <2> QED  BY <1>0, <1>1, <1>5, <2>1 DEF DeviceGood, server
<1>9. OverlapOf(d)'
  BY <1>1 DEF OverlapOf
<1>10. ASSUME NEW e \in DOMAIN edits', Open(e)' PROVE CopiesOf(d, e)'
  <2>1. CopiesOf(d, e)
    BY <1>0, <1>1, <1>2, <1>10, OpenShrinks DEF CopiesAgree
  <2>2. ASSUME Holds(cache[d], e)
        PROVE  \E w \in wire' : /\ sync'[d] = [at |-> "push", n |-> w.n]
                                /\ w.dev = d /\ e \in Elements(w.batch)
    <3>1. PICK k \in DOMAIN view[d].pending : view[d].pending[k] = e
      BY <2>1, <2>2 DEF CopiesOf, Holds
    <3>2. view[d].pending # <<>>
      <4> SUFFICES ASSUME view[d].pending = <<>> PROVE FALSE
        OBVIOUS
      <4>1. DOMAIN view[d].pending = {}
        OBVIOUS
      <4> QED  BY <3>1, <4>1
    <3>3. PICK n \in 1 .. MaxWire :
             /\ y = [at |-> "push", n |-> n]
             /\ wire' = wire \cup {[dev |-> d, n |-> n, batch |-> view[d].pending]}
      BY <1>4, <3>2
    <3> DEFINE z == [dev |-> d, n |-> n, batch |-> view[d].pending]
    <3>4. z \in wire' /\ z.n = n /\ z.dev = d /\ z.batch = view[d].pending
      BY <3>3
    <3>5. e \in Elements(z.batch)
      BY <3>1, <3>4 DEF Elements
    <3> HIDE DEF z
    <3> QED  BY <1>5, <3>3, <3>4, <3>5
  <2>3. /\ Holds(view'[d], e) <=> Holds(cache'[d], e)
        /\ \A g \in toggles'[d] : Holds(g.on, e) <=> Holds(cache'[d], e)
    BY <1>1, <2>1 DEF CopiesOf
  <2>4. Holds(cache'[d], e) => Holds(cache[d], e)
    BY <1>1
  <2> QED  BY <2>2, <2>3, <2>4 DEF CopiesOf, Holds, Elements
<1>11. ASSUME NEW e \in DOMAIN edits', Open(e)', edits'[e].dev = d PROVE Waits(e)'
  <2>1. Waits(e)
    BY <1>0, <1>1, <1>2, <1>11, OpenShrinks DEF OpenEditsWait
  <2> QED  BY <1>1, <2>1 DEF Waits, Holds
<1>12. \A x \in Device \ {d} : SameOf(x)
  BY <1>1, <1>5 DEF SameOf
<1>13. /\ cache' = [x \in Device |-> cache'[x]] /\ view' = [x \in Device |-> view'[x]]
       /\ toggles' = [x \in Device |-> toggles'[x]]
  BY <1>0, <1>1 DEF BrowserPart
<1> QED  BY <1>1, <1>2, <1>5, <1>6, <1>7, <1>8, <1>9, <1>10, <1>11, <1>12, <1>13, OneDevice

LEMMA ClickInv ==
    ASSUME Inv, NEW d \in Device, NEW t \in Task, Click(d, t)
    PROVE  Inv'
<1> DEFINE n == Len(edits) + 1
           seen == view[d].bundle[t]
           x == [dev |-> d, task |-> t, ver |-> seen.ver, status |-> Flip(seen.status)]
           g == [edit |-> n, on |-> cache[d]]
           others == {h.edit : h \in toggles[d]}
<1>0. /\ ServerPart /\ BrowserPart /\ WirePart /\ CopiesAgree /\ OverlapsExcused /\ OpenEditsWait
      /\ DeviceGood(d) /\ view[d] # None /\ cache[d] # None
      /\ edits \in Seq(Edit) /\ ServerGood(Server, edits)
  BY DEF Inv, BrowserPart, Click, DeviceGood, ServerPart
<1>1. /\ edits' = Append(edits, x) /\ applied' = Append(applied, <<>>)
      /\ toggles' = [toggles EXCEPT ![d] = toggles[d] \cup {g}]
      /\ excused' = IF sync[d] # Idle \/ others # {} THEN excused \cup others \cup {n} ELSE excused
      /\ UNCHANGED <<task, conflicts, cache, view, sync, wire>>
  BY <1>0 DEF Click, BrowserPart
<1>2. /\ seen.ver \in Nat \ {0} /\ seen.ver <= task[t].ver /\ seen.status \in Status
  BY <1>0 DEF DeviceGood, GoodCache, GoodBundle
<1>3. /\ x \in Edit /\ x.ver <= task[x.task].ver /\ x.dev = d
  BY <1>2 DEF Edit, Flip, Status
<1>4. applied \in Seq(Seq(Nat)) /\ Len(applied) = Len(edits)
  BY <1>0, AppliedIsSeq
<1> HIDE DEF x, seen
<1>5. ServerGood(Server', edits') /\ Grew(Server, Server')
  BY <1>0, <1>1, <1>3, <1>4, ClickGood
<1>6. /\ edits' \in Seq(Edit) /\ DOMAIN edits' = DOMAIN edits \cup {n} /\ n \notin DOMAIN edits
      /\ edits'[n] = x /\ Extends(edits, edits')
  BY <1>0, <1>1, <1>3, AppendExtends
<1>7. Forward
  <2>1. others \subseteq DOMAIN edits
    BY <1>0 DEF DeviceGood, GoodToggles
  <2>2. excused \subseteq excused' /\ excused' \subseteq DOMAIN edits'
    <3>1. excused \subseteq DOMAIN edits
      BY <1>0 DEF ServerPart
    <3> HIDE DEF others, n
    <3> QED  BY <1>1, <1>6, <2>1, <3>1
  <2> QED  BY <1>5, <1>6, <2>2 DEF Forward
<1>8. Later(edits, task, edits', task')
  BY <1>0, <1>7, ForwardLater
<1>9. /\ toggles' = [y \in Device |-> toggles'[y]] /\ toggles'[d] = toggles[d] \cup {g}
      /\ \A y \in Device \ {d} : toggles'[y] = toggles[y]
  BY <1>0, <1>1, Replaced DEF BrowserPart
<1>10. WirePart'
  BY <1>1, <1>7, WireKept
<1>11. DeviceGood(d)'
  <2>1. /\ GoodCache(cache'[d], d, edits', task') /\ GoodCache(view'[d], d, edits', task')
        /\ GoodSync(sync'[d], d, edits', task') /\ GoodToggles(toggles[d], d, edits', task')
    BY <1>0, <1>1, <1>8, GoodCacheLater, GoodSyncLater, GoodTogglesLater DEF DeviceGood
  <2>2. /\ g = [edit |-> g.edit, on |-> g.on] /\ g.on = cache[d] /\ g.edit = n
    OBVIOUS
  <2>3. n \in DOMAIN edits' /\ edits'[n].dev = d
    BY <1>3, <1>6
  <2>4. GoodToggles(toggles'[d], d, edits', task')
    <3> HIDE DEF g, n
    <3> QED  BY <1>0, <1>1, <1>9, <2>1, <2>2, <2>3 DEF GoodToggles
  <2> QED  BY <1>0, <1>1, <2>1, <2>4 DEF DeviceGood
<1>12. OverlapOf(d)'
  <2> SUFFICES ASSUME NEW h \in toggles'[d]
               PROVE  h.edit \in excused' \/ (sync'[d] = Idle /\ toggles'[d] = {h})
    BY DEF OverlapOf
  <2>1. CASE sync[d] # Idle \/ others # {}
    <3>1. h.edit \in others \/ h.edit = n
      BY <1>9
    <3> HIDE DEF others, n
    <3> QED  BY <1>1, <2>1, <3>1
  <2>2. CASE sync[d] = Idle /\ others = {}
    <3>1. toggles[d] = {}
      BY <2>2
    <3> QED  BY <1>1, <1>9, <2>2, <3>1
  <2> QED  BY <2>1, <2>2
<1>13. ASSUME NEW e \in DOMAIN edits', Open(e)' PROVE CopiesOf(d, e)'
  <2>1. CASE e \in DOMAIN edits
    <3>1. CopiesOf(d, e)
      BY <1>0, <1>7, <1>13, <2>1, OpenShrinks DEF CopiesAgree
    <3>2. g.on = cache[d]
      OBVIOUS
    <3>3. /\ Holds(view'[d], e) <=> Holds(cache'[d], e)
          /\ \A h \in toggles'[d] : Holds(h.on, e) <=> Holds(cache'[d], e)
      <4> HIDE DEF g
      <4> QED  BY <1>1, <1>9, <3>1, <3>2 DEF CopiesOf, Holds
    <3>4. Holds(cache'[d], e) =>
             \/ sync'[d] = Idle
             \/ \E w \in wire' : /\ sync'[d] = [at |-> "push", n |-> w.n]
                                 /\ w.dev = d /\ e \in Elements(w.batch)
      BY <1>1, <3>1 DEF CopiesOf
    <3> QED  BY <3>3, <3>4 DEF CopiesOf, Holds, Elements
  <2>2. CASE e \notin DOMAIN edits
    <3>1. /\ ~Holds(cache[d], e) /\ ~Holds(view[d], e) /\ \A h \in toggles[d] : ~Holds(h.on, e)
      BY <1>0, <2>2, HeldExists DEF DeviceGood, GoodToggles
    <3>2. g.on = cache[d]
      OBVIOUS
    <3>3. ~Holds(cache'[d], e) /\ ~Holds(view'[d], e) /\ \A h \in toggles'[d] : ~Holds(h.on, e)
      <4> HIDE DEF g
      <4> QED  BY <1>1, <1>9, <3>1, <3>2
    <3> QED  BY <3>3 DEF CopiesOf, Holds
  <2> QED  BY <2>1, <2>2
<1>14. ASSUME NEW e \in DOMAIN edits', Open(e)', edits'[e].dev = d PROVE Waits(e)'
  <2>1. CASE e \in DOMAIN edits
    <3>1. Waits(e) /\ edits[e].dev = d
      BY <1>0, <1>7, <1>14, <2>1, OpenShrinks DEF OpenEditsWait, Forward, Extends
    <3> QED  BY <1>1, <1>9, <1>14, <3>1 DEF Waits, Holds
  <2>2. CASE e = n
    <3>1. g \in toggles'[d] /\ g.edit = n
      BY <1>9
    <3> QED  BY <1>14, <2>2, <3>1 DEF Waits
  <2> QED  BY <1>6, <2>1, <2>2
<1>15. \A y \in Device \ {d} : SameOf(y)
  BY <1>1, <1>9 DEF SameOf
<1>16. /\ cache' = [y \in Device |-> cache'[y]] /\ view' = [y \in Device |-> view'[y]]
       /\ sync' = [y \in Device |-> sync'[y]]
  BY <1>0, <1>1 DEF BrowserPart
<1>17. /\ \A w \in wire : w.dev # d => w \in wire'
       /\ \A e \in DOMAIN edits' \ DOMAIN edits : edits'[e].dev = d
  BY <1>1, <1>3, <1>6
<1> HIDE DEF g, n, others
<1> QED  BY <1>7, <1>9, <1>10, <1>11, <1>12, <1>13, <1>14, <1>15, <1>16, <1>17, OneDevice

LEMMA ReceivePushInv ==
    ASSUME Inv, NEW w \in wire, ReceivePush(w)
    PROVE  Inv'
<1> DEFINE new == Pushed(w.dev, w.batch)
           y == [at |-> "answer"]
<1>0. /\ ServerPart /\ edits \in Seq(Edit) /\ ServerGood(Server, edits) /\ w.dev \in Device
      /\ OwnEdits(w.batch, w.dev, edits)
  BY DEF Inv, ServerPart, WirePart, GoodWire
<1>1. /\ ServerGood(new, edits) /\ Grew(Server, new)
      /\ \A k \in DOMAIN w.batch : Settled(new, w.batch[k])
  BY <1>0, PushedGood
<1>2. /\ task' = new.task /\ conflicts' = new.conflicts /\ applied' = new.applied
      /\ wire' = wire \ {w} /\ UNCHANGED <<cache, view, toggles, edits, excused>>
      /\ sync' = IF sync[w.dev] = [at |-> "push", n |-> w.n]
                 THEN [sync EXCEPT ![w.dev] = y] ELSE sync
  BY DEF ReceivePush
<1> HIDE DEF new, y
<1>3. Server' = new
  BY <1>1, <1>2 DEF Server, ServerGood, ServerType
<1>4. Forward
  <2>1. Extends(edits, edits)
    BY DEF Extends
  <2> QED  BY <1>0, <1>1, <1>2, <1>3, <2>1 DEF Forward, ServerPart
<1>5. \A e \in Elements(w.batch) : ~Open(e)'
  <2> SUFFICES ASSUME NEW k \in DOMAIN w.batch PROVE ~Open(w.batch[k])'
    BY DEF Elements
  <2>1. Settled(new, w.batch[k])
    BY <1>1
  <2> QED  BY <1>2, <2>1 DEF Settled, Open
<1>6. y \in {[at |-> "answer"], Idle}
  BY DEF y
<1> QED  BY <1>2, <1>4, <1>5, <1>6, WireShrinks

LEMMA LosePushInv ==
    ASSUME Inv, NEW w \in wire, LosePush(w)
    PROVE  Inv'
<1>1. /\ wire' = wire \ {w} /\ UNCHANGED <<server, cache, view, toggles, edits, excused>>
      /\ sync' = IF sync[w.dev] = [at |-> "push", n |-> w.n]
                 THEN [sync EXCEPT ![w.dev] = Idle] ELSE sync
  BY DEF LosePush
<1>2. Forward
  BY <1>1, ServerKept DEF Inv, ServerPart
<1> QED  BY <1>1, <1>2, WireShrinks

LEMMA DeskInv ==
    ASSUME Inv, NEW t \in Task, NEW status \in Status,
           task' = [task EXCEPT ![t] = Written(task[t], status, Desk)],
           UNCHANGED <<conflicts, cache, view, sync, toggles, wire, edits, applied, excused>>
    PROVE  Inv'
<1>1. ServerGood(Server', edits) /\ Grew(Server, Server')
  BY DeskGood DEF Inv, ServerPart
<1>2. Forward
  <2>1. Extends(edits, edits)
    BY DEF Extends
  <2> QED  BY <1>1, <2>1 DEF Forward, Inv, ServerPart
<1> QED  BY <1>2, NoDevice

LEMMA NoneGood == \A d, ed, tk : GoodCache(None, d, ed, tk)
  BY DEF GoodCache

LEMMA StepInv == Inv /\ [Next]_vars => Inv'
<1> SUFFICES ASSUME Inv, [Next]_vars PROVE Inv'
  OBVIOUS
<1>1. ASSUME NEW w \in wire, ReceivePush(w) \/ LosePush(w) PROVE Inv'
  BY <1>1, ReceivePushInv, LosePushInv
<1>2. ASSUME NEW t \in Task, CompleteFieldTask(t) PROVE Inv'
  <2>1. task' = [task EXCEPT ![t] = Written(task[t], "complete", Desk)]
    <3>1. task = [x \in Task |-> task[x]]
      BY DEF Inv, ServerPart, ServerGood, ServerType, Server
    <3> QED  BY <1>2, <3>1 DEF CompleteFieldTask
  <2> QED  BY <1>2, <2>1, DeskInv DEF CompleteFieldTask, Status
<1>3. ASSUME NEW e \in conflicts, AcceptField(e) PROVE Inv'
  <2>1. e \in DOMAIN edits /\ task = [x \in Task |-> task[x]]
    BY DEF Inv, ServerPart, ServerGood, ServerType, Server
  <2>2. edits[e].task \in Task /\ edits[e].status \in Status
    BY <2>1, EditFields DEF Inv, ServerPart
  <2>3. task' = [task EXCEPT ![edits[e].task] = Written(task[edits[e].task], edits[e].status, Desk)]
    BY <1>3, <2>1, <2>2 DEF AcceptField
  <2> QED  BY <1>3, <2>2, <2>3, DeskInv DEF AcceptField
<1>4. ASSUME NEW d \in Device, NEW t \in Task, Click(d, t) PROVE Inv'
  BY <1>4, ClickInv
<1>5. ASSUME NEW d \in Device, NEW g \in toggles[d], Queue(d, g) PROVE Inv'
  BY <1>5, QueueInv
<1>6. ASSUME NEW d \in Device, StartSync(d) \/ AnswerPush(d) \/ ClearPending(d) \/ Pull(d)
                                 \/ WriteBundle(d) \/ FailSync(d)
      PROVE  Inv'
  BY <1>6, StartSyncInv, AnswerPushInv, ClearPendingInv, PullInv, WriteBundleInv, FailSyncInv
<1>7. ASSUME NEW d \in Device, Reload(d) \/ Download(d) \/ SignIn(d) PROVE Inv'
  <2>1. GoodCache(cache[d], d, edits, task)
    BY DEF Inv, BrowserPart, DeviceGood
  <2>2. GoodCache(Downloaded(Bundle), d, edits, task)
    BY BundleGood, DownloadedGood DEF Inv
  <2> QED  BY <1>7, <2>1, <2>2, NoneGood, LeaveInv DEF Reload, Download, SignIn
<1>8. CASE UNCHANGED vars
  <2>1. Forward
    BY <1>8, ServerKept DEF vars, server, Inv, ServerPart
  <2> QED  BY <1>8, <2>1, NoDevice DEF vars
<1> QED  BY <1>1, <1>2, <1>3, <1>4, <1>5, <1>6, <1>7, <1>8 DEF Next

-----------------------------------------------------------------------------

\* Inv holds in every reachable state: of the server's tasks, the devices' caches
\* and pages, and the pushes under way.
THEOREM Invariance == Spec => []Inv
  BY InitInv, StepInv, PTL DEF Spec

\* Versions count the changes, and queues, conflicts and pushes hold edits that
\* exist (the variables of FieldSync, as pushSyncDeltas, resolveSyncConflict and
\* the booking page assign them).
THEOREM TypeCorrect == Spec => []TypeOK
<1>1. Inv => TypeOK
  <2> SUFFICES ASSUME Inv PROVE TypeOK
    OBVIOUS
  <2> USE DEF Inv
  <2>1. /\ task \in [Task -> [status : Status, ver : Nat \ {0}, by : Seq(Device \cup {Desk})]]
        /\ \A t \in Task : task[t].ver = Len(task[t].by)
        /\ conflicts \subseteq DOMAIN edits
        /\ edits \in Seq([dev : Device, task : Task, ver : Nat \ {0}, status : Status])
        /\ excused \subseteq DOMAIN edits
    BY DEF ServerPart, ServerGood, ServerType, Server, TaskState, Edit
  <2>2. applied \in Seq(Seq(Nat)) /\ Len(applied) = Len(edits)
    BY AppliedIsSeq DEF ServerPart
  <2>3. \A b : GoodBundle(b, task) => b \in BundleType
    BY DEF GoodBundle, BundleType
  <2>4. \A c, d : GoodCache(c, d, edits, task) => c \in CacheType
    <3>1. None \in CacheType
      <4>1. <<>> \in Seq(DOMAIN edits)
        OBVIOUS
      <4> QED  BY <4>1 DEF None, CacheType, BundleType
    <3> SUFFICES ASSUME NEW c, NEW d, GoodCache(c, d, edits, task), c # None PROVE c \in CacheType
      BY <3>1
    <3>2. c = [bundle |-> c.bundle, pending |-> c.pending] /\ c.bundle \in BundleType
          /\ c.pending \in Seq(DOMAIN edits)
      BY <2>3 DEF GoodCache, OwnEdits
    <3> QED  BY <3>2 DEF CacheType
  <2>5. cache \in [Device -> CacheType] /\ view \in [Device -> CacheType]
    BY <2>4 DEF BrowserPart, DeviceGood
  <2>6. \A d \in Device : sync[d] \in {Idle} \cup [at : {"push"}, n : 1 .. MaxWire]
                    \cup [at : {"answer", "pull"}] \cup [at : {"clear"}, on : CacheType]
                    \cup [at : {"write"}, bundle : BundleType]
    <3> SUFFICES ASSUME NEW d \in Device
                 PROVE  sync[d] \in {Idle} \cup [at : {"push"}, n : 1 .. MaxWire]
                           \cup [at : {"answer", "pull"}] \cup [at : {"clear"}, on : CacheType]
                           \cup [at : {"write"}, bundle : BundleType]
      OBVIOUS
    <3>1. GoodSync(sync[d], d, edits, task)
      BY DEF BrowserPart, DeviceGood
    <3>2. \A n \in 1 .. MaxWire : [at |-> "push", n |-> n] \in [at : {"push"}, n : 1 .. MaxWire]
      OBVIOUS
    <3>3. [at |-> "answer"] \in [at : {"answer", "pull"}] /\ [at |-> "pull"] \in [at : {"answer", "pull"}]
      OBVIOUS
    <3>4. \A on \in CacheType : [at |-> "clear", on |-> on] \in [at : {"clear"}, on : CacheType]
      OBVIOUS
    <3>5. \A b \in BundleType : [at |-> "write", bundle |-> b] \in [at : {"write"}, bundle : BundleType]
      OBVIOUS
    <3>6. CASE sync[d].at = "clear" /\ sync[d] = [at |-> "clear", on |-> sync[d].on]
                 /\ GoodCache(sync[d].on, d, edits, task)
      BY <2>4, <3>4, <3>6
    <3>7. CASE sync[d].at = "write" /\ sync[d] = [at |-> "write", bundle |-> sync[d].bundle]
                 /\ GoodBundle(sync[d].bundle, task)
      BY <2>3, <3>5, <3>7
    <3> QED  BY <3>1, <3>2, <3>3, <3>6, <3>7 DEF GoodSync
  <2>7. sync \in [Device -> {Idle} \cup [at : {"push"}, n : 1 .. MaxWire]
                    \cup [at : {"answer", "pull"}] \cup [at : {"clear"}, on : CacheType]
                    \cup [at : {"write"}, bundle : BundleType]]
    BY <2>6 DEF BrowserPart
  <2>8. toggles \in [Device -> SUBSET [edit : DOMAIN edits, on : CacheType]]
    <3>1. ASSUME NEW d \in Device, NEW g \in toggles[d]
          PROVE  g \in [edit : DOMAIN edits, on : CacheType]
      <4>1. g = [edit |-> g.edit, on |-> g.on] /\ g.edit \in DOMAIN edits /\ g.on \in CacheType
        BY <2>4 DEF BrowserPart, DeviceGood, GoodToggles
      <4> QED  BY <4>1
    <3> QED  BY <3>1 DEF BrowserPart
  <2>9. wire \subseteq [dev : Device, n : 1 .. MaxWire, batch : Seq(DOMAIN edits)]
    <3> SUFFICES ASSUME NEW w \in wire
                 PROVE  w \in [dev : Device, n : 1 .. MaxWire, batch : Seq(DOMAIN edits)]
      OBVIOUS
    <3>1. w = [dev |-> w.dev, n |-> w.n, batch |-> w.batch] /\ w.dev \in Device
          /\ w.n \in 1 .. MaxWire /\ w.batch \in Seq(DOMAIN edits)
      BY DEF WirePart, GoodWire, OwnEdits
    <3> QED  BY <3>1
  <2> QED  BY <2>1, <2>2, <2>5, <2>7, <2>8, <2>9 DEF TypeOK
<1> QED  BY <1>1, Invariance, PTL

\* No edit made offline is lost but those clicked over a sync or over one another,
\* or dropped with the cache: whatever requests and answers are lost, it waits on
\* its device until a push has settled it (queueFieldDelta, clearPendingDeltas,
\* handleSync, pushSyncDeltas).
THEOREM NoEditIsLost == Spec => []EditsAreAccountedFor
<1>1. Inv => EditsAreAccountedFor
  BY DEF Inv, OpenEditsWait, Open, Waits, EditsAreAccountedFor
<1> QED  BY <1>1, Invariance, PTL

\* However often a batch is sent again, an edit is applied once, to the version its
\* user saw, and refused only if somebody else, or the same device, had changed
\* that version, or to keep a completed task (shouldAcceptClientFieldTaskUpdate,
\* pushSyncDeltas, resolveSyncConflict).
THEOREM PushesJudgeRightly == Spec => []VerdictsAreRight
<1>1. Inv => VerdictsAreRight
  <2> SUFFICES ASSUME Inv PROVE VerdictsAreRight
    OBVIOUS
  <2>1. AppliedOnceToWhatWasSeen
    BY DEF Inv, ServerPart, ServerGood, EditsBehind, Server, AppliedOnceToWhatWasSeen
  <2>2. RefusedForAReason
    BY DEF Inv, ServerPart, ServerGood, Refusable, Server, RefusedForAReason
  <2> QED  BY <2>1, <2>2 DEF VerdictsAreRight
<1> QED  BY <1>1, Invariance, PTL

=============================================================================
