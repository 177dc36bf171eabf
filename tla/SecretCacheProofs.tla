------------------------- MODULE SecretCacheProofs -------------------------
(***************************************************************************)
(* Theorems about SecretCache, for every number of commands, stores and    *)
(* manifests.  What a command has read is what the stores hold, unless a   *)
(* change has made it old since; what the cache holds is what the route    *)
(* answers, unless a command that changed a store is still on its way to   *)
(* the cache or the history of the entry says why it may not be.           *)
(***************************************************************************)
EXTENDS SecretCache, SequenceTheorems, WellFoundedInduction, TLAPS

\* Answer and Refused, of stores and of a clock.
Held(a, sources) == {i \in DOMAIN sources : a[sources[i]].ver # 0}
AnswerIn(a, sources) ==
  IF Held(a, sources) = {} THEN 0
  ELSE a[sources[CHOOSE i \in Held(a, sources) : \A j \in Held(a, sources) : i <= j]].ver
RefusedIn(e, n) ==
  \/ e.kind = "unmarked"
  \/ e.kind \in {"v2", "v3", "v4"} /\ ~e.mine /\ (e.kind \in {"v3", "v4"} => n < e.expires)

Carrying == {"open", "check", "store"}  \* a value is on its way to the cache

\* How a command got where it is.
Route(t) ==
  /\ t.op = "get" => t.leaf = NoLeaf
  /\ t.changed => t.op # "clear" /\ t.then = "end" /\ t.at \notin {"look", "read", "write", "remove"}
  /\ t.then = "read" => t.at \in {"dropCheck", "drop"} /\ t.op = "get" /\ t.i = 1
  /\ t.at = "look" => t.op = "get" /\ t.i = 1 /\ t.then = "end"
  /\ t.at = "read" => t.op = "get" /\ t.i \in 1..Len(t.conf.sources)
  /\ t.at = "write" => t.op \in {"get", "set"}
  /\ t.at = "remove" => t.op = "delete"
  /\ t.at \in Carrying => t.op \in {"get", "set"} /\ t.val.ver # 0

\* What it has read, while no change has made that old.
Knows(t, a) ==
  ~t.old =>
    /\ t.at = "read" /\ ~t.failed /\ t.i > 1 => a[t.conf.sources[1]].ver = 0
    /\ t.at = "read" /\ ~t.failed /\ ~t.errors => \A j \in 1..(t.i - 1) : a[t.conf.sources[j]].ver = 0
    /\ t.at = "write" /\ t.op = "get" => a[t.conf.sources[1]].ver = 0
    /\ t.at \in Carrying /\ (t.op = "get" => ~t.failed /\ ~t.errors) => t.val.ver = AnswerIn(a, t.conf.sources)

\* The value it carries was in the stores, with its expiry.
Carries(t, a, w) ==
  t.at \in Carrying => t.val.ver <= w /\ \A s \in Stores : a[s].ver = t.val.ver => a[s].until = t.val.until

\* Before it overwrites or removes it has asked whose the address is.
Asked(t, n) ==
  t.at \in {"store", "drop"} => t.seen = Unread \/ (t.seen \in Entries /\ ~RefusedIn(t.seen, n))

Sound(t, a, n, w) == t \in Tasks /\ Route(t) /\ Knows(t, a) /\ Carries(t, a, w) /\ Asked(t, n)

\* Versions are numbered in the order they are written.
StoresInv(a, w) ==
  /\ \A s \in Stores : a[s].ver <= w
  /\ \A s \in Stores, u \in Stores : a[s].ver = a[u].ver /\ a[s].ver # 0 => a[s].until = a[u].until

Mine(e) == e.kind \in {"v2", "v3", "v4"} /\ e.mine
Changing(ts) == \E q \in Procs : ts[q] # Idle /\ ts[q].changed

\* The entry is what the route answers, or there is a reason why it is not.
Current(e, a, ts, reasons) ==
  Mine(e) => e.fp = e.src /\ (reasons # {} \/ Changing(ts) \/ e.ver = AnswerIn(a, e.src))

\* It has the expiry of its value, and goes before it.
Dated(e, a, w) ==
  e.kind = "v4" /\ e.mine =>
    /\ e.ver # 0 /\ e.ver <= w
    /\ e.until # 0 => e.expires <= e.until \div Milli
    /\ \A s \in Stores : a[s].ver = e.ver => a[s].until = e.until

\* It ends, for every reader, when its max_age is over.
Timed(e, n) ==
  Mine(e) =>
    /\ e.kind = "v3" => e.made = e.expires - e.age
    /\ e.kind = "v4" => e.made <= n /\ e.expires <= e.made + e.age

IInv ==
  /\ TypeOK /\ StoresInv(auth, wrote)
  /\ \A p \in Procs : task[p] = Idle \/ Sound(task[p], auth, now, wrote)
  /\ Current(entry, auth, task, taint) /\ Dated(entry, auth, wrote) /\ Timed(entry, now)

----------------------------------------------------------------------------
(* Commands *)

\* The locals of a command and their types.
LEMMA TaskFields ==
  ASSUME NEW t \in Tasks
  PROVE  /\ t # Idle /\ t.at \in Points /\ t.at # "idle" /\ t.conf \in Configs
         /\ t.op \in {"get", "set", "delete", "clear"} /\ t.then \in {"end", "read"}
         /\ t.leaf \in Stores \cup {NoLeaf} /\ t.i \in Nat \ {0} /\ t.val \in Contents
         /\ t.seen \in Entries \cup {Unasked, Unread} /\ t.failed \in BOOLEAN /\ t.errors \in BOOLEAN
         /\ t.healthy \in BOOLEAN /\ t.old \in BOOLEAN /\ t.changed \in BOOLEAN /\ t.values \in BOOLEAN
<1>1. t.at # "idle" /\ Idle.at = "idle"
  BY DEF Tasks, Idle
<1> QED
  BY <1>1 DEF Tasks

\* A command that moves on.
To(t, x) == [t EXCEPT !.at = x]
\* It changes those fields, and every other field of the command is as it was.
LEMMA ToFields ==
  ASSUME NEW t \in Tasks, NEW x \in Points \ {"idle"}
  PROVE  /\ To(t, x) \in Tasks /\ To(t, x).at = x /\ To(t, x).op = t.op /\ To(t, x).leaf = t.leaf
         /\ To(t, x).conf = t.conf /\ To(t, x).i = t.i /\ To(t, x).val = t.val /\ To(t, x).then = t.then
         /\ To(t, x).failed = t.failed /\ To(t, x).errors = t.errors /\ To(t, x).old = t.old
         /\ To(t, x).changed = t.changed /\ To(t, x).seen = t.seen
BY DEF Tasks, To

\* A command that has asked whose the address is, or goes on to it.
Asks(t, x, y, z) == [t EXCEPT !.at = x, !.then = y, !.seen = z]
\* It changes those fields, and every other field of the command is as it was.
LEMMA AsksFields ==
  ASSUME NEW t \in Tasks, NEW x \in Points \ {"idle"}, NEW y \in {"end", "read"},
         NEW z \in Entries \cup {Unasked, Unread}
  PROVE  /\ Asks(t, x, y, z) \in Tasks /\ Asks(t, x, y, z).at = x /\ Asks(t, x, y, z).op = t.op
         /\ Asks(t, x, y, z).leaf = t.leaf /\ Asks(t, x, y, z).conf = t.conf
         /\ Asks(t, x, y, z).i = t.i /\ Asks(t, x, y, z).val = t.val /\ Asks(t, x, y, z).then = y
         /\ Asks(t, x, y, z).failed = t.failed /\ Asks(t, x, y, z).errors = t.errors
         /\ Asks(t, x, y, z).old = t.old /\ Asks(t, x, y, z).changed = t.changed
         /\ Asks(t, x, y, z).seen = z /\ Asks(t, x, y, z).values = t.values
         /\ Asks(t, x, y, z).healthy = t.healthy
BY DEF Tasks, Asks

\* A command that takes a value with it.
Takes(t, x, v, o, c) == [t EXCEPT !.at = x, !.val = v, !.old = o, !.changed = c]
\* It changes those fields, and every other field of the command is as it was.
LEMMA TakesFields ==
  ASSUME NEW t \in Tasks, NEW x \in Points \ {"idle"}, NEW v \in Contents, NEW o \in BOOLEAN,
         NEW c \in BOOLEAN
  PROVE  /\ Takes(t, x, v, o, c) \in Tasks /\ Takes(t, x, v, o, c).at = x
         /\ Takes(t, x, v, o, c).op = t.op /\ Takes(t, x, v, o, c).leaf = t.leaf
         /\ Takes(t, x, v, o, c).conf = t.conf /\ Takes(t, x, v, o, c).i = t.i
         /\ Takes(t, x, v, o, c).val = v /\ Takes(t, x, v, o, c).then = t.then
         /\ Takes(t, x, v, o, c).failed = t.failed /\ Takes(t, x, v, o, c).errors = t.errors
         /\ Takes(t, x, v, o, c).old = o /\ Takes(t, x, v, o, c).changed = c
         /\ Takes(t, x, v, o, c).seen = t.seen /\ Takes(t, x, v, o, c).values = t.values
         /\ Takes(t, x, v, o, c).healthy = t.healthy
BY DEF Tasks, Takes

\* A command that has asked a source.
Chains(t, n, f, e, h) == [t EXCEPT !.i = n, !.failed = f, !.errors = e, !.healthy = h]
\* It changes those fields, and every other field of the command is as it was.
LEMMA ChainsFields ==
  ASSUME NEW t \in Tasks, NEW n \in Nat \ {0}, NEW f, NEW e, NEW h, {f, e, h} \subseteq BOOLEAN
  PROVE  /\ Chains(t, n, f, e, h) \in Tasks /\ Chains(t, n, f, e, h).at = t.at
         /\ Chains(t, n, f, e, h).op = t.op /\ Chains(t, n, f, e, h).leaf = t.leaf
         /\ Chains(t, n, f, e, h).conf = t.conf /\ Chains(t, n, f, e, h).i = n
         /\ Chains(t, n, f, e, h).val = t.val /\ Chains(t, n, f, e, h).then = t.then
         /\ Chains(t, n, f, e, h).failed = f /\ Chains(t, n, f, e, h).errors = e
         /\ Chains(t, n, f, e, h).old = t.old /\ Chains(t, n, f, e, h).changed = t.changed
         /\ Chains(t, n, f, e, h).seen = t.seen /\ Chains(t, n, f, e, h).values = t.values
         /\ Chains(t, n, f, e, h).healthy = h
BY DEF Tasks, Chains

\* A command that is past the read and the write.
Forgets(t, l, b, n, h) == [t EXCEPT !.leaf = l, !.values = b, !.i = n, !.healthy = h]
\* It changes those fields, and every other field of the command is as it was.
LEMMA ForgetsFields ==
  ASSUME NEW t \in Tasks, NEW l \in Stores \cup {NoLeaf}, NEW b \in BOOLEAN, NEW n \in Nat \ {0},
         NEW h \in BOOLEAN
  PROVE  /\ Forgets(t, l, b, n, h) \in Tasks /\ Forgets(t, l, b, n, h).at = t.at
         /\ Forgets(t, l, b, n, h).op = t.op /\ Forgets(t, l, b, n, h).leaf = l
         /\ Forgets(t, l, b, n, h).conf = t.conf /\ Forgets(t, l, b, n, h).i = n
         /\ Forgets(t, l, b, n, h).val = t.val /\ Forgets(t, l, b, n, h).then = t.then
         /\ Forgets(t, l, b, n, h).failed = t.failed /\ Forgets(t, l, b, n, h).errors = t.errors
         /\ Forgets(t, l, b, n, h).old = t.old /\ Forgets(t, l, b, n, h).changed = t.changed
         /\ Forgets(t, l, b, n, h).seen = t.seen /\ Forgets(t, l, b, n, h).values = b
         /\ Forgets(t, l, b, n, h).healthy = h
BY DEF Tasks, Forgets

\* A command that is to remove the entry.
Resets(t, x, v, f, e, o, z) == [t EXCEPT !.at = x, !.val = v, !.failed = f, !.errors = e, !.old = o, !.seen = z]
\* It changes those fields, and every other field of the command is as it was.
LEMMA ResetsFields ==
  ASSUME NEW t \in Tasks, NEW x \in Points \ {"idle"}, NEW v \in Contents, NEW f \in BOOLEAN,
         NEW e \in BOOLEAN, NEW o \in BOOLEAN, NEW z \in Entries \cup {Unasked, Unread}
  PROVE  /\ Resets(t, x, v, f, e, o, z) \in Tasks /\ Resets(t, x, v, f, e, o, z).at = x
         /\ Resets(t, x, v, f, e, o, z).op = t.op /\ Resets(t, x, v, f, e, o, z).leaf = t.leaf
         /\ Resets(t, x, v, f, e, o, z).conf = t.conf /\ Resets(t, x, v, f, e, o, z).i = t.i
         /\ Resets(t, x, v, f, e, o, z).val = v /\ Resets(t, x, v, f, e, o, z).then = t.then
         /\ Resets(t, x, v, f, e, o, z).failed = f /\ Resets(t, x, v, f, e, o, z).errors = e
         /\ Resets(t, x, v, f, e, o, z).old = o /\ Resets(t, x, v, f, e, o, z).changed = t.changed
         /\ Resets(t, x, v, f, e, o, z).seen = z /\ Resets(t, x, v, f, e, o, z).values = t.values
         /\ Resets(t, x, v, f, e, o, z).healthy = t.healthy
<1>1. Resets(t, x, v, f, e, o, z) \in Tasks
  BY DEF Tasks, Resets
<1>2. \A r : r = Resets(t, x, v, f, e, o, z) =>
        /\ r.at = x /\ r.val = v /\ r.failed = f /\ r.errors = e /\ r.old = o /\ r.seen = z
        /\ r.op = t.op /\ r.leaf = t.leaf /\ r.conf = t.conf /\ r.i = t.i /\ r.then = t.then
        /\ r.changed = t.changed /\ r.values = t.values /\ r.healthy = t.healthy
  BY DEF Tasks, Resets
<1> QED
  BY <1>1, <1>2

\* A command that has read something old.
Ages(t, o) == [t EXCEPT !.old = o]
\* It changes those fields, and every other field of the command is as it was.
LEMMA AgesFields ==
  ASSUME NEW t \in Tasks, NEW o \in BOOLEAN
  PROVE  /\ Ages(t, o) \in Tasks /\ Ages(t, o).at = t.at /\ Ages(t, o).op = t.op
         /\ Ages(t, o).leaf = t.leaf /\ Ages(t, o).conf = t.conf /\ Ages(t, o).i = t.i
         /\ Ages(t, o).val = t.val /\ Ages(t, o).then = t.then /\ Ages(t, o).failed = t.failed
         /\ Ages(t, o).errors = t.errors /\ Ages(t, o).old = o /\ Ages(t, o).changed = t.changed
         /\ Ages(t, o).seen = t.seen /\ Ages(t, o).values = t.values /\ Ages(t, o).healthy = t.healthy
BY DEF Tasks, Ages

\* What is left of it then.
LEMMA ScopedFields ==
  ASSUME NEW t \in Tasks
  PROVE  /\ Scoped(t) \in Tasks /\ Scoped(t).at = t.at /\ Scoped(t).op = t.op /\ Scoped(t).leaf = NoLeaf
         /\ Scoped(t).conf = t.conf /\ Scoped(t).i = 1 /\ Scoped(t).val = t.val /\ Scoped(t).then = t.then
         /\ Scoped(t).failed = t.failed /\ Scoped(t).errors = t.errors /\ Scoped(t).old = t.old
         /\ Scoped(t).changed = t.changed /\ Scoped(t).seen = t.seen
<1> DEFINE no == FALSE
           one == 1
<1>1. Scoped(t) = Forgets(t, NoLeaf, no, one, no)
  BY DEF Scoped, Forgets
<1>2. NoLeaf \in Stores \cup {NoLeaf} /\ one \in Nat \ {0} /\ no \in BOOLEAN /\ one = 1
  OBVIOUS
<1> HIDE DEF no, one
<1> QED
  BY <1>1, <1>2, ForgetsFields

\* No value is a value that a store may hold.
LEMMA NoValueFields == NoValue \in Contents /\ NoValue.ver = 0 /\ NoValue.until = 0
<1>1. 0 \in Expiries /\ 0 \in 0..MaxWrites
  BY CacheAssumption
<1> QED
  BY <1>1 DEF NoValue, Contents

\* What a command keeps that is to remove the entry.
LEMMA DroppingFields ==
  ASSUME NEW t \in Tasks, NEW x \in Points \ {"idle"}
  PROVE  /\ Dropping(t, x) \in Tasks /\ Dropping(t, x).at = x /\ Dropping(t, x).op = t.op
         /\ Dropping(t, x).leaf = NoLeaf /\ Dropping(t, x).conf = t.conf /\ Dropping(t, x).i = 1
         /\ Dropping(t, x).then = t.then /\ Dropping(t, x).changed = t.changed
<1> DEFINE u == Scoped(t)
<1>1. /\ u \in Tasks /\ u.op = t.op /\ u.leaf = NoLeaf /\ u.conf = t.conf /\ u.i = 1
      /\ u.then = t.then /\ u.changed = t.changed
  BY ScopedFields
<1> DEFINE no == FALSE
<1>2. Dropping(t, x) = Resets(u, x, NoValue, no, no, no, Unasked)
  BY DEF Dropping, Resets
<1>3. NoValue \in Contents /\ Unasked \in Entries \cup {Unasked, Unread} /\ no \in BOOLEAN
  BY NoValueFields
<1> HIDE DEF u, no
<1> QED
  BY <1>1, <1>2, <1>3, ResetsFields

----------------------------------------------------------------------------
(* The stores and the clock *)

\* A manifest names stores.
LEMMA SourceFacts ==
  ASSUME NEW c \in Configs
  PROVE  /\ c.sources \in Seq(Stores) /\ Len(c.sources) \in Nat /\ 1 \in 1..Len(c.sources)
         /\ DOMAIN c.sources = 1..Len(c.sources) /\ c.maxAge \in Nat
         /\ \A i \in 1..Len(c.sources) : c.sources[i] \in Stores
<1>1. c.sources \in Seq(Stores) /\ c.sources # <<>> /\ c.maxAge \in Nat
  BY CacheAssumption
<1> DEFINE q == c.sources
<1>2. q \in Seq(Stores) /\ q # <<>>
  BY <1>1
<1> HIDE DEF q
<1>3. Len(q) \in Nat /\ DOMAIN q = 1..Len(q) /\ \A i \in 1..Len(q) : q[i] \in Stores
  BY <1>2
<1>4. Len(q) # 0
  BY <1>2, EmptySeq
<1>5. 1 \in 1..Len(q)
  BY <1>3, <1>4
<1> QED
  BY <1>1, <1>2, <1>3, <1>5 DEF q

\* The first source that holds a value is the one that answers.
LEMMA FirstAnswers ==
  ASSUME NEW a, NEW src \in Seq(Stores), NEW i \in 1..Len(src), a[src[i]].ver # 0,
         \A j \in 1..(i - 1) : a[src[j]].ver = 0
  PROVE  AnswerIn(a, src) = a[src[i]].ver
<1> DEFINE H == Held(a, src)
<1>1. DOMAIN src = 1..Len(src) /\ Len(src) \in Nat
  OBVIOUS
<1>2. H \subseteq Nat /\ i \in H
  BY <1>1 DEF Held
<1>3. \A j \in H : i <= j
  <2> TAKE j \in H
  <2>1. j \in 1..Len(src) /\ a[src[j]].ver # 0
    BY <1>1 DEF Held
  <2>2. ~(j \in 1..(i - 1))
    BY <2>1
  <2> QED
    BY <1>1, <2>1, <2>2
<1> DEFINE k == CHOOSE k \in H : \A j \in H : k <= j
<1> HIDE DEF H
<1>4. k \in H /\ \A j \in H : k <= j
  <2>1. \E m \in H : \A j \in H : m <= j
    BY <1>2, <1>3
  <2> QED
    BY <2>1
<1>5. k = i
  <2> HIDE DEF k
  <2>1. k <= i /\ i <= k /\ k \in Nat
    BY <1>2, <1>3, <1>4
  <2> QED
    BY <2>1
<1> QED
  BY <1>2, <1>5 DEF AnswerIn, H

\* A set of places that is not empty has a first one.
LEMMA FirstOfSome ==
  ASSUME NEW S \in SUBSET Nat, S # {}
  PROVE  \E m \in S : \A j \in S : m <= j
<1> DEFINE Below == {x \in Nat \X Nat : x[1] < x[2]}
<1>1. IsWellFoundedOn(Below, Nat)
  BY NatLessThanWellFounded DEF OpToRel
<1>2. PICK m \in S : \A j \in S : <<j, m>> \notin Below
  BY <1>1, WFMin
<1>3. \A j \in S : ~(j < m)
  BY <1>2
<1> QED
  BY <1>3

\* A chain whose sources hold the same gives the same answer.
LEMMA SameAnswer ==
  ASSUME NEW a, NEW b, NEW src, \A j \in DOMAIN src : b[src[j]] = a[src[j]], src \in Seq(Stores)
  PROVE  AnswerIn(b, src) = AnswerIn(a, src)
<1> DEFINE H == Held(a, src)
<1>1. Held(b, src) = H
  BY DEF Held
<1>2. H \subseteq Nat /\ \A m \in H : b[src[m]] = a[src[m]]
  BY DEF Held
<1> DEFINE k == CHOOSE k \in H : \A j \in H : k <= j
<1>3. /\ AnswerIn(a, src) = IF H = {} THEN 0 ELSE a[src[k]].ver
      /\ AnswerIn(b, src) = IF H = {} THEN 0 ELSE b[src[k]].ver
  BY <1>1 DEF AnswerIn
<1>4. H # {} => k \in H
  <2> SUFFICES ASSUME H # {} PROVE k \in H
    OBVIOUS
  <2>1. \E m \in H : \A j \in H : m <= j
    <3> HIDE DEF H
    <3> QED
      BY <1>2, FirstOfSome
  <2> QED
    BY <2>1
<1> QED
  BY <1>2, <1>3, <1>4

\* The model's operators are these.
LEMMA AnswerIs == \A sources : Answer(sources) = AnswerIn(auth, sources)
BY DEF Answer, AnswerIn, Held

\* Whether an address is somebody else's.
LEMMA RefusedIs ==
  ASSUME NEW e \in Entries, now \in Nat
  PROVE  Refused(e) <=> RefusedIn(e, now)
<1>1. CASE e \in {NoEntry, Damaged, Unmarked}
  BY <1>1 DEF Refused, RefusedIn, Ownership, Envelope, NoEntry, Damaged, Unmarked
<1>2. CASE e \in Envelopes
  BY <1>2 DEF Refused, RefusedIn, Ownership, Envelope, Envelopes
<1>3. CASE e \in LegacyEnvelopes
  BY <1>3 DEF Refused, RefusedIn, Ownership, Envelope, LegacyEnvelopes
<1> QED
  BY <1>1, <1>2, <1>3 DEF Entries

\* It does not become so by itself.
LEMMA RefusedEarlier ==
  ASSUME NEW e \in Entries, NEW n \in Nat, NEW m \in Nat, n <= m, RefusedIn(e, m)
  PROVE  RefusedIn(e, n)
<1>1. CASE e.kind \in {"v3", "v4"}
  <2>1. e.expires \in Nat
    BY <1>1 DEF Entries, Envelopes, LegacyEnvelopes, NoEntry, Damaged, Unmarked
  <2> QED
    BY <1>1, <2>1 DEF RefusedIn
<1>2. CASE e.kind \notin {"v3", "v4"}
  BY <1>2 DEF RefusedIn
<1> QED
  BY <1>1, <1>2

----------------------------------------------------------------------------
(* What a command knows while the clock goes on and the stores change *)

\* Time makes nobody's entry somebody else's.
LEMMA SoundLater ==
  ASSUME NEW t, NEW a, NEW n \in Nat, NEW m \in Nat, NEW w, n <= m, Sound(t, a, n, w)
  PROVE  Sound(t, a, m, w)
<1>1. Asked(t, n)
  BY DEF Sound
<1>2. Asked(t, m)
  <2> SUFFICES ASSUME t.at \in {"store", "drop"}, t.seen # Unread
               PROVE  t.seen \in Entries /\ ~RefusedIn(t.seen, m)
    BY DEF Asked
  <2>1. t.seen \in Entries /\ ~RefusedIn(t.seen, n)
    BY <1>1 DEF Asked
  <2> QED
    BY <2>1, RefusedEarlier
<1> QED
  BY <1>2 DEF Sound

\* The stores after one of them got a new value, or lost its value.
Renewed(c, w, x) == c \in Contents /\ w <= x /\ (c.ver = 0 \/ (c.ver = w + 1 /\ x = w + 1))

\* What a store holds.
LEMMA ContentsFields ==
  ASSUME NEW c \in Contents
  PROVE  c.ver \in Nat /\ c.ver \in 0..MaxWrites /\ c.until \in Nat /\ c.until \in Expiries
<1>1. c.ver \in 0..MaxWrites /\ c.until \in Expiries
  BY DEF Contents
<1>2. c.until \in Nat
  BY <1>1, CacheAssumption
<1>3. c.ver \in Nat
  BY <1>1
<1> QED
  BY <1>1, <1>2, <1>3

\* One store is changed and the others are as they were.
LEMMA StoreChanged ==
  ASSUME NEW a \in [Stores -> Contents], NEW s \in Stores, NEW c \in Contents
  PROVE  /\ [a EXCEPT ![s] = c] \in [Stores -> Contents]
         /\ \A u \in Stores : [a EXCEPT ![s] = c][u] = IF u = s THEN c ELSE a[u]
OBVIOUS

\* Versions stay numbered in the order they are written.
LEMMA StoresChanged ==
  ASSUME NEW a \in [Stores -> Contents], NEW s \in Stores, NEW w \in Nat, NEW x \in Nat, NEW c,
         Renewed(c, w, x), StoresInv(a, w)
  PROVE  StoresInv([a EXCEPT ![s] = c], x)
<1> DEFINE b == [a EXCEPT ![s] = c]
<1>0. c \in Contents /\ w <= x /\ (c.ver = 0 \/ (c.ver = w + 1 /\ x = w + 1)) /\ c.ver \in Nat
  BY ContentsFields DEF Renewed
<1>1. \A u \in Stores : b[u] = IF u = s THEN c ELSE a[u]
  BY <1>0, StoreChanged
<1>2. \A u \in Stores : a[u].ver \in Nat /\ a[u].ver <= w
  BY ContentsFields DEF StoresInv
<1> HIDE DEF b
<1>3. \A u \in Stores : b[u].ver <= x
  <2> TAKE u \in Stores
  <2>1. CASE u = s
    BY <2>1, <1>0, <1>1
  <2>2. CASE u # s
    BY <2>2, <1>0, <1>1, <1>2
  <2> QED
    BY <2>1, <2>2
<1>4. \A u \in Stores, v \in Stores : b[u].ver = b[v].ver /\ b[u].ver # 0 => b[u].until = b[v].until
  <2> SUFFICES ASSUME NEW u \in Stores, NEW v \in Stores, b[u].ver = b[v].ver, b[u].ver # 0
               PROVE  b[u].until = b[v].until
    OBVIOUS
  <2>1. CASE u = s /\ v = s
    BY <2>1
  <2>2. CASE u = s /\ v # s
    <3>1. b[u] = c /\ b[v] = a[v] /\ a[v].ver <= w /\ a[v].ver \in Nat
      BY <2>2, <1>1, <1>2
    <3> QED
      BY <3>1, <1>0
  <2>3. CASE u # s /\ v = s
    <3>1. b[v] = c /\ b[u] = a[u] /\ a[u].ver <= w /\ a[u].ver \in Nat
      BY <2>3, <1>1, <1>2
    <3> QED
      BY <3>1, <1>0
  <2>4. CASE u # s /\ v # s
    BY <2>4, <1>1 DEF StoresInv
  <2> QED
    BY <2>1, <2>2, <2>3, <2>4
<1> QED
  BY <1>3, <1>4 DEF StoresInv, b

\* What a store holds of a version has this expiry.
Matches(a, v, until) == \A u \in Stores : a[u].ver = v => a[u].until = until

\* A value that was written is not mistaken for the new one.
LEMMA OldIsOld ==
  ASSUME NEW a \in [Stores -> Contents], NEW s \in Stores, NEW w \in Nat, NEW x \in Nat, NEW c,
         Renewed(c, w, x), NEW v \in Nat, v # 0, v <= w, NEW until, Matches(a, v, until)
  PROVE  v <= x /\ Matches([a EXCEPT ![s] = c], v, until)
<1> DEFINE b == [a EXCEPT ![s] = c]
<1>0. c \in Contents /\ w <= x /\ (c.ver = 0 \/ c.ver = w + 1) /\ c.ver \in Nat
  BY ContentsFields DEF Renewed
<1>1. \A u \in Stores : b[u] = IF u = s THEN c ELSE a[u]
  BY <1>0, StoreChanged
<1>2. c.ver # v
  BY <1>0
<1> HIDE DEF b
<1>3. \A u \in Stores : b[u].ver = v => b[u].until = until
  BY <1>1, <1>2 DEF Matches
<1>4. v <= x
  BY <1>0
<1> QED
  BY <1>3, <1>4 DEF Matches, b

\* What a change of a store makes of the other commands.
AgedTask(t, s) == IF s \in ReadFrom(t) THEN [t EXCEPT !.old = TRUE] ELSE t

\* What a command has read of the other stores is what they hold.
LEMMA KnowsOthers ==
  ASSUME NEW t \in Tasks, Route(t), NEW a \in [Stores -> Contents], Knows(t, a), NEW s \in Stores,
         s \notin ReadFrom(t), NEW c \in Contents
  PROVE  Knows(t, [a EXCEPT ![s] = c])
<1> DEFINE b == [a EXCEPT ![s] = c]
           src == t.conf.sources
<1>1. /\ src \in Seq(Stores) /\ DOMAIN src = 1..Len(src) /\ Len(src) \in Nat /\ 1 \in 1..Len(src)
      /\ \A j \in 1..Len(src) : src[j] \in Stores
  BY TaskFields, SourceFacts
<1>2. \A u \in Stores : u # s => b[u] = a[u]
  BY StoreChanged
<1> HIDE DEF b
<1> SUFFICES ASSUME ~t.old
             PROVE  /\ t.at = "read" /\ ~t.failed /\ t.i > 1 => b[src[1]].ver = 0
                    /\ t.at = "read" /\ ~t.failed /\ ~t.errors => \A j \in 1..(t.i - 1) : b[src[j]].ver = 0
                    /\ t.at = "write" /\ t.op = "get" => b[src[1]].ver = 0
                    /\ t.at \in Carrying /\ (t.op = "get" => ~t.failed /\ ~t.errors)
                         => t.val.ver = AnswerIn(b, src)
  BY DEF Knows, b
<1>3. ASSUME t.at = "read"
      PROVE  \A j \in 1..(t.i - 1) : b[src[j]] = a[src[j]]
  <2>1. t.i \in 1..Len(src)
    BY <1>3 DEF Route
  <2> TAKE j \in 1..(t.i - 1)
  <2>2. j \in 1..Len(src)
    BY <1>1, <2>1
  <2>3. src[j] # s
    BY <1>3 DEF ReadFrom
  <2> QED
    BY <1>1, <1>2, <2>2, <2>3
<1>4. ASSUME t.at \in {"write", "open", "check", "store"}
      PROVE  \A j \in DOMAIN src : b[src[j]] = a[src[j]]
  <2> TAKE j \in DOMAIN src
  <2>1. src[j] # s
    BY <1>4 DEF ReadFrom
  <2> QED
    BY <1>1, <1>2, <2>1
<1>5. CASE t.at = "read"
  <2>1. t.i \in Nat /\ (t.i > 1 => 1 \in 1..(t.i - 1))
    BY <1>1, <1>5 DEF Route
  <2>2. t.at \notin Carrying
    BY <1>5 DEF Carrying
  <2> QED
    BY <1>3, <1>5, <2>1, <2>2 DEF Knows
<1>6. CASE t.at = "write"
  <2>1. b[src[1]] = a[src[1]]
    BY <1>1, <1>4, <1>6
  <2> QED
    BY <1>6, <2>1 DEF Knows, Carrying
<1>7. CASE t.at \in Carrying
  <2>1. \A j \in DOMAIN src : b[src[j]] = a[src[j]]
    BY <1>4, <1>7 DEF Carrying
  <2>2. AnswerIn(b, src) = AnswerIn(a, src)
    <3> HIDE DEF src
    <3> QED
      BY <1>1, <2>1, SameAnswer
  <2> QED
    BY <1>7, <2>2 DEF Knows, Carrying
<1>8. CASE t.at \notin {"read", "write"} \cup Carrying
  BY <1>8
<1> QED
  BY <1>5, <1>6, <1>7, <1>8

\* A command stays sound when a store changes under it.
LEMMA SoundAged ==
  ASSUME NEW a \in [Stores -> Contents], NEW s \in Stores, NEW w \in Nat, NEW x \in Nat, NEW c,
         Renewed(c, w, x), NEW n, NEW t, Sound(t, a, n, w)
  PROVE  /\ Sound(AgedTask(t, s), [a EXCEPT ![s] = c], n, x) /\ AgedTask(t, s).at = t.at
         /\ AgedTask(t, s).changed = t.changed
<1> DEFINE b == [a EXCEPT ![s] = c]
           yes == TRUE
<1>0. t \in Tasks /\ Route(t) /\ Knows(t, a) /\ Carries(t, a, w) /\ Asked(t, n)
  BY DEF Sound
<1>1. t.at \in Carrying => t.val.ver <= x /\ \A u \in Stores : b[u].ver = t.val.ver => b[u].until = t.val.until
  <2> SUFFICES ASSUME t.at \in Carrying
               PROVE  t.val.ver <= x /\ \A u \in Stores : b[u].ver = t.val.ver => b[u].until = t.val.until
    OBVIOUS
  <2>1. t.val.ver \in Nat /\ t.val.ver # 0 /\ t.val.ver <= w
    BY <1>0, TaskFields, ContentsFields DEF Route, Carries
  <2>2. \A u \in Stores : a[u].ver = t.val.ver => a[u].until = t.val.until
    BY <1>0 DEF Carries
  <2> DEFINE v == t.val.ver
             r == t.val.until
  <2>3. v \in Nat /\ v # 0 /\ v <= w /\ Matches(a, v, r)
    BY <2>1, <2>2 DEF Matches
  <2> HIDE DEF v, r
  <2>4. v <= x /\ Matches(b, v, r)
    BY <2>3, OldIsOld
  <2> QED
    BY <2>4 DEF Matches, v, r
<1> HIDE DEF b
<1>2. CASE s \in ReadFrom(t)
  <2>1. AgedTask(t, s) = Ages(t, yes) /\ yes \in BOOLEAN
    BY <1>2 DEF AgedTask, Ages
  <2> DEFINE d == AgedTask(t, s)
  <2>2. yes
    OBVIOUS
  <2> HIDE DEF yes
  <2>3. /\ d \in Tasks /\ d.at = t.at /\ d.op = t.op /\ d.leaf = t.leaf /\ d.conf = t.conf /\ d.i = t.i
        /\ d.val = t.val /\ d.then = t.then /\ d.changed = t.changed /\ d.seen = t.seen /\ d.old = yes
    BY <1>0, <2>1, AgesFields
  <2> HIDE DEF d
  <2>4. Route(d)
    BY <1>0, <2>3 DEF Route
  <2>5. Knows(d, b)
    BY <2>2, <2>3 DEF Knows
  <2>6. Carries(d, b, x)
    BY <1>1, <2>3 DEF Carries
  <2>7. Asked(d, n)
    BY <1>0, <2>3 DEF Asked
  <2> QED
    BY <2>3, <2>4, <2>5, <2>6, <2>7 DEF Sound, d, b
<1>3. CASE s \notin ReadFrom(t)
  <2>1. AgedTask(t, s) = t
    BY <1>3 DEF AgedTask
  <2>2. Knows(t, b)
    <3>1. c \in Contents
      BY DEF Renewed
    <3> QED
      BY <3>1, <1>0, <1>3, KnowsOthers DEF b
  <2>3. Carries(t, b, x)
    BY <1>1 DEF Carries
  <2> QED
    BY <1>0, <2>1, <2>2, <2>3 DEF Sound, b
<1> QED
  BY <1>2, <1>3

\* The entry keeps the expiry of its value.
LEMMA DatedChanged ==
  ASSUME NEW a \in [Stores -> Contents], NEW s \in Stores, NEW w \in Nat, NEW x \in Nat, NEW c,
         Renewed(c, w, x), NEW e \in Entries, Dated(e, a, w)
  PROVE  Dated(e, [a EXCEPT ![s] = c], x)
<1> DEFINE b == [a EXCEPT ![s] = c]
<1> SUFFICES ASSUME e.kind = "v4", e.mine
             PROVE  /\ e.ver # 0 /\ e.ver <= x
                    /\ e.until # 0 => e.expires <= e.until \div Milli
                    /\ \A u \in Stores : b[u].ver = e.ver => b[u].until = e.until
  BY DEF Dated
<1>1. /\ e.ver # 0 /\ e.ver <= w
      /\ e.until # 0 => e.expires <= e.until \div Milli
      /\ \A u \in Stores : a[u].ver = e.ver => a[u].until = e.until
  BY DEF Dated
<1>2. e.ver \in Nat
  BY CacheAssumption DEF Entries, Envelopes, LegacyEnvelopes, NoEntry, Damaged, Unmarked
<1> DEFINE v == e.ver
           r == e.until
<1>3. v \in Nat /\ v # 0 /\ v <= w /\ Matches(a, v, r)
  BY <1>1, <1>2 DEF Matches
<1> HIDE DEF v, r
<1>4. v <= x /\ Matches(b, v, r)
  BY <1>3, OldIsOld
<1> QED
  BY <1>1, <1>4 DEF Matches, v, r

----------------------------------------------------------------------------
(* Steps *)

Reasons == {"partial", "warned", "race", "outage", "crash", "outside"}
SoundAll(ts, a, n, w) == \A q \in Procs : ts[q] = Idle \/ Sound(ts[q], a, n, w)

\* The parts of the invariant, of the state before a step and of the one after it.
LEMMA InvParts ==
  ASSUME IInv
  PROVE  /\ now \in Nat /\ conf \in Configs /\ auth \in [Stores -> Contents] /\ entry \in Entries
         /\ task \in [Procs -> {Idle} \cup Tasks] /\ wrote \in 0..MaxWrites /\ wrote \in Nat
         /\ mishaps \in 0..MaxMishaps /\ taint \subseteq Reasons /\ StoresInv(auth, wrote)
         /\ SoundAll(task, auth, now, wrote)
         /\ Current(entry, auth, task, taint) /\ Dated(entry, auth, wrote) /\ Timed(entry, now)
BY DEF IInv, TypeOK, Reasons, SoundAll

\* The invariant holds again when each part does.
LEMMA Assemble ==
  ASSUME now' \in Nat, conf' \in Configs, auth' \in [Stores -> Contents], entry' \in Entries,
         task' \in [Procs -> {Idle} \cup Tasks], wrote' \in 0..MaxWrites, mishaps' \in 0..MaxMishaps,
         taint' \subseteq Reasons, StoresInv(auth', wrote'), SoundAll(task', auth', now', wrote'),
         Current(entry', auth', task', taint'), Dated(entry', auth', wrote'), Timed(entry', now')
  PROVE  IInv'
BY DEF IInv, TypeOK, Reasons, SoundAll

\* The number of mishaps stays within its bound.
LEMMA MishapsBounded == ASSUME IInv, Works \/ Fails PROVE mishaps' \in 0..MaxMishaps
<1>1. mishaps \in 0..MaxMishaps /\ MaxMishaps \in Nat
  BY InvParts, CacheAssumption
<1> QED
  BY <1>1 DEF Works, Fails

\* One command has moved and the others are where they were.
LEMMA TasksAfter ==
  ASSUME NEW ts \in [Procs -> {Idle} \cup Tasks], NEW p \in Procs, NEW d \in {Idle} \cup Tasks
  PROVE  /\ [ts EXCEPT ![p] = d] \in [Procs -> {Idle} \cup Tasks]
         /\ \A q \in Procs : [ts EXCEPT ![p] = d][q] = IF q = p THEN d ELSE ts[q]
OBVIOUS

\* A step of a command that changes no store.
LEMMA OneStep ==
  ASSUME IInv, NEW p \in Procs, NEW d, d = Idle \/ Sound(d, auth, now, wrote),
         task' = [task EXCEPT ![p] = d], UNCHANGED <<now, conf, auth, wrote>>, Works \/ Fails,
         taint' \subseteq Reasons, entry' \in Entries, Dated(entry', auth, wrote), Timed(entry', now),
         Current(entry', auth, task', taint')
  PROVE  IInv'
<1>1. /\ now' = now /\ conf' = conf /\ auth' = auth /\ wrote' = wrote
  OBVIOUS
<1>2. d \in {Idle} \cup Tasks
  BY DEF Sound
<1>3. /\ task' \in [Procs -> {Idle} \cup Tasks]
      /\ \A q \in Procs : task'[q] = IF q = p THEN d ELSE task[q]
  BY <1>2, InvParts, TasksAfter
<1>4. SoundAll(task', auth, now, wrote)
  <2> SUFFICES ASSUME NEW q \in Procs PROVE task'[q] = Idle \/ Sound(task'[q], auth, now, wrote)
    BY DEF SoundAll
  <2>1. CASE q = p
    BY <2>1, <1>3
  <2>2. CASE q # p
    BY <2>2, <1>3, InvParts DEF SoundAll
  <2> QED
    BY <2>1, <2>2
<1>5. mishaps' \in 0..MaxMishaps
  BY MishapsBounded
<1> QED
  BY <1>1, <1>3, <1>4, <1>5, InvParts, Assemble

\* A step of a command that leaves the entry alone too.
LEMMA QuietStep ==
  ASSUME IInv, NEW p \in Procs, NEW d, d = Idle \/ Sound(d, auth, now, wrote),
         task' = [task EXCEPT ![p] = d], UNCHANGED <<now, conf, auth, entry, wrote>>, Works \/ Fails,
         taint' \subseteq Reasons, taint \subseteq taint',
         task[p] # Idle /\ task[p].changed => taint' # {} \/ (d # Idle /\ d.changed)
  PROVE  IInv'
<1>1. entry' = entry /\ entry \in Entries /\ Dated(entry, auth, wrote) /\ Current(entry, auth, task, taint)
  BY InvParts
<1>2. d \in {Idle} \cup Tasks
  BY DEF Sound
<1>3. \A q \in Procs : task'[q] = IF q = p THEN d ELSE task[q]
  BY <1>2, InvParts, TasksAfter
<1>4. Changing(task) => taint' # {} \/ Changing(task')
  <2> SUFFICES ASSUME NEW q \in Procs, task[q] # Idle, task[q].changed, taint' = {}
               PROVE  Changing(task')
    BY DEF Changing
  <2>1. CASE q = p
    BY <2>1, <1>3 DEF Changing
  <2>2. CASE q # p
    BY <2>2, <1>3 DEF Changing
  <2> QED
    BY <2>1, <2>2
<1>5. Current(entry, auth, task', taint')
  BY <1>1, <1>4 DEF Current
<1>6. UNCHANGED <<now, conf, auth, wrote>>
  OBVIOUS
<1>7. /\ entry' \in Entries /\ Dated(entry', auth, wrote) /\ Current(entry', auth, task', taint')
      /\ Timed(entry', now)
  BY <1>1, <1>5, InvParts
<1> QED
  BY <1>6, <1>7, OneStep

\* A step that changes a store.
LEMMA ChangeStep ==
  ASSUME IInv, NEW s \in Stores, NEW c, Renewed(c, wrote, wrote'), wrote' \in 0..MaxWrites,
         auth' = [auth EXCEPT ![s] = c], UNCHANGED <<now, conf, entry>>, Works \/ Fails,
         taint' \subseteq Reasons, task' \in [Procs -> {Idle} \cup Tasks],
         SoundAll(task', auth', now, wrote'), taint' # {} \/ Changing(task')
  PROVE  IInv'
<1> DEFINE b == auth'
           x == wrote'
<1>1. now' = now /\ conf' = conf /\ entry' = entry /\ x \in Nat
  OBVIOUS
<1>2. Renewed(c, wrote, x) /\ c \in Contents
  BY DEF Renewed
<1>3. b = [auth EXCEPT ![s] = c] /\ b \in [Stores -> Contents]
  BY <1>2, InvParts, StoreChanged
<1> HIDE DEF b, x
<1>4. StoresInv(b, x)
  BY <1>1, <1>2, <1>3, InvParts, StoresChanged
<1>5. Dated(entry, b, x)
  BY <1>1, <1>2, <1>3, InvParts, DatedChanged
<1>6. mishaps' \in 0..MaxMishaps
  BY MishapsBounded
<1>7. Current(entry, b, task', taint')
  BY InvParts DEF Current
<1> QED
  BY <1>1, <1>3, <1>4, <1>5, <1>6, <1>7, InvParts, Assemble DEF b, x

\* The other commands when one of them changes a store.
LEMMA AgedOthers ==
  ASSUME IInv, NEW s \in Stores, NEW c, NEW x \in Nat, Renewed(c, wrote, x)
  PROVE  /\ Aged(s) \in [Procs -> {Idle} \cup Tasks]
         /\ SoundAll(Aged(s), [auth EXCEPT ![s] = c], now, x)
<1> DEFINE b == [auth EXCEPT ![s] = c]
<1>1. \A q \in Procs : Aged(s)[q] = AgedTask(task[q], s)
  BY DEF Aged, AgedTask
<1>2. \A q \in Procs : Aged(s)[q] = Idle \/ Sound(Aged(s)[q], b, now, x)
  <2> TAKE q \in Procs
  <2>1. CASE task[q] = Idle
    <3>1. AgedTask(Idle, s) = Idle
      BY DEF AgedTask, ReadFrom, Idle
    <3> QED
      BY <2>1, <3>1, <1>1
  <2>2. CASE task[q] # Idle
    <3>1. Sound(task[q], auth, now, wrote) /\ auth \in [Stores -> Contents] /\ wrote \in Nat
      BY <2>2, InvParts DEF SoundAll
    <3> DEFINE t == task[q]
    <3> HIDE DEF t, b
    <3>2. Sound(AgedTask(t, s), [auth EXCEPT ![s] = c], now, x)
      BY <3>1, SoundAged DEF t
    <3> QED
      BY <3>2, <1>1 DEF t, b
  <2> QED
    BY <2>1, <2>2
<1>3. \A q \in Procs : Aged(s)[q] \in {Idle} \cup Tasks
  BY <1>2 DEF Sound
<1>4. Aged(s) \in [Procs -> {Idle} \cup Tasks]
  BY <1>3 DEF Aged
<1> QED
  BY <1>2, <1>4 DEF SoundAll

\* A command that is not idle.
LEMMA Busy ==
  ASSUME IInv, NEW p \in Procs, task[p].at # "idle"
  PROVE  /\ Sound(task[p], auth, now, wrote) /\ task[p] \in Tasks /\ task[p] # Idle
         /\ Route(task[p]) /\ Knows(task[p], auth) /\ Carries(task[p], auth, wrote) /\ Asked(task[p], now)
<1>1. task[p] # Idle
  BY DEF Idle
<1> QED
  BY <1>1, InvParts DEF SoundAll, Sound

----------------------------------------------------------------------------
(* The commands' own steps *)

\* A command that begins.
LEMMA StartedFields ==
  ASSUME NEW op \in {"get", "set", "delete", "clear"}, NEW leaf \in Stores \cup {NoLeaf},
         NEW x \in Points \ {"idle"}, NEW b \in BOOLEAN, conf \in Configs
  PROVE  /\ Started(op, leaf, x, b) \in Tasks /\ Started(op, leaf, x, b).at = x
         /\ Started(op, leaf, x, b).op = op /\ Started(op, leaf, x, b).leaf = leaf
         /\ Started(op, leaf, x, b).i = 1 /\ Started(op, leaf, x, b).then = "end"
         /\ ~Started(op, leaf, x, b).changed
<1>1. NoValue \in Contents
  BY NoValueFields
<1> QED
  BY <1>1 DEF Started, Tasks

\* A command may begin at any time.
LEMMA StartedSound ==
  ASSUME NEW op, NEW leaf \in Stores \cup {NoLeaf}, NEW x, NEW b \in BOOLEAN, conf \in Configs,
         NEW a, NEW n, NEW w,
         \/ op = "get" /\ leaf = NoLeaf /\ x = "look"
         \/ op = "set" /\ x = "write"
         \/ op = "delete" /\ x = "remove"
         \/ op = "clear" /\ x = "dropOpen"
  PROVE  Sound(Started(op, leaf, x, b), a, n, w)
<1>1. op \in {"get", "set", "delete", "clear"} /\ x \in Points \ {"idle"}
  BY DEF Points
<1> DEFINE d == Started(op, leaf, x, b)
<1>2. /\ d \in Tasks /\ d.at = x /\ d.op = op /\ d.leaf = leaf /\ d.i = 1 /\ d.then = "end" /\ ~d.changed
  BY <1>1, StartedFields
<1> HIDE DEF d
<1>3. Route(d)
  BY <1>2 DEF Route, Carrying
<1>4. Knows(d, a)
  BY <1>2 DEF Knows, Carrying
<1>5. Carries(d, a, w) /\ Asked(d, n)
  BY <1>2 DEF Carries, Asked, Carrying
<1> QED
  BY <1>2, <1>3, <1>4, <1>5 DEF Sound, d

\* A command begins with one of its four requests.
LEMMA RequestInv ==
  ASSUME IInv, NEW p \in Procs, task[p] = Idle, NEW op, NEW leaf \in Stores \cup {NoLeaf}, NEW x,
         NEW b \in BOOLEAN,
         \/ op = "get" /\ leaf = NoLeaf /\ x = "look"
         \/ op = "set" /\ x = "write"
         \/ op = "delete" /\ x = "remove"
         \/ op = "clear" /\ x = "dropOpen",
         task' = [task EXCEPT ![p] = Started(op, leaf, x, b)],
         UNCHANGED <<now, conf, auth, entry, wrote, mishaps, taint>>
  PROVE  IInv'
<1> DEFINE d == Started(op, leaf, x, b)
<1>1. Sound(d, auth, now, wrote)
  BY InvParts, StartedSound
<1>2. UNCHANGED <<now, conf, auth, entry, wrote>> /\ Works /\ taint' = taint
  BY DEF Works
<1>3. task' = [task EXCEPT ![p] = d]
  OBVIOUS
<1> HIDE DEF d
<1> QED
  BY <1>1, <1>2, <1>3, InvParts, QuietStep

\* A command begins.
LEMMA BeginInv == ASSUME IInv, NEW p \in Procs, Begin(p) PROVE IInv'
<1> DEFINE yes == TRUE
           no == FALSE
<1>1. task[p] = Idle
  <2>1. task[p] \in {Idle} \cup Tasks
    BY InvParts
  <2> QED
    BY <2>1, TaskFields DEF Begin, At
<1>2. UNCHANGED <<now, conf, auth, entry, wrote, mishaps, taint>>
  BY DEF Begin
<1>3. \/ \E values \in BOOLEAN : task' = [task EXCEPT ![p] = Started("get", NoLeaf, "look", values)]
      \/ \E leaf \in Stores \cup {NoLeaf} :
           \/ task' = [task EXCEPT ![p] = Started("set", leaf, "write", yes)]
           \/ task' = [task EXCEPT ![p] = Started("delete", leaf, "remove", no)]
      \/ task' = [task EXCEPT ![p] = Started("clear", NoLeaf, "dropOpen", no)]
  BY DEF Begin
<1>4. yes \in BOOLEAN /\ no \in BOOLEAN /\ NoLeaf \in Stores \cup {NoLeaf}
  OBVIOUS
<1> HIDE DEF yes, no
<1>5. ASSUME NEW values \in BOOLEAN, task' = [task EXCEPT ![p] = Started("get", NoLeaf, "look", values)]
      PROVE  IInv'
  BY <1>1, <1>2, <1>4, <1>5, RequestInv
<1>6. ASSUME NEW leaf \in Stores \cup {NoLeaf}, task' = [task EXCEPT ![p] = Started("set", leaf, "write", yes)]
      PROVE  IInv'
  BY <1>1, <1>2, <1>4, <1>6, RequestInv
<1>7. ASSUME NEW leaf \in Stores \cup {NoLeaf}, task' = [task EXCEPT ![p] = Started("delete", leaf, "remove", no)]
      PROVE  IInv'
  BY <1>1, <1>2, <1>4, <1>7, RequestInv
<1>8. ASSUME task' = [task EXCEPT ![p] = Started("clear", NoLeaf, "dropOpen", no)]
      PROVE  IInv'
  BY <1>1, <1>2, <1>4, <1>8, RequestInv
<1> QED
  BY <1>3, <1>5, <1>6, <1>7, <1>8

\* A command that goes on with what it has.
LEMMA ToSound ==
  ASSUME NEW t, NEW a, NEW n, NEW w, Sound(t, a, n, w), NEW x,
         \/ t.at = "look" /\ x = "read"
         \/ t.at = "open" /\ x = "check"
         \/ t.at = "dropOpen" /\ x = "dropCheck"
  PROVE  Sound(To(t, x), a, n, w) /\ To(t, x).changed = t.changed /\ To(t, x) # Idle
<1>0. t \in Tasks /\ Route(t) /\ Knows(t, a) /\ Carries(t, a, w) /\ Asked(t, n) /\ x \in Points \ {"idle"}
  BY DEF Sound, Points
<1> DEFINE d == To(t, x)
<1>1. /\ d \in Tasks /\ d.at = x /\ d.op = t.op /\ d.leaf = t.leaf
      /\ d.conf = t.conf /\ d.i = t.i /\ d.val = t.val /\ d.then = t.then
      /\ d.failed = t.failed /\ d.errors = t.errors /\ d.old = t.old
      /\ d.changed = t.changed /\ d.seen = t.seen /\ d # Idle
  BY <1>0, ToFields, TaskFields
<1>2. t.conf \in Configs
  BY <1>0, TaskFields
<1>3. 1 \in 1..Len(t.conf.sources)
  BY <1>2, SourceFacts
<1> HIDE DEF d
<1>4. Route(d)
  BY <1>0, <1>1, <1>3 DEF Route, Carrying
<1>5. Knows(d, a)
  <2>1. CASE x = "read"
    <3>1. d.i = 1
      BY <1>0, <1>1, <2>1 DEF Route
    <3> QED
      BY <2>1, <3>1, <1>1 DEF Knows, Carrying
  <2>2. CASE x = "check"
    BY <2>2, <1>0, <1>1 DEF Knows, Carrying
  <2>3. CASE x = "dropCheck"
    BY <2>3, <1>1 DEF Knows, Carrying
  <2> QED
    BY <2>1, <2>2, <2>3
<1>6. Carries(d, a, w) /\ Asked(d, n)
  BY <1>0, <1>1 DEF Carries, Asked, Carrying
<1> QED
  BY <1>1, <1>4, <1>5, <1>6 DEF Sound, d

\* A command that has asked whose the address is, and one that goes on from there.
LEMMA AsksSound ==
  ASSUME NEW t, NEW a, NEW n, NEW w, Sound(t, a, n, w), NEW x, NEW y, NEW z,
         \/ t.at = "look" /\ x = "dropCheck" /\ y = "read" /\ z = t.seen
         \/ /\ (t.at = "check" /\ x = "store") \/ (t.at = "dropCheck" /\ x = "drop")
            /\ y = t.then /\ (z = Unread \/ (z \in Entries /\ ~RefusedIn(z, n)))
         \/ t.then = "read" /\ x = "read" /\ y = "end" /\ z = Unasked
  PROVE  Sound(Asks(t, x, y, z), a, n, w) /\ Asks(t, x, y, z).changed = t.changed /\ Asks(t, x, y, z) # Idle
<1>0. t \in Tasks /\ Route(t) /\ Knows(t, a) /\ Carries(t, a, w) /\ Asked(t, n) /\ x \in Points \ {"idle"}
  BY DEF Sound, Points
<1>1. y \in {"end", "read"} /\ z \in Entries \cup {Unasked, Unread}
  BY <1>0, TaskFields
<1> DEFINE d == Asks(t, x, y, z)
<1>2. /\ d \in Tasks /\ d.at = x /\ d.op = t.op /\ d.leaf = t.leaf
      /\ d.conf = t.conf /\ d.i = t.i /\ d.val = t.val /\ d.then = y
      /\ d.failed = t.failed /\ d.errors = t.errors /\ d.old = t.old
      /\ d.changed = t.changed /\ d.seen = z /\ d # Idle
  BY <1>0, <1>1, AsksFields, TaskFields
<1>3. t.conf \in Configs
  BY <1>0, TaskFields
<1>4. 1 \in 1..Len(t.conf.sources)
  BY <1>3, SourceFacts
<1> HIDE DEF d
<1>5. CASE t.at = "look" /\ x = "dropCheck" /\ y = "read" /\ z = t.seen
  <2>1. Route(d) /\ Knows(d, a) /\ Carries(d, a, w) /\ Asked(d, n)
    BY <1>5, <1>0, <1>2 DEF Route, Knows, Carries, Asked, Carrying
  <2> QED
    BY <2>1, <1>2 DEF Sound, d
<1>6. CASE /\ (t.at = "check" /\ x = "store") \/ (t.at = "dropCheck" /\ x = "drop")
           /\ y = t.then /\ (z = Unread \/ (z \in Entries /\ ~RefusedIn(z, n)))
  <2>1. Route(d)
    BY <1>6, <1>0, <1>2 DEF Route, Carrying
  <2>2. Knows(d, a)
    BY <1>6, <1>0, <1>2 DEF Knows, Carrying
  <2>3. Carries(d, a, w) /\ Asked(d, n)
    BY <1>6, <1>0, <1>2 DEF Carries, Asked, Carrying
  <2> QED
    BY <2>1, <2>2, <2>3, <1>2 DEF Sound, d
<1>7. CASE t.then = "read" /\ x = "read" /\ y = "end" /\ z = Unasked
  <2>1. t.i = 1 /\ t.op = "get" /\ ~t.changed
    BY <1>7, <1>0 DEF Route
  <2>2. Route(d)
    BY <1>7, <2>1, <1>0, <1>2, <1>4 DEF Route, Carrying
  <2>3. Knows(d, a)
    BY <1>7, <2>1, <1>2 DEF Knows, Carrying
  <2>4. Carries(d, a, w) /\ Asked(d, n)
    BY <1>7, <1>2 DEF Carries, Asked, Carrying
  <2> QED
    BY <2>2, <2>3, <2>4, <1>2 DEF Sound, d
<1> QED
  BY <1>5, <1>6, <1>7

\* A command that is to remove the entry.
LEMMA DroppingSound ==
  ASSUME NEW t \in Tasks, Route(t), t.then = "end", NEW x \in {"dropOpen", "dropCheck"}, NEW a, NEW n, NEW w
  PROVE  Sound(Dropping(t, x), a, n, w) /\ Dropping(t, x).changed = t.changed /\ Dropping(t, x) # Idle
<1> DEFINE d == Dropping(t, x)
<1>0. x \in Points \ {"idle"}
  BY DEF Points
<1>1. /\ d \in Tasks /\ d.at = x /\ d.op = t.op /\ d.leaf = NoLeaf /\ d.then = t.then
      /\ d.changed = t.changed /\ d # Idle
  BY <1>0, DroppingFields, TaskFields
<1> HIDE DEF d
<1>2. Route(d) /\ Knows(d, a) /\ Carries(d, a, w) /\ Asked(d, n)
  BY <1>1 DEF Route, Knows, Carries, Asked, Carrying
<1> QED
  BY <1>1, <1>2 DEF Sound, d

\* Assignments to the fields of a command's locals, one after the other.
LEMMA GoesUpdate ==
  ASSUME NEW p \in Procs, task \in [Procs -> {Idle} \cup Tasks], task[p] \in Tasks, NEW x
  PROVE  [task EXCEPT ![p].at = x] = [task EXCEPT ![p] = To(task[p], x)]
BY DEF To

\* Where it goes and where it is to go on.
LEMMA EvictsUpdate ==
  ASSUME NEW p \in Procs, task \in [Procs -> {Idle} \cup Tasks], task[p] \in Tasks, NEW x, NEW y
  PROVE  [task EXCEPT ![p].at = x, ![p].then = y]
           = [task EXCEPT ![p] = Asks(task[p], x, y, task[p].seen)]
<1> DEFINE t == task[p]
<1>1. Asks(t, x, y, t.seen) = [[t EXCEPT !.at = x] EXCEPT !.then = y]
  BY DEF Asks, Tasks
<1>2. [task EXCEPT ![p].at = x, ![p].then = y]
        = [task EXCEPT ![p] = [[t EXCEPT !.at = x] EXCEPT !.then = y]]
  OBVIOUS
<1> QED
  BY <1>1, <1>2

\* read_cached_group.
LEMMA LookInv == ASSUME IInv, NEW p \in Procs, Look(p) PROVE IInv'
<1> DEFINE t == task[p]
<1>1. t.at = "look" /\ UNCHANGED <<now, conf, auth, entry, wrote>> /\ taint' = taint
  BY DEF Look, At
<1>2. Sound(t, auth, now, wrote) /\ t \in Tasks /\ Route(t) /\ t # Idle
  BY <1>1, Busy
<1>3. ~t.changed /\ taint' \subseteq Reasons
  BY <1>1, <1>2, InvParts DEF Route
<1>4. CASE LookServes(p)
  <2>1. task' = [task EXCEPT ![p] = Idle] /\ Works
    BY <1>4 DEF LookServes, Ends
  <2> HIDE DEF t
  <2> QED
    BY <2>1, <1>1, <1>3, QuietStep DEF t
<1>5. CASE LookEvicts(p)
  <2> DEFINE d == Asks(t, "dropCheck", "read", t.seen)
  <2>1. task' = [task EXCEPT ![p] = d] /\ Works
    BY <1>2, <1>5, InvParts, EvictsUpdate DEF LookEvicts
  <2>2. Sound(d, auth, now, wrote)
    BY <1>1, <1>2, AsksSound
  <2> HIDE DEF d, t
  <2> QED
    BY <2>1, <2>2, <1>1, <1>3, QuietStep DEF t
<1>6. CASE LookMisses(p) \/ LookFails(p)
  <2> DEFINE d == To(t, "read")
  <2>1. task' = [task EXCEPT ![p] = d] /\ (Works \/ Fails)
    BY <1>2, <1>6, InvParts, GoesUpdate DEF LookMisses, LookFails, StartsReading, Goes
  <2>2. Sound(d, auth, now, wrote)
    BY <1>1, <1>2, ToSound
  <2> HIDE DEF d, t
  <2> QED
    BY <2>1, <2>2, <1>1, <1>3, QuietStep DEF t
<1> QED
  BY <1>4, <1>5, <1>6 DEF Look

\* What a command knows that asked a source, when f is whether the primary
\* failed and e whether a fallback did.
Missed(t, a, f, e) ==
  /\ ~t.old /\ f = FALSE => a[t.conf.sources[1]].ver = 0
  /\ ~t.old /\ f = FALSE /\ e = FALSE => \A j \in 1..t.i : a[t.conf.sources[j]].ver = 0

\* A source has been asked, and the chain goes on or ends without a value.
LEMMA ChainSound ==
  ASSUME NEW t, NEW a, NEW n, NEW w, Sound(t, a, n, w), t.at = "read",
         NEW f \in BOOLEAN, NEW e \in BOOLEAN, NEW h \in BOOLEAN,
         Missed(t, a, f, e)
  PROVE  /\ t.i < Len(t.conf.sources) => Sound(Chains(t, t.i + 1, f, e, h), a, n, w)
         /\ f = FALSE => Sound(To(Chains(t, t.i, f, e, h), "write"), a, n, w)
<1>0. t \in Tasks /\ Route(t) /\ Knows(t, a) /\ Carries(t, a, w) /\ Asked(t, n)
  BY DEF Sound
<1>1. /\ t.i \in Nat \ {0} /\ t.conf \in Configs /\ ~t.changed /\ t.op = "get" /\ t.then = "end"
      /\ t.i \in 1..Len(t.conf.sources) /\ t.leaf = NoLeaf
  BY <1>0, TaskFields DEF Route
<1>2. Len(t.conf.sources) \in Nat
  BY <1>1, SourceFacts
<1>3. ASSUME t.i < Len(t.conf.sources) PROVE Sound(Chains(t, t.i + 1, f, e, h), a, n, w)
  <2> DEFINE m == t.i + 1
             d == Chains(t, m, f, e, h)
  <2>1. m \in Nat \ {0} /\ m \in 1..Len(t.conf.sources) /\ m - 1 = t.i /\ {f, e, h} \subseteq BOOLEAN
    BY <1>1, <1>2, <1>3
  <2> HIDE DEF m
  <2>2. /\ d \in Tasks /\ d.at = t.at /\ d.op = t.op /\ d.leaf = t.leaf /\ d.conf = t.conf /\ d.i = m
        /\ d.then = t.then /\ d.failed = f /\ d.errors = e /\ d.old = t.old /\ d.changed = t.changed
    BY <1>0, <2>1, ChainsFields
  <2> HIDE DEF d
  <2>3. Route(d)
    BY <1>1, <2>1, <2>2 DEF Route, Carrying
  <2>4. Knows(d, a)
    <3> SUFFICES ASSUME ~d.old, ~d.failed
                 PROVE  a[d.conf.sources[1]].ver = 0 /\ (~d.errors => \A j \in 1..(d.i - 1) : a[d.conf.sources[j]].ver = 0)
      BY <2>2 DEF Knows, Carrying
    <3>1. d.i - 1 = t.i
      BY <2>1, <2>2
    <3> QED
      BY <3>1, <2>2 DEF Missed
  <2>5. Carries(d, a, w) /\ Asked(d, n)
    BY <2>2 DEF Carries, Asked, Carrying
  <2> QED
    BY <2>2, <2>3, <2>4, <2>5 DEF Sound, d, m
<1>4. ASSUME f = FALSE PROVE Sound(To(Chains(t, t.i, f, e, h), "write"), a, n, w)
  <2> DEFINE u == Chains(t, t.i, f, e, h)
             d == To(u, "write")
  <2>1. /\ u \in Tasks /\ u.op = t.op /\ u.leaf = t.leaf /\ u.conf = t.conf
        /\ u.then = t.then /\ u.old = t.old /\ u.changed = t.changed
    BY <1>0, <1>1, ChainsFields
  <2> HIDE DEF u
  <2>2. "write" \in Points \ {"idle"}
    BY DEF Points
  <2>3. /\ d \in Tasks /\ d.at = "write" /\ d.op = t.op /\ d.leaf = t.leaf /\ d.conf = t.conf
        /\ d.then = t.then /\ d.old = t.old /\ d.changed = t.changed
    BY <2>1, <2>2, ToFields
  <2> HIDE DEF d
  <2>4. Route(d)
    BY <1>1, <2>3 DEF Route, Carrying
  <2>5. Knows(d, a)
    BY <1>4, <2>3 DEF Knows, Missed, Carrying
  <2>6. Carries(d, a, w) /\ Asked(d, n)
    BY <2>3 DEF Carries, Asked, Carrying
  <2> QED
    BY <2>3, <2>4, <2>5, <2>6 DEF Sound, d, u
<1> QED
  BY <1>3, <1>4

\* What becomes of a command whose source held nothing or failed.
LEMMA ReadsOnInv ==
  ASSUME IInv, NEW p \in Procs, task[p].at = "read", Works \/ Fails,
         UNCHANGED <<now, conf, auth, entry, wrote, taint>>,
         NEW f \in BOOLEAN, NEW e \in BOOLEAN, NEW h \in BOOLEAN,
         ReadsOn(p, Chains(task[p], task[p].i, f, e, h)), Missed(task[p], auth, f, e)
  PROVE  IInv'
<1> DEFINE t == task[p]
           u == Chains(t, t.i, f, e, h)
<1>1. Sound(t, auth, now, wrote) /\ t \in Tasks /\ Route(t) /\ t # Idle
  BY Busy
<1>2. ~t.changed /\ taint' \subseteq Reasons /\ taint' = taint /\ UNCHANGED <<now, conf, auth, entry, wrote>>
  BY <1>1, InvParts DEF Route
<1>3. t.i \in Nat \ {0}
  BY <1>1, TaskFields
<1>4. u \in Tasks /\ u.i = t.i /\ u.conf = t.conf /\ u.failed = f
  BY <1>1, <1>3, ChainsFields
<1>5. /\ t.i < Len(t.conf.sources) => Sound(Chains(t, t.i + 1, f, e, h), auth, now, wrote)
      /\ f = FALSE => Sound(To(u, "write"), auth, now, wrote)
  BY <1>1, ChainSound
<1>6. task' = [task EXCEPT ![p] = IF u.i < Len(u.conf.sources) THEN [u EXCEPT !.i = u.i + 1] ELSE AfterChain(u)]
  BY DEF ReadsOn
<1>7. [u EXCEPT !.i = u.i + 1] = Chains(t, t.i + 1, f, e, h)
  <2>1. u.i + 1 = t.i + 1
    BY <1>4
  <2>2. \A k : [u EXCEPT !.i = k] = Chains(t, k, f, e, h)
    BY <1>1 DEF Chains, Tasks
  <2> QED
    BY <2>1, <2>2
<1>8. AfterChain(u) = Idle \/ (f = FALSE /\ AfterChain(u) = To(u, "write"))
  BY <1>4 DEF AfterChain, ChainError, To
<1>9. PICK d : task' = [task EXCEPT ![p] = d] /\ (d = Idle \/ Sound(d, auth, now, wrote))
  <2> HIDE DEF u, t
  <2>1. CASE t.i < Len(t.conf.sources)
    BY <2>1, <1>4, <1>5, <1>6, <1>7
  <2>2. CASE ~(t.i < Len(t.conf.sources))
    BY <2>2, <1>4, <1>5, <1>6, <1>8
  <2> QED
    BY <2>1, <2>2
<1> HIDE DEF u
<1> QED
  BY <1>2, <1>9, QuietStep

\* The first source that holds a value gives it.
LEMMA HitSound ==
  ASSUME IInv, NEW p \in Procs, task[p].at = "read",
         auth[task[p].conf.sources[task[p].i]].ver # 0
  PROVE  Sound([Scoped(task[p]) EXCEPT !.val = auth[task[p].conf.sources[task[p].i]], !.at = "open"],
               auth, now, wrote)
<1> DEFINE t == task[p]
           src == t.conf.sources
           held == auth[src[t.i]]
           u == Scoped(t)
           o == u.old
           ch == u.changed
           d == Takes(u, "open", held, o, ch)
<1>1. t \in Tasks /\ Route(t) /\ Knows(t, auth)
  BY Busy
<1>2. /\ t.conf \in Configs /\ t.op = "get" /\ t.then = "end" /\ ~t.changed /\ t.i \in 1..Len(src)
      /\ t.old \in BOOLEAN /\ t.changed \in BOOLEAN
  BY <1>1, TaskFields DEF Route
<1>3. src \in Seq(Stores) /\ src[t.i] \in Stores
  BY <1>2, SourceFacts
<1>4. held \in Contents /\ held.ver # 0 /\ held.ver \in Nat
  BY <1>3, InvParts, ContentsFields
<1>5. /\ u \in Tasks /\ u.op = t.op /\ u.leaf = NoLeaf /\ u.conf = t.conf /\ u.then = t.then
      /\ u.failed = t.failed /\ u.errors = t.errors /\ u.old = t.old /\ u.changed = t.changed
  BY <1>1, ScopedFields
<1>6. [u EXCEPT !.val = held, !.at = "open"] = d
  BY <1>5 DEF Takes, Tasks
<1>7. "open" \in Points \ {"idle"} /\ o \in BOOLEAN /\ ch \in BOOLEAN /\ ~ch /\ o = t.old
  BY <1>2, <1>5 DEF Points
<1>8. held.ver <= wrote /\ \A s \in Stores : auth[s].ver = held.ver => auth[s].until = held.until
  BY <1>3, <1>4, InvParts DEF StoresInv
<1>9. ~t.old /\ ~t.failed /\ ~t.errors => held.ver = AnswerIn(auth, src)
  <2> SUFFICES ASSUME ~t.old, ~t.failed, ~t.errors PROVE held.ver = AnswerIn(auth, src)
    OBVIOUS
  <2>1. \A j \in 1..(t.i - 1) : auth[src[j]].ver = 0
    BY <1>1 DEF Knows
  <2> DEFINE i == t.i
  <2>2. i \in 1..Len(src) /\ auth[src[i]].ver # 0 /\ \A j \in 1..(i - 1) : auth[src[j]].ver = 0
    BY <1>2, <1>4, <2>1
  <2> HIDE DEF i, src
  <2>3. AnswerIn(auth, src) = auth[src[i]].ver
    BY <1>3, <2>2, FirstAnswers
  <2> QED
    BY <2>3 DEF i
<1> HIDE DEF u, o, ch, held
<1>10. /\ d \in Tasks /\ d.at = "open" /\ d.op = u.op /\ d.leaf = u.leaf /\ d.conf = u.conf
       /\ d.val = held /\ d.then = u.then /\ d.failed = u.failed /\ d.errors = u.errors
       /\ d.old = o /\ d.changed = ch
  BY <1>4, <1>5, <1>7, TakesFields
<1> HIDE DEF d
<1>11. Route(d)
  BY <1>2, <1>4, <1>5, <1>7, <1>10 DEF Route, Carrying
<1>12. Knows(d, auth)
  <2> SUFFICES ASSUME ~d.old, ~d.failed, ~d.errors PROVE d.val.ver = AnswerIn(auth, d.conf.sources)
    BY <1>2, <1>5, <1>10 DEF Knows
  <2> QED
    BY <1>5, <1>7, <1>9, <1>10
<1>13. Carries(d, auth, wrote) /\ Asked(d, now)
  BY <1>8, <1>10 DEF Carries, Asked
<1>14. Sound(d, auth, now, wrote)
  BY <1>10, <1>11, <1>12, <1>13 DEF Sound
<1> QED
  BY <1>6, <1>14 DEF u, held

\* The authoritative read.
LEMMA ReadInv == ASSUME IInv, NEW p \in Procs, Read(p) PROVE IInv'
<1> DEFINE t == task[p]
<1>1. t.at = "read" /\ UNCHANGED <<now, conf, auth, entry, wrote, taint>>
  BY DEF Read, At
<1>2. Sound(t, auth, now, wrote) /\ t \in Tasks /\ Route(t) /\ t # Idle /\ Knows(t, auth)
  BY <1>1, Busy
<1>3. ~t.changed /\ taint' \subseteq Reasons /\ taint' = taint /\ UNCHANGED <<now, conf, auth, entry, wrote>>
  BY <1>1, <1>2, InvParts DEF Route
<1>4. /\ t.failed \in BOOLEAN /\ t.errors \in BOOLEAN /\ t.healthy \in BOOLEAN /\ t.i \in Nat \ {0}
      /\ t.i \in 1..Len(t.conf.sources)
  BY <1>1, <1>2, TaskFields DEF Route
<1>5. CASE ReadHit(p)
  <2> DEFINE u == [Scoped(t) EXCEPT !.val = auth[t.conf.sources[t.i]], !.at = "open"]
             d == IF t.values THEN u ELSE Idle
  <2>1. task' = [task EXCEPT ![p] = d] /\ Works /\ auth[t.conf.sources[t.i]].ver # 0
    BY <1>5 DEF ReadHit
  <2>2. Sound(u, auth, now, wrote)
    BY <2>1, <1>1, HitSound
  <2> HIDE DEF u
  <2>3. d = Idle \/ Sound(d, auth, now, wrote)
    BY <2>2
  <2> HIDE DEF d
  <2> QED
    BY <2>1, <2>3, <1>3, QuietStep
<1>6. CASE ReadMiss(p)
  <2> DEFINE f == t.failed
             e == t.errors
             h == t.healthy \/ t.i > 1
  <2>1. Works /\ auth[t.conf.sources[t.i]].ver = 0 /\ ReadsOn(p, [t EXCEPT !.healthy = h])
    BY <1>6 DEF ReadMiss
  <2>2. [t EXCEPT !.healthy = h] = Chains(t, t.i, f, e, h)
    <3> HIDE DEF h
    <3> QED
      BY <1>2 DEF Chains, Tasks
  <2>3. f \in BOOLEAN /\ e \in BOOLEAN /\ h \in BOOLEAN
    BY <1>4
  <2>4. ~t.old /\ f = FALSE => auth[t.conf.sources[1]].ver = 0
    <3>1. CASE t.i = 1
      BY <3>1, <2>1
    <3>2. CASE t.i # 1
      <4>1. t.i > 1
        BY <3>2, <1>4
      <4> QED
        BY <4>1, <1>1, <1>2 DEF Knows
    <3> QED
      BY <3>1, <3>2
  <2>5. ~t.old /\ f = FALSE /\ e = FALSE => \A j \in 1..t.i : auth[t.conf.sources[j]].ver = 0
    <3> SUFFICES ASSUME ~t.old, ~f, ~e, NEW j \in 1..t.i PROVE auth[t.conf.sources[j]].ver = 0
      OBVIOUS
    <3>1. j = t.i \/ j \in 1..(t.i - 1)
      BY <1>4
    <3>2. \A k \in 1..(t.i - 1) : auth[t.conf.sources[k]].ver = 0
      BY <1>1, <1>2 DEF Knows
    <3> QED
      BY <3>1, <3>2, <2>1
  <2>6. Missed(t, auth, f, e)
    BY <2>4, <2>5 DEF Missed
  <2>7. ReadsOn(p, Chains(t, t.i, f, e, h)) /\ (Works \/ Fails)
    BY <2>1, <2>2
  <2> HIDE DEF f, e, h
  <2> QED
    BY <2>3, <2>6, <2>7, <1>1, ReadsOnInv
<1>7. CASE ReadFails(p)
  <2> DEFINE f == t.failed \/ t.i = 1
             e == t.errors \/ t.i > 1
             h == t.healthy
  <2>1. Fails /\ ReadsOn(p, [t EXCEPT !.failed = f, !.errors = e])
    BY <1>7 DEF ReadFails
  <2>2. [t EXCEPT !.failed = f, !.errors = e] = Chains(t, t.i, f, e, h)
    <3> HIDE DEF f, e
    <3> QED
      BY <1>2 DEF Chains, Tasks
  <2>3. f \in BOOLEAN /\ e \in BOOLEAN /\ h \in BOOLEAN
    BY <1>4
  <2>4. ~t.old /\ f = FALSE => auth[t.conf.sources[1]].ver = 0
    <3> SUFFICES ASSUME ~t.old, ~f PROVE auth[t.conf.sources[1]].ver = 0
      OBVIOUS
    <3>1. t.i > 1 /\ ~t.failed
      BY <1>4
    <3> QED
      BY <3>1, <1>1, <1>2 DEF Knows
  <2>5. ~(f = FALSE /\ e = FALSE)
    BY <1>4
  <2>6. Missed(t, auth, f, e)
    BY <2>4, <2>5 DEF Missed
  <2>7. ReadsOn(p, Chains(t, t.i, f, e, h)) /\ (Works \/ Fails)
    BY <2>1, <2>2
  <2> HIDE DEF f, e, h
  <2> QED
    BY <2>3, <2>6, <2>7, <1>1, ReadsOnInv
<1> QED
  BY <1>5, <1>6, <1>7 DEF Read

\* write_cached_secret builds the provider.
LEMMA OpenInv == ASSUME IInv, NEW p \in Procs, Open(p) PROVE IInv'
<1> DEFINE t == task[p]
<1>1. t.at = "open" /\ UNCHANGED <<now, conf, auth, entry, wrote>> /\ taint' = taint /\ taint' \subseteq Reasons
  BY InvParts DEF Open, At
<1>2. Sound(t, auth, now, wrote) /\ t \in Tasks /\ Route(t) /\ t # Idle
  BY <1>1, Busy
<1>3. t.then = "end"
  BY <1>1, <1>2, TaskFields DEF Route
<1>4. CASE Works /\ Goes(p, "check")
  <2> DEFINE d == To(t, "check")
  <2>1. task' = [task EXCEPT ![p] = d]
    BY <1>2, <1>4, InvParts, GoesUpdate DEF Goes
  <2>2. Sound(d, auth, now, wrote) /\ d.changed = t.changed /\ d # Idle
    BY <1>1, <1>2, ToSound
  <2> HIDE DEF d
  <2> QED
    BY <2>1, <2>2, <1>1, <1>4, QuietStep
<1>5. CASE Fails /\ GoesToDrop(p, "dropOpen")
  <2> DEFINE d == Dropping(t, "dropOpen")
  <2>1. task' = [task EXCEPT ![p] = d]
    BY <1>5 DEF GoesToDrop
  <2>2. Sound(d, auth, now, wrote) /\ d.changed = t.changed /\ d # Idle
    BY <1>2, <1>3, DroppingSound
  <2> HIDE DEF d
  <2> QED
    BY <2>1, <2>2, <1>1, <1>5, QuietStep
<1> QED
  BY <1>4, <1>5 DEF Open

\* check_cache_address_is_ours lets the command go on.
LEMMA SeesInv ==
  ASSUME IInv, NEW p \in Procs, NEW x, Sees(p, x),
         (task[p].at = "check" /\ x = "store") \/ (task[p].at = "dropCheck" /\ x = "drop"),
         UNCHANGED <<now, conf, auth, entry, wrote, taint>>
  PROVE  IInv'
<1> DEFINE t == task[p]
<1>1. UNCHANGED <<now, conf, auth, entry, wrote>> /\ taint' = taint /\ taint' \subseteq Reasons
  BY InvParts
<1>2. Sound(t, auth, now, wrote) /\ t \in Tasks /\ t # Idle
  BY Busy
<1>3. PICK z : /\ task' = [task EXCEPT ![p].at = x, ![p].seen = z] /\ (Works \/ Fails)
               /\ z = Unread \/ (z \in Entries /\ ~RefusedIn(z, now))
  <2>1. CASE Works /\ ~Refused(entry) /\ task' = [task EXCEPT ![p].at = x, ![p].seen = entry]
    <3>1. entry \in Entries /\ ~RefusedIn(entry, now)
      BY <2>1, InvParts, RefusedIs
    <3> QED
      BY <2>1, <3>1
  <2>2. CASE Fails /\ task' = [task EXCEPT ![p].at = x, ![p].seen = Unread]
    BY <2>2
  <2> QED
    BY <2>1, <2>2 DEF Sees
<1> DEFINE y == t.then
           d == Asks(t, x, y, z)
<1>4. task' = [task EXCEPT ![p] = d]
  <2>1. Asks(t, x, t.then, z) = [[t EXCEPT !.at = x] EXCEPT !.seen = z]
    BY <1>2 DEF Asks, Tasks
  <2>2. [task EXCEPT ![p].at = x, ![p].seen = z] = [task EXCEPT ![p] = [[t EXCEPT !.at = x] EXCEPT !.seen = z]]
    OBVIOUS
  <2> QED
    BY <1>3, <2>1, <2>2
<1>5. y = t.then
  OBVIOUS
<1>6. (t.at = "check" /\ x = "store") \/ (t.at = "dropCheck" /\ x = "drop")
  OBVIOUS
<1>7. z = Unread \/ (z \in Entries /\ ~RefusedIn(z, now))
  BY <1>3
<1> HIDE DEF y, t
<1>8. Sound(d, auth, now, wrote) /\ d.changed = t.changed /\ d # Idle
  BY <1>2, <1>5, <1>6, <1>7, AsksSound
<1> HIDE DEF d
<1> QED
  BY <1>1, <1>3, <1>4, <1>8, QuietStep DEF t

\* A warning is a reason, unless the command is `cache clear`, which changed nothing.
LEMMA WarnedReason ==
  ASSUME IInv, NEW p \in Procs, task[p].at # "idle", Warned(p)
  PROVE  taint' \subseteq Reasons /\ taint \subseteq taint' /\ (task[p].changed => taint' # {})
<1>1. Route(task[p])
  BY Busy
<1>2. taint \subseteq Reasons
  BY InvParts
<1>3. taint' = taint \cup (IF task[p].op = "clear" THEN {} ELSE {"warned"})
  BY DEF Warned
<1>4. task[p].changed => task[p].op # "clear"
  BY <1>1 DEF Route
<1>5. CASE task[p].op = "clear"
  BY <1>2, <1>3, <1>4, <1>5
<1>6. CASE task[p].op # "clear"
  BY <1>2, <1>3, <1>6 DEF Reasons
<1> QED
  BY <1>5, <1>6

\* The check before a refresh.
LEMMA CheckInv == ASSUME IInv, NEW p \in Procs, Check(p) PROVE IInv'
<1>1. task[p].at = "check" /\ UNCHANGED <<now, conf, auth, entry, wrote>>
  BY DEF Check, At
<1>2. CASE Sees(p, "store") /\ UNCHANGED taint
  <2>1. UNCHANGED <<now, conf, auth, entry, wrote, taint>>
    BY <1>1, <1>2
  <2> QED
    BY <1>1, <1>2, <2>1, SeesInv
<1>3. CASE Works /\ Refused(entry) /\ Warned(p) /\ Ends(p)
  <2>1. taint' \subseteq Reasons /\ taint \subseteq taint' /\ (task[p].changed => taint' # {})
    BY <1>1, <1>3, WarnedReason
  <2>2. task' = [task EXCEPT ![p] = Idle]
    BY <1>3 DEF Ends
  <2> QED
    BY <1>1, <1>3, <2>1, <2>2, QuietStep
<1>4. (Sees(p, "store") /\ UNCHANGED taint) \/ (Works /\ Refused(entry) /\ Warned(p) /\ Ends(p))
  BY DEF Check
<1> QED
  BY <1>2, <1>3, <1>4

\* What a command does that is done with the removal.
LEMMA AfterDropSound ==
  ASSUME IInv, NEW p \in Procs, task[p].at # "idle", AfterDrop(p)
  PROVE  \E d : /\ task' = [task EXCEPT ![p] = d] /\ (d = Idle \/ Sound(d, auth, now, wrote))
                /\ task[p].then = "read" => ~task[p].changed
<1> DEFINE t == task[p]
<1>1. Sound(t, auth, now, wrote) /\ t \in Tasks /\ t # Idle /\ Route(t)
  BY Busy
<1>2. t.then = "read" => ~t.changed
  BY <1>1 DEF Route
<1>3. CASE t.then = "read"
  <2> DEFINE d == Asks(t, "read", "end", Unasked)
  <2>1. task' = [task EXCEPT ![p] = d]
    <3>1. d = [[[t EXCEPT !.at = "read"] EXCEPT !.then = "end"] EXCEPT !.seen = Unasked]
      BY <1>1 DEF Asks, Tasks
    <3>2. [task EXCEPT ![p].at = "read", ![p].then = "end", ![p].seen = Unasked]
            = [task EXCEPT ![p] = [[[t EXCEPT !.at = "read"] EXCEPT !.then = "end"] EXCEPT !.seen = Unasked]]
      OBVIOUS
    <3>3. task' = [task EXCEPT ![p].at = "read", ![p].then = "end", ![p].seen = Unasked]
      BY <1>3 DEF AfterDrop
    <3> QED
      BY <3>1, <3>2, <3>3
  <2>2. Sound(d, auth, now, wrote)
    <3> HIDE DEF t
    <3> QED
      BY <1>1, <1>3, AsksSound
  <2> HIDE DEF d
  <2> QED
    BY <2>1, <2>2, <1>2
<1>4. CASE t.then # "read"
  <2>1. task' = [task EXCEPT ![p] = Idle]
    BY <1>4 DEF AfterDrop, Ends
  <2> QED
    BY <2>1, <1>2
<1> QED
  BY <1>3, <1>4

\* A removal that is given up.
LEMMA GivesUpInv ==
  ASSUME IInv, NEW p \in Procs, task[p].at # "idle", GivesUp(p), Works \/ Fails,
         UNCHANGED <<now, conf, auth, entry, wrote>>
  PROVE  IInv'
<1>1. AfterDrop(p)
  BY DEF GivesUp
<1>2. PICK d : /\ task' = [task EXCEPT ![p] = d] /\ (d = Idle \/ Sound(d, auth, now, wrote))
               /\ task[p].then = "read" => ~task[p].changed
  BY <1>1, AfterDropSound
<1>3. taint' \subseteq Reasons /\ taint \subseteq taint' /\ (task[p].changed => taint' # {})
  <2>1. CASE task[p].then = "read"
    BY <2>1, <1>2, InvParts DEF GivesUp
  <2>2. CASE task[p].then # "read"
    <3>1. Warned(p)
      BY <2>2 DEF GivesUp
    <3> QED
      BY <3>1, WarnedReason
  <2> QED
    BY <2>1, <2>2
<1> QED
  BY <1>2, <1>3, QuietStep

\* The provider of the cache is built for a removal.
LEMMA DropOpenInv == ASSUME IInv, NEW p \in Procs, DropOpen(p) PROVE IInv'
<1> DEFINE t == task[p]
<1>1. t.at = "dropOpen" /\ UNCHANGED <<now, conf, auth, entry, wrote>>
  BY DEF DropOpen, At
<1>2. Sound(t, auth, now, wrote) /\ t \in Tasks /\ t # Idle
  BY <1>1, Busy
<1>3. CASE Works /\ Goes(p, "dropCheck") /\ UNCHANGED taint
  <2> DEFINE d == To(t, "dropCheck")
  <2>1. task' = [task EXCEPT ![p] = d]
    BY <1>2, <1>3, InvParts, GoesUpdate DEF Goes
  <2>2. Sound(d, auth, now, wrote) /\ d.changed = t.changed /\ d # Idle
    BY <1>1, <1>2, ToSound
  <2>3. taint' = taint /\ taint' \subseteq Reasons
    BY <1>3, InvParts
  <2> HIDE DEF d
  <2> QED
    BY <2>1, <2>2, <2>3, <1>1, <1>3, QuietStep
<1>4. CASE Fails /\ GivesUp(p)
  BY <1>1, <1>4, GivesUpInv
<1> QED
  BY <1>3, <1>4 DEF DropOpen

\* The check before a removal.
LEMMA DropCheckInv == ASSUME IInv, NEW p \in Procs, DropCheck(p) PROVE IInv'
<1>1. task[p].at = "dropCheck" /\ UNCHANGED <<now, conf, auth, entry, wrote>>
  BY DEF DropCheck, At
<1>2. CASE DropChecked(p)
  BY <1>1, <1>2, SeesInv DEF DropChecked
<1>3. CASE Works /\ Refused(entry) /\ GivesUp(p)
  BY <1>1, <1>3, GivesUpInv
<1> QED
  BY <1>2, <1>3 DEF DropCheck

\* An address that holds nothing of Monosecret's owes nothing.
LEMMA NotMine ==
  ASSUME NEW e, ~Mine(e)
  PROVE  /\ \A a, ts, reasons, w : Current(e, a, ts, reasons) /\ Dated(e, a, w)
         /\ \A n : Timed(e, n)
BY DEF Mine, Current, Dated, Timed

\* delete_cache_entry.
LEMMA DropInv == ASSUME IInv, NEW p \in Procs, Drop(p) PROVE IInv'
<1>1. task[p].at = "drop" /\ UNCHANGED <<now, conf, auth, wrote>>
  BY DEF Drop, At
<1>2. CASE Works /\ entry' = NoEntry /\ taint' = {} /\ AfterDrop(p)
  <2>1. PICK d : task' = [task EXCEPT ![p] = d] /\ (d = Idle \/ Sound(d, auth, now, wrote))
    BY <1>1, <1>2, AfterDropSound
  <2>2. ~Mine(NoEntry) /\ NoEntry \in Entries
    BY DEF Mine, NoEntry, Entries
  <2>3. /\ entry' \in Entries /\ Current(entry', auth, task', taint') /\ Dated(entry', auth, wrote)
        /\ Timed(entry', now)
    BY <1>2, <2>2, NotMine
  <2> QED
    BY <1>1, <1>2, <2>1, <2>3, OneStep
<1>3. CASE Fails /\ GivesUp(p) /\ UNCHANGED entry
  BY <1>1, <1>3, GivesUpInv
<1> QED
  BY <1>2, <1>3 DEF Drop

\* A command is killed.
LEMMA CrashInv == ASSUME IInv, NEW p \in Procs, Crash(p) PROVE IInv'
<1>1. task' = [task EXCEPT ![p] = Idle] /\ UNCHANGED <<now, conf, auth, entry, wrote>> /\ Fails
  BY DEF Crash, Ends
<1>2. taint' = taint \cup (IF task[p].changed THEN {"crash"} ELSE {})
  BY DEF Crash
<1>3. taint \subseteq taint' /\ taint' \subseteq Reasons /\ (task[p].changed => taint' # {})
  BY <1>2, InvParts DEF Reasons
<1> QED
  BY <1>1, <1>3, QuietStep

----------------------------------------------------------------------------
(* The entry *)

\* Whole seconds of an expiry.
LEMMA WholeSeconds ==
  ASSUME NEW x \in Nat
  PROVE  /\ x \div Milli \in Nat
         /\ \A n \in Nat : n < x \div Milli => n * Milli + Milli - 1 < x
<1>1. Milli \in Nat \ {0}
  BY CacheAssumption
<1> DEFINE q == x \div Milli
<1>2. q \in Nat /\ q * Milli <= x
  BY <1>1
<1> HIDE DEF q
<1>3. ASSUME NEW n \in Nat, n < q PROVE n * Milli + Milli - 1 < x
  <2>1. n + 1 <= q
    BY <1>2, <1>3
  <2>2. (n + 1) * Milli <= q * Milli
    BY <1>1, <1>2, <2>1
  <2>3. (n + 1) * Milli = n * Milli + Milli
    BY <1>1
  <2>4. n * Milli \in Nat /\ q * Milli \in Nat
    BY <1>1, <1>2
  <2> QED
    BY <1>1, <1>2, <2>2, <2>3, <2>4
<1> QED
  BY <1>2, <1>3 DEF q

\* What is stored.
LEMMA EncodedFields ==
  ASSUME NEW v \in Contents, NEW c \in Configs, now \in Nat
  PROVE  /\ Encoded(v, c) \in Entries /\ Encoded(v, c).kind = "v4" /\ Encoded(v, c).fp = c.sources
         /\ Encoded(v, c).src = c.sources /\ Encoded(v, c).ver = v.ver /\ Encoded(v, c).until = v.until
         /\ v.until # 0 => Encoded(v, c).expires <= v.until \div Milli
         /\ Timed(Encoded(v, c), now)
<1> DEFINE x == IF v.until # 0 /\ v.until \div Milli < now + c.maxAge THEN v.until \div Milli ELSE now + c.maxAge
           yes == TRUE
           e == [kind |-> "v4", mine |-> yes, age |-> c.maxAge, fp |-> Fingerprint(c),
                 until |-> v.until, ver |-> v.ver, src |-> c.sources, made |-> now, expires |-> x]
<1>1. v.ver \in 0..MaxWrites /\ v.until \in Expiries /\ v.until \in Nat /\ c.maxAge \in Nat
  BY ContentsFields, SourceFacts
<1>2. v.until \div Milli \in Nat
  BY <1>1, WholeSeconds
<1>3. x \in Nat /\ (v.until # 0 => x <= v.until \div Milli) /\ x <= now + c.maxAge
  BY <1>1, <1>2
<1>4. Encoded(v, c) = e
  BY DEF Encoded
<1>5. Fingerprint(c) = c.sources /\ yes \in BOOLEAN
  BY DEF Fingerprint
<1> HIDE DEF x, yes
<1>6. e \in Envelopes
  BY <1>1, <1>3, <1>5 DEF Envelopes
<1>7. Timed(e, now)
  BY <1>3 DEF Timed
<1> QED
  BY <1>3, <1>4, <1>5, <1>6, <1>7 DEF Entries

\* A value that is stored is current and has its expiry.
LEMMA StoredEntry ==
  ASSUME IInv, NEW p \in Procs, task[p].at = "store"
  PROVE  /\ Encoded(task[p].val, task[p].conf) \in Entries
         /\ Dated(Encoded(task[p].val, task[p].conf), auth, wrote)
         /\ Timed(Encoded(task[p].val, task[p].conf), now)
         /\ StoredTaint(task[p]) \subseteq Reasons
         /\ \A ts : Current(Encoded(task[p].val, task[p].conf), auth, ts, StoredTaint(task[p]))
<1> DEFINE t == task[p]
           e == Encoded(t.val, t.conf)
           r == StoredTaint(t)
<1>1. t \in Tasks /\ Route(t) /\ Knows(t, auth) /\ Carries(t, auth, wrote)
  BY Busy
<1>2. t.val \in Contents /\ t.conf \in Configs /\ t.val.ver # 0 /\ now \in Nat
  BY <1>1, TaskFields, InvParts DEF Route, Carrying
<1>3. /\ e \in Entries /\ e.kind = "v4" /\ e.fp = t.conf.sources /\ e.src = t.conf.sources
      /\ e.ver = t.val.ver /\ e.until = t.val.until
      /\ t.val.until # 0 => e.expires <= t.val.until \div Milli
      /\ Timed(e, now)
  BY <1>2, EncodedFields
<1>4. r = {} => ~t.old /\ (t.op = "get" => ~t.failed /\ ~t.errors)
  BY DEF StoredTaint
<1>5. r \subseteq Reasons
  BY DEF StoredTaint, Reasons
<1>6. r = {} => t.val.ver = AnswerIn(auth, t.conf.sources)
  BY <1>1, <1>4 DEF Knows, Carrying
<1> HIDE DEF e, r
<1>7. Dated(e, auth, wrote)
  BY <1>1, <1>2, <1>3 DEF Dated, Carries, Carrying
<1>8. \A ts : Current(e, auth, ts, r)
  BY <1>3, <1>6 DEF Current
<1> QED
  BY <1>3, <1>5, <1>7, <1>8 DEF e, r

\* write_cached_secret stores.
LEMMA StoreInv == ASSUME IInv, NEW p \in Procs, Store(p) PROVE IInv'
<1> DEFINE t == task[p]
           e == Encoded(t.val, t.conf)
           r == StoredTaint(t)
           d == Dropping(t, "dropCheck")
<1>1. t.at = "store" /\ UNCHANGED <<now, conf, auth, wrote>>
  BY DEF Store, At
<1>2. t \in Tasks /\ Route(t) /\ t # Idle
  BY <1>1, Busy
<1>3. t.then = "end"
  BY <1>1, <1>2, TaskFields DEF Route
<1>4. /\ e \in Entries /\ Dated(e, auth, wrote) /\ r \subseteq Reasons /\ \A ts : Current(e, auth, ts, r)
      /\ Timed(e, now)
  BY <1>1, StoredEntry
<1>5. Sound(d, auth, now, wrote) /\ d.changed = t.changed /\ d # Idle
  BY <1>2, <1>3, DroppingSound
<1>6. ~Mine(Damaged) /\ Damaged \in Entries
  BY DEF Mine, Damaged, Entries
<1>7. CASE StoreOk(p)
  <2>1. entry' = e /\ taint' = r /\ task' = [task EXCEPT ![p] = Idle] /\ Works
    BY <1>7 DEF StoreOk, Ends
  <2> HIDE DEF e, r
  <2> QED
    BY <2>1, <1>1, <1>4, OneStep
<1>8. ASSUME UNCHANGED <<entry, taint>>, task' = [task EXCEPT ![p] = d], Works \/ Fails PROVE IInv'
  <2>1. UNCHANGED <<now, conf, auth, entry, wrote>> /\ taint' = taint /\ taint' \subseteq Reasons
    BY <1>1, <1>8, InvParts
  <2> HIDE DEF d
  <2> QED
    BY <2>1, <1>5, <1>8, QuietStep
<1>9. CASE StoreExpired(p)
  BY <1>8, <1>9 DEF StoreExpired, GoesToDrop
<1>10. CASE StoreFails(p)
  <2>1. Fails /\ task' = [task EXCEPT ![p] = d]
    BY <1>10 DEF StoreFails, GoesToDrop
  <2>2. CASE UNCHANGED <<entry, taint>>
    BY <2>1, <2>2, <1>8
  <2>3. CASE entry' = Damaged /\ taint' = {}
    <3>1. /\ entry' \in Entries /\ Dated(entry', auth, wrote) /\ Current(entry', auth, task', taint')
          /\ Timed(entry', now)
      BY <2>3, <1>6, NotMine
    <3> HIDE DEF d
    <3> QED
      BY <3>1, <2>1, <2>3, <1>1, <1>5, OneStep
  <2>4. CASE entry' = e /\ taint' = r
    <3> HIDE DEF d, e, r
    <3> QED
      BY <2>1, <2>4, <1>1, <1>4, <1>5, OneStep
  <2> QED
    BY <2>2, <2>3, <2>4, <1>10 DEF StoreFails
<1> QED
  BY <1>7, <1>9, <1>10 DEF Store

----------------------------------------------------------------------------
(* The stores *)

\* One command has changed a store and the others are old.
LEMMA ChangesInv ==
  ASSUME IInv, NEW p \in Procs, NEW s \in Stores, NEW c, Renewed(c, wrote, wrote'), wrote' \in 0..MaxWrites,
         auth' = [auth EXCEPT ![s] = c], UNCHANGED <<now, conf, entry>>, Works \/ Fails,
         taint' \subseteq Reasons, NEW d, task' = [Aged(s) EXCEPT ![p] = d],
         d = Idle \/ Sound(d, auth', now, wrote'), taint' # {} \/ (d # Idle /\ d.changed)
  PROVE  IInv'
<1> DEFINE b == auth'
           x == wrote'
<1>1. x \in Nat /\ Renewed(c, wrote, x) /\ b = [auth EXCEPT ![s] = c]
  OBVIOUS
<1>2. d \in {Idle} \cup Tasks
  BY DEF Sound
<1> HIDE DEF x
<1>3. Aged(s) \in [Procs -> {Idle} \cup Tasks] /\ SoundAll(Aged(s), [auth EXCEPT ![s] = c], now, x)
  BY <1>1, AgedOthers
<1> DEFINE ts == Aged(s)
<1>4. ts \in [Procs -> {Idle} \cup Tasks] /\ SoundAll(ts, b, now, x) /\ task' = [ts EXCEPT ![p] = d]
  BY <1>1, <1>3
<1> HIDE DEF ts
<1>5. /\ task' \in [Procs -> {Idle} \cup Tasks]
      /\ \A q \in Procs : task'[q] = IF q = p THEN d ELSE ts[q]
  <2>1. /\ [ts EXCEPT ![p] = d] \in [Procs -> {Idle} \cup Tasks]
        /\ \A q \in Procs : [ts EXCEPT ![p] = d][q] = IF q = p THEN d ELSE ts[q]
    BY <1>2, <1>4
  <2> QED
    BY <1>4, <2>1
<1>6. SoundAll(task', b, now, x)
  <2> SUFFICES ASSUME NEW q \in Procs PROVE task'[q] = Idle \/ Sound(task'[q], b, now, x)
    BY DEF SoundAll
  <2>1. CASE q = p
    BY <2>1, <1>5 DEF x
  <2>2. CASE q # p
    BY <2>2, <1>4, <1>5 DEF SoundAll
  <2> QED
    BY <2>1, <2>2
<1>7. taint' # {} \/ Changing(task')
  BY <1>5 DEF Changing
<1>8. SoundAll(task', auth', now, wrote')
  BY <1>6 DEF x
<1>9. task' \in [Procs -> {Idle} \cup Tasks]
  BY <1>5
<1> HIDE DEF b
<1> QED
  BY <1>7, <1>8, <1>9, ChangeStep

\* A command marked as having changed a store.
Marks(t, c) == [t EXCEPT !.changed = c]
\* It changes those fields, and every other field of the command is as it was.
LEMMA MarksFields ==
  ASSUME NEW t \in Tasks, NEW c \in BOOLEAN
  PROVE  /\ Marks(t, c) \in Tasks /\ Marks(t, c).at = t.at /\ Marks(t, c).op = t.op
         /\ Marks(t, c).leaf = t.leaf /\ Marks(t, c).then = t.then /\ Marks(t, c).changed = c
BY DEF Tasks, Marks

\* After a change that is not cached the entry is to be removed.
LEMMA MarkedSound ==
  ASSUME NEW t \in Tasks, Route(t), t.then = "end", t.op # "clear", NEW a, NEW n, NEW w
  PROVE  /\ Sound([Dropping(t, "dropOpen") EXCEPT !.changed = TRUE], a, n, w)
         /\ [Dropping(t, "dropOpen") EXCEPT !.changed = TRUE] # Idle
         /\ [Dropping(t, "dropOpen") EXCEPT !.changed = TRUE].changed
<1> DEFINE u == Dropping(t, "dropOpen")
           yes == TRUE
           d == Marks(u, yes)
<1>0. "dropOpen" \in Points \ {"idle"}
  BY DEF Points
<1>1. u \in Tasks /\ u.at = "dropOpen" /\ u.op = t.op /\ u.leaf = NoLeaf /\ u.then = t.then
  BY <1>0, DroppingFields
<1>2. yes \in BOOLEAN /\ yes /\ [u EXCEPT !.changed = TRUE] = d
  BY DEF Marks
<1> HIDE DEF u, yes
<1>3. /\ d \in Tasks /\ d.at = u.at /\ d.op = u.op /\ d.leaf = u.leaf /\ d.then = u.then /\ d.changed = yes
      /\ d # Idle
  BY <1>1, <1>2, MarksFields, TaskFields
<1> HIDE DEF d
<1>4. Route(d) /\ Knows(d, a) /\ Carries(d, a, w) /\ Asked(d, n)
  BY <1>1, <1>3 DEF Route, Knows, Carries, Asked, Carrying
<1> QED
  BY <1>2, <1>3, <1>4 DEF Sound, u

\* The store that a command writes to or deletes from.
LEMMA TargetStore ==
  ASSUME IInv, NEW p \in Procs, task[p].at # "idle"
  PROVE  Target(p) \in Stores /\ (task[p].leaf = NoLeaf => Target(p) = task[p].conf.sources[1])
<1>1. task[p].leaf \in Stores \cup {NoLeaf} /\ task[p].conf \in Configs
  BY Busy, TaskFields
<1>2. task[p].conf.sources[1] \in Stores
  BY <1>1, SourceFacts
<1> QED
  BY <1>1, <1>2 DEF Target

\* A new value of the primary is what the route answers.
LEMMA WrittenSound ==
  ASSUME IInv, NEW p \in Procs, task[p].at = "write", task[p].leaf = NoLeaf, NEW v \in Contents,
         v.ver = wrote + 1, NEW b, b = [auth EXCEPT ![Target(p)] = v]
  PROVE  /\ Sound([Scoped(task[p]) EXCEPT !.at = "open", !.val = v, !.changed = TRUE, !.old = FALSE], b, now, wrote + 1)
         /\ [Scoped(task[p]) EXCEPT !.at = "open", !.val = v, !.changed = TRUE, !.old = FALSE] # Idle
         /\ [Scoped(task[p]) EXCEPT !.at = "open", !.val = v, !.changed = TRUE, !.old = FALSE].changed
<1> DEFINE t == task[p]
           s == Target(p)
           u == Scoped(t)
           yes == TRUE
           no == FALSE
           d == Takes(u, "open", v, no, yes)
<1>1. t \in Tasks /\ Route(t)
  BY Busy
<1>2. t.conf \in Configs /\ t.op \in {"get", "set"} /\ t.then = "end"
  BY <1>1, TaskFields DEF Route
<1>3. s \in Stores /\ s = t.conf.sources[1] /\ t.conf.sources \in Seq(Stores) /\ 1 \in 1..Len(t.conf.sources)
  BY <1>2, TargetStore, SourceFacts
<1>4. wrote \in Nat /\ auth \in [Stores -> Contents] /\ v.ver \in Nat /\ v.ver # 0
  BY InvParts
<1>5. \A o \in Stores : b[o] = IF o = s THEN v ELSE auth[o]
  BY <1>3, <1>4, StoreChanged
<1>6. \A o \in Stores : auth[o].ver <= wrote /\ auth[o].ver \in Nat
  BY <1>4, InvParts, ContentsFields DEF StoresInv
<1>7. \A o \in Stores : b[o].ver = v.ver => b[o].until = v.until
  <2> SUFFICES ASSUME NEW o \in Stores, b[o].ver = v.ver PROVE b[o].until = v.until
    OBVIOUS
  <2>1. CASE o = s
    BY <2>1, <1>5
  <2>2. CASE o # s
    <3>1. auth[o].ver = wrote + 1
      BY <2>2, <1>5
    <3> QED
      BY <3>1, <1>4, <1>6
  <2> QED
    BY <2>1, <2>2
<1>8. v.ver = AnswerIn(b, t.conf.sources)
  <2> DEFINE src == t.conf.sources
             one == 1
  <2>1. /\ src \in Seq(Stores) /\ one \in 1..Len(src) /\ b[src[one]] = v /\ b[src[one]].ver # 0
        /\ \A j \in 1..(one - 1) : b[src[j]].ver = 0
    BY <1>3, <1>4, <1>5
  <2> HIDE DEF src, one
  <2>2. AnswerIn(b, src) = b[src[one]].ver
    BY <2>1, FirstAnswers
  <2> QED
    BY <2>1, <2>2 DEF src
<1>9. /\ u \in Tasks /\ u.op = t.op /\ u.leaf = NoLeaf /\ u.conf = t.conf /\ u.then = t.then
  BY <1>1, ScopedFields
<1>10. "open" \in Points \ {"idle"} /\ no \in BOOLEAN /\ yes \in BOOLEAN
  BY DEF Points
<1>11. [u EXCEPT !.at = "open", !.val = v, !.changed = TRUE, !.old = FALSE] = d
  BY <1>9 DEF Takes, Tasks
<1> HIDE DEF u, yes, no
<1>12. /\ d \in Tasks /\ d.at = "open" /\ d.op = u.op /\ d.leaf = u.leaf /\ d.conf = u.conf
       /\ d.val = v /\ d.then = u.then /\ d.changed = yes
  BY <1>9, <1>10, TakesFields
<1>13. d # Idle
  BY <1>12, TaskFields
<1> HIDE DEF d
<1>14. Route(d)
  BY <1>2, <1>4, <1>9, <1>12 DEF Route, Carrying
<1>15. Knows(d, b)
  BY <1>8, <1>9, <1>12 DEF Knows
<1>16. Carries(d, b, wrote + 1) /\ Asked(d, now)
  <2>1. v.ver <= wrote + 1
    BY <1>4
  <2> QED
    BY <2>1, <1>7, <1>12 DEF Carries, Asked
<1>17. Sound(d, b, now, wrote + 1)
  BY <1>12, <1>14, <1>15, <1>16 DEF Sound
<1> QED
  BY <1>11, <1>12, <1>13, <1>17 DEF u, yes

\* A value that is written is new.
LEMMA NewValue ==
  ASSUME IInv, wrote < MaxWrites, NEW until \in Expiries
  PROVE  /\ [ver |-> wrote + 1, until |-> until] \in Contents
         /\ Renewed([ver |-> wrote + 1, until |-> until], wrote, wrote + 1)
         /\ wrote + 1 \in 0..MaxWrites /\ wrote \in Nat
<1>1. wrote \in Nat /\ MaxWrites \in Nat
  BY InvParts, CacheAssumption
<1>2. wrote + 1 \in 0..MaxWrites /\ wrote <= wrote + 1
  BY <1>1
<1>3. [ver |-> wrote + 1, until |-> until] \in Contents
  BY <1>2 DEF Contents
<1> QED
  BY <1>1, <1>2, <1>3 DEF Renewed

\* A value that is deleted.
LEMMA LostValue == ASSUME IInv PROVE Renewed(NoValue, wrote, wrote) /\ wrote \in 0..MaxWrites
<1>1. wrote \in Nat /\ wrote \in 0..MaxWrites
  BY InvParts
<1> QED
  BY <1>1, NoValueFields DEF Renewed

\* A command that ends without having changed a store.
LEMMA EndsInv ==
  ASSUME IInv, NEW p \in Procs, task[p].at \in {"write", "remove"}, Ends(p), Works \/ Fails,
         UNCHANGED <<now, conf, auth, entry, wrote, taint>>
  PROVE  IInv'
<1>1. ~task[p].changed
  BY Busy DEF Route
<1>2. task' = [task EXCEPT ![p] = Idle] /\ UNCHANGED <<now, conf, auth, entry, wrote>> /\ taint' = taint
  BY DEF Ends
<1> QED
  BY <1>1, <1>2, InvParts, QuietStep

\* The authoritative write.
LEMMA WriteInv == ASSUME IInv, NEW p \in Procs, Write(p) PROVE IInv'
<1> DEFINE t == task[p]
           v == [ver |-> wrote + 1, until |-> 0]
           s == Target(p)
<1>1. t.at = "write" /\ UNCHANGED <<now, conf, entry>>
  BY DEF Write, At
<1>2. t \in Tasks /\ Route(t) /\ t # Idle
  BY <1>1, Busy
<1>3. t.then = "end" /\ t.op # "clear" /\ s \in Stores
  BY <1>1, <1>2, TaskFields, TargetStore DEF Route
<1>4. ASSUME Ends(p), Works \/ Fails, UNCHANGED <<auth, wrote, taint>> PROVE IInv'
  BY <1>1, <1>4, EndsInv
<1>5. CASE WriteRefused(p)
  BY <1>4, <1>5 DEF WriteRefused
<1>6. ASSUME wrote < MaxWrites
      PROVE  v \in Contents /\ v.ver = wrote + 1 /\ Renewed(v, wrote, wrote + 1) /\ wrote + 1 \in 0..MaxWrites
  <2>1. 0 \in Expiries
    BY CacheAssumption
  <2> QED
    BY <1>6, <2>1, NewValue
<1>7. CASE wrote < MaxWrites /\ WriteOk(p)
  <2> DEFINE d == IF AfterWrite(p) = "idle" THEN Idle
                  ELSE IF AfterWrite(p) = "open"
                  THEN [Scoped(t) EXCEPT !.at = "open", !.val = v, !.changed = TRUE, !.old = FALSE]
                  ELSE [Dropping(t, "dropOpen") EXCEPT !.changed = TRUE]
  <2>1. /\ Works /\ auth' = [auth EXCEPT ![s] = v] /\ wrote' = wrote + 1 /\ task' = [Aged(s) EXCEPT ![p] = d]
        /\ taint' = taint
    BY <1>7 DEF WriteOk
  <2>2. v \in Contents /\ v.ver = wrote + 1 /\ Renewed(v, wrote, wrote + 1) /\ wrote + 1 \in 0..MaxWrites
    BY <1>6, <1>7
  <2>3. Sound(d, auth', now, wrote + 1) /\ d # Idle /\ d.changed
    <3>1. CASE t.leaf = NoLeaf
      <4>1. d = [Scoped(t) EXCEPT !.at = "open", !.val = v, !.changed = TRUE, !.old = FALSE]
        BY <3>1 DEF AfterWrite
      <4> HIDE DEF v, d
      <4>2. /\ Sound([Scoped(task[p]) EXCEPT !.at = "open", !.val = v, !.changed = TRUE, !.old = FALSE], auth', now, wrote + 1)
            /\ [Scoped(task[p]) EXCEPT !.at = "open", !.val = v, !.changed = TRUE, !.old = FALSE] # Idle
            /\ [Scoped(task[p]) EXCEPT !.at = "open", !.val = v, !.changed = TRUE, !.old = FALSE].changed
        BY <1>1, <2>1, <2>2, <3>1, WrittenSound
      <4> QED
        BY <4>1, <4>2
    <3>2. CASE t.leaf # NoLeaf
      <4>1. d = [Dropping(t, "dropOpen") EXCEPT !.changed = TRUE]
        BY <3>2 DEF AfterWrite
      <4> HIDE DEF d
      <4> QED
        BY <4>1, <1>2, <1>3, MarkedSound
    <3> QED
      BY <3>1, <3>2
  <2>4. taint' \subseteq Reasons
    BY <2>1, InvParts
  <2> HIDE DEF d, v, s
  <2>5. Renewed(v, wrote, wrote') /\ wrote' \in 0..MaxWrites /\ Sound(d, auth', now, wrote')
    BY <2>1, <2>2, <2>3
  <2> QED
    BY <1>1, <1>3, <2>1, <2>3, <2>4, <2>5, ChangesInv
<1>8. CASE wrote < MaxWrites /\ WriteFails(p)
  <2>1. CASE Ends(p) /\ UNCHANGED <<auth, wrote, taint>>
    BY <2>1, <1>4, <1>8 DEF WriteFails
  <2>2. CASE /\ auth' = [auth EXCEPT ![s] = v] /\ wrote' = wrote + 1
             /\ taint' = taint \cup {"partial"} /\ task' = [Aged(s) EXCEPT ![p] = Idle]
    <3>1. Renewed(v, wrote, wrote + 1) /\ wrote + 1 \in 0..MaxWrites
      BY <1>6, <1>8
    <3>2. taint' \subseteq Reasons /\ taint' # {}
      BY <2>2, InvParts DEF Reasons
    <3>3. Fails
      BY <1>8 DEF WriteFails
    <3> HIDE DEF v, s
    <3>4. Renewed(v, wrote, wrote') /\ wrote' \in 0..MaxWrites
      BY <2>2, <3>1
    <3> QED
      BY <1>1, <1>3, <2>2, <3>2, <3>3, <3>4, ChangesInv
  <2> QED
    BY <2>1, <2>2, <1>8 DEF WriteFails
<1> QED
  BY <1>5, <1>7, <1>8 DEF Write

\* The authoritative delete.
LEMMA RemoveInv == ASSUME IInv, NEW p \in Procs, Remove(p) PROVE IInv'
<1> DEFINE t == task[p]
           s == Target(p)
           d == [Dropping(t, "dropOpen") EXCEPT !.changed = TRUE]
<1>1. t.at = "remove" /\ UNCHANGED <<now, conf, entry>> /\ wrote' = wrote
  BY DEF Remove, At
<1>2. t \in Tasks /\ Route(t) /\ t # Idle
  BY <1>1, Busy
<1>3. t.then = "end" /\ t.op # "clear" /\ s \in Stores
  BY <1>1, <1>2, TaskFields, TargetStore DEF Route
<1>4. Renewed(NoValue, wrote, wrote') /\ wrote' \in 0..MaxWrites
  BY <1>1, LostValue
<1>5. CASE RemoveOk(p)
  <2>1. Works /\ auth' = [auth EXCEPT ![s] = NoValue] /\ task' = [Aged(s) EXCEPT ![p] = d] /\ taint' = taint
    BY <1>5 DEF RemoveOk
  <2>2. Sound(d, auth', now, wrote') /\ d # Idle /\ d.changed
    BY <1>2, <1>3, MarkedSound
  <2>3. taint' \subseteq Reasons
    BY <2>1, InvParts
  <2> HIDE DEF d, s
  <2> QED
    BY <1>1, <1>3, <1>4, <2>1, <2>2, <2>3, ChangesInv
<1>6. CASE RemoveFails(p)
  <2>1. CASE Ends(p) /\ UNCHANGED <<auth, taint>>
    <3>1. UNCHANGED <<now, conf, auth, entry, wrote, taint>> /\ Fails
      BY <2>1, <1>1, <1>6 DEF RemoveFails
    <3> QED
      BY <3>1, <2>1, <1>1, EndsInv
  <2>2. CASE /\ auth' = [auth EXCEPT ![s] = NoValue]
             /\ taint' = taint \cup {"partial"} /\ task' = [Aged(s) EXCEPT ![p] = Idle]
    <3>1. taint' \subseteq Reasons /\ taint' # {}
      BY <2>2, InvParts DEF Reasons
    <3>2. Fails
      BY <1>6 DEF RemoveFails
    <3> HIDE DEF s
    <3> QED
      BY <1>1, <1>3, <1>4, <2>2, <3>1, <3>2, ChangesInv
  <2> QED
    BY <2>1, <2>2, <1>6 DEF RemoveFails
<1> QED
  BY <1>5, <1>6 DEF Remove

----------------------------------------------------------------------------
(* What happens around the commands *)

\* A store is changed by something else.
LEMMA OutsideInv == ASSUME IInv, Outside PROVE IInv'
<1>1. PICK s \in Stores, until \in Expiries :
        auth' = [auth EXCEPT ![s] = [ver |-> wrote + 1, until |-> until]] /\ task' = Aged(s)
  BY DEF Outside
<1>2. /\ Fails /\ wrote < MaxWrites /\ wrote' = wrote + 1 /\ taint' = taint \cup {"outside"}
      /\ UNCHANGED <<now, conf, entry>>
  BY DEF Outside
<1> DEFINE c == [ver |-> wrote + 1, until |-> until]
<1>3. Renewed(c, wrote, wrote') /\ wrote' \in 0..MaxWrites /\ wrote' \in Nat
  BY <1>2, NewValue
<1>4. taint' \subseteq Reasons /\ taint' # {}
  BY <1>2, InvParts DEF Reasons
<1> DEFINE x == wrote'
<1>5. Renewed(c, wrote, x) /\ x \in Nat /\ auth' = [auth EXCEPT ![s] = c]
  BY <1>1, <1>3
<1> HIDE DEF c, x
<1>6. Aged(s) \in [Procs -> {Idle} \cup Tasks] /\ SoundAll(Aged(s), [auth EXCEPT ![s] = c], now, x)
  BY <1>5, AgedOthers
<1>7. task' \in [Procs -> {Idle} \cup Tasks] /\ SoundAll(task', auth', now, wrote')
  BY <1>1, <1>5, <1>6 DEF x
<1> QED
  BY <1>2, <1>3, <1>4, <1>5, <1>7, ChangeStep

\* A neighbour's entry.
LEMMA ForeignFields == ASSUME IInv PROVE ForeignEntry(conf) \in Entries /\ ~ForeignEntry(conf).mine
<1> DEFINE no == FALSE
           x == now + conf.maxAge
<1>1. now \in Nat /\ conf \in Configs /\ conf.maxAge \in Nat /\ 0 \in 0..MaxWrites /\ 0 \in Expiries
  BY InvParts, SourceFacts, CacheAssumption
<1>2. x \in Nat /\ no \in BOOLEAN
  BY <1>1
<1>3. /\ ForeignEntry(conf) = [kind |-> "v4", mine |-> no, expires |-> x, age |-> conf.maxAge,
                               fp |-> Fingerprint(conf), until |-> 0, ver |-> 0, src |-> conf.sources,
                               made |-> now]
      /\ ~ForeignEntry(conf).mine
  BY DEF ForeignEntry
<1> HIDE DEF no, x
<1>4. ForeignEntry(conf) \in Envelopes
  BY <1>1, <1>2, <1>3 DEF Envelopes
<1> QED
  BY <1>3, <1>4 DEF Entries

\* Another project or program uses the address.
LEMMA NeighbourInv == ASSUME IInv, Neighbour PROVE IInv'
<1>1. Fails /\ taint' = {} /\ UNCHANGED <<now, conf, auth, task, wrote>>
  BY DEF Neighbour
<1>2. entry' \in Entries /\ ~Mine(entry')
  <2>1. CASE entry' = ForeignEntry(conf)
    BY <2>1, ForeignFields DEF Mine
  <2>2. CASE entry' = Unmarked
    BY <2>2 DEF Mine, Unmarked, Entries
  <2> QED
    BY <2>1, <2>2 DEF Neighbour
<1>3. Current(entry', auth', task', taint') /\ Dated(entry', auth', wrote') /\ Timed(entry', now')
  BY <1>2, NotMine
<1>4. mishaps' \in 0..MaxMishaps
  BY <1>1, MishapsBounded
<1> QED
  BY <1>1, <1>2, <1>3, <1>4, InvParts, Assemble

\* The manifest is edited.
LEMMA ReconfigureInv == ASSUME IInv, Reconfigure PROVE IInv'
<1>1. Fails /\ conf' \in Configs /\ UNCHANGED <<now, auth, entry, task, wrote, taint>>
  BY DEF Reconfigure
<1>2. mishaps' \in 0..MaxMishaps
  BY <1>1, MishapsBounded
<1> QED
  BY <1>1, <1>2, InvParts, Assemble

\* A second passes.
LEMMA TickInv == ASSUME IInv, Tick PROVE IInv'
<1> DEFINE n == now
           m == now'
<1>1. m = n + 1 /\ n \in Nat /\ m \in Nat /\ n <= m /\ UNCHANGED <<conf, auth, entry, task, wrote, mishaps, taint>>
  BY InvParts DEF Tick
<1> HIDE DEF n, m
<1>2. SoundAll(task, auth, m, wrote)
  <2> SUFFICES ASSUME NEW q \in Procs, task[q] # Idle PROVE Sound(task[q], auth, m, wrote)
    BY DEF SoundAll
  <2>1. Sound(task[q], auth, n, wrote)
    BY InvParts DEF SoundAll, n
  <2> QED
    BY <1>1, <2>1, SoundLater
<1>3. Timed(entry, m)
  <2> SUFFICES ASSUME Mine(entry), entry.kind = "v4" PROVE entry.made <= m
    BY InvParts DEF Timed
  <2>1. entry.made <= n /\ entry.made \in Int
    BY InvParts DEF Timed, n, Entries, Envelopes, LegacyEnvelopes, NoEntry, Damaged, Unmarked
  <2> QED
    BY <1>1, <2>1
<1> QED
  BY <1>1, <1>2, <1>3, InvParts, Assemble DEF m

----------------------------------------------------------------------------
(* The invariant *)

\* An entry of an older release is the value of the primary.
LEMMA OldEntryFields ==
  ASSUME NEW e \in OldEntries, conf \in Configs
  PROVE  /\ e \in Entries /\ e.kind \in {"v2", "v3"} /\ e.fp = conf.sources /\ e.src = conf.sources
         /\ e.ver = 1 /\ Timed(e, now)
<1>1. conf.maxAge \in Nat /\ 1 \in 0..MaxWrites /\ 0 \in Expiries
  BY SourceFacts, CacheAssumption
<1>2. Fingerprint(conf) = conf.sources
  BY DEF Fingerprint
<1>3. CASE \E t \in 0..2 : e = [kind |-> "v2", mine |-> t # 0, since |-> t, fp |-> Fingerprint(conf),
                                ver |-> 1, src |-> conf.sources]
  <2>1. PICK t \in 0..2 : e = [kind |-> "v2", mine |-> t # 0, since |-> t, fp |-> Fingerprint(conf),
                               ver |-> 1, src |-> conf.sources]
    BY <1>3
  <2> DEFINE m == t # 0
  <2>2. m \in BOOLEAN /\ t \in Nat
    OBVIOUS
  <2>3. e = [kind |-> "v2", mine |-> m, since |-> t, fp |-> Fingerprint(conf), ver |-> 1, src |-> conf.sources]
    BY <2>1
  <2> HIDE DEF m
  <2>4. e \in LegacyEnvelopes
    BY <1>1, <2>2, <2>3 DEF LegacyEnvelopes
  <2> QED
    BY <1>2, <2>3, <2>4 DEF Entries, Timed
<1>4. CASE \E t \in 1..(conf.maxAge + 1) :
             e = [kind |-> "v3", mine |-> TRUE, expires |-> t, age |-> conf.maxAge, fp |-> Fingerprint(conf),
                  until |-> 0, ver |-> 1, src |-> conf.sources, made |-> t - conf.maxAge]
  <2> DEFINE yes == TRUE
  <2>1. PICK t \in 1..(conf.maxAge + 1) :
           e = [kind |-> "v3", mine |-> yes, expires |-> t, age |-> conf.maxAge, fp |-> Fingerprint(conf),
                until |-> 0, ver |-> 1, src |-> conf.sources, made |-> t - conf.maxAge]
    BY <1>4
  <2>2. yes \in BOOLEAN /\ t \in Nat /\ t - conf.maxAge \in Int
    BY <1>1
  <2> HIDE DEF yes
  <2>3. e \in Envelopes
    BY <1>1, <2>1, <2>2 DEF Envelopes
  <2> QED
    BY <1>2, <2>1, <2>3 DEF Entries, Timed
<1> QED
  BY <1>3, <1>4 DEF OldEntries

\* Initially the primary holds a value and no command runs.
LEMMA InitIInv == Init => IInv
<1> SUFFICES ASSUME Init PROVE IInv
  OBVIOUS
<1>0. MaxWrites \in Nat \ {0} /\ MaxMishaps \in Nat /\ 1 \in 0..MaxWrites
  BY CacheAssumption
<1>1. /\ now = 1 /\ conf \in Configs /\ entry \in {NoEntry} \cup OldEntries /\ task = [p \in Procs |-> Idle]
      /\ wrote = 1 /\ mishaps = 0 /\ taint = {}
  BY DEF Init
<1>2. PICK until \in Expiries :
        auth = [s \in Stores |-> IF s = conf.sources[1] THEN [ver |-> 1, until |-> until] ELSE NoValue]
  BY DEF Init
<1> DEFINE v == [ver |-> 1, until |-> until]
<1>3. v \in Contents /\ v.ver = 1 /\ NoValue \in Contents /\ NoValue.ver = 0
  BY <1>0, NoValueFields DEF Contents
<1>4. \A s \in Stores : auth[s] = IF s = conf.sources[1] THEN v ELSE NoValue
  BY <1>2
<1>5. auth \in [Stores -> Contents]
  BY <1>2, <1>3
<1> HIDE DEF v
<1>6. StoresInv(auth, wrote)
  BY <1>1, <1>3, <1>4 DEF StoresInv
<1>7. conf.sources \in Seq(Stores) /\ 1 \in 1..Len(conf.sources) /\ conf.sources[1] \in Stores
  BY <1>1, SourceFacts
<1>8. AnswerIn(auth, conf.sources) = 1
  <2> DEFINE src == conf.sources
             one == 1
  <2>1. /\ src \in Seq(Stores) /\ one \in 1..Len(src) /\ auth[src[one]] = v /\ auth[src[one]].ver # 0
        /\ \A j \in 1..(one - 1) : auth[src[j]].ver = 0
    BY <1>3, <1>4, <1>7
  <2> HIDE DEF src, one
  <2>2. AnswerIn(auth, src) = auth[src[one]].ver
    BY <2>1, FirstAnswers
  <2> QED
    BY <1>3, <2>1, <2>2 DEF src
<1>9. entry \in Entries /\ Current(entry, auth, task, taint) /\ Dated(entry, auth, wrote) /\ Timed(entry, now)
  <2>1. CASE entry = NoEntry
    <3>1. ~Mine(NoEntry) /\ NoEntry \in Entries
      BY DEF Mine, NoEntry, Entries
    <3> QED
      BY <2>1, <3>1, NotMine
  <2>2. CASE entry \in OldEntries
    <3>1. /\ entry \in Entries /\ entry.kind \in {"v2", "v3"} /\ entry.fp = conf.sources
          /\ entry.src = conf.sources /\ entry.ver = 1 /\ Timed(entry, now)
      BY <2>2, <1>1, OldEntryFields
    <3> QED
      BY <3>1, <1>8 DEF Current, Dated
  <2> QED
    BY <2>1, <2>2, <1>1
<1>10. TypeOK
  BY <1>0, <1>1, <1>5, <1>9 DEF TypeOK
<1>11. \A p \in Procs : task[p] = Idle
  BY <1>1
<1> QED
  BY <1>6, <1>9, <1>10, <1>11 DEF IInv

\* Every step keeps the invariant.
LEMMA NextIInv == IInv /\ [Next]_vars => IInv'
<1> SUFFICES ASSUME IInv, [Next]_vars PROVE IInv'
  OBVIOUS
<1>1. ASSUME NEW p \in Procs, Step(p) PROVE IInv'
  BY <1>1, BeginInv, LookInv, ReadInv, WriteInv, RemoveInv, OpenInv, CheckInv, StoreInv, DropOpenInv,
     DropCheckInv, DropInv, CrashInv DEF Step
<1>2. CASE UNCHANGED vars
  <2>1. UNCHANGED <<now, conf, auth, entry, task, wrote, mishaps, taint>>
    BY <1>2 DEF vars
  <2> QED
    BY <2>1, InvParts, Assemble
<1> QED
  BY <1>1, <1>2, OutsideInv, NeighbourInv, ReconfigureInv, TickInv DEF Next

\* The invariant holds in every state.
THEOREM Invariance == Spec => []IInv
BY InitIInv, NextIInv, PTL DEF Spec

\* Every state of the cache and of the commands has its type.
THEOREM TypeCorrect == Spec => []TypeOK
<1>1. IInv => TypeOK
  BY DEF IInv
<1> QED
  BY <1>1, Invariance, PTL

----------------------------------------------------------------------------
(* What the cache promises *)

\* An entry that is served is Monosecret's, of this route, and has not expired.
LEMMA FreshFacts ==
  ASSUME NEW e \in Entries, NEW c, now \in Nat, Inspect(e, c) = "fresh"
  PROVE  /\ Mine(e) /\ e.fp = c.sources /\ (e.kind = "v4" => now < e.expires)
         /\ Envelope(e) => now < e.expires /\ e.age = c.maxAge /\ e.expires - e.age <= now
<1>1. CASE e \in {NoEntry, Damaged, Unmarked}
  BY <1>1 DEF Inspect, NoEntry, Damaged, Unmarked
<1>2. CASE e \in Envelopes
  <2>1. e.kind \in {"v3", "v4"} /\ e.expires \in Nat /\ e.mine \in BOOLEAN
    BY <1>2 DEF Envelopes
  <2>2. ~Expired(e)
    BY <2>1 DEF Inspect, Envelope
  <2>3. e.mine
    BY <2>1, <2>2 DEF Inspect, Envelope
  <2>4. FreshEnvelope(e, c)
    BY <2>1, <2>2, <2>3 DEF Inspect, Envelope
  <2>5. now < e.expires
    BY <2>1, <2>2 DEF Expired
  <2> QED
    BY <2>1, <2>3, <2>4, <2>5 DEF FreshEnvelope, Fingerprint, Mine, Envelope
<1>3. CASE e \in LegacyEnvelopes
  <2>1. e.kind = "v2" /\ e.mine \in BOOLEAN
    BY <1>3 DEF LegacyEnvelopes
  <2>2. e.mine
    BY <2>1 DEF Inspect
  <2>3. FreshV2(e, c)
    BY <2>1, <2>2 DEF Inspect
  <2> QED
    BY <2>1, <2>2, <2>3 DEF FreshV2, Fingerprint, Mine, Envelope
<1> QED
  BY <1>1, <1>2, <1>3 DEF Entries

\* CacheServesCurrent: read_cached_group serves what the route answers, unless
\* one of the excepted histories is the entry's.
THEOREM ServesCurrent == Spec => CacheServesCurrent
<1> DEFINE A == \A p \in Procs : ServedFromCache(p) =>
                  \/ entry.ver = Answer(task[p].conf.sources)
                  \/ taint # {}
                  \/ \E q \in Procs : ~At(q, "idle") /\ task[q].changed
<1>1. ASSUME IInv PROVE A
  <2> SUFFICES ASSUME NEW p \in Procs, ServedFromCache(p), taint = {}, ~Changing(task)
               PROVE  entry.ver = Answer(task[p].conf.sources)
    <3>1. ASSUME NEW q \in Procs, task[q] # Idle PROVE ~At(q, "idle")
      <4>1. task[q] \in Tasks
        BY <1>1, <3>1, InvParts
      <4> QED
        BY <4>1, TaskFields DEF At
    <3> QED
      BY <3>1 DEF Changing
  <2>1. Inspect(entry, task[p].conf) = "fresh"
    BY DEF ServedFromCache, LookServes
  <2>2. entry \in Entries /\ now \in Nat /\ Current(entry, auth, task, taint)
    BY <1>1, InvParts
  <2>3. Mine(entry) /\ entry.fp = task[p].conf.sources
    BY <2>1, <2>2, FreshFacts
  <2>4. entry.ver = AnswerIn(auth, entry.src) /\ entry.fp = entry.src
    BY <2>2, <2>3 DEF Current
  <2> QED
    BY <2>3, <2>4, AnswerIs
<1>2. IInv /\ [Next]_vars => [A]_vars
  BY <1>1
<1> QED
  BY <1>2, Invariance, PTL DEF Spec, CacheServesCurrent

\* ServedBeforeExpiry: an envelope is served only before the expiry that its
\* provider reported.
THEOREM ServesBeforeExpiry == Spec => ServedBeforeExpiry
<1> DEFINE A == \A p \in Procs, s \in Stores :
                  /\ ServedFromCache(p)
                  /\ auth[s].ver = entry.ver /\ auth[s].until # 0
                  /\ entry.kind = "v4"
                  => now * Milli + Milli - 1 < auth[s].until
<1>1. ASSUME IInv PROVE A
  <2> SUFFICES ASSUME NEW p \in Procs, NEW s \in Stores, ServedFromCache(p), auth[s].ver = entry.ver,
                      auth[s].until # 0, entry.kind = "v4"
               PROVE  now * Milli + Milli - 1 < auth[s].until
    OBVIOUS
  <2>1. Inspect(entry, task[p].conf) = "fresh"
    BY DEF ServedFromCache, LookServes
  <2>2. entry \in Entries /\ now \in Nat /\ Dated(entry, auth, wrote) /\ auth[s] \in Contents
    BY <1>1, InvParts
  <2>3. Mine(entry) /\ now < entry.expires
    BY <2>1, <2>2, FreshFacts
  <2>4. auth[s].until = entry.until /\ entry.expires <= entry.until \div Milli
    BY <2>2, <2>3 DEF Mine, Dated
  <2> DEFINE x == auth[s].until
  <2>5. x \in Nat
    BY <2>2, ContentsFields
  <2> HIDE DEF x
  <2>6. x \div Milli \in Nat /\ (now < x \div Milli => now * Milli + Milli - 1 < x)
    BY <2>2, <2>5, WholeSeconds
  <2>7. entry.expires \in Nat
    BY <2>2 DEF Entries, Envelopes, LegacyEnvelopes, NoEntry, Damaged, Unmarked
  <2>8. entry.expires <= x \div Milli
    BY <2>4 DEF x
  <2>9. now < x \div Milli
    BY <2>2, <2>3, <2>6, <2>7, <2>8
  <2> QED
    BY <2>6, <2>9 DEF x
<1>2. IInv /\ [Next]_vars => [A]_vars
  BY <1>1
<1> QED
  BY <1>2, Invariance, PTL DEF Spec, ServedBeforeExpiry

\* ServedWithinMaxAge: an envelope is served only in the max_age seconds after
\* it was encoded.
THEOREM ServesWithinMaxAge == Spec => ServedWithinMaxAge
<1> DEFINE A == \A p \in Procs : ServedFromCache(p) /\ Envelope(entry) =>
                  entry.made <= now /\ now - entry.made < task[p].conf.maxAge
<1>1. ASSUME IInv PROVE A
  <2> SUFFICES ASSUME NEW p \in Procs, ServedFromCache(p), Envelope(entry)
               PROVE  entry.made <= now /\ now - entry.made < task[p].conf.maxAge
    OBVIOUS
  <2>1. Inspect(entry, task[p].conf) = "fresh"
    BY DEF ServedFromCache, LookServes
  <2>2. entry \in Entries /\ now \in Nat /\ Timed(entry, now)
    BY <1>1, InvParts
  <2>3. /\ Mine(entry) /\ now < entry.expires /\ entry.age = task[p].conf.maxAge
        /\ entry.expires - entry.age <= now
    BY <2>1, <2>2, FreshFacts
  <2>4. entry.expires \in Nat /\ entry.age \in Nat /\ entry.made \in Int
    BY <2>2 DEF Envelope, Entries, Envelopes, LegacyEnvelopes, NoEntry, Damaged, Unmarked
  <2>5. \/ entry.made = entry.expires - entry.age
        \/ entry.made <= now /\ entry.expires <= entry.made + entry.age
    BY <2>2, <2>3 DEF Timed, Envelope
  <2> DEFINE x == entry.expires
             y == entry.age
             z == entry.made
  <2>6. /\ x \in Nat /\ y \in Nat /\ z \in Int /\ now < x /\ x - y <= now
        /\ (z = x - y \/ (z <= now /\ x <= z + y))
    BY <2>3, <2>4, <2>5
  <2> HIDE DEF x, y, z
  <2>7. z <= now /\ now - z < y
    BY <2>2, <2>6
  <2> QED
    BY <2>3, <2>7 DEF x, y, z
<1>2. IInv /\ [Next]_vars => [A]_vars
  BY <1>1
<1> QED
  BY <1>2, Invariance, PTL DEF Spec, ServedWithinMaxAge

\* Only a refresh or a removal of a command changes the entry, and only that
\* command moves.
LEMMA EntryChanges ==
  ASSUME IInv, NEW p \in Procs, Next, entry' # entry, task'[p] # task[p]
  PROVE  task[p].at \in {"store", "drop"}
<1>1. ASSUME NEW q \in Procs, Store(q) \/ Drop(q) PROVE task[p].at \in {"store", "drop"}
  <2>1. \A d : task' = [task EXCEPT ![q] = d] => q = p
    BY InvParts
  <2>2. \E d : task' = [task EXCEPT ![q] = d]
    <3>1. CASE Store(q)
      BY <3>1 DEF Store, StoreOk, StoreExpired, StoreFails, Ends, GoesToDrop
    <3>2. CASE Drop(q)
      <4>1. task[q].at # "idle" /\ AfterDrop(q)
        BY <3>2 DEF Drop, At, GivesUp
      <4> QED
        BY <4>1, AfterDropSound
    <3> QED
      BY <1>1, <3>1, <3>2
  <2>3. q = p
    BY <2>1, <2>2
  <2> QED
    BY <1>1, <2>3 DEF Store, Drop, At
<1>2. ASSUME NEW q \in Procs, Step(q) PROVE Store(q) \/ Drop(q)
  BY <1>2 DEF Step, Begin, Look, Read, Write, Remove, Open, Check, DropOpen, DropCheck, Crash
<1>3. ~Outside /\ ~Neighbour /\ ~Reconfigure /\ ~Tick
  BY DEF Outside, Neighbour, Reconfigure, Tick
<1> QED
  BY <1>1, <1>2, <1>3 DEF Next

\* NeighboursKept: a command that overwrites or removes what is somebody
\* else's has not seen it when it asked.
THEOREM KeepsNeighbours == Spec => NeighboursKept
<1> DEFINE A == \A p \in Procs :
                  (Refused(entry) /\ entry' # entry /\ task'[p] # task[p])
                    => task[p].seen \notin {Unasked, entry}
<1>1. ASSUME IInv, Next PROVE A
  <2> SUFFICES ASSUME NEW p \in Procs, Refused(entry), entry' # entry, task'[p] # task[p]
               PROVE  task[p].seen \notin {Unasked, entry}
    OBVIOUS
  <2>1. task[p].at \in {"store", "drop"}
    BY <1>1, EntryChanges
  <2>2. Asked(task[p], now)
    BY <1>1, <2>1, Busy
  <2>3. entry \in Entries /\ RefusedIn(entry, now)
    BY <1>1, InvParts, RefusedIs
  <2>4. Unasked \notin Entries /\ Unread \notin Entries /\ Unasked # Unread
    BY DEF Unasked, Unread, Entries, Envelopes, LegacyEnvelopes, NoEntry, Damaged, Unmarked
  <2>5. CASE task[p].seen = Unread
    BY <2>3, <2>4, <2>5
  <2>6. CASE task[p].seen \in Entries /\ ~RefusedIn(task[p].seen, now)
    BY <2>3, <2>4, <2>6
  <2> QED
    BY <2>1, <2>2, <2>5, <2>6 DEF Asked
<1>2. IInv /\ [Next]_vars => [A]_vars
  BY <1>1
<1> QED
  BY <1>2, Invariance, PTL DEF Spec, NeighboursKept

\* GeneratesOnlyMissing: a resolution that generates finds the primary empty,
\* or what it read is old.
THEOREM GeneratesMissing == Spec => GeneratesOnlyMissing
<1> DEFINE A == \A p \in Procs :
                  /\ At(p, "write") /\ task[p].op = "get" /\ auth' # auth
                  /\ auth[Target(p)].ver # 0
                  => task[p].old
<1>1. ASSUME IInv PROVE A
  <2> SUFFICES ASSUME NEW p \in Procs, task[p].at = "write", task[p].op = "get", auth[Target(p)].ver # 0,
                      ~task[p].old
               PROVE  FALSE
    BY DEF At
  <2>1. task[p].leaf = NoLeaf /\ auth[task[p].conf.sources[1]].ver = 0
    BY <1>1, Busy DEF Route, Knows
  <2> QED
    BY <1>1, <2>1, TargetStore
<1>2. IInv /\ [Next]_vars => [A]_vars
  BY <1>1
<1> QED
  BY <1>2, Invariance, PTL DEF Spec, GeneratesOnlyMissing
=============================================================================
