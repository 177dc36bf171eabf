----------------------------- MODULE SecretCache -----------------------------
(***************************************************************************)
(* One secret on a cached route: the ordered authoritative stores, the one *)
(* address of the cache store, and the commands that go through them.      *)
(* crates/monosecret/src/cache.rs decides what an entry is worth, the      *)
(* cache functions of secrets.rs keep the entry in step with the stores,   *)
(* and plan.rs gives the route and its fingerprint.                        *)
(*                                                                         *)
(* Every process is a command of its own and nothing locks the stores:     *)
(* each call of a provider is one step, so that commands interleave        *)
(* between any two calls.  A value is a number, new for every write, and   *)
(* 0 is no value.  The clock counts seconds, Milli units each; the         *)
(* provider's own expiry of a value counts those units, 0 being none.      *)
(* An entry's src and made are not in the envelope: they record for which  *)
(* sources, and in which second, it was encoded.                           *)
(***************************************************************************)
EXTENDS Integers, Sequences, FiniteSets

CONSTANTS
  Procs,      \* commands that run at the same time
  Stores,     \* leaf providers
  Configs,    \* manifests: the sources of the alias and its max_age
  Generates,  \* the secret's missing policy is Generate
  Milli,      \* units of the provider's expiry per second
  Expiries,   \* bound: expiries a provider may report
  MaxWrites,  \* bound: values ever written
  MaxNow,     \* bound: seconds
  MaxMishaps  \* bound: failures, crashes, edits and writes of others

ASSUME CacheAssumption ==
  /\ \A c \in Configs : c.sources \in Seq(Stores) /\ c.sources # <<>> /\ c.maxAge \in Nat
  /\ Milli \in Nat \ {0} /\ 0 \in Expiries /\ Expiries \subseteq Nat
  /\ MaxWrites \in Nat \ {0} /\ MaxNow \in Nat /\ MaxMishaps \in Nat

VARIABLES
  now,     \* the wall clock, in seconds
  conf,    \* the manifest as it is on disk
  auth,    \* what each store holds: a value and the expiry it reports
  entry,   \* what the cache store holds at the secret's address
  task,    \* each process's command and how far it is
  wrote,   \* values written so far
  mishaps, \* failures and interferences so far
  taint    \* why the entry may have been superseded: the history of it

vars == <<now, conf, auth, entry, task, wrote, mishaps, taint>>

NoLeaf == "route"
NoValue == [ver |-> 0, until |-> 0]
NoEntry == [kind |-> "none"]
Damaged == [kind |-> "damaged"]
Unmarked == [kind |-> "unmarked"]
Unasked == [kind |-> "unasked"]
Unread == [kind |-> "unread"]

Points == {"idle", "look", "read", "write", "remove", "open", "check", "store",
           "dropOpen", "dropCheck", "drop"}

Idle == [at |-> "idle"]

(***************************************************************************)
(* cache.rs.  The fingerprint of a route is made of the alias's fallback   *)
(* entries.                                                                *)
(***************************************************************************)
FingerprintOfNothing(c) == <<>>
Fingerprint(c) == c.sources

Envelope(e) == e.kind \in {"v3", "v4"}

Ownership(e) ==
  CASE e.kind = "none" -> "absent"
    [] e.kind = "unmarked" -> "unrecognized"
    [] e.kind = "damaged" -> "unreadable"
    [] Envelope(e) /\ now >= e.expires -> "expired"
    [] OTHER -> IF e.mine THEN "ours" ELSE "foreign"

Refused(e) == Ownership(e) \in {"foreign", "unrecognized"}

Expired(e) == now >= e.expires \/ (e.until # 0 /\ now * Milli >= e.until)

FreshV2(e, c) == e.fp = Fingerprint(c) /\ e.since <= now /\ now - e.since <= c.maxAge

FreshEnvelopeOfAnyAge(e, c) ==
  e.age <= e.expires /\ e.expires - e.age <= now /\ e.fp = Fingerprint(c)
FreshEnvelope(e, c) ==
  /\ e.age <= e.expires /\ e.expires - e.age <= now
  /\ e.age = c.maxAge
  /\ e.fp = Fingerprint(c)

Inspect(e, c) ==
  CASE e.kind = "none" -> "absent"
    [] e.kind = "unmarked" -> "foreign"
    [] e.kind = "damaged" -> "stale"
    [] e.kind = "v2" /\ ~e.mine -> "foreign"
    [] e.kind = "v2" /\ e.mine -> IF FreshV2(e, c) THEN "fresh" ELSE "stale"
    [] Envelope(e) /\ Expired(e) -> "stale"
    [] Envelope(e) /\ ~Expired(e) /\ ~e.mine -> "foreign"
    [] OTHER -> IF FreshEnvelope(e, c) THEN "fresh" ELSE "stale"

Encodable(val) == val.until = 0 \/ val.until \div Milli > now

EncodedIgnoringExpiry(val, c) ==
  [kind |-> "v4", mine |-> TRUE, expires |-> now + c.maxAge, age |-> c.maxAge,
   fp |-> Fingerprint(c), until |-> 0, ver |-> val.ver, src |-> c.sources, made |-> now]
Encoded(val, c) ==
  [kind |-> "v4", mine |-> TRUE, age |-> c.maxAge, fp |-> Fingerprint(c),
   until |-> val.until, ver |-> val.ver, src |-> c.sources, made |-> now,
   expires |-> IF val.until # 0 /\ val.until \div Milli < now + c.maxAge
               THEN val.until \div Milli ELSE now + c.maxAge]

ForeignEntry(c) ==
  [kind |-> "v4", mine |-> FALSE, expires |-> now + c.maxAge, age |-> c.maxAge,
   fp |-> Fingerprint(c), until |-> 0, ver |-> 0, src |-> c.sources, made |-> now]

(***************************************************************************)
(* Steps of a command                                                      *)
(***************************************************************************)
At(p, point) == task[p].at = point

Fails == mishaps < MaxMishaps /\ mishaps' = mishaps + 1
Works == UNCHANGED mishaps

\* A command's locals, once it is past the read and the write: the rest is dead.
Scoped(t) == [t EXCEPT !.leaf = NoLeaf, !.values = FALSE, !.i = 1, !.healthy = FALSE]
Dropping(t, point) ==
  [Scoped(t) EXCEPT !.at = point, !.val = NoValue, !.failed = FALSE, !.errors = FALSE,
                    !.old = FALSE, !.seen = Unasked]

Goes(p, point) == task' = [task EXCEPT ![p].at = point]
GoesToDrop(p, point) == task' = [task EXCEPT ![p] = Dropping(task[p], point)]
Ends(p) == task' = [task EXCEPT ![p] = Idle]

\* What the chain of sources answers when every store does.
Answer(sources) ==
  LET held == {i \in DOMAIN sources : auth[sources[i]].ver # 0}
  IN  IF held = {} THEN 0
      ELSE auth[sources[CHOOSE i \in held : \A j \in held : i <= j]].ver

Started(op, leaf, point, values) ==
  [at |-> point, op |-> op, leaf |-> leaf, conf |-> conf, values |-> values,
   i |-> 1, val |-> NoValue, then |-> "end", failed |-> FALSE, errors |-> FALSE,
   healthy |-> FALSE, old |-> FALSE, changed |-> FALSE, seen |-> Unasked]

Begin(p) ==
  /\ At(p, "idle")
  /\ \/ \E values \in BOOLEAN :
          task' = [task EXCEPT ![p] = Started("get", NoLeaf, "look", values)]
     \/ \E leaf \in Stores \cup {NoLeaf} :
          \/ task' = [task EXCEPT ![p] = Started("set", leaf, "write", TRUE)]
          \/ task' = [task EXCEPT ![p] = Started("delete", leaf, "remove", FALSE)]
     \/ task' = [task EXCEPT ![p] = Started("clear", NoLeaf, "dropOpen", FALSE)]
  /\ UNCHANGED <<now, conf, auth, entry, wrote, mishaps, taint>>

\* read_cached_group: one batched read of the cache store.
StartsReading(p) == Goes(p, "read")

LookServes(p) ==
  /\ Works
  /\ Inspect(entry, task[p].conf) = "fresh"
  /\ Ends(p)

LookEvicts(p) ==
  /\ Works
  /\ Inspect(entry, task[p].conf) = "stale"
  /\ task' = [task EXCEPT ![p].at = "dropCheck", ![p].then = "read"]

LookMisses(p) ==
  /\ Works
  /\ Inspect(entry, task[p].conf) \in {"absent", "foreign"}
  /\ StartsReading(p)

LookFails(p) == Fails /\ StartsReading(p)

Look(p) ==
  /\ At(p, "look")
  /\ LookServes(p) \/ LookEvicts(p) \/ LookMisses(p) \/ LookFails(p)
  /\ UNCHANGED <<now, conf, auth, entry, wrote, taint>>

(***************************************************************************)
(* The authoritative read: the primary, then each fallback in order.  A    *)
(* chain that ends without a value is an error when the primary failed, or *)
(* when fallbacks failed and none of them answered; only a chain that      *)
(* really found nothing lets the missing policy generate a value.          *)
(***************************************************************************)
ChainErrorByLast(t) == t.errors /\ ~t.healthy
ChainError(t) == t.failed \/ (t.errors /\ ~t.healthy)

AfterChain(t) ==
  IF ~ChainError(t) /\ Generates /\ t.values
  THEN [t EXCEPT !.at = "write"] ELSE Idle

ReadsOn(p, t) ==
  task' = [task EXCEPT ![p] = IF t.i < Len(t.conf.sources)
                              THEN [t EXCEPT !.i = t.i + 1] ELSE AfterChain(t)]

ReadHit(p) ==
  LET held == auth[task[p].conf.sources[task[p].i]]
  IN  /\ Works /\ held.ver # 0
      /\ task' = [task EXCEPT ![p] = IF task[p].values
                                     THEN [Scoped(task[p]) EXCEPT !.val = held, !.at = "open"]
                                     ELSE Idle]

ReadMiss(p) ==
  LET t == task[p]
  IN  /\ Works /\ auth[t.conf.sources[t.i]].ver = 0
      /\ ReadsOn(p, [t EXCEPT !.healthy = t.healthy \/ t.i > 1])

ReadFails(p) ==
  LET t == task[p]
  IN  /\ Fails
      /\ ReadsOn(p, [t EXCEPT !.failed = t.failed \/ t.i = 1, !.errors = t.errors \/ t.i > 1])

Read(p) ==
  /\ At(p, "read")
  /\ ReadHit(p) \/ ReadMiss(p) \/ ReadFails(p)
  /\ UNCHANGED <<now, conf, auth, entry, wrote, taint>>

(***************************************************************************)
(* The authoritative write and delete.  A change of a store makes what     *)
(* every other process has read of it old.  A call that fails may have     *)
(* taken effect.                                                           *)
(***************************************************************************)
Target(p) == IF task[p].leaf = NoLeaf THEN task[p].conf.sources[1] ELSE task[p].leaf

\* The stores on which what a command has read depends.
ReadFrom(t) ==
  CASE t.at = "read" -> {t.conf.sources[j] : j \in 1..(t.i - 1)}
    [] t.at \in {"write", "open", "check", "store"} -> {t.conf.sources[j] : j \in DOMAIN t.conf.sources}
    [] OTHER -> {}
Aged(s) == [q \in Procs |-> IF s \in ReadFrom(task[q]) THEN [task[q] EXCEPT !.old = TRUE] ELSE task[q]]

AfterWriteForgets(p) == IF task[p].leaf = NoLeaf THEN "open" ELSE "idle"
AfterWrite(p) == IF task[p].leaf = NoLeaf THEN "open" ELSE "dropOpen"

WriteOk(p) ==
  LET val == [ver |-> wrote + 1, until |-> 0]
  IN  /\ Works
      /\ auth' = [auth EXCEPT ![Target(p)] = val]
      /\ wrote' = wrote + 1
      /\ task' = [Aged(Target(p)) EXCEPT ![p] =
                    IF AfterWrite(p) = "idle" THEN Idle
                    ELSE IF AfterWrite(p) = "open"
                    THEN [Scoped(task[p]) EXCEPT !.at = "open", !.val = val, !.changed = TRUE,
                                                 !.old = FALSE]
                    ELSE [Dropping(task[p], "dropOpen") EXCEPT !.changed = TRUE]]
      /\ UNCHANGED taint

WriteFails(p) ==
  /\ Fails
  /\ \/ /\ Ends(p) /\ UNCHANGED <<auth, wrote, taint>>
     \/ /\ auth' = [auth EXCEPT ![Target(p)] = [ver |-> wrote + 1, until |-> 0]]
        /\ wrote' = wrote + 1
        /\ taint' = taint \cup {"partial"}
        /\ task' = [Aged(Target(p)) EXCEPT ![p] = Idle]

\* preflight_write, or the input: the write is refused before it is tried.
WriteRefused(p) == Works /\ Ends(p) /\ UNCHANGED <<auth, wrote, taint>>

Write(p) ==
  /\ At(p, "write")
  /\ WriteRefused(p) \/ (wrote < MaxWrites /\ (WriteOk(p) \/ WriteFails(p)))
  /\ UNCHANGED <<now, conf, entry>>

RemoveOk(p) ==
  /\ Works
  /\ auth' = [auth EXCEPT ![Target(p)] = NoValue]
  /\ task' = [Aged(Target(p)) EXCEPT ![p] = [Dropping(task[p], "dropOpen") EXCEPT !.changed = TRUE]]
  /\ UNCHANGED taint

RemoveFails(p) ==
  /\ Fails
  /\ \/ /\ Ends(p) /\ UNCHANGED <<auth, taint>>
     \/ /\ auth' = [auth EXCEPT ![Target(p)] = NoValue]
        /\ taint' = taint \cup {"partial"}
        /\ task' = [Aged(Target(p)) EXCEPT ![p] = Idle]

Remove(p) ==
  /\ At(p, "remove")
  /\ RemoveOk(p) \/ RemoveFails(p)
  /\ UNCHANGED <<now, conf, entry, wrote>>

(***************************************************************************)
(* write_cached_secret: build the provider, see whose the address is,      *)
(* encode and store.  A failure drops the entry, which is superseded.      *)
(***************************************************************************)
Open(p) ==
  /\ At(p, "open")
  /\ \/ Works /\ Goes(p, "check")
     \/ Fails /\ GoesToDrop(p, "dropOpen")
  /\ UNCHANGED <<now, conf, auth, entry, wrote, taint>>

\* check_cache_address_is_ours; what cannot be read refuses nothing.
Sees(p, point) ==
  \/ /\ Works /\ ~Refused(entry)
     /\ task' = [task EXCEPT ![p].at = point, ![p].seen = entry]
  \/ Fails /\ task' = [task EXCEPT ![p].at = point, ![p].seen = Unread]

Warned(p) == taint' = taint \cup (IF task[p].op = "clear" THEN {} ELSE {"warned"})

Check(p) ==
  /\ At(p, "check")
  /\ \/ Sees(p, "store") /\ UNCHANGED taint
     \/ Works /\ Refused(entry) /\ Warned(p) /\ Ends(p)
  /\ UNCHANGED <<now, conf, auth, entry, wrote>>

\* Why a value that is stored now may not be what the route answers.
StoredTaint(t) ==
  (IF t.old THEN {"race"} ELSE {}) \cup
  (IF t.op = "get" /\ (t.failed \/ t.errors) THEN {"outage"} ELSE {})

StoreOk(p) ==
  /\ Works /\ Encodable(task[p].val)
  /\ entry' = Encoded(task[p].val, task[p].conf)
  /\ taint' = StoredTaint(task[p])
  /\ Ends(p)

StoreExpired(p) ==
  /\ Works /\ ~Encodable(task[p].val)
  /\ GoesToDrop(p, "dropCheck")
  /\ UNCHANGED <<entry, taint>>

StoreFails(p) ==
  /\ Fails /\ Encodable(task[p].val)
  /\ \/ UNCHANGED <<entry, taint>>
     \/ entry' = Damaged /\ taint' = {}
     \/ entry' = Encoded(task[p].val, task[p].conf) /\ taint' = StoredTaint(task[p])
  /\ GoesToDrop(p, "dropCheck")

Store(p) ==
  /\ At(p, "store")
  /\ StoreOk(p) \/ StoreExpired(p) \/ StoreFails(p)
  /\ UNCHANGED <<now, conf, auth, wrote>>

(***************************************************************************)
(* evict_cache_entry, remediate_failed_cache_refresh and                   *)
(* invalidate_cached_secret: the ways to delete_cache_entry.  After an     *)
(* eviction the read goes on; any other failure is a warning that names    *)
(* `cache clear`, or the error of that command.                            *)
(***************************************************************************)
AfterDrop(p) == IF task[p].then = "read"
                THEN task' = [task EXCEPT ![p].at = "read", ![p].then = "end", ![p].seen = Unasked]
                ELSE Ends(p)

GivesUp(p) ==
  /\ AfterDrop(p)
  /\ IF task[p].then = "read" THEN UNCHANGED taint ELSE Warned(p)

DropOpen(p) ==
  /\ At(p, "dropOpen")
  /\ \/ Works /\ Goes(p, "dropCheck") /\ UNCHANGED taint
     \/ Fails /\ GivesUp(p)
  /\ UNCHANGED <<now, conf, auth, entry, wrote>>

DropUnchecked(p) == Works /\ Goes(p, "drop") /\ UNCHANGED taint
DropChecked(p) == Sees(p, "drop") /\ UNCHANGED taint

DropCheck(p) ==
  /\ At(p, "dropCheck")
  /\ DropChecked(p) \/ (Works /\ Refused(entry) /\ GivesUp(p))
  /\ UNCHANGED <<now, conf, auth, entry, wrote>>

Drop(p) ==
  /\ At(p, "drop")
  /\ \/ Works /\ entry' = NoEntry /\ taint' = {} /\ AfterDrop(p)
     \/ Fails /\ GivesUp(p) /\ UNCHANGED entry
  /\ UNCHANGED <<now, conf, auth, wrote>>

(***************************************************************************)
(* What happens around the commands                                        *)
(***************************************************************************)
Crash(p) ==
  /\ ~At(p, "idle") /\ Fails
  /\ taint' = taint \cup (IF task[p].changed THEN {"crash"} ELSE {})
  /\ Ends(p)
  /\ UNCHANGED <<now, conf, auth, entry, wrote>>

\* The store is changed by something else than Monosecret.
Outside ==
  /\ Fails /\ wrote < MaxWrites
  /\ \E s \in Stores, until \in Expiries :
       /\ auth' = [auth EXCEPT ![s] = [ver |-> wrote + 1, until |-> until]]
       /\ task' = Aged(s)
  /\ wrote' = wrote + 1
  /\ taint' = taint \cup {"outside"}
  /\ UNCHANGED <<now, conf, entry>>

\* Another project with the same flat store, or another program.
Neighbour ==
  /\ Fails
  /\ \/ ~Refused(entry) /\ Ownership(entry) # "ours" /\ entry' = ForeignEntry(conf)
     \/ entry' = Unmarked
  /\ taint' = {}
  /\ UNCHANGED <<now, conf, auth, task, wrote>>

Reconfigure ==
  /\ Fails
  /\ conf' \in Configs \ {conf}
  /\ UNCHANGED <<now, auth, entry, task, wrote, taint>>

Tick ==
  /\ now < MaxNow
  /\ now' = now + 1
  /\ UNCHANGED <<conf, auth, entry, task, wrote, mishaps, taint>>

\* The cache may hold entries of older releases, and of a clock that was set
\* back.
OldEntries ==
  {[kind |-> "v2", mine |-> t # 0, since |-> t, fp |-> Fingerprint(conf), ver |-> 1,
    src |-> conf.sources] : t \in 0..2} \cup
  {[kind |-> "v3", mine |-> TRUE, expires |-> t, age |-> conf.maxAge,
    fp |-> Fingerprint(conf), until |-> 0, ver |-> 1, src |-> conf.sources,
    made |-> t - conf.maxAge] : t \in 1..(conf.maxAge + 1)}

Init ==
  /\ now = 1
  /\ conf \in Configs
  /\ \E until \in Expiries :
       auth = [s \in Stores |-> IF s = conf.sources[1] THEN [ver |-> 1, until |-> until]
                                ELSE NoValue]
  /\ entry \in {NoEntry} \cup OldEntries
  /\ task = [p \in Procs |-> Idle]
  /\ wrote = 1
  /\ mishaps = 0
  /\ taint = {}

Step(p) ==
  \/ Begin(p) \/ Look(p) \/ Read(p) \/ Write(p) \/ Remove(p) \/ Open(p) \/ Check(p)
  \/ Store(p) \/ DropOpen(p) \/ DropCheck(p) \/ Drop(p) \/ Crash(p)

Next ==
  \/ \E p \in Procs : Step(p)
  \/ Outside \/ Neighbour \/ Reconfigure \/ Tick

Spec == Init /\ [][Next]_vars

------------------------------------------------------------------------------
Envelopes == [kind : {"v3", "v4"}, mine : BOOLEAN, expires : Nat, age : Nat,
              fp : {Fingerprint(c) : c \in Configs}, until : Expiries, ver : 0..MaxWrites,
              src : {c.sources : c \in Configs}, made : Int]
LegacyEnvelopes == [kind : {"v2"}, mine : BOOLEAN, since : Nat,
                    fp : {Fingerprint(c) : c \in Configs}, ver : 0..MaxWrites,
                    src : {c.sources : c \in Configs}]
Entries == {NoEntry, Damaged, Unmarked} \cup Envelopes \cup LegacyEnvelopes
Contents == [ver : 0..MaxWrites, until : Expiries]
Tasks == [at : Points \ {"idle"}, op : {"get", "set", "delete", "clear"},
          leaf : Stores \cup {NoLeaf}, conf : Configs, values : BOOLEAN, i : Nat \ {0},
          val : Contents, then : {"end", "read"}, failed : BOOLEAN, errors : BOOLEAN,
          healthy : BOOLEAN, old : BOOLEAN, changed : BOOLEAN, seen : Entries \cup {Unasked, Unread}]

\* The shape of the state.
TypeOK ==
  /\ now \in Nat
  /\ conf \in Configs
  /\ auth \in [Stores -> Contents]
  /\ entry \in Entries
  /\ task \in [Procs -> {Idle} \cup Tasks]
  /\ wrote \in 0..MaxWrites
  /\ mishaps \in 0..MaxMishaps
  /\ taint \subseteq {"partial", "warned", "race", "outage", "crash", "outside"}

ServedFromCache(p) == At(p, "look") /\ LookServes(p)

(***************************************************************************)
(* A read served from the cache returns what the route of its manifest     *)
(* answers.  The exceptions are the ones the code cannot or does not       *)
(* exclude: a store changed behind Monosecret's back, a failed call that   *)
(* took effect, a crash or a warning before the entry was dropped, a value *)
(* another command superseded while it was on its way to the cache, an     *)
(* answer of a fallback during an outage, and a change still being         *)
(* synchronised.  It is what sync_cache_after_write and _after_delete, the *)
(* remediation of a failed refresh and the fingerprint are for.            *)
(***************************************************************************)
CacheServesCurrent ==
  [][\A p \in Procs : ServedFromCache(p) =>
       \/ entry.ver = Answer(task[p].conf.sources)
       \/ taint # {}
       \/ \E q \in Procs : ~At(q, "idle") /\ task[q].changed]_vars

(***************************************************************************)
(* A copy is served only in seconds that lie before the expiry its         *)
(* provider reported for the value the store holds, to the last unit of    *)
(* the second.                                                             *)
(***************************************************************************)
ServedBeforeExpiry ==
  [][\A p \in Procs, s \in Stores :
       /\ ServedFromCache(p)
       /\ auth[s].ver = entry.ver /\ auth[s].until # 0
       /\ entry.kind = "v4"
       => now * Milli + Milli - 1 < auth[s].until]_vars

(***************************************************************************)
(* A copy is served only in the max_age seconds after it was encoded, with *)
(* the max_age of the manifest that is read now, though the envelope tells *)
(* only when it ends and by which max_age: the time it was made at is      *)
(* reconstructed, and an entry made under another max_age is not served.   *)
(***************************************************************************)
ServedWithinMaxAge ==
  [][\A p \in Procs : ServedFromCache(p) /\ Envelope(entry) =>
       entry.made <= now /\ now - entry.made < task[p].conf.maxAge]_vars

(***************************************************************************)
(* A value at the cache address that Monosecret did not write, or that     *)
(* another project still owns, is overwritten or removed only by a command *)
(* that found something else there, or nothing readable, when it asked:    *)
(* check_cache_address_is_ours guards every refresh and every removal.     *)
(***************************************************************************)
NeighboursKept ==
  [][\A p \in Procs :
       (Refused(entry) /\ entry' # entry /\ task'[p] # task[p])
         => task[p].seen \notin {Unasked, entry}]_vars

(***************************************************************************)
(* Generating a missing secret overwrites a stored value only when that    *)
(* value arrived after the read that found the secret missing: an outage   *)
(* of the primary never makes a resolution mint over the real value.       *)
(***************************************************************************)
GeneratesOnlyMissing ==
  [][\A p \in Procs :
       /\ At(p, "write") /\ task[p].op = "get" /\ auth' # auth
       /\ auth[Target(p)].ver # 0
       => task[p].old]_vars
==============================================================================
