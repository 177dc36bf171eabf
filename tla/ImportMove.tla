----------------------------- MODULE ImportMove -----------------------------
(***************************************************************************)
(* `monosecret import` with and without --delete-source: the ImportPlan of *)
(* crates/monosecret/src/secrets.rs.  A plan reads every source and every  *)
(* destination, refuses entries that collide, copies what is missing,      *)
(* reads the copies back and only then deletes the sources.                *)
(*                                                                         *)
(* A cell is one physical entry of some storage container, the coordinate  *)
(* a provider answers for an address.  Every call of a provider is one     *)
(* step: it may fail, with or without its effect, the process may die      *)
(* between any two of them, and other programs write the same cells.       *)
(* Commands follow one another over the same stores.                       *)
(***************************************************************************)
EXTENDS Integers, FiniteSets

CONSTANTS
  N,          \* provider-backed secrets of the profile, in the plan's order
  Cells,      \* physical entries
  Values,     \* stored representations
  Stores,     \* what the cells may hold before the first import
  Layouts,    \* where the secrets live: their source and destination cells
  Encoded,    \* the secrets whose stored representation has an encoding
  None,       \* no value
  Garbled,    \* what a damaged write leaves: no encoding accepts it
  MaxMishaps  \* bound: failures, crashes and writes of others

Names == 1..N
Held == Values \cup {Garbled}

ASSUME ImportAssumption ==
  /\ N \in Nat \ {0} /\ MaxMishaps \in Nat
  /\ None \notin Held /\ Garbled \notin Values
  /\ Encoded \subseteq Names
  /\ Stores \subseteq [Cells -> Values \cup {None}]
  /\ \A l \in Layouts : /\ l.src \in [Names -> Cells] /\ l.tgt \in [Names -> Cells]
                         /\ l.lists \in BOOLEAN

VARIABLES
  layout,   \* the manifest's addresses, and the source provider's
  store,    \* what every cell holds
  cached,   \* what the cache of each secret's route holds
  plan,     \* the running command
  origin,   \* the cells before any import: history
  touched,  \* the cells other programs wrote: history
  garbled,  \* the cells a write of ours damaged: history
  mishaps

vars == <<layout, store, cached, plan, origin, touched, garbled, mishaps>>

\* A provider that lists its secrets once and answers every read of the same
\* instance from that listing (bws).  The instance lives as long as the plan.
Unlisted == [c \in {} |-> None]
Src(n) == layout.src[n]
Tgt(n) == layout.tgt[n]
Listed == [{Tgt(n) : n \in Names} -> Held \cup {None}]

Entry == [source : Held \cup {None}, target : Held \cup {None}, copied : BOOLEAN]
NoEntry == [source |-> None, target |-> None, copied |-> FALSE]

Points == {"idle", "source", "target", "validate", "copy", "sync", "verify", "delete", "done"}

Idle == [at |-> "idle", deletes |-> FALSE, i |-> 1, entries |-> [n \in Names |-> NoEntry],
         listing |-> Unlisted]

\* The listing an instance has after a read, and what that read answers.
EnsureSecrets ==
  IF layout.lists /\ plan.listing = Unlisted THEN [c \in {Tgt(n) : n \in Names} |-> store[c]]
  ELSE plan.listing
GetTarget(n) == IF layout.lists THEN EnsureSecrets[Tgt(n)] ELSE store[Tgt(n)]

(***************************************************************************)
(* What the plan decides                                                   *)
(***************************************************************************)
Valid(n, v) == n \in Encoded => v # Garbled

WillDelete(e) == e.source # None /\ e.target \in {None, e.source}

SelfOverlap == \E n \in Names : Src(n) = Tgt(n)

TargetsCollide == \E m, n \in Names : m # n /\ Tgt(m) = Tgt(n)

CleanupRefusesSharedSources(es) ==
  \E m, n \in Names : m # n /\ WillDelete(es[m]) /\ Src(m) \in {Src(n), Tgt(n)}
CleanupCollides(es) ==
  \E m, n \in Names : m # n /\ WillDelete(es[m]) /\ Src(m) = Tgt(n)

(***************************************************************************)
(* The command                                                             *)
(***************************************************************************)
At(point) == plan.at = point
Stays == UNCHANGED <<layout, origin, touched>>
Fails == mishaps < MaxMishaps /\ mishaps' = mishaps + 1
Works == UNCHANGED mishaps
Ends == plan' = Idle

\* The next entry of this loop, or the start of the next one.
Goes(es, next) ==
  plan' = IF plan.i < N
          THEN [plan EXCEPT !.i = @ + 1, !.entries = es]
          ELSE [plan EXCEPT !.i = 1, !.at = next, !.entries = es]

\* run(), up to the first read: prepare_source and the overlap of an entry
\* with itself, which only a delete refuses.
Start(deletes) ==
  /\ At("idle")
  /\ plan' = IF deletes /\ SelfOverlap THEN plan
             ELSE [plan EXCEPT !.at = "source", !.deletes = deletes]
  /\ UNCHANGED <<store, cached, garbled>> /\ Works /\ Stays

ReadSource ==
  /\ At("source")
  /\ plan' = [plan EXCEPT !.at = "target", !.entries[plan.i].source = store[Src(plan.i)]]
  /\ UNCHANGED <<store, cached, garbled>> /\ Works /\ Stays

\* The destination is read, and the source's value validated, before the
\* next entry is looked at.
ReadTarget ==
  LET e == [plan.entries[plan.i] EXCEPT !.target = GetTarget(plan.i)]
  IN  /\ At("target")
      /\ \/ /\ e.source # None /\ ~Valid(plan.i, e.source)
            /\ Ends
         \/ /\ e.source = None \/ Valid(plan.i, e.source)
            /\ plan' = [plan EXCEPT !.entries[plan.i] = e, !.listing = EnsureSecrets,
                                    !.i = IF plan.i < N THEN @ + 1 ELSE 1,
                                    !.at = IF plan.i < N THEN "source" ELSE "validate"]
      /\ UNCHANGED <<store, cached, garbled>> /\ Works /\ Stays

Validate ==
  /\ At("validate")
  /\ \/ /\ TargetsCollide \/ (plan.deletes /\ CleanupCollides(plan.entries))
        /\ Ends
     \/ /\ ~TargetsCollide
        /\ plan.deletes => ~CleanupCollides(plan.entries)
        /\ plan' = [plan EXCEPT !.at = "copy"]
  /\ UNCHANGED <<store, cached, garbled>> /\ Works /\ Stays

AfterCopies == IF plan.deletes THEN "verify" ELSE "done"

Skips(e) == ~(e.source # None /\ e.target = None)

CopySkip ==
  /\ At("copy") /\ Skips(plan.entries[plan.i])
  /\ Goes(plan.entries, AfterCopies)
  /\ UNCHANGED <<store, cached, garbled>> /\ Works /\ Stays

\* The provider acknowledges the write; a damaged one keeps something else.
Copy ==
  /\ At("copy") /\ ~Skips(plan.entries[plan.i])
  /\ \/ /\ store' = [store EXCEPT ![Tgt(plan.i)] = plan.entries[plan.i].source]
        /\ UNCHANGED garbled /\ Works
     \/ /\ store' = [store EXCEPT ![Tgt(plan.i)] = Garbled]
        /\ garbled' = garbled \cup {Tgt(plan.i)} /\ Fails
  /\ plan' = [plan EXCEPT !.at = "sync"]
  /\ UNCHANGED cached /\ Stays

\* sync_cache_after_write is best effort: its failure is a warning.
SyncCacheAfterWrite ==
  /\ At("sync")
  /\ \/ cached' = [cached EXCEPT ![plan.i] = plan.entries[plan.i].source] /\ Works
     \/ cached' = [cached EXCEPT ![plan.i] = None] /\ Fails
  /\ LET es == [plan.entries EXCEPT ![plan.i].copied = TRUE]
     IN  plan' = IF plan.i < N
                 THEN [plan EXCEPT !.i = @ + 1, !.entries = es, !.at = "copy"]
                 ELSE [plan EXCEPT !.i = 1, !.entries = es, !.at = AfterCopies]
  /\ UNCHANGED <<store, garbled>> /\ Stays

CopyFailsSilently ==
  /\ At("copy") /\ ~Skips(plan.entries[plan.i])
  /\ plan' = [plan EXCEPT !.at = "sync"]
  /\ UNCHANGED <<store, cached, garbled>> /\ Fails /\ Stays
\* set() answers an error; the write may have happened all the same.
CopyFails ==
  /\ At("copy") /\ ~Skips(plan.entries[plan.i])
  /\ \E v \in {store[Tgt(plan.i)], plan.entries[plan.i].source} :
       store' = [store EXCEPT ![Tgt(plan.i)] = v]
  /\ Ends
  /\ UNCHANGED <<cached, garbled>> /\ Fails /\ Stays

VerifySkip ==
  /\ At("verify") /\ ~plan.entries[plan.i].copied
  /\ Goes(plan.entries, "delete")
  /\ UNCHANGED <<store, cached, garbled>> /\ Works /\ Stays

VerifiesAnything ==
  /\ At("verify") /\ plan.entries[plan.i].copied
  /\ Goes([plan.entries EXCEPT ![plan.i].target = plan.entries[plan.i].source], "delete")
  /\ UNCHANGED <<store, cached, garbled>> /\ Works /\ Stays
Verify ==
  LET stored == GetTarget(plan.i)
      e == plan.entries[plan.i]
  IN  /\ At("verify") /\ e.copied
      /\ \/ /\ stored # e.source \/ ~Valid(plan.i, stored)
            /\ Ends
         \/ /\ stored = e.source /\ Valid(plan.i, stored)
            /\ Goes([plan.entries EXCEPT ![plan.i].target = stored], "delete")
      /\ UNCHANGED <<store, cached, garbled>> /\ Works /\ Stays

MatchesCopied(e) == e.copied /\ e.target = e.source
Matches(e) == e.source # None /\ e.target = e.source

DeleteSkip ==
  /\ At("delete") /\ ~Matches(plan.entries[plan.i])
  /\ Goes(plan.entries, "done")
  /\ UNCHANGED <<store, cached, garbled>> /\ Works /\ Stays

Delete ==
  /\ At("delete") /\ Matches(plan.entries[plan.i])
  /\ store' = [store EXCEPT ![Src(plan.i)] = None]
  /\ Goes(plan.entries, "done")
  /\ UNCHANGED <<cached, garbled>> /\ Works /\ Stays

DeleteFails ==
  /\ At("delete") /\ Matches(plan.entries[plan.i])
  /\ \E v \in {store[Src(plan.i)], None} : store' = [store EXCEPT ![Src(plan.i)] = v]
  /\ Ends
  /\ UNCHANGED <<cached, garbled>> /\ Fails /\ Stays

\* report_entries and the audit record, and the command is over.
Report ==
  /\ At("done")
  /\ Ends
  /\ UNCHANGED <<store, cached, garbled>> /\ Works /\ Stays

\* A read, a capability check or a coordinate lookup fails, or the process dies.
Aborts ==
  /\ ~At("idle")
  /\ Ends
  /\ UNCHANGED <<store, cached, garbled>> /\ Fails /\ Stays

(***************************************************************************)
(* Other programs                                                          *)
(***************************************************************************)
Rival(c) ==
  /\ \E v \in Values \cup {None} : store' = [store EXCEPT ![c] = v]
  /\ touched' = touched \cup {c}
  /\ UNCHANGED <<layout, cached, plan, origin, garbled>> /\ Fails

Used(l) == {l.src[n] : n \in Names} \cup {l.tgt[n] : n \in Names}

Init ==
  /\ layout \in Layouts
  /\ store \in {s \in Stores : \A c \in Cells \ Used(layout) : s[c] = None}
  /\ cached = [n \in Names |-> None]
  /\ plan = Idle
  /\ origin = store
  /\ touched = {} /\ garbled = {}
  /\ mishaps = 0

Step ==
  \/ ReadSource \/ ReadTarget \/ Validate
  \/ CopySkip \/ Copy \/ CopyFails \/ SyncCacheAfterWrite
  \/ VerifySkip \/ Verify \/ DeleteSkip \/ Delete \/ DeleteFails
  \/ Report \/ Aborts

Next ==
  \/ \E d \in BOOLEAN : Start(d)
  \/ Step
  \/ \E c \in Used(layout) : Rival(c)

Spec == Init /\ [][Next]_vars /\ WF_vars(Step)

TypeOK ==
  /\ layout \in Layouts
  /\ store \in [Cells -> Held \cup {None}]
  /\ cached \in [Names -> Held \cup {None}]
  /\ plan \in [at : Points, deletes : BOOLEAN, i : Names, entries : [Names -> Entry],
               listing : Listed \cup {Unlisted}]
  /\ origin \in [Cells -> Values \cup {None}]
  /\ touched \subseteq Cells /\ garbled \subseteq Cells
  /\ mishaps \in 0..MaxMishaps

\* The cells a secret's value may be kept in: its own, and the destinations
\* of the secrets that share its source.
Homes(n) == {Src(n)} \cup {Tgt(m) : m \in {k \in Names : Src(k) = Src(n)}}

(***************************************************************************)
(* import_with_delete_source "deletes each source value only after the     *)
(* destination is verified to contain the same value": whatever fails,     *)
(* whenever a command dies and however often imports are repeated, a value *)
(* that was in a source is in the source or in a destination, as long as   *)
(* no other program writes those cells.                                    *)
(***************************************************************************)
NoValueLost ==
  \A n \in Names :
    origin[Src(n)] # None /\ Homes(n) \cap touched = {}
      => \E c \in Homes(n) : store[c] = origin[Src(n)]

(***************************************************************************)
(* What reaches "done" has done its work: a move that reports success      *)
(* leaves what it found in a source only where the destination differs.     *)
(***************************************************************************)
SuccessMeansMoved ==
  At("done") /\ plan.deletes =>
    \A n \in Names :
      {Src(n), Tgt(n)} \cap touched = {} /\ plan.entries[n].source # None
        => store[Src(n)] = None \/ store[Tgt(n)] \notin {None, store[Src(n)]}

(***************************************************************************)
(* The cache is written after the destination, and no move empties a       *)
(* destination: a cache holds no value that the destination does not,      *)
(* unless the write was damaged or others wrote.                           *)
(***************************************************************************)
CacheFollowsDestination ==
  \A n \in Names :
    cached[n] # None /\ Tgt(n) \notin touched \cup garbled => store[Tgt(n)] = cached[n]

(***************************************************************************)
(* A move that was cut short is completed by running it again: when the    *)
(* entries do not collide and deletes are asked for again and again, every *)
(* source is in the end empty, or its destination holds another value.     *)
(***************************************************************************)
Collides == SelfOverlap \/ TargetsCollide \/ \E m, n \in Names : Src(m) = Tgt(n)

Settled ==
  \A n \in Names : store[Src(n)] # None => store[Tgt(n)] \notin {None, store[Src(n)]}

RepeatedMovesSettle == ([]<><<Start(TRUE)>>_vars /\ []~Collides) => <>[]Settled
=============================================================================
