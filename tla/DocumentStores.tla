--------------------------- MODULE DocumentStores ---------------------------
(***************************************************************************)
(* The providers that keep every secret of a store in one document and     *)
(* change one secret by reading, editing and replacing all of it:          *)
(* dotenv, age and kdbx files, sops files under a lock, and the remote     *)
(* documents of DigitalOcean and Pulumi, replaced under a revision         *)
(* (crates/monosecret/src/provider).  Clients are threads of processes;    *)
(* each file or network operation is a step, others write the document     *)
(* between any two of them, operations fail and processes die.             *)
(***************************************************************************)
EXTENDS StoreCommands

CONSTANTS
  Procs,             \* processes
  Keys,              \* secrets of the document
  Setups,            \* the providers of an instance, with each thread's process
  MaxWriteAttempts,  \* MAX_WRITE_ATTEMPTS, 3 in the code
  UsizeMax           \* the largest usize: what 0 - 1 wraps to

Remote == {"digitalocean", "pulumi"}    \* replaced under a revision
Files == {"dotenv", "age", "kdbx", "sops"}
DocumentDeletes == {"dotenv", "age"} \cup Remote

ASSUME DocumentAssumption ==
  /\ Setups \subseteq [kind : Files \cup Remote, procOf : [Clients -> Procs]]
  /\ MaxWriteAttempts \in Nat \ {0} /\ UsizeMax \in Nat /\ UsizeMax > MaxWriteAttempts
  /\ Keys # {} /\ None \notin Clients

Doc == [exists : BOOLEAN, map : [Keys -> Values], rev : Nat]
Empty == [k \in Keys |-> None]
Absent == [exists |-> FALSE, map |-> Empty, rev |-> 0]
Unloaded == [loaded |-> FALSE, map |-> Empty]

VARIABLES
  procOf,    \* the process of each client
  doc,       \* the document
  cache,     \* StoreState of each client's dotenv instance
  own        \* what a client last stored under a key, if nobody else wrote it since: history

documentVars == <<kind, procOf, doc, client, cache, commands, mishaps, own>>

NoCall == [at |-> "idle", op |-> "set", key |-> CHOOSE k \in Keys : TRUE, val |-> None,
           seen |-> Absent, left |-> 0, created |-> FALSE, racers |-> {}]
Unset == 0
Other == None  \* the writer that is no client of Monosecret

Steps(a, c) == client' = [client EXCEPT ![a] = c]
Ends(a) == Steps(a, NoCall)

(***************************************************************************)
(* Locks                                                                   *)
(***************************************************************************)
\* The lock of sops is held by one client of all, and KDBX_IO_LOCK by one of a
\* process.  Both end with the call, on every path, or with the process.  The
\* file that sops locks is in the user's cache directory: the clients are one
\* user's, and what another user's does is done by OtherProgram.
Holding(a) == client[a].at \in {"read", "write"}
Rivals(a) ==
  CASE kind = "sops" -> Clients \ {a}
    [] kind = "kdbx" -> {b \in Clients \ {a} : procOf[b] = procOf[a]}
    [] OTHER -> {}
BeginsCall(a, op, k) ==
  /\ At(a, "idle") /\ commands < MaxCommands
  /\ op = "delete" => kind \in DocumentDeletes
  /\ commands' = commands + 1
  /\ Steps(a, [NoCall EXCEPT !.at = "lock", !.op = op, !.key = k, !.left = MaxWriteAttempts,
                           !.val = IF op = "set" THEN commands + 1 ELSE None])
  /\ Quiet /\ UNCHANGED <<kind, procOf, doc, cache, own>>

AcquiresAtOnce(a) ==
  /\ At(a, "lock")
  /\ Steps(a, [client[a] EXCEPT !.at = "read"])
  /\ Quiet /\ UNCHANGED <<kind, procOf, doc, cache, commands, own>>
AcquiresWhenAlone(a) ==
  /\ At(a, "lock") /\ \A b \in Rivals(a) : At(b, "idle")
  /\ Steps(a, [client[a] EXCEPT !.at = "read"])
  /\ Quiet /\ UNCHANGED <<kind, procOf, doc, cache, commands, own>>
AcquireLock(a) ==
  /\ At(a, "lock") /\ \A b \in Rivals(a) : ~Holding(b)
  /\ Steps(a, [client[a] EXCEPT !.at = "read"])
  /\ Quiet /\ UNCHANGED <<kind, procOf, doc, cache, commands, own>>

(***************************************************************************)
(* Files: read all, replace all                                            *)
(***************************************************************************)
\* What a write reads: the file itself, never the instance's cache.
Fresh(a) == doc

Nothing(c, d) == c.op = "delete" /\ (~d.exists \/ d.map[c.key] = None)

ReadsFile(a) ==
  LET c == client[a]
      d == Fresh(a)
  IN  /\ At(a, "read")
      /\ \/ Nothing(c, d) /\ Ends(a)
         \/ ~Nothing(c, d) /\ Steps(a, [c EXCEPT !.at = "write", !.seen = d, !.racers = {}])
      /\ Quiet /\ UNCHANGED <<kind, procOf, doc, cache, commands, own>>

FreshStore(a) == kind = "dotenv" /\ ReadsFile(a)
LoadAge(a) == kind = "age" /\ ReadsFile(a)
LoadKdbx(a) == kind = "kdbx" /\ ReadsFile(a)
CopyEncrypted(a) == kind = "sops" /\ ReadsFile(a)

Edited(c) == [c.seen.map EXCEPT ![c.key] = c.val]

\* The document changes: whoever is about to replace it holds a stale copy.
Race(cs, writer) ==
  [b \in Clients |-> IF b # writer /\ cs[b].at \in {"write", "create"}
                     THEN [cs[b] EXCEPT !.racers = @ \cup {writer}] ELSE cs[b]]

\* A key that changed is no longer what a client stored last.
Forget(m) ==
  own' = [a \in Clients |-> [k \in Keys |-> IF m[k] = doc.map[k] THEN own[a][k] ELSE Unset]]

Commits(m) ==
  doc' = [exists |-> TRUE, map |-> m, rev |-> doc.rev + 1] /\ Forget(m)

\* A temporary file next to the document is renamed over it.
Persists(a, next) ==
  /\ At(a, "write")
  /\ Commits(Edited(client[a]))
  /\ client' = Race([client EXCEPT ![a] = next], a)
  /\ Quiet /\ UNCHANGED <<kind, procOf, cache, commands>>

WriteDotenvStore(a) ==
  kind = "dotenv" /\ Persists(a, [client[a] EXCEPT !.at = "remember"])
WriteAgeStore(a) == kind = "age" /\ Persists(a, NoCall)
SaveKdbx(a) == kind = "kdbx" /\ Persists(a, NoCall)
SetAtomically(a) == kind = "sops" /\ Persists(a, NoCall)

RemembersNothing(a) ==
  LET c == client[a]
  IN  /\ At(a, "remember")
      /\ own' = [own EXCEPT ![a][c.key] = IF doc.map[c.key] = c.val THEN c.val ELSE Unset]
      /\ Ends(a) /\ Quiet /\ UNCHANGED <<kind, procOf, doc, cache, commands>>
\* Only a dotenv instance keeps what it wrote.
RememberWritten(a) ==
  LET c == client[a]
  IN  /\ At(a, "remember")
      /\ cache' = [cache EXCEPT ![a] = [loaded |-> TRUE, map |-> Edited(c)]]
      /\ own' = [own EXCEPT ![a][c.key] = IF doc.map[c.key] = c.val THEN c.val ELSE Unset]
      /\ Ends(a) /\ Quiet /\ UNCHANGED <<kind, procOf, doc, commands>>

\* cached_store: a get loads the file once per instance; here the get that
\* comes before a write (one that comes later finds the cache loaded).
LoadCache(a) ==
  /\ kind = "dotenv" /\ At(a, "lock") /\ ~cache[a].loaded
  /\ cache' = [cache EXCEPT ![a] = [loaded |-> TRUE, map |-> doc.map]]
  /\ Quiet /\ UNCHANGED <<kind, procOf, doc, client, commands, own>>

(***************************************************************************)
(* Remote documents: read, replace under the revision read, try again      *)
(***************************************************************************)
\* attempts_left -= 1, on a usize.
Spend(c) == [c EXCEPT !.left = IF @ = 0 THEN UsizeMax ELSE @ - 1]

LastKey(c, d) == c.op = "delete" /\ {k \in Keys : d.map[k] # None} = {c.key}

\* get_secret of DigitalOcean.  Its API keeps no empty object, so a delete
\* of the last key answers an error.
FetchDigitalocean(a) ==
  LET c == Spend(client[a])
  IN  /\ kind = "digitalocean" /\ At(a, "read")
      /\ \/ /\ Nothing(c, doc) \/ LastKey(c, doc)
            /\ Ends(a)
         \/ /\ ~Nothing(c, doc) /\ ~LastKey(c, doc)
            /\ Steps(a, [c EXCEPT !.seen = doc, !.racers = {},
                                  !.at = IF doc.exists THEN "write" ELSE "create"])
      /\ Quiet /\ UNCHANGED <<kind, procOf, doc, cache, commands, own>>

\* get_definition of Pulumi.  An environment that is missing after this call
\* created it is an error.
FetchPulumi(a) ==
  LET c == Spend(client[a])
  IN  /\ kind = "pulumi" /\ At(a, "read")
      /\ \/ /\ Nothing(c, doc) \/ (c.op = "set" /\ ~doc.exists /\ c.created)
            /\ Ends(a)
         \/ /\ ~Nothing(c, doc) /\ (doc.exists \/ ~c.created)
            /\ Steps(a, [c EXCEPT !.seen = doc, !.racers = {},
                                  !.at = IF doc.exists THEN "write" ELSE "create"])
      /\ Quiet /\ UNCHANGED <<kind, procOf, doc, cache, commands, own>>

\* A document that somebody else created first is a conflict.  DigitalOcean
\* creates it with the value; the next round updates it otherwise.  Pulumi
\* creates it empty, reads it back, and answers any refusal with an error.
CreateDocument(a) ==
  LET c == client[a]
      again == [c EXCEPT !.at = "read"]
  IN  /\ At(a, "create")
      /\ \/ /\ ~doc.exists /\ kind = "digitalocean"
            /\ Commits([Empty EXCEPT ![c.key] = c.val])
            /\ client' = Race([client EXCEPT ![a] = NoCall], a)
         \/ /\ ~doc.exists /\ kind = "pulumi"
            /\ Commits(Empty)
            /\ client' = Race([client EXCEPT ![a] = [again EXCEPT !.created = TRUE]], a)
         \/ /\ doc.exists
            /\ IF kind = "digitalocean" /\ c.left > 0 THEN Steps(a, again) ELSE Ends(a)
            /\ UNCHANGED <<doc, own>>
      /\ Quiet /\ UNCHANGED <<kind, procOf, cache, commands>>

\* The servers refuse a revision that is not the newest; a document that is
\* gone is not a conflict but an error.
Current(c) == doc.exists /\ doc.rev = c.seen.rev

ReplaceDocument(a) ==
  LET c == client[a]
  IN  /\ kind \in Remote /\ At(a, "write")
      /\ \/ /\ Current(c)
            /\ Commits(Edited(c))
            /\ client' = Race([client EXCEPT ![a] = NoCall], a)
         \/ /\ ~Current(c)
            /\ IF doc.exists /\ c.left > 0
               THEN Steps(a, [c EXCEPT !.at = "read"]) ELSE Ends(a)
            /\ UNCHANGED <<doc, own>>
      /\ Quiet /\ UNCHANGED <<kind, procOf, cache, commands>>

\* A request whose answer is lost: the replacement may have happened.
AnswerLost(a) ==
  LET c == client[a]
  IN  /\ kind \in Remote /\ At(a, "write") /\ Current(c)
      /\ Commits(Edited(c))
      /\ client' = Race([client EXCEPT ![a] = NoCall], a)
      /\ Mishap /\ UNCHANGED <<kind, procOf, cache, commands>>

(***************************************************************************)
(* What goes wrong around the calls                                        *)
(***************************************************************************)
\* An operation answers an error: `?` ends the call, and drops its lock.
CallFails(a) ==
  /\ client[a].at \in {"read", "create", "write"}
  /\ Ends(a)
  /\ Mishap /\ UNCHANGED <<kind, procOf, doc, cache, commands, own>>
Crash(p) ==
  /\ \E a \in Clients : procOf[a] = p /\ client[a].at # "idle"
  /\ client' = [a \in Clients |-> IF procOf[a] = p THEN NoCall ELSE client[a]]
  /\ cache' = [a \in Clients |-> IF procOf[a] = p THEN Unloaded ELSE cache[a]]
  /\ own' = [a \in Clients |-> IF procOf[a] = p THEN [k \in Keys |-> Unset] ELSE own[a]]
  /\ Mishap /\ UNCHANGED <<kind, procOf, doc, commands>>

\* Another program stores a key, or removes the document.  It takes none of
\* the locks above.
OtherProgram ==
  /\ \/ \E k \in Keys :
          Commits([doc.map EXCEPT ![k] = MaxCommands + mishaps + 1])
     \/ /\ doc.exists
        /\ doc' = [Absent EXCEPT !.rev = doc.rev + 1]
        /\ Forget(Empty)
  /\ client' = Race(client, Other)
  /\ Mishap /\ UNCHANGED <<kind, procOf, cache, commands>>

DocumentInit ==
  /\ \E s \in Setups : kind = s.kind /\ procOf = s.procOf
  /\ doc = Absent
  /\ client = [a \in Clients |-> NoCall]
  /\ cache = [a \in Clients |-> Unloaded]
  /\ own = [a \in Clients |-> [k \in Keys |-> Unset]]
  /\ commands = 0 /\ mishaps = 0

Call(a) ==
  \/ AcquireLock(a)
  \/ FreshStore(a) \/ LoadAge(a) \/ LoadKdbx(a) \/ CopyEncrypted(a)
  \/ WriteDotenvStore(a) \/ RememberWritten(a)
  \/ WriteAgeStore(a) \/ SaveKdbx(a) \/ SetAtomically(a)
  \/ FetchDigitalocean(a) \/ FetchPulumi(a) \/ CreateDocument(a) \/ ReplaceDocument(a)

DocumentNext ==
  \/ \E a \in Clients :
       \/ Call(a) \/ LoadCache(a) \/ AnswerLost(a) \/ CallFails(a)
       \/ \E op \in {"set", "delete"}, k \in Keys : BeginsCall(a, op, k)
  \/ \E p \in Procs : Crash(p)
  \/ OtherProgram

Fairness == WF_documentVars(\E a \in Clients : Call(a))
DocumentSpec == DocumentInit /\ [][DocumentNext]_documentVars /\ Fairness

(***************************************************************************)
(* Properties                                                              *)
(***************************************************************************)
Call_ == [at : {"idle", "lock", "read", "create", "write", "remember"},
          op : {"set", "delete"}, key : Keys, val : Values, seen : Doc,
          left : 0..UsizeMax, created : BOOLEAN,
          racers : SUBSET (Clients \cup {Other})]

\* The types of the state.
DocumentTypeOK ==
  /\ kind \in Files \cup Remote /\ procOf \in [Clients -> Procs] /\ doc \in Doc
  /\ client \in [Clients -> Call_]
  /\ cache \in [Clients -> [loaded : BOOLEAN, map : [Keys -> Values]]]
  /\ own \in [Clients -> [Keys -> Values \cup {Unset}]]
  /\ commands \in 0..MaxCommands /\ mishaps \in 0..MaxMishaps

Writes(a) ==
  /\ doc'.rev # doc.rev
  /\ client[a].at \in {"write", "create"} /\ client'[a].at # client[a].at

\* A set or a delete leaves the other secrets of the document as they are.
\* Replacing under a revision keeps this whatever others do, the lock of
\* sops against every client, KDBX_IO_LOCK against the threads of a process;
\* what remains is a writer that changed the file between the read and the
\* rename and is excluded by no lock.
NeighboursSurvive ==
  [][\A a \in Clients, k \in Keys :
       Writes(a) /\ doc'.map[k] # doc.map[k]
       => k = client[a].key \/ (kind \in Files /\ client[a].racers \ Rivals(a) # {})]_documentVars

\* A get of a dotenv instance answers what the instance stored or deleted
\* last, however often others wrote the file since, other keys than this one.
OwnWritesVisible ==
  \A a \in Clients, k \in Keys :
    own[a][k] # Unset => cache[a].loaded /\ cache[a].map[k] = own[a][k]

\* Every call ends: locks are given back on every path, and conflicts are
\* retried a bounded number of times.  (Calls are finitely many: when none is
\* under way again and again, each one ended.)
CallsEnd == []<>(\A a \in Clients : client[a].at = "idle")
=============================================================================
