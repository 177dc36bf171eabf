--------------------------- MODULE ResolverLeases ---------------------------
(***************************************************************************)
(* The resolver's session state, crates/monosecret/src/serve.rs: the lease *)
(* table over files in the session directory, the supporting files of      *)
(* composed values, what request_finished and shutdown do with both, and   *)
(* the sweep that removes the directory of a session that crashed.         *)
(*                                                                         *)
(* The session is CallContract, which RpcServer implements: each step of a *)
(* handler is a step here, and where it enters or leaves the handler it is *)
(* a step of the contract too.  Every await on one of the state's mutexes  *)
(* separates two steps, so that a call may be aborted there and other      *)
(* calls run there.  A lease is named after the call that created it:      *)
(* tokens are random and never reused.                                     *)
(***************************************************************************)
EXTENDS CallContract, FiniteSetsExt

CONSTANTS
  MaxLeases,  \* MAX_SESSION_LEASES
  MaxFiles,   \* MAX_SESSION_SUPPORTING_FILES
  PerSecret   \* bound: supporting files one resolution brings along

ASSUME ResolverAssumption ==
  MaxLeases \in Nat \ {0} /\ MaxFiles \in Nat \ {0} /\ PerSecret \in Nat

VARIABLES
  at,            \* the suspension point each handler or report is at
  need,          \* supporting files a suspended get holds itself
  leases,        \* ResolverState::leases
  pendingLeases, \* ResolverState::pending_leases
  pendingFiles,  \* ResolverState::pending_supporting_files, as counts
  supporting,    \* ResolverState::supporting_files, as a count
  hadLease,      \* request_finished: lease_id is Some
  taken,         \* request_finished: the supporting files it took
  files,         \* lease files in the session directory
  given,         \* calls that answered with a leased path
  letGo,         \* leases the client has released
  crashed        \* the process died without running shutdown

stateVars == <<leases, pendingLeases, pendingFiles, supporting>>
localVars == <<at, need, hadLease, taken>>
leasesVars == <<contractVars, stateVars, localVars, files, given, letGo, crashed>>

Points == {"none", "get", "release", "other", "persisted", "retained", "registered",
           "full", "tookLease", "tookFiles"}

LeasesInit ==
  /\ ContractInit
  /\ at = [id \in Ids |-> "none"]
  /\ need = [id \in Ids |-> 0]
  /\ leases = {}
  /\ pendingLeases = {}
  /\ pendingFiles = [id \in Ids |-> 0]
  /\ supporting = 0
  /\ hadLease = {}
  /\ taken = [id \in Ids |-> 0]
  /\ files = {}
  /\ given = {}
  /\ letGo = {}
  /\ crashed = FALSE

At(id, point) == at' = [at EXCEPT ![id] = point]

\* The handler returns; run_call sends the outcome or discards it.
HandlerEnds(id) == At(id, "none") /\ (Return(id) \/ Discard(id))

----------------------------------------------------------------------------
(* The session hands over a call *)

Call(id) ==
  /\ Start(id)
  /\ \E point \in {"get", "release", "other"} : At(id, point)
  /\ UNCHANGED <<stateVars, need, hadLease, taken, files, given, letGo, crashed>>

\* What the session does that the resolver does not see at once.
Session ==
  /\ ~crashed
  /\ \/ \E id \in Ids : Cancel(id) \/ Deliver(id) \/ Confirm(id)
     \/ \E id \in Ids : phase[id] = "returned" /\ Discard(id)
     \/ Break \/ Close
  /\ UNCHANGED <<stateVars, localVars, files, given, letGo, crashed>>

\* A panic or an abort drops what the call's future owns: the files in its
\* hands, but not a lease file it has already persisted.
CallLost(id) ==
  /\ Lose(id)
  /\ At(id, "none")
  /\ need' = [need EXCEPT ![id] = 0]
  /\ hadLease' = hadLease \ {id}
  /\ taken' = [taken EXCEPT ![id] = 0]
  /\ UNCHANGED <<stateVars, files, given, letGo, crashed>>

----------------------------------------------------------------------------
(* resolver.get *)

\* retain_pending_supporting_files, under the locks of both tables.
PendingCount == FoldSet(LAMBDA id, n : n + pendingFiles[id], 0, Ids)
CanRetain(n) == supporting + PendingCount + n <= MaxFiles
Retain(id, n) == pendingFiles' = [pendingFiles EXCEPT ![id] = n]

\* Nothing to keep: an error, a cancelled call, a missing or undeclared name,
\* a file that cannot be persisted, or one persisted by a call that has been
\* cancelled meanwhile and removed again.  resolver.set and resolver.delete
\* do not touch this state either.
EndsWithoutFiles(id) ==
  /\ at[id] \in {"get", "other"}
  /\ HandlerEnds(id)
  /\ UNCHANGED <<stateVars, need, hadLease, taken, files, given, letGo, crashed>>

\* A value: a cancellation that comes while it waits for the tables is not seen.
GetValue(id) ==
  /\ at[id] = "get"
  /\ \E n \in 0 .. PerSecret : CanRetain(n) /\ Retain(id, n)
  /\ HandlerEnds(id)
  /\ UNCHANGED <<leases, pendingLeases, supporting, need, hadLease, taken, files,
                 given, letGo, crashed>>

\* A file: persist_lease_file puts it into the session directory.
GetPersists(id) ==
  /\ at[id] = "get"
  /\ id \notin cancelled
  /\ files' = files \cup {id}
  /\ \E n \in 0 .. PerSecret : need' = [need EXCEPT ![id] = n]
  /\ At(id, "persisted")
  /\ UNCHANGED <<contractVars, stateVars, hadLease, taken, given, letGo, crashed>>

GetRetains(id) ==
  /\ at[id] = "persisted"
  /\ CanRetain(need[id])
  /\ Retain(id, need[id])
  /\ need' = [need EXCEPT ![id] = 0]
  /\ At(id, "retained")
  /\ UNCHANGED <<contractVars, leases, pendingLeases, supporting, hadLease, taken,
                 files, given, letGo, crashed>>

GetCannotRetain(id) ==
  /\ at[id] = "persisted"
  /\ ~CanRetain(need[id])
  /\ files' = files \ {id}
  /\ need' = [need EXCEPT ![id] = 0]
  /\ HandlerEnds(id)
  /\ UNCHANGED <<stateVars, hadLease, taken, given, letGo, crashed>>

GetRegisters(id) ==
  /\ at[id] = "retained"
  /\ Cardinality(leases) < MaxLeases
  /\ leases' = leases \cup {id}
  /\ At(id, "registered")
  /\ UNCHANGED <<contractVars, pendingLeases, pendingFiles, supporting, need, hadLease,
                 taken, files, given, letGo, crashed>>

\* The table is full: the file goes, then the supporting files do.
GetTableFull(id) ==
  /\ at[id] = "retained"
  /\ Cardinality(leases) >= MaxLeases
  /\ files' = files \ {id}
  /\ At(id, "full")
  /\ UNCHANGED <<contractVars, stateVars, need, hadLease, taken, given, letGo, crashed>>

GetDropsFiles(id) ==
  /\ at[id] = "full"
  /\ Retain(id, 0)
  /\ HandlerEnds(id)
  /\ UNCHANGED <<leases, pendingLeases, supporting, need, hadLease, taken, files,
                 given, letGo, crashed>>

\* Mutant of GetPath: the lease is not noted as pending.
GetPath_NotPending(id) ==
  /\ at[id] = "registered"
  /\ given' = given \cup {id}
  /\ HandlerEnds(id)
  /\ UNCHANGED <<stateVars, need, hadLease, taken, files, letGo, crashed>>

GetPath(id) ==
  /\ at[id] = "registered"
  /\ pendingLeases' = pendingLeases \cup {id}
  /\ given' = given \cup {id}
  /\ HandlerEnds(id)
  /\ UNCHANGED <<leases, pendingFiles, supporting, need, hadLease, taken, files,
                 letGo, crashed>>

----------------------------------------------------------------------------
(* resolver.release: the client names leases it was given, some of them twice *)
(* or already released.                                                       *)

ReleaseLeases(id) ==
  /\ at[id] = "release"
  /\ \E named \in SUBSET (given \cap delivered) :
       /\ leases' = leases \ named
       /\ files' = files \ (named \cap leases)
       /\ letGo' = letGo \cup named
  /\ HandlerEnds(id)
  /\ UNCHANGED <<pendingLeases, pendingFiles, supporting, need, hadLease, taken, given,
                 crashed>>

----------------------------------------------------------------------------
(* request_finished: three locks, one after the other *)

ReportTakesLease(id) ==
  /\ phase[id] = "reporting"
  /\ at[id] = "none"
  /\ hadLease' = IF id \in pendingLeases THEN hadLease \cup {id} ELSE hadLease
  /\ pendingLeases' = pendingLeases \ {id}
  /\ At(id, "tookLease")
  /\ UNCHANGED <<contractVars, leases, pendingFiles, supporting, need, taken, files,
                 given, letGo, crashed>>

ReportTakesFiles(id) ==
  /\ at[id] = "tookLease"
  /\ taken' = [taken EXCEPT ![id] = pendingFiles[id]]
  /\ Retain(id, 0)
  /\ At(id, "tookFiles")
  /\ UNCHANGED <<contractVars, leases, pendingLeases, supporting, need, hadLease, files,
                 given, letGo, crashed>>

\* Mutant of ReportEnds: the lease goes although the response was committed.
ReportEnds_Drops(id) ==
  /\ at[id] = "tookFiles"
  /\ Finish(id)
  /\ At(id, "none")
  /\ leases' = leases \ (hadLease \cap {id})
  /\ files' = files \ (hadLease \cap leases \cap {id})
  /\ hadLease' = hadLease \ {id}
  /\ taken' = [taken EXCEPT ![id] = 0]
  /\ UNCHANGED <<pendingLeases, pendingFiles, supporting, need, given, letGo, crashed>>

\* A committed call hands its files to the session, any other call's lease and
\* files are dropped.
ReportEnds(id) ==
  /\ at[id] = "tookFiles"
  /\ Finish(id)
  /\ At(id, "none")
  /\ IF report[id] = "committed"
       THEN /\ supporting' = supporting + taken[id]
            /\ UNCHANGED <<leases, files>>
       ELSE /\ leases' = leases \ (hadLease \cap {id})
            /\ files' = files \ (hadLease \cap leases \cap {id})
            /\ UNCHANGED supporting
  /\ hadLease' = hadLease \ {id}
  /\ taken' = [taken EXCEPT ![id] = 0]
  /\ UNCHANGED <<pendingLeases, pendingFiles, need, given, letGo, crashed>>

----------------------------------------------------------------------------
(* The end of a session *)

Emptied ==
  /\ leases' = {}
  /\ pendingLeases' = {}
  /\ pendingFiles' = [id \in Ids |-> 0]
  /\ supporting' = 0

\* shutdown() empties every table; no call holds the state any more, so the
\* session directory goes with it and takes unregistered files along.
ShutDown ==
  /\ ~crashed /\ ~released
  /\ Release
  /\ Emptied
  /\ files' = {}
  /\ UNCHANGED <<localVars, given, letGo, crashed>>

\* The process is killed: only what is on disk remains.
Crash ==
  /\ ~crashed /\ ~released
  /\ crashed' = TRUE
  /\ phase' = [id \in Ids |-> "lost"]
  /\ report' = [id \in Ids |-> "none"]
  /\ at' = [id \in Ids |-> "none"]
  /\ Emptied
  /\ need' = [id \in Ids |-> 0]
  /\ taken' = [id \in Ids |-> 0]
  /\ hadLease' = {}
  /\ delivered' = {}
  /\ cancelled' = {}
  /\ given' = {}
  /\ letGo' = {}
  /\ UNCHANGED <<broken, closing, released, files>>

\* cleanup_stale_session_dirs of a later resolver, a week on, finds a
\* directory whose owner is dead.  Besides the lease files it holds the
\* `.owner` marker; a directory with more entries than it expects is kept.
SweepAccepts == Cardinality(files) + 1 <= MaxLeases + 1

Sweep ==
  /\ crashed
  /\ files # {}
  /\ SweepAccepts
  /\ files' = {}
  /\ UNCHANGED <<contractVars, stateVars, localVars, given, letGo, crashed>>

Over == (released \/ (crashed /\ (files = {} \/ ~SweepAccepts))) /\ UNCHANGED leasesVars

Get(id) == EndsWithoutFiles(id) \/ GetValue(id) \/ GetPersists(id) \/ GetRetains(id)
           \/ GetCannotRetain(id) \/ GetRegisters(id) \/ GetTableFull(id)
           \/ GetDropsFiles(id) \/ GetPath(id)
Report(id) == ReportTakesLease(id) \/ ReportTakesFiles(id) \/ ReportEnds(id)

LeasesNext ==
  \/ \E id \in Ids : \/ Call(id) \/ Get(id) \/ ReleaseLeases(id) \/ Report(id)
                     \/ CallLost(id)
  \/ Session \/ ShutDown \/ Crash \/ Sweep \/ Over

LeasesSpec == LeasesInit /\ [][LeasesNext]_leasesVars

----------------------------------------------------------------------------
(* Properties *)

\* The types of the state; a handler is at a suspension point while it runs.
LeasesTypeOK ==
  /\ phase \in [Ids -> Phases]
  /\ report \in [Ids -> Reports]
  /\ at \in [Ids -> Points]
  /\ need \in [Ids -> 0 .. PerSecret]
  /\ taken \in [Ids -> 0 .. PerSecret]
  /\ pendingFiles \in [Ids -> 0 .. PerSecret]
  /\ supporting \in Nat
  /\ delivered \subseteq Ids /\ cancelled \subseteq Ids /\ leases \subseteq Ids
  /\ pendingLeases \subseteq Ids /\ hadLease \subseteq Ids /\ files \subseteq Ids
  /\ given \subseteq Ids /\ letGo \subseteq Ids
  /\ broken \in BOOLEAN /\ closing \in BOOLEAN /\ released \in BOOLEAN /\ crashed \in BOOLEAN
  /\ \A id \in Ids : at[id] # "none" => phase[id] \in Open
  /\ \A id \in Ids : phase[id] = "handling" => at[id] # "none"

\* A path the client has been given stays valid until the client releases its
\* lease or the session is over; it is withdrawn early only on a transport
\* the session has given up (get, release and request_finished, interleaved).
GivenPathsExist ==
  \A id \in given \cap delivered :
    \/ id \in files \cap leases
    \/ id \in letGo
    \/ broken /\ report[id] = "uncommitted"
    \/ released

\* A call that is over leaves nothing pending behind, and one whose response
\* was cancelled, expired or not written leaves neither a lease nor a file.
SettledCalls ==
  \A id \in Ids : phase[id] = "finished" =>
    /\ id \notin pendingLeases
    /\ pendingFiles[id] = 0
    /\ report[id] = "uncommitted" => id \notin leases \cup files

\* After shutdown() nothing is left in memory or on disk, and no late handler
\* brings anything back.
ReleasedMeansEmpty ==
  released => /\ leases \cup pendingLeases \cup files = {}
              /\ supporting = 0 /\ \A id \in Ids : pendingFiles[id] = 0
=============================================================================
