------------------------------ MODULE AuditLog ------------------------------
(***************************************************************************)
(* The audit log (crates/monosecret/src/audit.rs): AuditLogger::record     *)
(* appends an event that names the digest of its predecessor, JsonlSink    *)
(* restarts the file at its size cap, and verify_chain walks the chain.    *)
(* A line is written in two calls, its text and its newline, either of     *)
(* which may fail or never happen, and a write may be cut short.  The log  *)
(* has one writing process at a time (concepts/audit.md), with threads     *)
(* that share its logger.  The digest of an event is the sequence of the   *)
(* events it commits to, so that different chains have different digests.  *)
(***************************************************************************)
EXTENDS Integers, Sequences, FiniteSets

CONSTANTS
  Threads,     \* threads that share the logger of the process
  None,        \* no thread
  Cap,         \* bound: lines that fit under max_size_bytes
  MaxEvents,   \* bound: events ever recorded
  MaxMishaps   \* bound: failures, unexpected ends and edits by others

ASSUME AuditAssumption ==
  /\ None \notin Threads
  /\ Cap \in Nat \ {0} /\ MaxEvents \in Nat /\ MaxMishaps \in Nat

VARIABLES
  file,     \* the lines of the log
  open,     \* its last line has no newline yet
  up,       \* a process has the log open
  last,     \* AuditLogger::last_hash, <<>> when there is none
  holder,   \* the thread that holds the lock of last_hash
  job,      \* where each thread is in record, and with what
  next,     \* the next event
  cuts,     \* lines left unfinished since the file was last restarted
  edited,   \* another program changed the log
  shows,    \* ... in a way the chain commits to
  mishaps

vars == <<file, open, up, last, holder, job, next, cuts, edited, shows, mishaps>>

Digest(prev, event) == Append(prev, event)
Entry(event, prev) == [kind |-> "entry", prev |-> prev, sha |-> Digest(prev, event)]
Legacy == [kind |-> "legacy", prev |-> <<>>, sha |-> <<>>]
Junk == [kind |-> "junk", prev |-> <<>>, sha |-> <<>>]

Idle == [at |-> "idle", event |-> 0, prev |-> <<>>, restarted |-> FALSE]

Init ==
  /\ file \in {<<>>, <<Legacy>>, <<Legacy, Legacy>>}
  /\ open = FALSE /\ up = FALSE /\ last = <<>> /\ holder = None
  /\ job = [t \in Threads |-> Idle]
  /\ next = 1 /\ cuts = 0 /\ edited = FALSE /\ shows = FALSE /\ mishaps = 0

Mishap == mishaps < MaxMishaps /\ mishaps' = mishaps + 1

----------------------------------------------------------------------------
(* The process *)

\* last_line_sha(): lines() ends a line at the end of the file as well.
LastLineSha == IF file = <<>> THEN <<>> ELSE file[Len(file)].sha

\* from_config(): a log that cannot be read starts a fresh chain.
Opens ==
  /\ ~up
  /\ up' = TRUE
  /\ \/ last' = LastLineSha /\ UNCHANGED mishaps
     \/ last' = <<>> /\ Mishap
  /\ UNCHANGED <<file, open, holder, job, next, cuts, edited, shows>>

\* The process ends, perhaps in the middle of record().
Ends ==
  /\ up
  /\ IF \A t \in Threads : job[t].at = "idle" THEN UNCHANGED mishaps ELSE Mishap
  /\ up' = FALSE /\ holder' = None
  /\ job' = [t \in Threads |-> Idle]
  /\ cuts' = IF \E t \in Threads : job[t].at = "newline" THEN cuts + 1 ELSE cuts
  /\ UNCHANGED <<file, open, last, next, edited, shows>>

\* Mutant of Begins: the predecessor is read before the lock is taken.
BeginsUnlocked(t) ==
  /\ up /\ job[t].at = "idle" /\ next <= MaxEvents
  /\ job' = [job EXCEPT ![t] = [Idle EXCEPT !.at = "size", !.event = next, !.prev = last]]
  /\ next' = next + 1
  /\ UNCHANGED <<file, open, up, last, holder, cuts, edited, shows, mishaps>>

\* record(): under the lock the event gets its number and its predecessor.
Begins(t) ==
  /\ up /\ job[t].at = "idle" /\ next <= MaxEvents
  /\ holder = None
  /\ holder' = t
  /\ job' = [job EXCEPT ![t] = [Idle EXCEPT !.at = "size", !.event = next, !.prev = last]]
  /\ next' = next + 1
  /\ UNCHANGED <<file, open, up, last, cuts, edited, shows, mishaps>>

----------------------------------------------------------------------------
(* JsonlSink::write_line *)

\* What is retained ends here: the event starts a chain of its own.
Reanchors(t) == [job[t] EXCEPT !.at = "write", !.restarted = TRUE, !.prev = <<>>]

\* Lines differ in length: a file that is not empty may reach the cap with
\* any line, and does with the line after Cap of them.
Restarts(t) ==
  /\ job[t].at = "size" /\ file # <<>>
  /\ file' = <<>> /\ open' = FALSE
  /\ cuts' = 0 /\ shows' = FALSE
  /\ job' = [job EXCEPT ![t] = Reanchors(t)]
  /\ UNCHANGED <<up, last, holder, next, edited, mishaps>>

\* There is room, or the size cannot be read, or the file not be truncated.
Fits(t) ==
  /\ job[t].at = "size"
  /\ IF Len(file) < Cap THEN UNCHANGED mishaps ELSE Mishap
  /\ job' = [job EXCEPT ![t].at = "write"]
  /\ UNCHANGED <<file, open, up, last, holder, next, cuts, edited, shows>>

\* O_APPEND: text is added to a line that has no newline.
Appended(line) == IF open THEN [file EXCEPT ![Len(file)] = Junk] ELSE Append(file, line)

Writes(t) ==
  /\ job[t].at = "write"
  /\ file' = Appended(Entry(job[t].event, job[t].prev))
  /\ open' = TRUE
  /\ job' = [job EXCEPT ![t].at = "newline"]
  /\ UNCHANGED <<up, last, holder, next, cuts, edited, shows, mishaps>>

Release(t) ==
  /\ job' = [job EXCEPT ![t] = Idle]
  /\ holder' = None

\* AuditWrite::Written, or Restarted with the digest of the new line.
Finishes(t) ==
  /\ job[t].at = "newline"
  /\ open' = FALSE
  /\ last' = Digest(job[t].prev, job[t].event)
  /\ Release(t)
  /\ UNCHANGED <<file, up, next, cuts, edited, shows, mishaps>>

\* AuditWrite::Failed: the chain goes on from what the file still holds.
AfterFailure(t) == IF job[t].restarted THEN <<>> ELSE last

\* writeln! fails: before the first byte, within the text, or at the newline.
Fails(t) ==
  /\ Mishap
  /\ \/ /\ job[t].at = "write"
        /\ UNCHANGED <<file, open, cuts>>
     \/ /\ job[t].at = "write"
        /\ file' = Appended(Junk) /\ open' = TRUE
        /\ cuts' = cuts + 1
     \/ /\ job[t].at = "newline"
        /\ cuts' = cuts + 1
        /\ UNCHANGED <<file, open>>
  /\ last' = AfterFailure(t)
  /\ Release(t)
  /\ UNCHANGED <<up, next, edited, shows>>

\* An event that does not serialize is skipped; its number is used up.
Skips(t) ==
  /\ job[t].at = "size"
  /\ Mishap
  /\ Release(t)
  /\ UNCHANGED <<file, open, up, last, next, cuts, edited, shows>>

----------------------------------------------------------------------------
(* Another program changes the log, once *)

\* The entry after line i names line i as its predecessor.
Linked(i) == i + 1 \in DOMAIN file /\ file[i + 1].prev # <<>> /\ file[i + 1].prev = file[i].sha

Tampers ==
  /\ ~open /\ ~edited /\ Mishap
  /\ edited' = TRUE
  /\ \E i \in DOMAIN file :
       \/ /\ file[i].kind = "entry"
          /\ file' = [file EXCEPT ![i].kind = "changed"]
          /\ shows' = TRUE
       \/ /\ file' = SubSeq(file, 1, i - 1) \o SubSeq(file, i + 1, Len(file))
          /\ shows' = Linked(i)
       \/ /\ i + 1 \in DOMAIN file
          /\ file' = [file EXCEPT ![i] = file[i + 1], ![i + 1] = file[i]]
          /\ shows' = Linked(i)
  /\ UNCHANGED <<open, up, last, holder, job, next, cuts>>

----------------------------------------------------------------------------
Next ==
  \/ Opens \/ Ends \/ Tampers
  \/ \E t \in Threads : \/ Begins(t) \/ Restarts(t) \/ Fits(t) \/ Writes(t) \/ Finishes(t)
                        \/ Fails(t) \/ Skips(t)

Spec == Init /\ [][Next]_vars

----------------------------------------------------------------------------
(* verify_chain() *)

Chained(line) == line.kind \in {"entry", "changed"}

\* The digest of the last line before i that verified.
Verified(i) ==
  LET js == {j \in 1..(i - 1) : file[j].kind = "entry"} IN
  IF js = {} THEN <<>> ELSE file[CHOOSE j \in js : \A k \in js : k <= j].sha

\* Mutant of BrokenLink: any predecessor will do.
NoBrokenLink(i) == FALSE

BrokenLink(i) ==
  file[i].kind = "entry" /\ file[i].prev # <<>> /\ file[i].prev # Verified(i)

Breaks ==
  {i \in DOMAIN file :
     \/ file[i].kind = "junk"
     \/ file[i].kind = "changed"
     \/ file[i].kind = "legacy" /\ \E j \in 1..(i - 1) : Chained(file[j])
     \/ BrokenLink(i)}

----------------------------------------------------------------------------
(* Properties *)

\* Nobody is accused of what did not happen: a log that only Monosecret wrote
\* verifies, whichever threads recorded, processes ended, writes failed and
\* caps were reached; a line left unfinished costs itself, with the event
\* appended to it, and the link of the event after that.
AccidentsCostTwo == ~edited => Cardinality(Breaks) <= 2 * cuts

\* An entry that was changed, removed or moved from before the entry that
\* names it shows for as long as the file is not restarted, whatever is
\* recorded later and by however many processes.
TamperingShows == shows => Breaks # {}
=============================================================================
