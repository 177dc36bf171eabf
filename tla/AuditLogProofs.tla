--------------------------- MODULE AuditLogProofs ---------------------------
(***************************************************************************)
(* Theorems about AuditLog, for every number of threads, events, failures  *)
(* and every size of the file: what accidents may cost, and that tampering *)
(* shows.                                                                  *)
(***************************************************************************)
EXTENDS AuditLog, FiniteSetTheorems, SequenceTheorems, WellFoundedInduction, TLAPS

Lines == [kind : {"entry", "legacy", "junk", "changed"}, prev : Seq(Nat), sha : Seq(Nat)]
Jobs == [at : {"idle", "size", "write", "newline"}, event : Nat, prev : Seq(Nat),
         restarted : BOOLEAN]

\* The shape of the state.
TypeInv ==
  /\ file \in Seq(Lines) /\ (open => file # <<>>) /\ last \in Seq(Nat) /\ job \in [Threads -> Jobs]
  /\ holder \in Threads \cup {None} /\ next \in Nat /\ cuts \in Nat /\ mishaps \in Nat
  /\ open \in BOOLEAN /\ up \in BOOLEAN /\ edited \in BOOLEAN /\ shows \in BOOLEAN

\* Between its number and its newline an event is alone: its thread has the
\* lock, and names the last digest unless the file was restarted for it.
LockInv ==
  /\ ~up => holder = None
  /\ \A t \in Threads : job[t].at # "idle" => holder = t
  /\ \A t \in Threads : holder = t => job[t].at # "idle"
  /\ \A t \in Threads : job[t].at # "idle" =>
       job[t].prev = IF job[t].restarted THEN <<>> ELSE last
  /\ \A t \in Threads : job[t].at = "size" => ~job[t].restarted

----------------------------------------------------------------------------
(* The chain of a file f: what verify_chain() finds in it *)

\* The entries before line i, and the last of some lines.
EntriesBefore(f, i) == {j \in 1..(i - 1) : f[j].kind = "entry"}
Latest(js) == CHOOSE j \in js : \A k \in js : k <= j
VerifiedIn(f, i) ==
  IF EntriesBefore(f, i) = {} THEN <<>> ELSE f[Latest(EntriesBefore(f, i))].sha
BreakIn(f, i) ==
  \/ f[i].kind = "junk"
  \/ f[i].kind = "changed"
  \/ f[i].kind = "legacy" /\ \E j \in 1..(i - 1) : Chained(f[j])
  \/ f[i].kind = "entry" /\ f[i].prev # <<>> /\ f[i].prev # VerifiedIn(f, i)
BreaksIn(f) == {i \in DOMAIN f : BreakIn(f, i)}

\* The number of an entry is the last one its digest commits to.
Number(line) == line.sha[Len(line.sha)]

\* A file that only Monosecret wrote, numbers below bound: digests commit to different events, the
\* lines without one have none, and those of older releases come first.
Genuine(f, bound) ==
  /\ \A i \in DOMAIN f : f[i].kind \in {"entry", "legacy", "junk"}
  /\ \A i \in DOMAIN f : f[i].kind # "entry" => f[i].sha = <<>> /\ f[i].prev = <<>>
  /\ \A i \in DOMAIN f : f[i].kind = "entry" => f[i].sha # <<>> /\ Number(f[i]) < bound
  /\ \A i, j \in DOMAIN f :
       f[i].kind = "entry" /\ f[j].kind = "entry" /\ i # j => Number(f[i]) # Number(f[j])
  /\ \A i \in DOMAIN f : f[i].kind = "legacy" =>
       \A j \in 1..(i - 1) : f[j].kind = "legacy"

\* The line that is being written, and the event that waits to be.
TailInv ==
  /\ open => file[Len(file)].kind # "legacy"
  /\ \A t \in Threads : job[t].at = "newline" =>
       /\ open
       /\ file[Len(file)].kind = "entry" =>
            file[Len(file)].sha = Digest(job[t].prev, job[t].event)
  /\ \A t \in Threads : job[t].at \in {"size", "write"} =>
       /\ job[t].event < next
       /\ \A i \in DOMAIN file : file[i].kind = "entry" => Number(file[i]) # job[t].event

\* What an untouched log is like.
ChainInv == ~edited => Genuine(file, next) /\ TailInv

\* Breaks that the lines left unfinished so far can still cause: the line that
\* the next event is appended to, and the link of the event after it.
Writing == \E t \in Threads : job[t].at = "newline"
NextPrev == IF holder = None THEN last ELSE job[holder].prev
Follows == NextPrev = <<>> \/ NextPrev = VerifiedIn(file, Len(file) + 1)
Owed ==
  IF Writing THEN IF file[Len(file)].kind = "junk" THEN 1 ELSE 0
  ELSE IF open THEN IF file[Len(file)].kind = "junk" THEN 1 ELSE 2
  ELSE IF up /\ ~Follows THEN 1 ELSE 0
DebtInv == ~edited => Cardinality(BreaksIn(file)) + Owed <= 2 * cuts

\* A change that shows was made to the log of another program.
ShowsInv == shows => edited /\ BreaksIn(file) # {}

IInv == TypeInv /\ LockInv /\ ChainInv /\ DebtInv /\ ShowsInv

----------------------------------------------------------------------------
(* The last of a set of lines *)

\* The order of the natural numbers is well founded.
Less == {ss \in Nat \X Nat : ss[1] < ss[2]}
\* No sequence of naturals descends for ever, which is what the folds recurse on.
LEMMA LessIsWellFounded == IsWellFoundedOn(Less, Nat)
BY NatLessThanWellFounded DEF OpToRel, Less

\* A set of numbers that is not empty has a least one.
LEMMA LeastExists ==
  ASSUME NEW S \in SUBSET Nat, S # {}
  PROVE  \E x \in S : \A y \in S : x <= y
<1>1. PICK x \in S : \A y \in S : <<y, x>> \notin Less
  BY LessIsWellFounded, WFMin
<1>2. \A y \in S : x <= y
  <2> TAKE y \in S
  <2>1. ~(y < x)
    <3> SUFFICES ASSUME y < x PROVE FALSE
      OBVIOUS
    <3>1. <<y, x>> \in Less
      BY DEF Less
    <3> QED
      BY <1>1, <3>1
  <2> QED
    BY <2>1
<1> QED
  BY <1>2

\* A bounded one has a greatest one.
LEMMA GreatestExists ==
  ASSUME NEW S \in SUBSET Nat, S # {}, NEW n \in Nat, \A s \in S : s <= n
  PROVE  \E x \in S : \A y \in S : y <= x
<1> DEFINE T == {k \in 0..n : n - k \in S}
<1>1. T \in SUBSET Nat /\ T # {}
  <2> PICK s \in S : TRUE
    OBVIOUS
  <2>1. n - s \in T
    OBVIOUS
  <2> QED
    BY <2>1
<1>2. PICK k \in T : \A y \in T : k <= y
  BY <1>1, LeastExists
<1>3. n - k \in S
  OBVIOUS
<1>4. ASSUME NEW y \in S PROVE y <= n - k
  <2>1. y \in Nat /\ y <= n
    OBVIOUS
  <2>2. n - y \in T
    BY <2>1
  <2>3. k <= n - y
    BY <1>2, <2>2
  <2>4. k \in Nat
    OBVIOUS
  <2> HIDE DEF T
  <2> QED
    BY <2>1, <2>3, <2>4
<1> QED
  BY <1>3, <1>4

\* The last entry before a line is one of them.
LEMMA LatestIsOne ==
  ASSUME NEW f, NEW i \in Nat, EntriesBefore(f, i) # {}
  PROVE  /\ Latest(EntriesBefore(f, i)) \in EntriesBefore(f, i)
         /\ \A k \in EntriesBefore(f, i) : k <= Latest(EntriesBefore(f, i))
<1> DEFINE E == EntriesBefore(f, i)
<1>1. E \in SUBSET Nat /\ E # {} /\ \A s \in E : s <= i
  BY DEF EntriesBefore
<1> HIDE DEF E
<1>2. \E x \in E : \A y \in E : y <= x
  BY <1>1, GreatestExists
<1>3. Latest(E) \in E /\ \A k \in E : k <= Latest(E)
  BY <1>2 DEF Latest
<1> QED
  BY <1>3 DEF E

----------------------------------------------------------------------------
(* What verify_chain() says of a line depends on the lines up to it *)

\* verify_chain() of the log, as a function of its lines.
LEMMA BreaksOfFile == Breaks = BreaksIn(file)
<1>1. \A i \in DOMAIN file : Verified(i) = VerifiedIn(file, i)
  BY DEF Verified, VerifiedIn, EntriesBefore, Latest
<1> QED
  BY <1>1 DEF Breaks, BreaksIn, BreakIn, BrokenLink

\* Lines after line m say nothing of the lines before it.
LEMMA SamePrefix ==
  ASSUME NEW f \in Seq(Lines), NEW g \in Seq(Lines), NEW m \in Nat,
         m <= Len(f), m <= Len(g), \A j \in 1..m : g[j] = f[j]
  PROVE  /\ \A i \in 1..(m + 1) : VerifiedIn(g, i) = VerifiedIn(f, i)
         /\ \A i \in 1..m : BreakIn(g, i) <=> BreakIn(f, i)
<1>1. ASSUME NEW i \in 1..(m + 1)
      PROVE  VerifiedIn(g, i) = VerifiedIn(f, i)
  <2>1. EntriesBefore(g, i) = EntriesBefore(f, i)
    BY DEF EntriesBefore
  <2>2. CASE EntriesBefore(f, i) = {}
    BY <2>1, <2>2 DEF VerifiedIn
  <2>3. CASE EntriesBefore(f, i) # {}
    <3>1. Latest(EntriesBefore(f, i)) \in EntriesBefore(f, i)
      BY <2>3, LatestIsOne
    <3>2. Latest(EntriesBefore(f, i)) \in 1..m
      BY <3>1 DEF EntriesBefore
    <3> QED
      BY <2>1, <3>2 DEF VerifiedIn
  <2> QED
    BY <2>2, <2>3
<1>2. ASSUME NEW i \in 1..m
      PROVE  BreakIn(g, i) <=> BreakIn(f, i)
  <2>1. g[i] = f[i] /\ VerifiedIn(g, i) = VerifiedIn(f, i)
    BY <1>1
  <2>2. \A j \in 1..(i - 1) : g[j] = f[j]
    OBVIOUS
  <2> QED
    BY <2>1, <2>2 DEF BreakIn
<1> QED
  BY <1>1, <1>2

\* One more element.
LEMMA OneMore ==
  ASSUME NEW S, NEW x, IsFiniteSet(S)
  PROVE  /\ IsFiniteSet(S \cup {x}) /\ Cardinality(S) \in Nat
         /\ Cardinality(S \cup {x}) \in Nat
         /\ Cardinality(S \cup {x}) <= Cardinality(S) + 1
         /\ x \in S => Cardinality(S \cup {x}) = Cardinality(S)
<1>1. /\ IsFiniteSet(S \cup {x})
      /\ Cardinality(S \cup {x}) = IF x \in S THEN Cardinality(S) ELSE Cardinality(S) + 1
  BY FS_AddElement
<1>2. Cardinality(S) \in Nat
  BY FS_CardinalityType
<1> QED
  BY <1>1, <1>2

\* The log has finitely many breaks.
LEMMA BreaksFinite ==
  ASSUME NEW f \in Seq(Lines)
  PROVE  IsFiniteSet(BreaksIn(f)) /\ Cardinality(BreaksIn(f)) \in Nat
<1>1. IsFiniteSet(1..Len(f)) /\ BreaksIn(f) \in SUBSET (1..Len(f))
  BY FS_Interval DEF BreaksIn
<1>2. IsFiniteSet(BreaksIn(f))
  BY <1>1, FS_Subset
<1> QED
  BY <1>2, FS_CardinalityType

\* An appended line changes nothing before it, and adds one break at most:
\* its own.
LEMMA AppendBreaks ==
  ASSUME NEW f \in Seq(Lines), NEW line \in Lines
  PROVE  /\ Append(f, line) \in Seq(Lines)
         /\ VerifiedIn(Append(f, line), Len(f) + 1) = VerifiedIn(f, Len(f) + 1)
         /\ BreaksIn(f) \subseteq BreaksIn(Append(f, line))
         /\ Cardinality(BreaksIn(Append(f, line))) <= Cardinality(BreaksIn(f)) + 1
         /\ ~BreakIn(Append(f, line), Len(f) + 1)
              => BreaksIn(Append(f, line)) = BreaksIn(f)
<1> DEFINE g == Append(f, line)
           n == Len(f)
<1>1. g \in Seq(Lines) /\ Len(g) = n + 1 /\ n \in Nat /\ \A j \in 1..n : g[j] = f[j]
  OBVIOUS
<1>2. DOMAIN g = 1..(n + 1) /\ DOMAIN f = 1..n
  BY <1>1
<1> HIDE DEF g, n
<1>3. /\ \A i \in 1..(n + 1) : VerifiedIn(g, i) = VerifiedIn(f, i)
      /\ \A i \in 1..n : BreakIn(g, i) <=> BreakIn(f, i)
  <2>1. n <= Len(f) /\ n <= Len(g) /\ \A j \in 1..n : g[j] = f[j]
    BY <1>1 DEF n
  <2> HIDE DEF n
  <2> QED
    BY <1>1, <2>1, SamePrefix
<1>4. BreaksIn(f) \subseteq BreaksIn(g) /\ BreaksIn(g) \subseteq BreaksIn(f) \cup {n + 1}
  BY <1>1, <1>2, <1>3 DEF BreaksIn
<1>5. IsFiniteSet(BreaksIn(f)) /\ Cardinality(BreaksIn(f)) \in Nat
  BY BreaksFinite
<1>6. /\ IsFiniteSet(BreaksIn(f) \cup {n + 1})
      /\ Cardinality(BreaksIn(f) \cup {n + 1}) <= Cardinality(BreaksIn(f)) + 1
  BY <1>5, OneMore
<1>7. Cardinality(BreaksIn(g)) <= Cardinality(BreaksIn(f) \cup {n + 1})
  BY <1>4, <1>6, FS_Subset
<1>8. Cardinality(BreaksIn(f) \cup {n + 1}) \in Nat /\ Cardinality(BreaksIn(g)) \in Nat
  BY <1>1, <1>6, FS_CardinalityType, BreaksFinite
<1>9. Cardinality(BreaksIn(g)) <= Cardinality(BreaksIn(f)) + 1
  BY <1>5, <1>6, <1>7, <1>8
<1>10. ~BreakIn(g, n + 1) => BreaksIn(g) = BreaksIn(f)
  BY <1>4 DEF BreaksIn
<1>11. VerifiedIn(g, n + 1) = VerifiedIn(f, n + 1)
  BY <1>1, <1>3
<1> QED
  BY <1>1, <1>4, <1>9, <1>10, <1>11 DEF g, n

\* A line that something is appended to becomes a break.
LEMMA SpoilBreaks ==
  ASSUME NEW f \in Seq(Lines), f # <<>>
  PROVE  /\ [f EXCEPT ![Len(f)] = Junk] \in Seq(Lines)
         /\ BreaksIn([f EXCEPT ![Len(f)] = Junk]) = BreaksIn(f) \cup {Len(f)}
         /\ Cardinality(BreaksIn([f EXCEPT ![Len(f)] = Junk])) <=
              IF f[Len(f)].kind = "junk" THEN Cardinality(BreaksIn(f))
              ELSE Cardinality(BreaksIn(f)) + 1
<1> DEFINE g == [f EXCEPT ![Len(f)] = Junk]
           n == Len(f)
<1>1. /\ Junk \in Lines /\ Junk.kind = "junk"
      /\ n \in Nat \ {0} /\ n - 1 \in Nat
  BY DEF Junk, Lines
<1>2. g \in Seq(Lines) /\ Len(g) = n /\ g[n] = Junk /\ \A j \in 1..(n - 1) : g[j] = f[j]
  BY <1>1
<1>3. DOMAIN g = 1..n /\ DOMAIN f = 1..n
  OBVIOUS
<1> HIDE DEF g, n
<1>4. \A i \in 1..(n - 1) : BreakIn(g, i) <=> BreakIn(f, i)
  <2>1. n - 1 <= Len(f) /\ n - 1 <= Len(g)
    BY <1>1, <1>2 DEF n
  <2> QED
    BY <1>1, <1>2, <2>1, SamePrefix
<1>5. BreakIn(g, n)
  BY <1>1, <1>2 DEF BreakIn
<1>6. BreaksIn(g) = BreaksIn(f) \cup {n}
  <2>1. \A i \in 1..n : i = n \/ i \in 1..(n - 1)
    BY <1>1
  <2>2. n \in 1..n
    BY <1>1
  <2> QED
    BY <1>3, <1>4, <1>5, <2>1, <2>2 DEF BreaksIn
<1>7. IsFiniteSet(BreaksIn(f)) /\ Cardinality(BreaksIn(f)) \in Nat
  BY BreaksFinite
<1>8. Cardinality(BreaksIn(g)) <= Cardinality(BreaksIn(f)) + 1
  BY <1>6, <1>7, OneMore
<1>9. f[n].kind = "junk" => n \in BreaksIn(f)
  BY <1>1, <1>3 DEF BreaksIn, BreakIn
<1>10. f[n].kind = "junk" => Cardinality(BreaksIn(g)) <= Cardinality(BreaksIn(f))
  <2>1. f[n].kind = "junk" => BreaksIn(g) = BreaksIn(f)
    BY <1>6, <1>9
  <2> QED
    BY <1>7, <2>1
<1> QED
  BY <1>2, <1>6, <1>8, <1>10 DEF g, n

----------------------------------------------------------------------------
(* Genuine files *)

\* Lines as record() and write_line make them.
LEMMA LineTypes ==
  /\ Junk \in Lines /\ Junk.kind = "junk" /\ Junk.prev = <<>> /\ Junk.sha = <<>>
  /\ Legacy \in Lines /\ Legacy.kind = "legacy" /\ Legacy.prev = <<>> /\ Legacy.sha = <<>>
BY DEF Junk, Legacy, Lines

\* An entry commits to its event and names its predecessor.
LEMMA EntryFacts ==
  ASSUME NEW event \in Nat, NEW prev \in Seq(Nat)
  PROVE  /\ Entry(event, prev) \in Lines
         /\ Entry(event, prev).kind = "entry" /\ Entry(event, prev).prev = prev
         /\ Entry(event, prev).sha = Digest(prev, event)
         /\ Digest(prev, event) \in Seq(Nat) /\ Digest(prev, event) # <<>>
         /\ Number(Entry(event, prev)) = event
BY DEF Entry, Digest, Lines, Number

\* The number of an entry is a number.
LEMMA NumberType ==
  ASSUME NEW line \in Lines, line.sha # <<>>
  PROVE  Number(line) \in Nat
BY DEF Lines, Number

\* A new chain.
LEMMA GenuineEmpty ==
  ASSUME NEW k PROVE Genuine(<<>>, k)
BY DEF Genuine

\* Numbers that are used stay used.
LEMMA GenuineMore ==
  ASSUME NEW f \in Seq(Lines), NEW k \in Nat, Genuine(f, k)
  PROVE  Genuine(f, k + 1)
<1>1. ASSUME NEW i \in DOMAIN f, f[i].kind = "entry"
      PROVE  f[i].sha # <<>> /\ Number(f[i]) < k + 1
  <2>1. f[i] \in Lines
    OBVIOUS
  <2>2. f[i].sha # <<>> /\ Number(f[i]) < k
    BY <1>1 DEF Genuine
  <2>3. Number(f[i]) \in Nat
    BY <2>1, <2>2, NumberType
  <2> QED
    BY <2>2, <2>3
<1> QED
  BY <1>1 DEF Genuine

\* A line with a new number, or one without a digest, keeps a file genuine.
LEMMA GenuineAppend ==
  ASSUME NEW f \in Seq(Lines), NEW line \in Lines, NEW k \in Nat, Genuine(f, k),
         line.kind \in {"entry", "junk"},
         line.kind = "junk" => line.sha = <<>> /\ line.prev = <<>>,
         line.kind = "entry" =>
           /\ line.sha # <<>> /\ Number(line) < k
           /\ \A i \in DOMAIN f : f[i].kind = "entry" => Number(f[i]) # Number(line)
  PROVE  Genuine(Append(f, line), k)
<1> DEFINE g == Append(f, line)
           n == Len(f)
<1>1. n \in Nat /\ DOMAIN f = 1..n /\ DOMAIN g = 1..(n + 1) /\ g[n + 1] = line
      /\ \A j \in 1..n : g[j] = f[j]
  OBVIOUS
<1> HIDE DEF g, n
<1>2. \A i \in DOMAIN g : i = n + 1 \/ i \in DOMAIN f
  BY <1>1
<1>3. \A i \in DOMAIN g : g[i].kind \in {"entry", "legacy", "junk"}
  BY <1>1, <1>2 DEF Genuine
<1>4. \A i \in DOMAIN g : g[i].kind # "entry" => g[i].sha = <<>> /\ g[i].prev = <<>>
  BY <1>1, <1>2 DEF Genuine
<1>5. \A i \in DOMAIN g : g[i].kind = "entry" => g[i].sha # <<>> /\ Number(g[i]) < k
  BY <1>1, <1>2 DEF Genuine
<1>6. \A i, j \in DOMAIN g :
        g[i].kind = "entry" /\ g[j].kind = "entry" /\ i # j => Number(g[i]) # Number(g[j])
  BY <1>1, <1>2 DEF Genuine
<1>7. \A i \in DOMAIN g : g[i].kind = "legacy" => \A j \in 1..(i - 1) : g[j].kind = "legacy"
  <2> SUFFICES ASSUME NEW i \in DOMAIN g, g[i].kind = "legacy", NEW j \in 1..(i - 1)
               PROVE  g[j].kind = "legacy"
    OBVIOUS
  <2>1. i \in DOMAIN f /\ j \in 1..n /\ f[i].kind = "legacy"
    BY <1>1, <1>2
  <2> QED
    BY <1>1, <2>1 DEF Genuine
<1> QED
  BY <1>3, <1>4, <1>5, <1>6, <1>7 DEF Genuine, g

\* So does spoiling its last line, if that is not one of an older release.
LEMMA GenuineSpoil ==
  ASSUME NEW f \in Seq(Lines), f # <<>>, NEW k \in Nat, Genuine(f, k),
         f[Len(f)].kind # "legacy"
  PROVE  Genuine([f EXCEPT ![Len(f)] = Junk], k)
<1> DEFINE g == [f EXCEPT ![Len(f)] = Junk]
           n == Len(f)
<1>1. n \in Nat \ {0} /\ DOMAIN f = 1..n /\ DOMAIN g = 1..n /\ g[n] = Junk
      /\ \A j \in 1..n : j # n => g[j] = f[j]
  OBVIOUS
<1> HIDE DEF g, n
<1>2. \A i \in DOMAIN g : g[i].kind \in {"entry", "legacy", "junk"}
  BY <1>1, LineTypes DEF Genuine
<1>3. \A i \in DOMAIN g : g[i].kind # "entry" => g[i].sha = <<>> /\ g[i].prev = <<>>
  BY <1>1, LineTypes DEF Genuine
<1>4. \A i \in DOMAIN g : g[i].kind = "entry" => g[i] = f[i]
  BY <1>1, LineTypes
<1>5. \A i \in DOMAIN g : g[i].kind = "entry" => g[i].sha # <<>> /\ Number(g[i]) < k
  BY <1>1, <1>4 DEF Genuine
<1>6. \A i, j \in DOMAIN g :
        g[i].kind = "entry" /\ g[j].kind = "entry" /\ i # j => Number(g[i]) # Number(g[j])
  BY <1>1, <1>4 DEF Genuine
<1>7. \A i \in DOMAIN g : g[i].kind = "legacy" => \A j \in 1..(i - 1) : g[j].kind = "legacy"
  <2> SUFFICES ASSUME NEW i \in DOMAIN g, g[i].kind = "legacy", NEW j \in 1..(i - 1)
               PROVE  g[j].kind = "legacy"
    OBVIOUS
  <2>1. i # n
    BY <1>1, LineTypes
  <2>2. j \in 1..n /\ j # n /\ g[i] = f[i]
    BY <1>1, <2>1
  <2> QED
    BY <1>1, <2>2 DEF Genuine
<1> QED
  BY <1>2, <1>3, <1>5, <1>6, <1>7 DEF Genuine, g

\* The last line, if it is an entry, is what the next one has to name.
LEMMA TipIsLast ==
  ASSUME NEW f \in Seq(Lines), f # <<>>, f[Len(f)].kind = "entry"
  PROVE  VerifiedIn(f, Len(f) + 1) = f[Len(f)].sha
<1> DEFINE n == Len(f)
           E == EntriesBefore(f, n + 1)
<1>1. n \in Nat /\ n \in E /\ E \subseteq 1..n
  BY DEF EntriesBefore
<1>2. Latest(E) \in E /\ \A k \in E : k <= Latest(E)
  BY <1>1, LatestIsOne
<1>3. Latest(E) = n
  <2> HIDE DEF n, E
  <2>1. Latest(E) \in 1..n /\ n <= Latest(E)
    BY <1>1, <1>2
  <2> QED
    BY <1>1, <2>1
<1> QED
  BY <1>1, <1>3 DEF VerifiedIn

\* An entry that names the last one, or starts a chain, is not a break.
LEMMA LinkedIsNoBreak ==
  ASSUME NEW f \in Seq(Lines), NEW line \in Lines, line.kind = "entry",
         line.prev = <<>> \/ line.prev = VerifiedIn(f, Len(f) + 1)
  PROVE  ~BreakIn(Append(f, line), Len(f) + 1)
<1>1. Append(f, line)[Len(f) + 1] = line
  OBVIOUS
<1>2. VerifiedIn(Append(f, line), Len(f) + 1) = VerifiedIn(f, Len(f) + 1)
  BY AppendBreaks
<1> QED
  BY <1>1, <1>2 DEF BreakIn

----------------------------------------------------------------------------
(* The steps keep the shape of the state, and the lock *)

\* A thread that is not recording.
LEMMA IdleFacts ==
  /\ Idle \in Jobs /\ Idle.at = "idle" /\ Idle.prev = <<>> /\ Idle.restarted = FALSE
BY DEF Idle, Jobs

\* What is appended to the log is a line, or spoils one.
LEMMA AppendedType ==
  ASSUME NEW line \in Lines, file \in Seq(Lines), open \in BOOLEAN, open => file # <<>>
  PROVE  Appended(line) \in Seq(Lines)
BY AppendBreaks, SpoilBreaks DEF Appended

\* It is not empty then.
LEMMA AppendedFull ==
  ASSUME NEW line \in Lines, file \in Seq(Lines), open \in BOOLEAN, open => file # <<>>
  PROVE  Appended(line) # <<>>
BY DEF Appended

\* Two lines that change places.
LEMMA SwappedType ==
  ASSUME NEW f \in Seq(Lines), NEW i \in DOMAIN f, i + 1 \in DOMAIN f
  PROVE  [f EXCEPT ![i] = f[i + 1], ![i + 1] = f[i]] \in Seq(Lines)
OBVIOUS

\* A line that is taken out.
LEMMA RemovedFacts ==
  ASSUME NEW f \in Seq(Lines), NEW i \in DOMAIN f
  PROVE  /\ SubSeq(f, 1, i - 1) \o SubSeq(f, i + 1, Len(f)) \in Seq(Lines)
         /\ Len(SubSeq(f, 1, i - 1) \o SubSeq(f, i + 1, Len(f))) = Len(f) - 1
         /\ \A j \in 1..(i - 1) : (SubSeq(f, 1, i - 1) \o SubSeq(f, i + 1, Len(f)))[j] = f[j]
         /\ i + 1 \in DOMAIN f =>
              (SubSeq(f, 1, i - 1) \o SubSeq(f, i + 1, Len(f)))[i] = f[i + 1]
<1> DEFINE a == SubSeq(f, 1, i - 1)
           b == SubSeq(f, i + 1, Len(f))
<1>1. i \in 1..Len(f) /\ Len(f) \in Nat /\ DOMAIN f = 1..Len(f)
  OBVIOUS
<1>2. a \in Seq(Lines) /\ Len(a) = i - 1 /\ \A j \in 1..(i - 1) : a[j] = f[j]
  BY <1>1
<1>3. b \in Seq(Lines) /\ Len(b) = Len(f) - i /\ (i + 1 \in DOMAIN f => b[1] = f[i + 1])
  BY <1>1
<1> HIDE DEF a, b
<1>4. a \o b \in Seq(Lines) /\ Len(a \o b) = Len(f) - 1
  <2>1. a \o b \in Seq(Lines) /\ Len(a \o b) = Len(a) + Len(b)
    BY <1>2, <1>3, ConcatProperties
  <2> QED
    BY <1>1, <1>2, <1>3, <2>1
<1>5. \A j \in 1..(i - 1) : (a \o b)[j] = f[j]
  <2>1. \A k \in 1..(Len(a) + Len(b)) : (a \o b)[k] = IF k <= Len(a) THEN a[k] ELSE b[k - Len(a)]
    BY <1>2, <1>3, ConcatProperties
  <2>2. \A j \in 1..(i - 1) : j \in 1..(Len(a) + Len(b)) /\ j <= Len(a)
    BY <1>1, <1>2, <1>3
  <2> QED
    BY <1>2, <2>1, <2>2
<1>6. i + 1 \in DOMAIN f => (a \o b)[i] = f[i + 1]
  <2> SUFFICES ASSUME i + 1 \in DOMAIN f PROVE (a \o b)[i] = f[i + 1]
    OBVIOUS
  <2>1. i \in 1..(Len(a) + Len(b)) /\ ~(i <= Len(a)) /\ i - Len(a) = 1
    BY <1>1, <1>2, <1>3
  <2>2. \A k \in 1..(Len(a) + Len(b)) : (a \o b)[k] = IF k <= Len(a) THEN a[k] ELSE b[k - Len(a)]
    BY <1>2, <1>3, ConcatProperties
  <2> QED
    BY <1>2, <1>3, <2>1, <2>2
<1> QED
  BY <1>4, <1>5, <1>6 DEF a, b

\* The shape of the state is kept.
LEMMA TypeStep ==
  ASSUME TypeInv, LockInv, [Next]_vars
  PROVE  TypeInv'
<1> USE DEF TypeInv
<1>e. <<>> \in Seq(Nat) /\ <<>> \in Seq(Lines)
  OBVIOUS
<1>1. CASE Opens
  <2>1. LastLineSha \in Seq(Nat)
    <3>1. CASE file = <<>>
      BY <3>1 DEF LastLineSha
    <3>2. CASE file # <<>>
      <4>1. file[Len(file)] \in Lines
        BY <3>2
      <4> QED
        BY <3>2, <4>1 DEF LastLineSha, Lines
    <3> QED
      BY <3>1, <3>2
  <2>2. last' \in Seq(Nat) /\ mishaps' \in Nat
    <3>1. CASE last' = LastLineSha /\ UNCHANGED mishaps
      BY <2>1, <3>1
    <3>2. CASE last' = <<>> /\ Mishap
      <4>1. mishaps' = mishaps + 1
        BY <3>2 DEF Mishap
      <4> QED
        BY <1>e, <3>2, <4>1
    <3> QED
      BY <1>1, <3>1, <3>2 DEF Opens
  <2> QED
    BY <1>1, <2>2 DEF Opens
<1>2. CASE Ends
  <2>1. job' \in [Threads -> Jobs]
    BY <1>2, IdleFacts DEF Ends
  <2>2. cuts' \in Nat /\ mishaps' \in Nat
    BY <1>2 DEF Ends, Mishap
  <2> QED
    BY <1>2, <2>1, <2>2 DEF Ends
<1>3. CASE Tampers
  <2>1. PICK i \in DOMAIN file :
          \/ file[i].kind = "entry" /\ file' = [file EXCEPT ![i].kind = "changed"] /\ shows' = TRUE
          \/ /\ file' = SubSeq(file, 1, i - 1) \o SubSeq(file, i + 1, Len(file))
             /\ shows' = Linked(i)
          \/ /\ i + 1 \in DOMAIN file
             /\ file' = [file EXCEPT ![i] = file[i + 1], ![i + 1] = file[i]]
             /\ shows' = Linked(i)
    BY <1>3 DEF Tampers
  <2>2. file' \in Seq(Lines)
    <3>1. [file EXCEPT ![i].kind = "changed"] \in Seq(Lines)
      <4>1. file[i] \in Lines
        OBVIOUS
      <4>2. [file[i] EXCEPT !.kind = "changed"] \in Lines
        BY <4>1 DEF Lines
      <4> QED
        BY <4>2
    <3>2. SubSeq(file, 1, i - 1) \o SubSeq(file, i + 1, Len(file)) \in Seq(Lines)
      BY RemovedFacts
    <3>3. i + 1 \in DOMAIN file
            => [file EXCEPT ![i] = file[i + 1], ![i + 1] = file[i]] \in Seq(Lines)
      BY SwappedType
    <3> QED
      BY <2>1, <3>1, <3>2, <3>3
  <2>3. shows' \in BOOLEAN
    BY <2>1 DEF Linked
  <2>4. open' = FALSE /\ edited' = TRUE /\ mishaps' = mishaps + 1
    BY <1>3 DEF Tampers, Mishap
  <2>5. UNCHANGED <<open, up, last, holder, job, next, cuts>>
    BY <1>3 DEF Tampers
  <2>6. mishaps' \in Nat
    BY <2>4
  <2> QED
    BY <2>2, <2>3, <2>4, <2>5, <2>6
<1>4. ASSUME NEW t \in Threads, Begins(t) PROVE TypeInv'
  <2>1. [Idle EXCEPT !.at = "size", !.event = next, !.prev = last] \in Jobs
    BY DEF Idle, Jobs
  <2> QED
    BY <1>4, <2>1 DEF Begins
<1>5. ASSUME NEW t \in Threads, Restarts(t) PROVE TypeInv'
  <2>1. Reanchors(t) \in Jobs
    <3>1. job[t] \in Jobs /\ <<>> \in Seq(Nat)
      OBVIOUS
    <3> QED
      BY <3>1 DEF Reanchors, Jobs
  <2> QED
    BY <1>5, <1>e, <2>1 DEF Restarts
<1>6. ASSUME NEW t \in Threads, Fits(t) PROVE TypeInv'
  <2>1. [job[t] EXCEPT !.at = "write"] \in Jobs
    BY DEF Jobs
  <2>2. job' \in [Threads -> Jobs]
    BY <1>6, <2>1 DEF Fits
  <2> QED
    BY <1>6, <2>2 DEF Fits, Mishap
<1>7. ASSUME NEW t \in Threads, Writes(t) PROVE TypeInv'
  <2>1. job[t] \in Jobs
    OBVIOUS
  <2>2. [job[t] EXCEPT !.at = "newline"] \in Jobs
    BY DEF Jobs
  <2>3. Entry(job[t].event, job[t].prev) \in Lines
    BY <2>1, EntryFacts DEF Jobs
  <2>4. job' \in [Threads -> Jobs]
    BY <1>7, <2>2 DEF Writes
  <2>5. file' \in Seq(Lines) /\ file' # <<>>
    BY <1>7, <2>3, AppendedType, AppendedFull DEF Writes
  <2> QED
    BY <1>7, <2>4, <2>5 DEF Writes
<1>8. ASSUME NEW t \in Threads, Finishes(t) PROVE TypeInv'
  <2>1. job[t] \in Jobs
    OBVIOUS
  <2>2. Digest(job[t].prev, job[t].event) \in Seq(Nat)
    BY <2>1, EntryFacts DEF Jobs
  <2> QED
    BY <1>8, <2>2, IdleFacts DEF Finishes, Release
<1>9. ASSUME NEW t \in Threads, Fails(t) PROVE TypeInv'
  <2>1. AfterFailure(t) \in Seq(Nat)
    BY DEF AfterFailure
  <2>2. Appended(Junk) \in Seq(Lines) /\ Appended(Junk) # <<>>
    BY LineTypes, AppendedType, AppendedFull
  <2>3. /\ file' \in Seq(Lines) /\ open' \in BOOLEAN /\ cuts' \in Nat
        /\ (open' => file' # <<>>)
    <3>1. CASE file' = Appended(Junk) /\ open' = TRUE /\ cuts' = cuts + 1
      BY <2>2, <3>1
    <3>2. CASE UNCHANGED <<file, open>> /\ cuts' \in {cuts, cuts + 1}
      BY <3>2
    <3> QED
      BY <1>9, <3>1, <3>2 DEF Fails
  <2> QED
    BY <1>9, <2>1, <2>3, IdleFacts DEF Fails, Release, Mishap
<1>10. ASSUME NEW t \in Threads, Skips(t) PROVE TypeInv'
  BY <1>10, IdleFacts DEF Skips, Release, Mishap
<1>11. CASE UNCHANGED vars
  BY <1>11 DEF vars
<1> QED
  BY <1>1, <1>2, <1>3, <1>4, <1>5, <1>6, <1>7, <1>8, <1>9, <1>10, <1>11 DEF Next

\* One event at a time is between its number and its newline.
LEMMA LockStep ==
  ASSUME TypeInv, LockInv, [Next]_vars
  PROVE  LockInv'
<1> USE DEF LockInv
<1>0. job \in [Threads -> Jobs] /\ None \notin Threads /\ \A t \in Threads : job[t] \in Jobs
  BY AuditAssumption DEF TypeInv
<1>1. CASE Opens
  <2>1. \A t \in Threads : job[t].at = "idle" /\ job'[t] = job[t]
    BY <1>0, <1>1 DEF Opens
  <2> QED
    BY <1>0, <1>1, <2>1 DEF Opens
<1>2. CASE Ends
  BY <1>0, <1>2, IdleFacts DEF Ends
<1>3. CASE Tampers
  BY <1>3 DEF Tampers
<1>4. ASSUME NEW t \in Threads, Begins(t) PROVE LockInv'
  <2> DEFINE j == [Idle EXCEPT !.at = "size", !.event = next, !.prev = last]
  <2>1. j.at = "size" /\ j.prev = last /\ j.restarted = FALSE
    BY DEF Idle
  <2>2. job' = [job EXCEPT ![t] = j]
    BY <1>4 DEF Begins
  <2> HIDE DEF j
  <2>3. job'[t] = j /\ \A u \in Threads : u # t => job'[u] = job[u]
    BY <1>0, <2>2
  <2>4. holder' = t /\ last' = last /\ up' /\ \A u \in Threads : job[u].at = "idle"
    BY <1>0, <1>4 DEF Begins
  <2> QED
    BY <1>0, <2>1, <2>3, <2>4
<1>5. ASSUME NEW t \in Threads, Restarts(t) PROVE LockInv'
  <2>1. /\ job'[t].at = "write" /\ job'[t].restarted = TRUE /\ job'[t].prev = <<>>
        /\ \A u \in Threads : u # t => job'[u] = job[u]
    BY <1>0, <1>5 DEF Restarts, Reanchors, Jobs
  <2> QED
    BY <1>0, <1>5, <2>1 DEF Restarts
<1>6. ASSUME NEW t \in Threads, Fits(t) PROVE LockInv'
  <2>1. /\ job'[t].at = "write" /\ job'[t].restarted = job[t].restarted
        /\ job'[t].prev = job[t].prev
        /\ \A u \in Threads : u # t => job'[u] = job[u]
    BY <1>0, <1>6 DEF Fits, Jobs
  <2> QED
    BY <1>0, <1>6, <2>1 DEF Fits
<1>7. ASSUME NEW t \in Threads, Writes(t) PROVE LockInv'
  <2>1. /\ job'[t].at = "newline" /\ job'[t].restarted = job[t].restarted
        /\ job'[t].prev = job[t].prev
        /\ \A u \in Threads : u # t => job'[u] = job[u]
    BY <1>0, <1>7 DEF Writes, Jobs
  <2> QED
    BY <1>0, <1>7, <2>1 DEF Writes
<1>8. ASSUME NEW t \in Threads, Release(t), up' = up, job[t].at # "idle" PROVE LockInv'
  <2>1. job'[t] = Idle /\ \A u \in Threads : u # t => job'[u] = job[u]
    BY <1>0, <1>8 DEF Release
  <2>2. \A u \in Threads : u # t => job[u].at = "idle"
    BY <1>8
  <2>3. \A u \in Threads : job'[u].at = "idle"
    BY <2>1, <2>2, IdleFacts
  <2>4. holder' = None
    BY <1>8 DEF Release
  <2> QED
    BY <1>0, <2>3, <2>4
<1>9. ASSUME NEW t \in Threads, Finishes(t) \/ Fails(t) \/ Skips(t) PROVE LockInv'
  BY <1>8, <1>9 DEF Finishes, Fails, Skips
<1>10. CASE UNCHANGED vars
  BY <1>10 DEF vars
<1> QED
  BY <1>1, <1>2, <1>3, <1>4, <1>5, <1>6, <1>7, <1>9, <1>10 DEF Next

----------------------------------------------------------------------------
(* What a step does to the lines *)

\* While one thread records, the others do not.
LEMMA OthersIdle ==
  ASSUME TypeInv, LockInv, NEW t \in Threads, job[t].at # "idle"
  PROVE  /\ holder = t /\ holder # None /\ up
         /\ \A u \in Threads : u # t => job[u].at = "idle"
         /\ NextPrev = job[t].prev
         /\ Writing <=> job[t].at = "newline"
BY AuditAssumption DEF LockInv, TypeInv, NextPrev, Writing

\* A thread that has released the lock leaves nobody recording.
LEMMA NobodyAfterRelease ==
  ASSUME TypeInv, LockInv, NEW t \in Threads, job[t].at # "idle", Release(t)
  PROVE  /\ \A u \in Threads : job'[u].at = "idle"
         /\ ~Writing' /\ NextPrev' = last'
<1>1. \A u \in Threads : u # t => job[u].at = "idle"
  BY OthersIdle
<1>2. \A u \in Threads : job'[u].at = "idle"
  BY <1>1, IdleFacts DEF Release, TypeInv
<1>3. ~Writing'
  BY <1>2 DEF Writing
<1>4. NextPrev' = last'
  BY DEF Release, NextPrev
<1> QED
  BY <1>2, <1>3, <1>4

\* The log stays genuine.
LEMMA ChainStep ==
  ASSUME TypeInv, LockInv, ChainInv, [Next]_vars, ~edited'
  PROVE  Genuine(file, next)' /\ TailInv'
<1>0. /\ file \in Seq(Lines) /\ next \in Nat /\ open \in BOOLEAN /\ (open => file # <<>>)
      /\ job \in [Threads -> Jobs] /\ \A t \in Threads : job[t] \in Jobs
  BY DEF TypeInv
<1>a. ~edited
  BY DEF Next, Opens, Ends, Tampers, Begins, Restarts, Fits, Writes, Finishes, Fails, Skips, vars
<1>b. Genuine(file, next) /\ TailInv
  BY <1>a DEF ChainInv
<1>c. \A u \in Threads : ~(job[u].at = "newline" /\ job[u].at \in {"size", "write"})
  OBVIOUS
<1>1. ASSUME UNCHANGED <<file, next>>, open' \in BOOLEAN, open' => open,
             \A u \in Threads : job'[u].at = "idle" \/ (job'[u] = job[u] /\ open' = open)
      PROVE  Genuine(file, next)' /\ TailInv'
  <2>1. Genuine(file, next)'
    BY <1>1, <1>b DEF Genuine
  <2>2. open' => file'[Len(file')].kind # "legacy"
    BY <1>1, <1>b DEF TailInv
  <2>3. ASSUME NEW u \in Threads, job'[u].at # "idle"
        PROVE job'[u] = job[u] /\ open' = open
    BY <1>1, <2>3
  <2>4. ASSUME NEW u \in Threads, job'[u].at = "newline"
        PROVE  /\ open'
               /\ file'[Len(file')].kind = "entry" =>
                    file'[Len(file')].sha = Digest(job'[u].prev, job'[u].event)
    <3>1. job'[u] = job[u] /\ open' = open /\ file' = file
      BY <1>1, <2>3, <2>4
    <3>2. job[u].at = "newline"
      BY <2>4, <3>1
    <3> QED
      BY <1>b, <3>1, <3>2 DEF TailInv
  <2>5. ASSUME NEW u \in Threads, job'[u].at \in {"size", "write"}
        PROVE  /\ job'[u].event < next'
               /\ \A k \in DOMAIN file' : file'[k].kind = "entry" => Number(file'[k]) # job'[u].event
    <3>1. job'[u] = job[u] /\ file' = file /\ next' = next
      BY <1>1, <2>3, <2>5
    <3>2. job[u].at \in {"size", "write"}
      BY <2>5, <3>1
    <3> QED
      BY <1>b, <3>1, <3>2 DEF TailInv
  <2> QED
    BY <2>1, <2>2, <2>4, <2>5 DEF TailInv
<1>2. CASE Opens
  BY <1>0, <1>1, <1>2 DEF Opens
<1>3. CASE Ends
  <2>1. \A u \in Threads : job'[u].at = "idle"
    BY <1>3, IdleFacts DEF Ends
  <2> QED
    BY <1>0, <1>1, <1>3, <2>1 DEF Ends
<1>4. ASSUME NEW t \in Threads, Skips(t) PROVE Genuine(file, next)' /\ TailInv'
  <2>1. \A u \in Threads : job'[u].at = "idle"
    BY <1>4, NobodyAfterRelease DEF Skips
  <2> QED
    BY <1>0, <1>1, <1>4, <2>1 DEF Skips
<1>5. ASSUME NEW t \in Threads, Finishes(t) PROVE Genuine(file, next)' /\ TailInv'
  <2>1. \A u \in Threads : job'[u].at = "idle"
    BY <1>5, NobodyAfterRelease DEF Finishes
  <2> QED
    BY <1>0, <1>1, <1>5, <2>1 DEF Finishes
<1>6. ASSUME NEW t \in Threads, Fails(t) PROVE Genuine(file, next)' /\ TailInv'
  <2>1. \A u \in Threads : job'[u].at = "idle"
    BY <1>6, NobodyAfterRelease DEF Fails
  <2>2. next' = next
    BY <1>6 DEF Fails
  <2>3. CASE UNCHANGED <<file, open>>
    BY <1>0, <1>1, <2>1, <2>2, <2>3
  <2>4. CASE file' = Appended(Junk) /\ open' = TRUE
    <3>1. /\ Genuine(file', next)
          /\ file'[Len(file')].kind = "junk"
      <4>1. CASE open
        <5>1. file' = [file EXCEPT ![Len(file)] = Junk]
          BY <2>4, <4>1 DEF Appended
        <5>2. Genuine(file', next)
          BY <1>0, <1>b, <4>1, <5>1, GenuineSpoil DEF TailInv
        <5>3. file'[Len(file')] = Junk
          BY <1>0, <4>1, <5>1
        <5> QED
          BY <5>2, <5>3, LineTypes
      <4>2. CASE ~open
        <5>1. file' = Append(file, Junk)
          BY <2>4, <4>2 DEF Appended
        <5>2. Genuine(file', next)
          BY <1>0, <1>b, <5>1, LineTypes, GenuineAppend
        <5>3. file'[Len(file')] = Junk
          BY <1>0, <5>1
        <5> QED
          BY <5>2, <5>3, LineTypes
      <4> QED
        BY <4>1, <4>2
    <3>2. Genuine(file, next)'
      BY <2>2, <3>1 DEF Genuine
    <3> QED
      BY <2>1, <3>1, <3>2 DEF TailInv
  <2> QED
    BY <1>6, <2>3, <2>4 DEF Fails
<1>7. ASSUME NEW t \in Threads, Begins(t) PROVE Genuine(file, next)' /\ TailInv'
  <2> DEFINE j == [Idle EXCEPT !.at = "size", !.event = next, !.prev = last]
  <2>1. j.at = "size" /\ j.event = next
    BY DEF Idle
  <2>2. job' = [job EXCEPT ![t] = j] /\ file' = file /\ open' = open /\ next' = next + 1
    BY <1>7 DEF Begins
  <2> HIDE DEF j
  <2>3. \A u \in Threads : job[u].at = "idle"
    BY <1>7, AuditAssumption DEF Begins, LockInv
  <2>4. job'[t] = j /\ \A u \in Threads : u # t => job'[u].at = "idle"
    BY <1>0, <2>2, <2>3
  <2>5. Genuine(file', next')
    BY <1>0, <1>b, <2>2, GenuineMore
  <2>6. Genuine(file, next)'
    BY <2>5 DEF Genuine
  <2>7. open' => file'[Len(file')].kind # "legacy"
    BY <1>b, <2>2 DEF TailInv
  <2>8. \A k \in DOMAIN file : file[k].kind = "entry" => Number(file[k]) # next
    <3> SUFFICES ASSUME NEW k \in DOMAIN file, file[k].kind = "entry" PROVE Number(file[k]) # next
      OBVIOUS
    <3>1. file[k] \in Lines
      BY <1>0
    <3>2. file[k].sha # <<>> /\ Number(file[k]) < next
      BY <1>b DEF Genuine
    <3>3. Number(file[k]) \in Nat
      BY <3>1, <3>2, NumberType
    <3> QED
      BY <1>0, <3>2, <3>3
  <2>9. next < next'
    BY <1>0, <2>2
  <2>10. \A u \in Threads : job'[u].at # "idle" => job'[u].at = "size" /\ job'[u].event = next
    BY <2>1, <2>4
  <2> QED
    BY <2>2, <2>6, <2>7, <2>8, <2>9, <2>10 DEF TailInv
<1>8. ASSUME NEW t \in Threads, Restarts(t) PROVE Genuine(file, next)' /\ TailInv'
  <2>1. /\ job'[t].at = "write" /\ job'[t].event = job[t].event
        /\ \A u \in Threads : u # t => job'[u] = job[u]
    BY <1>0, <1>8 DEF Restarts, Reanchors, Jobs
  <2>2. \A u \in Threads : u # t => job[u].at = "idle"
    BY <1>8, OthersIdle DEF Restarts
  <2>3. job[t].event < next
    BY <1>8, <1>b DEF Restarts, TailInv
  <2>4. file' = <<>> /\ open' = FALSE /\ next' = next
    BY <1>8 DEF Restarts
  <2>5. Genuine(file, next)'
    BY <2>4, GenuineEmpty DEF Genuine
  <2> QED
    BY <2>1, <2>2, <2>3, <2>4, <2>5 DEF TailInv
<1>9. ASSUME NEW t \in Threads, Fits(t) PROVE Genuine(file, next)' /\ TailInv'
  <2>1. /\ job'[t].at = "write" /\ job'[t].event = job[t].event
        /\ \A u \in Threads : u # t => job'[u] = job[u]
    BY <1>0, <1>9 DEF Fits, Jobs
  <2>2. \A u \in Threads : u # t => job[u].at = "idle"
    BY <1>9, OthersIdle DEF Fits
  <2>3. job[t].at = "size" /\ file' = file /\ open' = open /\ next' = next
    BY <1>9 DEF Fits
  <2>4. Genuine(file, next)'
    BY <1>b, <2>3 DEF Genuine
  <2> QED
    BY <1>b, <2>1, <2>2, <2>3, <2>4 DEF TailInv
<1>10. ASSUME NEW t \in Threads, Writes(t) PROVE Genuine(file, next)' /\ TailInv'
  <2> DEFINE e == Entry(job[t].event, job[t].prev)
  <2>1. /\ job'[t].at = "newline" /\ job'[t].event = job[t].event /\ job'[t].prev = job[t].prev
        /\ \A u \in Threads : u # t => job'[u] = job[u]
    BY <1>0, <1>10 DEF Writes, Jobs
  <2>2. \A u \in Threads : u # t => job[u].at = "idle"
    BY <1>10, OthersIdle DEF Writes
  <2>3. job[t].at = "write" /\ file' = Appended(e) /\ open' = TRUE /\ next' = next
    BY <1>10 DEF Writes
  <2>4. job[t].event \in Nat /\ job[t].prev \in Seq(Nat)
    BY <1>0 DEF Jobs
  <2>5. /\ e \in Lines /\ e.kind = "entry" /\ e.sha = Digest(job[t].prev, job[t].event)
        /\ e.sha # <<>> /\ Number(e) = job[t].event
    BY <2>4, EntryFacts
  <2> HIDE DEF e
  <2>6. job[t].event < next /\ \A k \in DOMAIN file : file[k].kind = "entry" => Number(file[k]) # job[t].event
    BY <1>b, <2>3 DEF TailInv
  <2>7. /\ Genuine(file', next)
        /\ file'[Len(file')].kind = "junk" \/ file'[Len(file')] = e
    <3>1. CASE open
      <4>1. file' = [file EXCEPT ![Len(file)] = Junk]
        BY <2>3, <3>1 DEF Appended
      <4>2. Genuine(file', next)
        BY <1>0, <1>b, <3>1, <4>1, GenuineSpoil DEF TailInv
      <4>3. file'[Len(file')] = Junk
        BY <1>0, <3>1, <4>1
      <4> QED
        BY <4>2, <4>3, LineTypes
    <3>2. CASE ~open
      <4>1. file' = Append(file, e)
        BY <2>3, <3>2 DEF Appended
      <4>2. Genuine(file', next)
        BY <1>0, <1>b, <2>5, <2>6, <4>1, GenuineAppend
      <4>3. file'[Len(file')] = e
        BY <1>0, <4>1
      <4> QED
        BY <4>2, <4>3
    <3> QED
      BY <3>1, <3>2
  <2>8. Genuine(file, next)'
    BY <2>3, <2>7 DEF Genuine
  <2>9. file'[Len(file')].kind # "legacy"
    BY <2>5, <2>7
  <2>10. file'[Len(file')].kind = "entry" =>
           file'[Len(file')].sha = Digest(job'[t].prev, job'[t].event)
    BY <2>1, <2>5, <2>7
  <2> QED
    BY <2>1, <2>2, <2>3, <2>8, <2>9, <2>10 DEF TailInv
<1>11. CASE UNCHANGED vars
  BY <1>0, <1>1, <1>11 DEF vars
<1>12. ~Tampers
  BY DEF Tampers
<1> QED
  BY <1>2, <1>3, <1>4, <1>5, <1>6, <1>7, <1>8, <1>9, <1>10, <1>11, <1>12 DEF Next

----------------------------------------------------------------------------
(* What accidents cost *)

\* A debt that does not grow, or grows with another cut.
LEMMA DebtArithmetic ==
  ASSUME NEW b \in Nat, NEW owed \in Nat, NEW c \in Nat, b + owed <= 2 * c, NEW more \in Nat
  PROVE  /\ more <= owed => b + more <= 2 * c
         /\ more <= 2 => b + more <= 2 * (c + 1)
OBVIOUS

\* The lines left unfinished cost what DebtInv says.
LEMMA DebtStep ==
  ASSUME TypeInv, LockInv, ChainInv, DebtInv, [Next]_vars, ~edited'
  PROVE  Cardinality(BreaksIn(file')) + Owed' <= 2 * cuts'
<1> DEFINE B == Cardinality(BreaksIn(file))
           n == Len(file)
<1>0. /\ file \in Seq(Lines) /\ open \in BOOLEAN /\ (open => file # <<>>) /\ cuts \in Nat
      /\ job \in [Threads -> Jobs] /\ \A t \in Threads : job[t] \in Jobs
  BY DEF TypeInv
<1>a. ~edited
  BY DEF Next, Opens, Ends, Tampers, Begins, Restarts, Fits, Writes, Finishes, Fails, Skips, vars
<1>b. Genuine(file, next) /\ TailInv /\ B + Owed <= 2 * cuts
  BY <1>a DEF ChainInv, DebtInv
<1>c. B \in Nat /\ Owed \in {0, 1, 2}
  BY <1>0, BreaksFinite DEF Owed
<1>d. open => file[n].kind \in {"entry", "junk"}
  <2> SUFFICES ASSUME open PROVE file[n].kind \in {"entry", "junk"}
    OBVIOUS
  <2>1. n \in DOMAIN file
    BY <1>0
  <2> QED
    BY <1>b, <2>1 DEF Genuine, TailInv
<1>e. file # <<>> /\ file[n].kind = "entry" => VerifiedIn(file, n + 1) = file[n].sha
  BY <1>0, TipIsLast
<1> HIDE DEF B
<1>1. ASSUME file' = file, cuts' \in {cuts, cuts + 1}, Owed' \in {0, 1, 2},
             cuts' = cuts => Owed' <= Owed
      PROVE  Cardinality(BreaksIn(file')) + Owed' <= 2 * cuts'
  <2>1. Cardinality(BreaksIn(file')) = B
    BY <1>1 DEF B
  <2>0. Owed \in Nat /\ Owed' \in Nat /\ Owed' <= 2 /\ B \in Nat /\ cuts \in Nat
        /\ B + Owed <= 2 * cuts
    BY <1>0, <1>1, <1>b, <1>c
  <2>2. CASE cuts' = cuts
    <3>1. Owed' <= Owed
      BY <1>1, <2>2
    <3>2. B + Owed' <= 2 * cuts
      BY <2>0, <3>1, DebtArithmetic
    <3> QED
      BY <2>1, <2>2, <3>2
  <2>3. CASE cuts' = cuts + 1
    <3>1. B + Owed' <= 2 * (cuts + 1)
      BY <2>0, DebtArithmetic
    <3> QED
      BY <2>1, <2>3, <3>1
  <2> QED
    BY <1>1, <2>2, <2>3
<1>t. Owed' \in {0, 1, 2}
  BY DEF Owed
<1>2. CASE Opens
  <2>1. holder = None /\ holder' = None /\ ~Writing /\ ~Writing'
    BY <1>2, AuditAssumption DEF Opens, LockInv, Writing
  <2>2. file' = file /\ open' = open /\ cuts' = cuts
    BY <1>2 DEF Opens
  <2>3. Follows'
    <3>1. NextPrev' = last'
      BY <2>1 DEF NextPrev
    <3>2. CASE last' = <<>>
      BY <3>1, <3>2 DEF Follows
    <3>3. CASE last' = LastLineSha /\ file # <<>>
      <4>1. n \in DOMAIN file /\ last' = file[n].sha
        BY <1>0, <3>3 DEF LastLineSha
      <4>2. file[n].kind # "entry" => file[n].sha = <<>>
        BY <1>b, <4>1 DEF Genuine
      <4>3. last' = <<>> \/ last' = VerifiedIn(file', Len(file') + 1)
        BY <1>e, <2>2, <3>3, <4>1, <4>2
      <4> QED
        BY <3>1, <4>3 DEF Follows
    <3> QED
      BY <1>2, <3>2, <3>3 DEF Opens, LastLineSha
  <2>4. Owed' <= Owed
    BY <1>c, <2>1, <2>2, <2>3 DEF Owed
  <2> QED
    BY <1>1, <1>t, <2>2, <2>4
<1>3. CASE Ends
  <2>1. \A u \in Threads : job'[u].at = "idle"
    BY <1>3, IdleFacts DEF Ends
  <2>2. ~Writing' /\ ~up' /\ file' = file /\ open' = open
    BY <1>3, <2>1 DEF Ends, Writing
  <2>3. CASE Writing
    <3>1. cuts' = cuts + 1
      BY <1>3, <2>3 DEF Ends, Writing
    <3> QED
      BY <1>0, <1>1, <1>t, <2>2, <3>1
  <2>4. CASE ~Writing
    <3>1. cuts' = cuts
      BY <1>3, <2>4 DEF Ends, Writing
    <3>2. Owed' <= Owed
      BY <1>c, <2>2, <2>4 DEF Owed
    <3> QED
      BY <1>1, <1>t, <2>2, <3>1, <3>2
  <2> QED
    BY <2>3, <2>4
<1>4. ASSUME NEW t \in Threads, Begins(t) PROVE Cardinality(BreaksIn(file')) + Owed' <= 2 * cuts'
  <2> DEFINE j == [Idle EXCEPT !.at = "size", !.event = next, !.prev = last]
  <2>1. j.at = "size" /\ j.prev = last
    BY DEF Idle
  <2>2. job' = [job EXCEPT ![t] = j] /\ file' = file /\ open' = open /\ cuts' = cuts /\ up' = up
    BY <1>4 DEF Begins
  <2> HIDE DEF j
  <2>3. holder = None /\ holder' = t /\ \A u \in Threads : job[u].at = "idle"
    BY <1>4, AuditAssumption DEF Begins, LockInv
  <2>4. job'[t] = j /\ \A u \in Threads : u # t => job'[u].at = "idle"
    BY <1>0, <2>2, <2>3
  <2>5. ~Writing /\ ~Writing'
    BY <2>1, <2>3, <2>4 DEF Writing
  <2>6. NextPrev = last /\ NextPrev' = last
    BY <2>1, <2>3, <2>4, AuditAssumption DEF NextPrev
  <2>7. Follows <=> Follows'
    BY <2>2, <2>6 DEF Follows
  <2>8. Owed' = Owed
    BY <2>2, <2>5, <2>7 DEF Owed
  <2> QED
    BY <1>1, <1>c, <1>t, <2>2, <2>8
<1>5. ASSUME NEW t \in Threads, Restarts(t) PROVE Cardinality(BreaksIn(file')) + Owed' <= 2 * cuts'
  <2>1. /\ job'[t].at = "write" /\ job'[t].prev = <<>>
        /\ \A u \in Threads : u # t => job'[u] = job[u]
    BY <1>0, <1>5 DEF Restarts, Reanchors, Jobs
  <2>2. holder = t /\ t # None /\ \A u \in Threads : u # t => job[u].at = "idle"
    BY <1>5, OthersIdle DEF Restarts
  <2>3. file' = <<>> /\ open' = FALSE /\ cuts' = 0 /\ holder' = holder
    BY <1>5 DEF Restarts
  <2>4. ~Writing'
    BY <2>1, <2>2 DEF Writing
  <2>5. Follows'
    BY <2>1, <2>2, <2>3 DEF Follows, NextPrev
  <2>6. Owed' = 0
    BY <2>3, <2>4, <2>5 DEF Owed
  <2>7. BreaksIn(file') = {}
    BY <2>3 DEF BreaksIn
  <2> QED
    BY <2>3, <2>6, <2>7, FS_EmptySet
<1>6. ASSUME NEW t \in Threads, Fits(t) PROVE Cardinality(BreaksIn(file')) + Owed' <= 2 * cuts'
  <2>1. /\ job'[t].at = "write" /\ job'[t].prev = job[t].prev
        /\ \A u \in Threads : u # t => job'[u] = job[u]
    BY <1>0, <1>6 DEF Fits, Jobs
  <2>2. /\ holder = t /\ t # None /\ NextPrev = job[t].prev /\ ~Writing
        /\ \A u \in Threads : u # t => job[u].at = "idle"
    BY <1>6, OthersIdle DEF Fits
  <2>3. file' = file /\ open' = open /\ cuts' = cuts /\ holder' = holder /\ up' = up
    BY <1>6 DEF Fits
  <2>4. ~Writing'
    BY <2>1, <2>2 DEF Writing
  <2>5. Follows' <=> Follows
    BY <2>1, <2>2, <2>3 DEF Follows, NextPrev
  <2>6. Owed' = Owed
    BY <2>2, <2>3, <2>4, <2>5 DEF Owed
  <2> QED
    BY <1>1, <1>c, <1>t, <2>3, <2>6
<1>7. ASSUME NEW t \in Threads, Writes(t) PROVE Cardinality(BreaksIn(file')) + Owed' <= 2 * cuts'
  <2> DEFINE e == Entry(job[t].event, job[t].prev)
  <2>1. job'[t].at = "newline"
    BY <1>0, <1>7 DEF Writes, Jobs
  <2>2. holder = t /\ up /\ ~Writing /\ NextPrev = job[t].prev
    BY <1>7, OthersIdle DEF Writes
  <2>3. file' = Appended(e) /\ cuts' = cuts /\ Writing'
    BY <1>7, <2>1 DEF Writes, Writing
  <2>4. job[t].event \in Nat /\ job[t].prev \in Seq(Nat)
    BY <1>0 DEF Jobs
  <2>5. e \in Lines /\ e.kind = "entry" /\ e.prev = job[t].prev
    BY <2>4, EntryFacts
  <2> HIDE DEF e
  <2>6. CASE open
    <3>1. file' = [file EXCEPT ![Len(file)] = Junk]
      BY <2>3, <2>6 DEF Appended
    <3>2. Cardinality(BreaksIn(file')) <= IF file[n].kind = "junk" THEN B ELSE B + 1
      BY <1>0, <2>6, <3>1, SpoilBreaks DEF B
    <3>3. file' \in Seq(Lines) /\ Cardinality(BreaksIn(file')) \in Nat
      BY <1>0, <2>6, <3>1, SpoilBreaks, BreaksFinite
    <3>4. file'[Len(file')] = Junk
      BY <1>0, <2>6, <3>1
    <3>5. Owed' = 1
      BY <2>3, <3>4, LineTypes DEF Owed
    <3>6. Owed = IF file[n].kind = "junk" THEN 1 ELSE 2
      BY <2>2, <2>6 DEF Owed
    <3> HIDE DEF n
    <3>7. CASE file[n].kind = "junk"
      BY <1>0, <1>b, <1>c, <2>3, <3>2, <3>3, <3>5, <3>6, <3>7
    <3>8. CASE file[n].kind # "junk"
      BY <1>0, <1>b, <1>c, <2>3, <3>2, <3>3, <3>5, <3>6, <3>8
    <3> QED
      BY <3>7, <3>8
  <2>7. CASE ~open
    <3>1. file' = Append(file, e)
      BY <2>3, <2>7 DEF Appended
    <3>2. file' \in Seq(Lines) /\ Cardinality(BreaksIn(file')) \in Nat
          /\ Cardinality(BreaksIn(file')) <= B + 1
      BY <1>0, <2>5, <3>1, AppendBreaks, BreaksFinite DEF B
    <3>3. file'[Len(file')] = e
      BY <1>0, <3>1
    <3>4. Owed' = 0
      BY <2>3, <2>5, <3>3 DEF Owed
    <3>5. CASE Follows
      <4>1. e.prev = <<>> \/ e.prev = VerifiedIn(file, Len(file) + 1)
        BY <2>2, <2>5, <3>5 DEF Follows
      <4>2. ~BreakIn(Append(file, e), Len(file) + 1)
        BY <1>0, <2>5, <4>1, LinkedIsNoBreak
      <4>3. BreaksIn(file') = BreaksIn(file)
        BY <1>0, <2>5, <3>1, <4>2, AppendBreaks
      <4>4. Cardinality(BreaksIn(file')) = B
        BY <4>3 DEF B
      <4> QED
        BY <1>0, <1>b, <1>c, <2>3, <3>4, <4>4
    <3>6. CASE ~Follows
      <4>1. Owed = 1
        BY <2>2, <2>7, <3>6 DEF Owed
      <4> QED
        BY <1>0, <1>b, <1>c, <2>3, <3>2, <3>4, <4>1
    <3> QED
      BY <3>5, <3>6
  <2> QED
    BY <2>6, <2>7
<1>8. ASSUME NEW t \in Threads, Finishes(t) PROVE Cardinality(BreaksIn(file')) + Owed' <= 2 * cuts'
  <2>1. job[t].at = "newline" /\ Release(t) /\ file' = file /\ cuts' = cuts /\ open' = FALSE
        /\ last' = Digest(job[t].prev, job[t].event)
    BY <1>8 DEF Finishes
  <2>2. Writing /\ ~Writing' /\ NextPrev' = last'
    BY <2>1, OthersIdle, NobodyAfterRelease
  <2>3. open /\ file # <<>>
    BY <1>0, <1>b, <2>1 DEF TailInv
  <2>4. CASE file[n].kind = "junk"
    <3>1. Owed = 1 /\ Owed' \in {0, 1}
      BY <2>1, <2>2, <2>4 DEF Owed
    <3> QED
      BY <1>1, <1>t, <2>1, <3>1
  <2>5. CASE file[n].kind = "entry"
    <3>1. file[n].sha = last'
      BY <1>b, <2>1, <2>5 DEF TailInv
    <3>2. NextPrev' = VerifiedIn(file', Len(file') + 1)
      BY <1>e, <2>1, <2>2, <2>3, <2>5, <3>1
    <3>3. Follows'
      BY <3>2 DEF Follows
    <3>4. Owed' = 0
      BY <2>1, <2>2, <3>3 DEF Owed
    <3> QED
      BY <1>1, <1>c, <1>t, <2>1, <3>4
  <2> QED
    BY <1>d, <2>3, <2>4, <2>5
<1>9. ASSUME NEW t \in Threads, job[t].at \in {"size", "write"}, Release(t),
             last' = last \/ last' = AfterFailure(t),
             job[t].at = "size" => last' = last, job[t].at = "write" => last' = AfterFailure(t),
             UNCHANGED <<file, open, cuts, up>>
      PROVE  Cardinality(BreaksIn(file')) + Owed' <= 2 * cuts'
  <2>1. ~Writing /\ ~Writing' /\ NextPrev = job[t].prev /\ NextPrev' = last' /\ up
    BY <1>9, OthersIdle, NobodyAfterRelease
  <2>2. job[t].prev = last'
    BY <1>9 DEF LockInv, AfterFailure
  <2>3. Follows' <=> Follows
    BY <1>9, <2>1, <2>2 DEF Follows
  <2>4. Owed' = Owed
    BY <1>9, <2>1, <2>3 DEF Owed
  <2> QED
    BY <1>1, <1>9, <1>c, <1>t, <2>4
<1>10. ASSUME NEW t \in Threads, Skips(t) PROVE Cardinality(BreaksIn(file')) + Owed' <= 2 * cuts'
  BY <1>9, <1>10 DEF Skips
<1>11. ASSUME NEW t \in Threads, Fails(t) PROVE Cardinality(BreaksIn(file')) + Owed' <= 2 * cuts'
  <2>1. CASE job[t].at = "write" /\ UNCHANGED <<file, open, cuts>>
    BY <1>9, <1>11, <2>1 DEF Fails
  <2>2. CASE job[t].at = "newline" /\ cuts' = cuts + 1 /\ UNCHANGED <<file, open>>
    BY <1>0, <1>1, <1>t, <2>2
  <2>3. CASE job[t].at = "write" /\ file' = Appended(Junk) /\ open' = TRUE /\ cuts' = cuts + 1
    <3>1. ~Writing'
      BY <1>11, <2>3, NobodyAfterRelease DEF Fails
    <3>2. /\ file' \in Seq(Lines) /\ file'[Len(file')] = Junk
          /\ Cardinality(BreaksIn(file')) <= B + 1
      <4>1. CASE open
        <5>1. file' = [file EXCEPT ![Len(file)] = Junk]
          BY <2>3, <4>1 DEF Appended
        <5>2. Cardinality(BreaksIn(file')) <= IF file[n].kind = "junk" THEN B ELSE B + 1
          BY <1>0, <4>1, <5>1, SpoilBreaks DEF B
        <5>3. file' \in Seq(Lines) /\ Cardinality(BreaksIn(file')) \in Nat
          BY <1>0, <4>1, <5>1, SpoilBreaks, BreaksFinite
        <5>4. file'[Len(file')] = Junk
          BY <1>0, <4>1, <5>1
        <5> HIDE DEF n
        <5> QED
          BY <1>c, <5>2, <5>3, <5>4
      <4>2. CASE ~open
        <5>1. file' = Append(file, Junk)
          BY <2>3, <4>2 DEF Appended
        <5>2. file' \in Seq(Lines) /\ Cardinality(BreaksIn(file')) <= B + 1
          BY <1>0, <5>1, LineTypes, AppendBreaks DEF B
        <5>3. file'[Len(file')] = Junk
          BY <1>0, <5>1
        <5> QED
          BY <5>2, <5>3
      <4> QED
        BY <4>1, <4>2
    <3>3. Owed' = 1
      BY <2>3, <3>1, <3>2, LineTypes DEF Owed
    <3>4. Cardinality(BreaksIn(file')) \in Nat
      BY <3>2, BreaksFinite
    <3> HIDE DEF n
    <3> QED
      BY <1>0, <1>b, <1>c, <2>3, <3>2, <3>3, <3>4
  <2> QED
    BY <1>11, <2>1, <2>2, <2>3 DEF Fails
<1>12. CASE UNCHANGED vars
  <2>1. Owed' = Owed
    BY <1>12 DEF vars, Owed, Writing, Follows, NextPrev
  <2> QED
    BY <1>1, <1>12, <1>c, <1>t, <2>1 DEF vars
<1>13. ~Tampers
  BY DEF Tampers
<1> QED
  BY <1>2, <1>3, <1>4, <1>5, <1>6, <1>7, <1>8, <1>10, <1>11, <1>12, <1>13 DEF Next

----------------------------------------------------------------------------
(* Tampering *)

\* Digests of different entries of a genuine file differ.
LEMMA OtherDigest ==
  ASSUME NEW f \in Seq(Lines), NEW k, Genuine(f, k), NEW i \in DOMAIN f, f[i].sha # <<>>,
         NEW g \in Seq(Lines), i - 1 <= Len(g), \A j \in 1..(i - 1) : g[j] = f[j]
  PROVE  VerifiedIn(g, i) # f[i].sha
<1>1. i \in 1..Len(f) /\ i \in Nat /\ DOMAIN f = 1..Len(f)
  OBVIOUS
<1>2. f[i].kind = "entry"
  BY DEF Genuine
<1>3. CASE EntriesBefore(g, i) = {}
  BY <1>3 DEF VerifiedIn
<1>4. CASE EntriesBefore(g, i) # {}
  <2> DEFINE l == Latest(EntriesBefore(g, i))
  <2>1. l \in EntriesBefore(g, i)
    BY <1>1, <1>4, LatestIsOne
  <2>2. VerifiedIn(g, i) = g[l].sha
    BY <1>4 DEF VerifiedIn
  <2> HIDE DEF l
  <2>3. l \in 1..(i - 1) /\ g[l].kind = "entry"
    BY <2>1 DEF EntriesBefore
  <2>4. l \in DOMAIN f /\ l # i /\ f[l] = g[l]
    BY <1>1, <2>3
  <2>5. Number(f[l]) # Number(f[i])
    BY <1>2, <2>3, <2>4 DEF Genuine
  <2> QED
    BY <2>2, <2>4, <2>5 DEF Number
<1> QED
  BY <1>3, <1>4

\* An entry whose predecessor is not before it any more is a break.
LEMMA OrphanIsBreak ==
  ASSUME TypeInv, Genuine(file, next), NEW i \in DOMAIN file, Linked(i),
         NEW g \in Seq(Lines), i \in DOMAIN g, g[i] = file[i + 1],
         \A j \in 1..(i - 1) : g[j] = file[j]
  PROVE  BreaksIn(g) # {}
<1>1. /\ i + 1 \in DOMAIN file /\ file[i + 1].prev # <<>> /\ file[i + 1].prev = file[i].sha
      /\ file \in Seq(Lines)
  BY DEF Linked, TypeInv
<1>2. file[i + 1].kind = "entry"
  BY <1>1 DEF Genuine
<1>3. i - 1 <= Len(g)
  OBVIOUS
<1>4. VerifiedIn(g, i) # file[i].sha
  BY <1>1, <1>3, OtherDigest
<1>5. BreakIn(g, i)
  BY <1>1, <1>2, <1>4 DEF BreakIn
<1> QED
  BY <1>5 DEF BreaksIn

\* What shows goes on showing.
LEMMA ShowsStep ==
  ASSUME TypeInv, LockInv, ChainInv, ShowsInv, [Next]_vars
  PROVE  ShowsInv'
<1>0. /\ file \in Seq(Lines) /\ open \in BOOLEAN /\ (open => file # <<>>)
      /\ \A t \in Threads : job[t] \in Jobs
  BY DEF TypeInv
<1>1. ASSUME UNCHANGED <<file, edited, shows>> PROVE ShowsInv'
  BY <1>1 DEF ShowsInv
<1>2. ASSUME NEW line \in Lines, file' = Appended(line), UNCHANGED <<edited, shows>>
      PROVE  ShowsInv'
  <2>1. BreaksIn(file) # {} => BreaksIn(Appended(line)) # {}
    BY <1>0, <1>2, AppendBreaks, SpoilBreaks DEF Appended
  <2> QED
    BY <1>2, <2>1 DEF ShowsInv
<1>3. ASSUME NEW t \in Threads, Writes(t) PROVE ShowsInv'
  <2>1. Entry(job[t].event, job[t].prev) \in Lines
    <3>1. job[t].event \in Nat /\ job[t].prev \in Seq(Nat)
      BY <1>0 DEF Jobs
    <3> QED
      BY <3>1, EntryFacts
  <2> QED
    BY <1>2, <1>3, <2>1 DEF Writes
<1>4. ASSUME NEW t \in Threads, Fails(t) PROVE ShowsInv'
  <2>1. CASE file' = Appended(Junk)
    BY <1>2, <1>4, <2>1, LineTypes DEF Fails
  <2>2. CASE file' = file
    BY <1>1, <1>4, <2>2 DEF Fails
  <2> QED
    BY <1>4, <2>1, <2>2 DEF Fails
<1>5. ASSUME NEW t \in Threads, Restarts(t) PROVE ShowsInv'
  BY <1>5 DEF Restarts, ShowsInv
<1>6. CASE Tampers
  <2>1. edited' /\ ~edited
    BY <1>6 DEF Tampers
  <2>2. Genuine(file, next)
    BY <2>1 DEF ChainInv
  <2>3. PICK i \in DOMAIN file :
          \/ file[i].kind = "entry" /\ file' = [file EXCEPT ![i].kind = "changed"] /\ shows' = TRUE
          \/ /\ file' = SubSeq(file, 1, i - 1) \o SubSeq(file, i + 1, Len(file))
             /\ shows' = Linked(i)
          \/ /\ i + 1 \in DOMAIN file
             /\ file' = [file EXCEPT ![i] = file[i + 1], ![i + 1] = file[i]]
             /\ shows' = Linked(i)
    BY <1>6 DEF Tampers
  <2>4. CASE file[i].kind = "entry" /\ file' = [file EXCEPT ![i].kind = "changed"]
    <3>1. i \in DOMAIN file' /\ file'[i].kind = "changed"
      <4>1. file[i] \in Lines
        BY <1>0
      <4> QED
        BY <1>0, <2>4, <4>1 DEF Lines
    <3>2. i \in BreaksIn(file')
      BY <3>1 DEF BreaksIn, BreakIn
    <3> QED
      BY <2>1, <3>2 DEF ShowsInv
  <2>5. CASE /\ file' = SubSeq(file, 1, i - 1) \o SubSeq(file, i + 1, Len(file))
             /\ shows' = Linked(i)
    <3> SUFFICES ASSUME Linked(i) PROVE BreaksIn(file') # {}
      BY <2>1, <2>5 DEF ShowsInv
    <3>1. i + 1 \in DOMAIN file
      BY DEF Linked
    <3>2. /\ file' \in Seq(Lines) /\ Len(file') = Len(file) - 1 /\ file'[i] = file[i + 1]
          /\ \A j \in 1..(i - 1) : file'[j] = file[j]
      BY <1>0, <2>5, <3>1, RemovedFacts
    <3>3. i \in DOMAIN file'
      BY <1>0, <3>1, <3>2
    <3> QED
      BY <2>2, <3>2, <3>3, OrphanIsBreak
  <2>6. CASE /\ i + 1 \in DOMAIN file
             /\ file' = [file EXCEPT ![i] = file[i + 1], ![i + 1] = file[i]]
             /\ shows' = Linked(i)
    <3> SUFFICES ASSUME Linked(i) PROVE BreaksIn(file') # {}
      BY <2>1, <2>6 DEF ShowsInv
    <3>1. /\ file' \in Seq(Lines) /\ i \in DOMAIN file' /\ file'[i] = file[i + 1]
          /\ \A j \in 1..(i - 1) : file'[j] = file[j]
      <4>1. file' \in Seq(Lines)
        BY <1>0, <2>6, SwappedType
      <4> QED
        BY <1>0, <2>6, <4>1
    <3> QED
      BY <2>2, <3>1, OrphanIsBreak
  <2> QED
    BY <2>3, <2>4, <2>5, <2>6
<1>7. CASE Opens \/ Ends \/ UNCHANGED vars
  BY <1>1, <1>7 DEF Opens, Ends, vars
<1>8. ASSUME NEW t \in Threads, Begins(t) \/ Fits(t) \/ Finishes(t) \/ Skips(t) PROVE ShowsInv'
  BY <1>1, <1>8 DEF Begins, Fits, Finishes, Skips
<1> QED
  BY <1>3, <1>4, <1>5, <1>6, <1>7, <1>8 DEF Next

----------------------------------------------------------------------------
(* The theorems *)

\* A new log, and one of an older release, satisfy the invariant.
LEMMA InitIInv == Init => IInv
<1> SUFFICES ASSUME Init PROVE IInv
  OBVIOUS
<1>1. /\ file \in Seq(Lines) /\ DOMAIN file = 1..Len(file)
      /\ \A i \in DOMAIN file : file[i] = Legacy
  <2>1. <<>> \in Seq(Lines) /\ <<Legacy>> \in Seq(Lines) /\ <<Legacy, Legacy>> \in Seq(Lines)
    BY LineTypes
  <2>2. CASE file = <<>>
    BY <2>1, <2>2
  <2>3. CASE file = <<Legacy>>
    BY <2>1, <2>3
  <2>4. CASE file = <<Legacy, Legacy>>
    BY <2>1, <2>4
  <2> QED
    BY <2>2, <2>3, <2>4 DEF Init
<1>2. \A t \in Threads : job[t] = Idle
  BY DEF Init
<1>3. TypeInv
  <2>1. <<>> \in Seq(Nat) /\ job \in [Threads -> Jobs]
    BY IdleFacts DEF Init
  <2> QED
    BY <1>1, <2>1 DEF Init, TypeInv
<1>4. LockInv
  BY <1>2, IdleFacts, AuditAssumption DEF Init, LockInv
<1>5. Genuine(file, next)
  BY <1>1, LineTypes DEF Genuine
<1>6. TailInv
  BY <1>2, IdleFacts DEF Init, TailInv
<1>7. BreaksIn(file) = {}
  <2> SUFFICES ASSUME NEW i \in DOMAIN file PROVE ~BreakIn(file, i)
    BY DEF BreaksIn
  <2>1. \A j \in 1..(i - 1) : file[j] = Legacy
    BY <1>1
  <2> QED
    BY <1>1, <2>1, LineTypes DEF BreakIn, Chained
<1>8. Owed = 0
  BY <1>2, IdleFacts DEF Init, Owed, Writing
<1>9. DebtInv
  BY <1>7, <1>8, FS_EmptySet DEF DebtInv, Init
<1> QED
  BY <1>3, <1>4, <1>5, <1>6, <1>9 DEF IInv, ChainInv, ShowsInv, Init

\* The inductive invariant of the log holds throughout.
THEOREM Invariance == Spec => []IInv
<1>1. IInv /\ [Next]_vars => IInv'
  <2> SUFFICES ASSUME IInv, [Next]_vars PROVE IInv'
    OBVIOUS
  <2>1. TypeInv /\ LockInv /\ ChainInv /\ DebtInv /\ ShowsInv
    BY DEF IInv
  <2>2. TypeInv' /\ LockInv' /\ ShowsInv'
    BY <2>1, TypeStep, LockStep, ShowsStep
  <2>3. ChainInv'
    BY <2>1, ChainStep DEF ChainInv
  <2>4. DebtInv'
    BY <2>1, DebtStep DEF DebtInv
  <2> QED
    BY <2>2, <2>3, <2>4 DEF IInv
<1> QED
  BY <1>1, InitIInv, PTL DEF Spec

\* A line left unfinished costs two reported breaks at most, in logs of any
\* length and for any number of threads, processes and failures.
THEOREM AccidentsAreCheap == Spec => []AccidentsCostTwo
<1>1. IInv => AccidentsCostTwo
  <2> SUFFICES ASSUME IInv, ~edited PROVE Cardinality(Breaks) <= 2 * cuts
    BY DEF AccidentsCostTwo
  <2>1. Breaks = BreaksIn(file)
    BY BreaksOfFile
  <2>2. Cardinality(BreaksIn(file)) + Owed <= 2 * cuts /\ file \in Seq(Lines) /\ cuts \in Nat
    BY DEF IInv, DebtInv, TypeInv
  <2>3. Cardinality(BreaksIn(file)) \in Nat /\ Owed \in {0, 1, 2}
    BY <2>2, BreaksFinite DEF Owed
  <2> QED
    BY <2>1, <2>2, <2>3
<1> QED
  BY <1>1, Invariance, PTL

\* An edit that the chain commits to is reported until the file is restarted.
THEOREM TamperingIsReported == Spec => []TamperingShows
<1>1. IInv => TamperingShows
  BY BreaksOfFile DEF IInv, ShowsInv, TamperingShows
<1> QED
  BY <1>1, Invariance, PTL
=============================================================================
