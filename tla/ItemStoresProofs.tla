-------------------------- MODULE ItemStoresProofs --------------------------
(***************************************************************************)
(* Theorems about ItemStores, for every number of clients, calls and       *)
(* fields.  A call that nothing overlapped finds the items as it last saw  *)
(* them, and that one fact decides both properties.  The theorems about    *)
(* the other providers, those of DocumentStores, follow.                   *)
(***************************************************************************)
EXTENDS ItemStores, DocumentStores, SequenceTheorems, WellFoundedInduction, TLAPS

\* Where a name picks its first item that item counts; in Proton Pass the
\* last one, which is the only one once the others are replaced.
Shown(i) ==
  /\ i \in DOMAIN items
  /\ kind \in FirstFound => i = 1
  /\ kind = "protonpass" => i = Len(items)

\* The items that count hold what may be read, at every step of every call.
CurrentInv ==
  /\ items = <<>> => \A f \in Fields : None \in possible[f]
  /\ \A i \in DOMAIN items : Shown(i) => \A f \in Fields : items[i].fields[f] \in possible[f]

\* Two calls at once overlap, and that is remembered.
OverlapInv ==
  /\ \A a \in Clients, b \in Clients : a # b /\ Busy(a) /\ Busy(b) => client[a].overlapped
  /\ \A a \in Clients : Busy(a) /\ client[a].overlapped => raced

\* Fields, deletes and the number of items, by provider.
KindInv ==
  /\ kind \in UniqueNames \cup Upserts => Len(items) <= 1
  /\ kind \notin HasFields =>
       /\ \A a \in Clients : client[a].field = Password
       /\ \A f \in Fields \ {Password} :
            None \in possible[f] /\ \A i \in DOMAIN items : items[i].fields[f] = None
  /\ \A a \in Clients : client[a].op = "delete" =>
       kind \in Deletes /\ client[a].val = None /\ client[a].at \in {"start", "delete", "none"}
  /\ \A a \in Clients : client[a].at \in {"delete", "none"} => client[a].op = "delete"

\* What a call saw is what there is, unless another call overlapped it.
LookInv(a) ==
  LET c == client[a]
  IN  /\ c.at = "create" /\ kind \in OnlyFound => \A f \in Fields : None \in possible[f]
      /\ ~c.overlapped =>
           /\ c.at = "none" => items = <<>>
           /\ c.at = "create" /\ (kind = "protonpass" => ~raced) => items = <<>>
           /\ c.at = "edit" /\ kind \in FirstFound => items # <<>> /\ items[1].id = c.item
           /\ c.at \in {"edit", "template", "save", "delete"} /\ kind \in OnlyFound => Len(items) = 1
           /\ c.at = "save" => Len(items) = 1 /\ items[1].fields = c.seen

\* Proton Pass replaces the first item of a name: the one a call found stays
\* first for as long as it is there, because new items get ids of their own.
Known(c, m) == (0..c) \cup ((MaxCommands + 1)..(MaxCommands + m))
FreshInv ==
  kind = "protonpass" =>
    /\ \A i \in DOMAIN items : items[i].id \in Known(commands, mishaps)
    /\ \A i \in DOMAIN items, j \in DOMAIN items : items[i].id = items[j].id => i = j
    /\ \A a \in Clients :
         client[a].item \in Known(commands, mishaps)
    /\ \A a \in Clients : Busy(a) =>
         /\ client[a].val \in 1..commands
         /\ \A i \in DOMAIN items : items[i].id # client[a].val
         /\ \A b \in Clients : client[b].item # client[a].val
         /\ \A b \in Clients \ {a} : Busy(b) => client[b].val # client[a].val
    /\ \A a \in Clients, i \in DOMAIN items :
         At(a, "replace") /\ items[i].id = client[a].item => i = 1

IInv ==
  /\ TypeOK /\ CurrentInv /\ OverlapInv /\ KindInv /\ NoDuplicates /\ FreshInv
  /\ \A a \in Clients : LookInv(a)

----------------------------------------------------------------------------
(* Items *)

\* The order of the natural numbers is well founded.
Less == {ss \in Nat \X Nat : ss[1] < ss[2]}
\* No sequence of naturals descends for ever, which is what the folds recurse on.
LEMMA LessIsWellFounded == IsWellFoundedOn(Less, Nat)
BY NatLessThanWellFounded DEF OpToRel, Less

\* A set of numbers that is not empty has a least one.
LEMMA LeastNumber ==
  ASSUME NEW S \in SUBSET Nat, S # {}
  PROVE  \E x \in S : \A y \in S : ~(y < x)
<1>1. PICK x \in S : \A y \in S : <<y, x>> \notin Less
  BY LessIsWellFounded, WFMin
<1>2. \A y \in S : y < x => <<y, x>> \in Less
  BY DEF Less
<1> QED
  BY <1>1, <1>2

\* The place of an id is the first item that has it.
LEMMA PlaceIsFirst ==
  ASSUME items \in Seq(Records), NEW id \in Ids
  PROVE  /\ Place(id) \in 1..Len(items) /\ items[Place(id)].id = id
         /\ items[1].id = id => Place(id) = 1
<1> DEFINE S == {i \in 1..Len(items) : items[i].id = id}
<1>1. S \in SUBSET Nat /\ S # {} /\ DOMAIN items = 1..Len(items) /\ Len(items) \in Nat
  BY LenProperties DEF Ids
<1>2. PICK x \in S : \A y \in S : ~(y < x)
  BY <1>1, LeastNumber
<1>3. \A j \in 1..(x - 1) : items[j].id # id
  <2> SUFFICES ASSUME NEW j \in 1..(x - 1), items[j].id = id PROVE FALSE
    OBVIOUS
  <2>1. j \in S /\ j < x
    BY <1>1, <1>2
  <2> QED
    BY <1>2, <2>1
<1>4. x \in DOMAIN items /\ items[x].id = id /\ \A j \in 1..(x - 1) : items[j].id # id
  BY <1>1, <1>2, <1>3
<1>5. /\ Place(id) \in DOMAIN items /\ items[Place(id)].id = id
      /\ \A j \in 1..(Place(id) - 1) : items[j].id # id
  BY <1>4 DEF Place
<1>6. items[1].id = id => Place(id) = 1
  <2> SUFFICES ASSUME items[1].id = id, Place(id) # 1 PROVE FALSE
    OBVIOUS
  <2>1. 1 \in 1..(Place(id) - 1)
    BY <1>1, <1>5
  <2> QED
    BY <1>5, <2>1
<1> QED
  BY <1>1, <1>5, <1>6

\* A sequence without its p-th element.
Cut(s, p) == SubSeq(s, 1, p - 1) \o SubSeq(s, p + 1, Len(s))
\* What removing an item leaves: the others, in their order and under their identities.
LEMMA CutItems ==
  ASSUME NEW s \in Seq(Records), NEW p \in 1..Len(s)
  PROVE  /\ Cut(s, p) \in Seq(Records) /\ Len(Cut(s, p)) = Len(s) - 1
         /\ \A i \in 1..(Len(s) - 1) : Cut(s, p)[i] = IF i < p THEN s[i] ELSE s[i + 1]
<1> DEFINE u == SubSeq(s, 1, p - 1)
           w == SubSeq(s, p + 1, Len(s))
<1>1. p \in Nat /\ Len(s) \in Nat /\ 1 <= p /\ p <= Len(s)
  OBVIOUS
<1>2. u \in Seq(Records) /\ Len(u) = p - 1 /\ \A j \in 1..(p - 1) : u[j] = s[j]
  BY <1>1
<1>3. w \in Seq(Records) /\ Len(w) = Len(s) - p /\ \A j \in 1..(Len(s) - p) : w[j] = s[p + j]
  BY <1>1
<1> HIDE DEF u, w
<1>4. /\ u \o w \in Seq(Records) /\ Len(u \o w) = Len(u) + Len(w)
      /\ \A k \in 1..(Len(u) + Len(w)) : (u \o w)[k] = IF k <= Len(u) THEN u[k] ELSE w[k - Len(u)]
  BY <1>2, <1>3, ConcatProperties
<1>5. Len(u \o w) = Len(s) - 1 /\ Len(u) + Len(w) = Len(s) - 1
  BY <1>1, <1>2, <1>3, <1>4
<1>6. ASSUME NEW i \in 1..(Len(s) - 1) PROVE (u \o w)[i] = IF i < p THEN s[i] ELSE s[i + 1]
  <2>1. CASE i < p
    <3>1. i \in 1..(p - 1) /\ i <= Len(u) /\ i \in 1..(Len(u) + Len(w))
      BY <1>1, <1>2, <1>5, <2>1
    <3> QED
      BY <1>2, <1>4, <2>1, <3>1
  <2>2. CASE ~(i < p)
    <3>1. i \in 1..(Len(u) + Len(w)) /\ ~(i <= Len(u)) /\ i - Len(u) \in 1..(Len(s) - p)
      BY <1>1, <1>2, <1>5, <2>2
    <3>2. p + (i - Len(u)) = i + 1
      BY <1>1, <1>2
    <3>3. (u \o w)[i] = w[i - Len(u)] /\ w[i - Len(u)] = s[p + (i - Len(u))]
      BY <1>3, <1>4, <3>1
    <3> QED
      BY <2>2, <3>2, <3>3
  <2> QED
    BY <2>1, <2>2
<1> QED
  BY <1>4, <1>5, <1>6 DEF u, w, Cut

\* What is left when the item of an id is removed.
LEMMA WithoutItem ==
  ASSUME items \in Seq(Records), NEW id \in Ids
  PROVE  /\ Without(id) \in Seq(Records) /\ Len(Without(id)) = Len(items) - 1
         /\ Place(id) \in 1..Len(items)
         /\ \A i \in 1..(Len(items) - 1) :
              Without(id)[i] = IF i < Place(id) THEN items[i] ELSE items[i + 1]
<1>1. Place(id) \in 1..Len(items)
  BY PlaceIsFirst
<1>2. Without(id) = Cut(items, Place(id))
  BY DEF Without, Cut
<1> QED
  BY <1>1, <1>2, CutItems

\* Items of which one has other fields.
EditedAt(s, p, g) == [s EXCEPT ![p] = [s[p] EXCEPT !.fields = g]]
\* Editing an item changes the fields of that item and nothing else of the sequence.
LEMMA EditedItems ==
  ASSUME NEW s \in Seq(Records), NEW p \in 1..Len(s), NEW g \in [Fields -> Values]
  PROVE  /\ EditedAt(s, p, g) \in Seq(Records) /\ Len(EditedAt(s, p, g)) = Len(s)
         /\ \A i \in 1..Len(s) : /\ EditedAt(s, p, g)[i].fields = (IF i = p THEN g ELSE s[i].fields)
                                 /\ EditedAt(s, p, g)[i].id = s[i].id
<1>1. s[p] \in Records
  BY ElementOfSeq
<1> DEFINE e == [s[p] EXCEPT !.fields = g]
           r == [s EXCEPT ![p] = e]
<1>2. e \in Records /\ e.fields = g /\ e.id = s[p].id
  BY <1>1 DEF Records
<1> HIDE DEF e
<1>4. /\ r \in Seq(Records) /\ Len(r) = Len(s)
      /\ \A i \in 1..Len(s) : r[i] = IF i = p THEN e ELSE s[i]
  BY <1>2, ExceptSeq
<1>5. EditedAt(s, p, g) = r
  BY DEF EditedAt, e
<1> HIDE DEF r
<1> QED
  BY <1>2, <1>4, <1>5

\* Items of which one has another value in a field.
Overwritten(s, p, f, v) == EditedAt(s, p, [s[p].fields EXCEPT ![f] = v])
\* Overwriting a field changes that field of that item and nothing else.
LEMMA OverwrittenItems ==
  ASSUME NEW s \in Seq(Records), NEW p \in 1..Len(s), NEW f \in Fields, NEW v \in Values
  PROVE  /\ Overwritten(s, p, f, v) \in Seq(Records) /\ Len(Overwritten(s, p, f, v)) = Len(s)
         /\ \A i \in 1..Len(s) : Overwritten(s, p, f, v)[i].id = s[i].id
         /\ \A i \in 1..Len(s), h \in Fields : Overwritten(s, p, f, v)[i].fields[h]
                                               = IF i = p /\ h = f THEN v ELSE s[i].fields[h]
<1>1. s[p] \in Records
  BY ElementOfSeq
<1> DEFINE g == [s[p].fields EXCEPT ![f] = v]
           r == EditedAt(s, p, g)
<1>2. g \in [Fields -> Values] /\ \A h \in Fields : g[h] = IF h = f THEN v ELSE s[p].fields[h]
  BY <1>1 DEF Records
<1>3. Overwritten(s, p, f, v) = r
  BY DEF Overwritten
<1> HIDE DEF g
<1>4. /\ r \in Seq(Records) /\ Len(r) = Len(s)
      /\ \A i \in 1..Len(s) : r[i].fields = (IF i = p THEN g ELSE s[i].fields) /\ r[i].id = s[i].id
  BY <1>2, EditedItems
<1> HIDE DEF r
<1>5. ASSUME NEW i \in 1..Len(s), NEW h \in Fields
      PROVE  r[i].fields[h] = IF i = p /\ h = f THEN v ELSE s[i].fields[h]
  <2>1. CASE i = p
    BY <1>2, <1>4, <2>1
  <2>2. CASE i # p
    BY <1>4, <2>2
  <2> QED
    BY <2>1, <2>2
<1> QED
  BY <1>3, <1>4, <1>5

\* The form in which the actions write it.
LEMMA ExceptIsOverwritten ==
  ASSUME items \in Seq(Records), NEW p \in 1..Len(items), NEW f \in Fields, NEW v \in Values
  PROVE  [items EXCEPT ![p].fields[f] = v] = Overwritten(items, p, f, v)
<1>1. items[p] \in Records
  BY ElementOfSeq
<1> QED
  BY <1>1 DEF Overwritten, EditedAt, Records

\* A new item.
LEMMA NewItem ==
  ASSUME NEW id \in Values, NEW f \in Fields, NEW v \in Values
  PROVE  /\ Item(id, f, v) \in Records /\ <<Item(id, f, v)>> \in Seq(Records)
         /\ \A h \in Fields : Item(id, f, v).fields[h] = IF h = f THEN v ELSE None
BY DEF Item, Blank, Records, Values

----------------------------------------------------------------------------
(* Steps of a call *)

\* Values that may be read after the answer, whatever it is.
Fits(a, f, v) ==
  \/ f \in Touched(client[a]) /\ v = client[a].val
  \/ v \in possible[f] /\ (f \in Touched(client[a]) => client[a].overlapped)

\* They may indeed.
Accepts(a) ==
  /\ possible' \in [Fields -> SUBSET Values]
  /\ \A f \in Fields, v \in Values : Fits(a, f, v) => v \in possible'[f]
  /\ client[a].overlapped => \A f \in Fields : possible[f] \subseteq possible'[f]

\* What all answers have in common.
Answers(a) ==
  /\ client' = [client EXCEPT ![a] = Idle] /\ Accepts(a)
  /\ mishaps' \in 0..MaxMishaps /\ mishaps' >= mishaps

\* A call that is over is no call.
LEMMA IdleFacts ==
  /\ Idle \in Calls /\ Idle.at = "idle" /\ Idle.op = "set" /\ Idle.field = Password
  /\ Idle.overlapped = FALSE /\ Idle.item = 0
BY ItemAssumption, CommandAssumption DEF Idle, Calls, Points, Values, Blank

\* Ok(..) is an answer.
LEMMA AckAnswers ==
  ASSUME TypeOK, NEW a \in Clients, Ack(a)
  PROVE  Answers(a)
<1>1. client[a] \in Calls /\ client[a].val \in Values /\ client[a].overlapped \in BOOLEAN
  BY DEF TypeOK, Calls
<1>2. \A f \in Fields : possible[f] \in SUBSET Values
  BY DEF TypeOK
<1>3. possible' = [f \in Fields |->
        IF f \notin Touched(client[a]) THEN possible[f]
        ELSE IF client[a].overlapped THEN possible[f] \cup {client[a].val} ELSE {client[a].val}]
  BY DEF Ack
<1>4. ASSUME NEW f \in Fields
      PROVE  /\ f \notin Touched(client[a]) => possible'[f] = possible[f]
             /\ f \in Touched(client[a]) /\ client[a].overlapped
                  => possible'[f] = possible[f] \cup {client[a].val}
             /\ f \in Touched(client[a]) /\ ~client[a].overlapped => possible'[f] = {client[a].val}
             /\ possible'[f] \in SUBSET Values
  <2>1. CASE f \notin Touched(client[a])
    BY <1>1, <1>2, <1>3, <2>1
  <2>2. CASE f \in Touched(client[a]) /\ client[a].overlapped
    BY <1>1, <1>2, <1>3, <2>2
  <2>3. CASE f \in Touched(client[a]) /\ ~client[a].overlapped
    BY <1>1, <1>2, <1>3, <2>3
  <2> QED
    BY <2>1, <2>2, <2>3
<1>5. possible' \in [Fields -> SUBSET Values]
  BY <1>3, <1>4
<1>6. mishaps' \in 0..MaxMishaps /\ mishaps' >= mishaps
  BY ItemAssumption, CommandAssumption DEF TypeOK, Ack, Quiet
<1>7. \A f \in Fields, v \in Values : Fits(a, f, v) => v \in possible'[f]
  BY <1>4 DEF Fits
<1>8. client[a].overlapped => \A f \in Fields : possible[f] \subseteq possible'[f]
  BY <1>4
<1> QED
  BY <1>5, <1>6, <1>7, <1>8 DEF Answers, Accepts, Ack

\* An error only adds to what may be read.
LEMMA ErrAnswers ==
  ASSUME TypeOK, NEW a \in Clients, Err(a), Quiet \/ Mishap
  PROVE  Answers(a) /\ \A f \in Fields : possible[f] \subseteq possible'[f]
<1>1. client[a] \in Calls /\ client[a].val \in Values /\ client[a].overlapped \in BOOLEAN
  BY DEF TypeOK, Calls
<1>2. \A f \in Fields : possible[f] \in SUBSET Values
  BY DEF TypeOK
<1>3. possible' = [f \in Fields |-> IF f \in Touched(client[a])
                                    THEN possible[f] \cup {client[a].val} ELSE possible[f]]
  BY DEF Err
<1>4. ASSUME NEW f \in Fields
      PROVE  /\ f \notin Touched(client[a]) => possible'[f] = possible[f]
             /\ f \in Touched(client[a]) => possible'[f] = possible[f] \cup {client[a].val}
             /\ possible'[f] \in SUBSET Values
  BY <1>1, <1>2, <1>3
<1>5. possible' \in [Fields -> SUBSET Values]
  BY <1>3, <1>4
<1>6. mishaps' \in 0..MaxMishaps /\ mishaps' >= mishaps
  BY ItemAssumption, CommandAssumption DEF TypeOK, Quiet, Mishap
<1>7. \A f \in Fields, v \in Values : Fits(a, f, v) => v \in possible'[f]
  BY <1>4 DEF Fits
<1>8. \A f \in Fields : possible[f] \subseteq possible'[f]
  BY <1>4
<1> QED
  BY <1>5, <1>6, <1>7, <1>8 DEF Answers, Accepts, Err

\* Done is an answer.
LEMMA DoneAnswers ==
  ASSUME TypeOK, NEW a \in Clients, Done(a)
  PROVE  Answers(a)
BY AckAnswers, ErrAnswers DEF Done

\* The items after a step, together with what may be read then.
Sound ==
  /\ items' \in Seq(Records)
  /\ kind \in UniqueNames \cup Upserts => Len(items') <= 1
  /\ kind \notin HasFields => \A f \in Fields \ {Password} :
       None \in possible'[f] /\ \A i \in DOMAIN items' : items'[i].fields[f] = None
  /\ CurrentInv' /\ NoDuplicates'

\* A call goes on.
Continues(c, d) ==
  /\ d.op = c.op /\ d.field = c.field /\ d.val = c.val /\ d.overlapped = c.overlapped
  /\ d.op = "delete" => d.at \in {"start", "delete", "none"}
  /\ d.at \in {"delete", "none"} => d.op = "delete"

\* What a step of one call has to show: the others are overlapped by it, or
\* there are none.
LEMMA CallStep ==
  ASSUME IInv, NEW a \in Clients, Busy(a), NEW d \in Calls, client' = [client EXCEPT ![a] = d],
         kind' = kind, raced' = raced, commands' = commands, folder' \in BOOLEAN,
         mishaps' \in 0..MaxMishaps, possible' \in [Fields -> SUBSET Values],
         d = Idle \/ Continues(client[a], d),
         client[a].overlapped => \A f \in Fields : possible[f] \subseteq possible'[f],
         Sound, LookInv(a)', FreshInv'
  PROVE  IInv'
<1>1. client \in [Clients -> Calls] /\ client'[a] = d /\ \A b \in Clients \ {a} : client'[b] = client[b]
  BY DEF IInv, TypeOK
<1>2. TypeOK'
  BY <1>1 DEF IInv, TypeOK, Sound
<1>3. OverlapInv'
  <2>1. \A b \in Clients : Busy(b)' => Busy(b)
    BY <1>1 DEF Busy
  <2>2. \A b \in Clients : Busy(b)' => client'[b].overlapped = client[b].overlapped
    <3> TAKE b \in Clients
    <3>1. CASE b = a
      BY <1>1, <3>1, IdleFacts DEF Busy, Continues
    <3>2. CASE b # a
      BY <1>1, <3>2
    <3> QED
      BY <3>1, <3>2
  <2> QED
    BY <2>1, <2>2 DEF IInv, OverlapInv
<1>4. KindInv'
  <2>1. ASSUME NEW b \in Clients
        PROVE  /\ kind \notin HasFields => client'[b].field = Password
               /\ client'[b].op = "delete" => /\ kind \in Deletes /\ client'[b].val = None
                                              /\ client'[b].at \in {"start", "delete", "none"}
               /\ client'[b].at \in {"delete", "none"} => client'[b].op = "delete"
    <3>1. CASE b = a /\ d = Idle
      BY <1>1, <3>1, IdleFacts
    <3>2. CASE b = a /\ Continues(client[a], d)
      BY <1>1, <3>2 DEF IInv, KindInv, Continues
    <3>3. CASE b # a
      BY <1>1, <3>3 DEF IInv, KindInv
    <3> QED
      BY <3>1, <3>2, <3>3
  <2> QED
    BY <2>1 DEF Sound, KindInv
<1>5. ASSUME NEW b \in Clients PROVE LookInv(b)'
  <2>1. CASE b = a
    BY <2>1
  <2>2. CASE b # a /\ ~Busy(b)
    BY <1>1, <2>2 DEF LookInv, Busy
  <2>3. CASE b # a /\ Busy(b)
    <3>1. client[a].overlapped /\ client[b].overlapped /\ client'[b] = client[b]
      BY <1>1, <2>3 DEF IInv, OverlapInv
    <3> QED
      BY <3>1 DEF IInv, LookInv
  <2> QED
    BY <2>1, <2>2, <2>3
<1> QED
  BY <1>2, <1>3, <1>4, <1>5 DEF IInv, Sound

\* Numbers in use stay in use.
LEMMA KnownGrows ==
  ASSUME NEW c \in Nat, NEW e \in Nat, c <= e, NEW m \in Nat, NEW n \in Nat, m <= n
  PROVE  /\ \A x \in Known(c, m) : x \in Known(e, n) /\ x \in Nat
         /\ 0 \in Known(e, n)
BY ItemAssumption, CommandAssumption DEF Known

\* A call ends with the items as they are: new ids are as fresh as before.
LEMMA FreshAnswered ==
  ASSUME IInv, NEW a \in Clients, Answers(a), items' = items, kind' = kind, commands' = commands
  PROVE  FreshInv'
<1> SUFFICES ASSUME kind = "protonpass" PROVE FreshInv'
  BY DEF FreshInv
<1>1. client \in [Clients -> Calls] /\ client'[a] = Idle /\ \A b \in Clients \ {a} : client'[b] = client[b]
  BY DEF IInv, TypeOK, Answers
<1>2. \A b \in Clients : client'[b] = client[b] \/ (client'[b] = Idle /\ b = a)
  BY <1>1
<1>3. commands \in Nat /\ mishaps \in Nat /\ mishaps' \in Nat /\ mishaps' >= mishaps /\ MaxCommands \in Nat
  BY ItemAssumption, CommandAssumption DEF IInv, TypeOK, Answers
<1>4. \A x \in Known(commands, mishaps) : x \in Known(commands, mishaps')
  BY <1>3, KnownGrows
<1>5. 0 \in Known(commands, mishaps')
  BY <1>3, KnownGrows
<1>6. ASSUME NEW b \in Clients
      PROVE  client'[b].item \in Known(commands, mishaps')
  BY <1>2, <1>4, <1>5, IdleFacts DEF IInv, FreshInv
<1>7. ASSUME NEW b \in Clients, Busy(b)'
      PROVE  /\ client'[b].val \in 1..commands
             /\ \A i \in DOMAIN items : items[i].id # client'[b].val
             /\ \A e \in Clients : client'[e].item # client'[b].val
             /\ \A e \in Clients \ {b} : Busy(e)' => client'[e].val # client'[b].val
  <2>1. client'[b] = client[b] /\ Busy(b)
    BY <1>2, <1>7, IdleFacts DEF Busy
  <2>2. client[b].val \in 1..commands /\ 0 \notin 1..commands
    BY <2>1, <1>3 DEF IInv, FreshInv
  <2>3. \A e \in Clients : client'[e].item # client'[b].val
    BY <1>2, <2>1, <2>2, IdleFacts DEF IInv, FreshInv
  <2>4. \A e \in Clients \ {b} : Busy(e)' => client'[e].val # client'[b].val
    BY <1>2, <2>1, IdleFacts DEF Busy, IInv, FreshInv
  <2> QED
    BY <2>1, <2>2, <2>3, <2>4 DEF IInv, FreshInv
<1>8. ASSUME NEW b \in Clients, NEW i \in DOMAIN items, At(b, "replace")', items[i].id = client'[b].item
      PROVE  i = 1
  BY <1>2, <1>8, IdleFacts DEF At, IInv, FreshInv
<1> QED
  BY <1>4, <1>6, <1>7, <1>8 DEF IInv, FreshInv

\* Items of values that fit are sound.
LEMMA FitsSound ==
  ASSUME IInv, NEW a \in Clients, Accepts(a), kind' = kind, raced' = raced, items' \in Seq(Records),
         kind \in UniqueNames \cup Upserts => Len(items') <= 1,
         Len(items') > 1 => raced,
         items' = <<>> => \A f \in Fields : Fits(a, f, None),
         \A i \in 1..Len(items') : Shown(i)' => \A f \in Fields : Fits(a, f, items'[i].fields[f]),
         kind \notin HasFields =>
           \A f \in Fields \ {Password}, i \in 1..Len(items') : items'[i].fields[f] = None
  PROVE  Sound
<1>1. DOMAIN items' = 1..Len(items')
  BY LenProperties
<1>2. \A i \in 1..Len(items'), f \in Fields : items'[i].fields[f] \in Values
  <2> TAKE i \in 1..Len(items'), f \in Fields
  <2>1. items'[i] \in Records
    BY ElementOfSeq
  <2> QED
    BY <2>1 DEF Records
<1>3. None \in Values
  BY DEF Values
<1>4. CurrentInv'
  BY <1>1, <1>2, <1>3 DEF CurrentInv, Accepts
<1>5. NoDuplicates'
  BY DEF NoDuplicates
<1>6. kind \notin HasFields => \A f \in Fields \ {Password} : None \in possible'[f]
  <2> SUFFICES ASSUME kind \notin HasFields, NEW f \in Fields \ {Password} PROVE None \in possible'[f]
    OBVIOUS
  <2>1. client[a].field = Password /\ None \in possible[f]
        /\ (client[a].op = "delete" => client[a].val = None)
    BY DEF IInv, KindInv
  <2>2. Fits(a, f, None)
    BY <2>1 DEF Fits, Touched
  <2> QED
    BY <1>3, <2>2 DEF Accepts
<1> QED
  BY <1>1, <1>4, <1>5, <1>6 DEF Sound

\* The end of a call.
LEMMA EndStep ==
  ASSUME IInv, NEW a \in Clients, Busy(a), Answers(a), Stays, Sound, FreshInv'
  PROVE  IInv'
<1>1. client' = [client EXCEPT ![a] = Idle] /\ client'[a] = Idle /\ Idle \in Calls
  BY IdleFacts DEF Answers, IInv, TypeOK
<1>2. kind' = kind /\ raced' = raced /\ commands' = commands /\ folder' \in BOOLEAN
  BY DEF Stays, IInv, TypeOK
<1>3. LookInv(a)'
  BY <1>1, IdleFacts DEF LookInv
<1>4. mishaps' \in 0..MaxMishaps /\ possible' \in [Fields -> SUBSET Values]
      /\ (client[a].overlapped => \A f \in Fields : possible[f] \subseteq possible'[f])
  BY DEF Answers, Accepts
<1> QED
  BY <1>1, <1>2, <1>3, <1>4, CallStep

\* A call that fails leaves the items alone.
LEMMA ErrStep ==
  ASSUME IInv, NEW a \in Clients, Busy(a), Err(a), Quiet \/ Mishap, UNCHANGED items, Stays
  PROVE  IInv'
<1>1. Answers(a) /\ \A f \in Fields : possible[f] \subseteq possible'[f]
  BY ErrAnswers DEF IInv
<1>2. client' = [client EXCEPT ![a] = Idle] /\ client'[a] = Idle /\ Idle \in Calls
  BY IdleFacts DEF Err, IInv, TypeOK
<1>3. kind' = kind /\ raced' = raced /\ commands' = commands /\ folder' \in BOOLEAN
  BY DEF Stays, IInv, TypeOK
<1>4. CurrentInv'
  BY <1>1, <1>3 DEF IInv, CurrentInv, Shown
<1>5. Sound
  BY <1>1, <1>3, <1>4 DEF Sound, IInv, TypeOK, KindInv, NoDuplicates
<1>6. LookInv(a)'
  BY <1>2, IdleFacts DEF LookInv
<1>7. FreshInv'
  BY <1>1, <1>3, FreshAnswered
<1>8. mishaps' \in 0..MaxMishaps /\ possible' \in [Fields -> SUBSET Values]
  BY <1>1 DEF Answers, Accepts
<1> QED
  BY <1>1, <1>2, <1>3, <1>5, <1>6, <1>7, <1>8, CallStep

\* A refusal is an error.
LEMMA RefusedStep ==
  ASSUME IInv, NEW a \in Clients, Busy(a), Refused(a), Stays
  PROVE  IInv'
BY ErrStep DEF Refused

\* A call looks, and goes on.
LEMMA LookStep ==
  ASSUME IInv, NEW a \in Clients, Busy(a), NEW d \in Calls, client' = [client EXCEPT ![a] = d],
         Continues(client[a], d), kind' = kind, raced' = raced, commands' = commands,
         folder' \in BOOLEAN, UNCHANGED <<items, possible, mishaps>>, LookInv(a)', FreshInv'
  PROVE  IInv'
<1>1. CurrentInv'
  BY DEF IInv, CurrentInv, Shown
<1>2. Sound
  BY <1>1 DEF Sound, IInv, TypeOK, KindInv, NoDuplicates
<1>3. mishaps' \in 0..MaxMishaps /\ possible' \in [Fields -> SUBSET Values]
  BY DEF IInv, TypeOK
<1> QED
  BY <1>2, <1>3, CallStep

----------------------------------------------------------------------------
(* Looking *)

\* Looking keeps new ids fresh.
LEMMA FreshLooked ==
  ASSUME IInv, NEW a \in Clients, Busy(a), NEW d \in Calls, client' = [client EXCEPT ![a] = d],
         Continues(client[a], d), UNCHANGED <<items, mishaps>>, kind' = kind, commands' = commands,
         \/ d.item = client[a].item /\ d.at # "replace"
         \/ items # <<>> /\ d.item = items[1].id
  PROVE  FreshInv'
<1> SUFFICES ASSUME kind = "protonpass" PROVE FreshInv'
  BY DEF FreshInv
<1>1. client \in [Clients -> Calls] /\ client'[a] = d /\ \A b \in Clients \ {a} : client'[b] = client[b]
  BY DEF IInv, TypeOK
<1>2. items # <<>> => 1 \in DOMAIN items
  BY DEF IInv, TypeOK
<1>3. \A b \in Clients : client'[b].val = client[b].val /\ (Busy(b)' => Busy(b))
  <2> TAKE b \in Clients
  <2>1. CASE b = a
    BY <1>1, <2>1 DEF Continues
  <2>2. CASE b # a
    BY <1>1, <2>2 DEF Busy
  <2> QED
    BY <2>1, <2>2
<1>4. \A b \in Clients : \/ client'[b].item = client[b].item
                         \/ items # <<>> /\ client'[b].item = items[1].id
  <2> TAKE b \in Clients
  <2>1. CASE b = a
    BY <1>1, <2>1
  <2>2. CASE b # a
    BY <1>1, <2>2
  <2> QED
    BY <2>1, <2>2
<1>5. \A b \in Clients : client'[b].item \in Known(commands, mishaps)
  BY <1>2, <1>4 DEF IInv, FreshInv
<1>6. \A b \in Clients : Busy(b)' => \A e \in Clients : client'[e].item # client'[b].val
  BY <1>2, <1>3, <1>4 DEF IInv, FreshInv
<1>7. ASSUME NEW b \in Clients, NEW i \in DOMAIN items, At(b, "replace")', items[i].id = client'[b].item
      PROVE  i = 1
  <2>1. CASE b = a
    <3>1. items # <<>> /\ items[i].id = items[1].id
      BY <1>1, <1>7, <2>1 DEF At
    <3> QED
      BY <1>2, <3>1 DEF IInv, FreshInv
  <2>2. CASE b # a
    BY <1>1, <1>7, <2>2 DEF At, IInv, FreshInv
  <2> QED
    BY <2>1, <2>2
<1> QED
  BY <1>3, <1>5, <1>6, <1>7 DEF IInv, FreshInv

\* The item of a name is found: the call remembers it.
LEMMA FindsStep ==
  ASSUME IInv, NEW a \in Clients, Busy(a), NEW id \in Ids, NEW point \in Points, Finds(a, id, point),
         point \notin {"idle", "none", "create"}, point = "delete" <=> client[a].op = "delete",
         kind = "protonpass" => id = items[1].id,
         ~client[a].overlapped =>
           /\ kind \in FirstFound => id = items[1].id
           /\ kind \in OnlyFound \/ point = "save" => Len(items) = 1
  PROVE  IInv'
<1>1. items \in Seq(Records) /\ client \in [Clients -> Calls] /\ client[a] \in Calls
  BY DEF IInv, TypeOK
<1>2. Place(id) \in 1..Len(items) /\ items[Place(id)].id = id /\ Len(items) \in Nat
  BY <1>1, PlaceIsFirst
<1>3. items[Place(id)] \in Records
  BY <1>1, <1>2, ElementOfSeq
<1> DEFINE d == [client[a] EXCEPT !.item = id, !.at = point, !.seen = items[Place(id)].fields]
<1>4. client' = [client EXCEPT ![a] = d]
  BY <1>1 DEF Finds
<1>5. /\ d \in Calls /\ d.item = id /\ d.at = point /\ d.seen = items[Place(id)].fields
      /\ d.op = client[a].op /\ d.field = client[a].field /\ d.val = client[a].val
      /\ d.overlapped = client[a].overlapped
  BY <1>1, <1>2, <1>3 DEF Calls, Records
<1> HIDE DEF d
<1>6. Continues(client[a], d)
  BY <1>5 DEF Continues
<1>7. UNCHANGED <<items, possible, mishaps, kind, folder, commands, raced>>
  BY DEF Finds, Quiet, Stays
<1>8. client'[a] = d
  BY <1>1, <1>4
<1>9. LookInv(a)'
  <2>1. Len(items) = 1 => Place(id) = 1
    BY <1>2
  <2>2. items # <<>>
    BY <1>2
  <2> QED
    BY <1>5, <1>7, <1>8, <2>1, <2>2 DEF LookInv
<1>10. FreshInv'
  <2>1. CASE kind = "protonpass"
    <3>1. items # <<>> /\ d.item = items[1].id
      BY <1>2, <1>5, <2>1
    <3> QED
      BY <1>4, <1>5, <1>6, <1>7, <3>1, FreshLooked
  <2>2. CASE kind # "protonpass"
    BY <1>7, <2>2 DEF FreshInv
  <2> QED
    BY <2>1, <2>2
<1>11. folder' \in BOOLEAN
  BY <1>7 DEF IInv, TypeOK
<1> QED
  BY <1>4, <1>5, <1>6, <1>7, <1>9, <1>10, <1>11, LookStep

\* A call goes on without an item.
LEMMA GoesStep ==
  ASSUME IInv, NEW a \in Clients, Busy(a), NEW point \in Points, Goes(a, point),
         point \notin {"idle", "edit", "template", "save", "delete", "replace"},
         point = "none" <=> client[a].op = "delete", point \in {"none", "create"} => items = <<>>,
         UNCHANGED <<items, possible, mishaps, kind, commands, raced>>, folder' \in BOOLEAN
  PROVE  IInv'
<1>1. client \in [Clients -> Calls] /\ client[a] \in Calls
  BY DEF IInv, TypeOK
<1> DEFINE d == [client[a] EXCEPT !.at = point]
<1>2. client' = [client EXCEPT ![a] = d]
  BY <1>1 DEF Goes
<1>3. /\ d \in Calls /\ d.at = point /\ d.item = client[a].item
      /\ d.op = client[a].op /\ d.field = client[a].field /\ d.val = client[a].val
      /\ d.overlapped = client[a].overlapped
  BY <1>1 DEF Calls
<1> HIDE DEF d
<1>4. Continues(client[a], d)
  BY <1>3 DEF Continues
<1>5. client'[a] = d
  BY <1>1, <1>2
<1>6. LookInv(a)'
  BY <1>3, <1>5 DEF LookInv, IInv, CurrentInv
<1>7. FreshInv'
  BY <1>2, <1>3, <1>4, FreshLooked
<1> QED
  BY <1>2, <1>3, <1>4, <1>6, <1>7, LookStep

\* A call that is at a point is under way.
LEMMA AtBusy ==
  ASSUME NEW a \in Clients, NEW point, At(a, point), point # "idle"
  PROVE  Busy(a)
BY DEF At, Busy

\* The first item has an id of the name's.
LEMMA FirstId ==
  ASSUME IInv, items # <<>>
  PROVE  items[1].id \in Ids
<1>1. 1 \in DOMAIN items
  BY DEF IInv, TypeOK
<1> QED
  BY <1>1 DEF Ids

\* A name that picks its first item.
LEMMA ListsFirstStep ==
  ASSUME IInv, NEW a \in Clients, NEW found \in {"edit", "delete", "replace", "put"},
         NEW missing \in {"create", "none"}, ListsFirst(a, found, missing), kind \notin OnlyFound,
         found = "delete" <=> client[a].op = "delete", missing = "none" <=> client[a].op = "delete"
  PROVE  IInv'
<1>1. Busy(a) /\ found \in Points /\ missing \in Points
  BY AtBusy DEF ListsFirst, Points
<1>2. CASE items # <<>> /\ Finds(a, items[1].id, found)
  <2>1. items[1].id \in Ids
    BY <1>2, FirstId
  <2> QED
    BY <1>1, <1>2, <2>1, FindsStep
<1>3. CASE FindsNothing(a, missing)
  <2>1. /\ Goes(a, missing) /\ items = <<>> /\ UNCHANGED <<items, possible, mishaps, kind, commands, raced>>
        /\ folder' \in BOOLEAN
    BY <1>3 DEF FindsNothing, Quiet, Stays, IInv, TypeOK
  <2> QED
    BY <1>1, <2>1, GoesStep
<1> QED
  BY <1>2, <1>3 DEF ListsFirst

\* A name that stands for one item only.
LEMMA ListsOnlyStep ==
  ASSUME IInv, NEW a \in Clients, NEW found \in {"edit", "delete", "template", "save"},
         NEW missing \in {"create", "none"}, ListsOnly(a, found, missing), kind \in OnlyFound,
         found = "delete" <=> client[a].op = "delete", missing = "none" <=> client[a].op = "delete"
  PROVE  IInv'
<1>1. Busy(a) /\ found \in Points /\ missing \in Points
  BY AtBusy DEF ListsOnly, Points
<1>2. CASE Len(items) = 1 /\ Finds(a, items[1].id, found)
  <2>1. items[1].id \in Ids
    BY <1>2, FirstId DEF IInv, TypeOK
  <2> QED
    BY <1>1, <1>2, <2>1, FindsStep
<1>3. CASE FindsNothing(a, missing)
  <2>1. /\ Goes(a, missing) /\ items = <<>> /\ UNCHANGED <<items, possible, mishaps, kind, commands, raced>>
        /\ folder' \in BOOLEAN
    BY <1>3 DEF FindsNothing, Quiet, Stays, IInv, TypeOK
  <2> QED
    BY <1>1, <2>1, GoesStep
<1>4. CASE Refused(a) /\ Stays
  BY <1>1, <1>4, RefusedStep
<1> QED
  BY <1>2, <1>3, <1>4 DEF ListsOnly

----------------------------------------------------------------------------
(* Storing and removing *)

\* Facts about the items that every effect starts from.
LEMMA StateFacts ==
  ASSUME IInv, NEW a \in Clients
  PROVE  /\ items \in Seq(Records) /\ Len(items) \in Nat /\ DOMAIN items = 1..Len(items)
         /\ client[a] \in Calls /\ client[a].val \in Values /\ client[a].field \in Fields
         /\ client[a].overlapped \in BOOLEAN /\ Password \in Fields
         /\ \A i \in 1..Len(items), f \in Fields : Shown(i) => items[i].fields[f] \in possible[f]
         /\ client[a].op = "set" => Touched(client[a]) = {client[a].field}
         /\ client[a].op = "delete" => Touched(client[a]) = Fields /\ client[a].val = None
         /\ client[a].overlapped /\ Busy(a) => raced
         /\ client[a].op \in {"set", "delete"}
<1>1. items \in Seq(Records) /\ Len(items) \in Nat /\ DOMAIN items = 1..Len(items)
  BY DEF IInv, TypeOK
<1>2. /\ client[a] \in Calls /\ client[a].val \in Values /\ client[a].field \in Fields
      /\ client[a].overlapped \in BOOLEAN /\ client[a].op \in {"set", "delete"}
  BY DEF IInv, TypeOK, Calls
<1>3. \A i \in 1..Len(items), f \in Fields : Shown(i) => items[i].fields[f] \in possible[f]
  BY <1>1 DEF IInv, CurrentInv
<1> QED
  BY <1>1, <1>2, <1>3, ItemAssumption, CommandAssumption DEF Touched, IInv, KindInv, OverlapInv

\* A value is written into an item: that item counts, or the call is overlapped.
LEMMA OverwrittenSound ==
  ASSUME IInv, NEW a \in Clients, Accepts(a), kind' = kind, raced' = raced,
         client[a].op = "set", NEW p \in 1..Len(items),
         items' = Overwritten(items, p, client[a].field, client[a].val), kind # "protonpass",
         \A i \in 1..Len(items) : Shown(i) => i = p \/ client[a].overlapped
  PROVE  Sound
<1>1. /\ items \in Seq(Records) /\ Len(items) \in Nat
      /\ client[a].val \in Values /\ client[a].field \in Fields
      /\ Touched(client[a]) = {client[a].field} /\ DOMAIN items = 1..Len(items)
      /\ \A i \in 1..Len(items), f \in Fields : Shown(i) => items[i].fields[f] \in possible[f]
  BY StateFacts
<1>2. /\ items' \in Seq(Records) /\ Len(items') = Len(items)
      /\ \A i \in 1..Len(items), h \in Fields :
           items'[i].fields[h] = IF i = p /\ h = client[a].field THEN client[a].val
                                 ELSE items[i].fields[h]
  <2> DEFINE c == client[a]
             r == Overwritten(items, p, c.field, c.val)
  <2>1. items \in Seq(Records) /\ c.field \in Fields /\ c.val \in Values
    BY <1>1
  <2> HIDE DEF c
  <2>2. r \in Seq(Records) /\ Len(r) = Len(items)
    BY <2>1, OverwrittenItems
  <2>3. ASSUME NEW i \in 1..Len(items), NEW h \in Fields
        PROVE  r[i].fields[h] = IF i = p /\ h = c.field THEN c.val ELSE items[i].fields[h]
    BY <2>1, OverwrittenItems
  <2>4. items' = r
    BY DEF c
  <2> HIDE DEF r
  <2> QED
    BY <2>2, <2>3, <2>4 DEF c
<1>3. items' # <<>> /\ DOMAIN items' = 1..Len(items)
  BY <1>2
<1>4. ASSUME NEW i \in 1..Len(items'), Shown(i)', NEW f \in Fields
      PROVE  Fits(a, f, items'[i].fields[f])
  <2>1. i \in 1..Len(items) /\ Shown(i)
    BY <1>1, <1>2, <1>3, <1>4 DEF Shown
  <2>2. items[i].fields[f] \in possible[f] /\ (i = p \/ client[a].overlapped)
    BY <1>1, <2>1
  <2> QED
    BY <1>1, <1>2, <2>1, <2>2 DEF Fits
<1>5. kind \notin HasFields =>
        \A f \in Fields \ {Password}, i \in 1..Len(items') : items'[i].fields[f] = None
  BY <1>1, <1>2 DEF IInv, KindInv
<1>6. (kind \in UniqueNames \cup Upserts => Len(items') <= 1) /\ (Len(items') > 1 => raced)
  BY <1>2 DEF IInv, KindInv, NoDuplicates
<1> QED
  BY <1>2, <1>3, <1>4, <1>5, <1>6, FitsSound

\* A new item, where there was none or where the call is overlapped.
LEMMA CreatedSound ==
  ASSUME IInv, NEW a \in Clients, Busy(a), Accepts(a), kind' = kind, raced' = raced, client[a].op = "set",
         items' = Append(items, Item(client[a].val, client[a].field, client[a].val)),
         items = <<>> \/ (At(a, "create") /\ kind \in FirstFound \cup OnlyFound \cup {"protonpass"})
  PROVE  Sound
<1>1. /\ items \in Seq(Records) /\ Len(items) \in Nat
      /\ client[a].val \in Values /\ client[a].field \in Fields
      /\ Touched(client[a]) = {client[a].field} /\ DOMAIN items = 1..Len(items)
      /\ \A i \in 1..Len(items), f \in Fields : Shown(i) => items[i].fields[f] \in possible[f]
      /\ client[a].overlapped => raced
  BY StateFacts
<1> DEFINE e == Item(client[a].val, client[a].field, client[a].val)
<1>2. /\ e \in Records
      /\ \A h \in Fields : e.fields[h] = IF h = client[a].field THEN client[a].val ELSE None
  BY <1>1, NewItem
<1>3. items' = Append(items, e)
  OBVIOUS
<1> HIDE DEF e
<1>4. /\ items' \in Seq(Records) /\ Len(items') = Len(items) + 1 /\ items' # <<>>
      /\ \A i \in 1..Len(items) : items'[i] = items[i]
      /\ items'[Len(items) + 1] = e
  BY <1>1, <1>2, <1>3
<1>5. items # <<>> => /\ raced /\ (kind # "protonpass" => client[a].overlapped)
                      /\ kind \in OnlyFound => \A f \in Fields : None \in possible[f]
                      /\ kind \in FirstFound \cup OnlyFound \cup {"protonpass"}
  BY <1>1 DEF At, IInv, LookInv
<1>6. ASSUME NEW i \in 1..Len(items'), Shown(i)', NEW f \in Fields
      PROVE  Fits(a, f, items'[i].fields[f])
  <2>1. CASE i \in 1..Len(items)
    <3>1. items # <<>> /\ kind # "protonpass" /\ Shown(i)
      BY <1>1, <1>4, <1>6, <2>1 DEF Shown
    <3>2. items'[i].fields[f] \in possible[f] /\ client[a].overlapped
      BY <1>1, <1>4, <1>5, <2>1, <3>1
    <3> QED
      BY <3>2 DEF Fits
  <2>2. CASE i = Len(items) + 1 /\ f = client[a].field
    BY <1>1, <1>2, <1>4, <2>2 DEF Fits
  <2>3. CASE i = Len(items) + 1 /\ f # client[a].field
    <3>1. items'[i].fields[f] = None
      BY <1>2, <1>4, <2>3
    <3>2. CASE items = <<>>
      BY <1>1, <2>3, <3>1, <3>2 DEF Fits, IInv, CurrentInv
    <3>3. CASE items # <<>>
      <4>1. kind \notin FirstFound
        <5>1. i # 1
          BY <1>1, <2>3, <3>3
        <5> QED
          BY <1>6, <5>1 DEF Shown
      <4>2. CASE kind \in OnlyFound
        BY <1>1, <1>5, <2>3, <3>1, <3>3, <4>2 DEF Fits
      <4>3. CASE kind = "protonpass"
        <5>1. client[a].field = Password /\ None \in possible[f]
          BY <2>3, <4>3 DEF HasFields, IInv, KindInv
        <5> QED
          BY <1>1, <2>3, <3>1, <5>1 DEF Fits
      <4> QED
        BY <1>5, <3>3, <4>1, <4>2, <4>3
    <3> QED
      BY <3>2, <3>3
  <2> QED
    BY <1>1, <1>4, <2>1, <2>2, <2>3
<1>7. kind \notin HasFields =>
        \A f \in Fields \ {Password}, i \in 1..Len(items') : items'[i].fields[f] = None
  <2> SUFFICES ASSUME kind \notin HasFields, NEW f \in Fields \ {Password}, NEW i \in 1..Len(items')
               PROVE  items'[i].fields[f] = None
    OBVIOUS
  <2>1. client[a].field = Password
    BY DEF IInv, KindInv
  <2>2. CASE i \in 1..Len(items)
    BY <1>1, <1>4, <2>2 DEF IInv, KindInv
  <2>3. CASE i = Len(items) + 1
    BY <1>2, <1>4, <2>1, <2>3
  <2> QED
    BY <1>1, <1>4, <2>2, <2>3
<1>8. kind \in UniqueNames \cup Upserts => Len(items') <= 1
  <2> SUFFICES ASSUME kind \in UniqueNames \cup Upserts PROVE Len(items') <= 1
    OBVIOUS
  <2>1. items = <<>>
    BY <1>5 DEF UniqueNames, Upserts, FirstFound, OnlyFound
  <2> QED
    BY <1>4, <2>1
<1>9. Len(items') > 1 => raced
  BY <1>1, <1>4, <1>5
<1> QED
  BY <1>4, <1>6, <1>7, <1>8, <1>9, FitsSound

\* Nothing is left.
LEMMA ClearedSound ==
  ASSUME IInv, NEW a \in Clients, Accepts(a), kind' = kind, raced' = raced,
         client[a].op = "delete", items' = <<>>
  PROVE  Sound
<1>1. Touched(client[a]) = Fields /\ client[a].val = None
  BY StateFacts
<1>2. \A f \in Fields : Fits(a, f, None)
  BY <1>1 DEF Fits
<1>3. items' \in Seq(Records) /\ Len(items') = 0 /\ 1..Len(items') = {}
  BY EmptySeq
<1> QED
  BY <1>2, <1>3, FitsSound

\* A delete that leaves the items as they are, because there are none or
\* because it is overlapped.
LEMMA UntouchedSound ==
  ASSUME IInv, NEW a \in Clients, Accepts(a), kind' = kind, raced' = raced,
         client[a].op = "delete", items' = items, items = <<>> \/ client[a].overlapped
  PROVE  Sound
<1>1. /\ items \in Seq(Records) /\ DOMAIN items = 1..Len(items)
      /\ \A i \in 1..Len(items), f \in Fields : Shown(i) => items[i].fields[f] \in possible[f]
  BY StateFacts
<1>2. CASE items = <<>>
  BY <1>2, ClearedSound
<1>3. CASE client[a].overlapped
  <2>1. items = <<>> => \A f \in Fields : Fits(a, f, None)
    BY <1>3 DEF Fits, IInv, CurrentInv
  <2>2. \A i \in 1..Len(items) : Shown(i)' => \A f \in Fields : Fits(a, f, items[i].fields[f])
    BY <1>1, <1>3 DEF Fits, Shown
  <2> QED
    BY <1>1, <2>1, <2>2, FitsSound DEF IInv, KindInv, NoDuplicates
<1> QED
  BY <1>2, <1>3

----------------------------------------------------------------------------
(* The steps of the providers *)

\* A new item has an id of its own.
LEMMA FreshCreated ==
  ASSUME IInv, NEW a \in Clients, Busy(a), Answers(a), kind' = kind, commands' = commands,
         items' = Append(items, Item(client[a].val, client[a].field, client[a].val))
  PROVE  FreshInv'
<1> SUFFICES ASSUME kind = "protonpass" PROVE FreshInv'
  BY DEF FreshInv
<1>1. client \in [Clients -> Calls] /\ client'[a] = Idle /\ \A b \in Clients \ {a} : client'[b] = client[b]
  BY DEF IInv, TypeOK, Answers
<1>2. \A b \in Clients : (client'[b] = client[b] /\ b # a) \/ (client'[b] = Idle /\ b = a)
  BY <1>1
<1>3. commands \in Nat /\ mishaps \in Nat /\ mishaps' \in Nat /\ mishaps' >= mishaps
  BY ItemAssumption, CommandAssumption DEF IInv, TypeOK, Answers
<1>4. \A x \in Known(commands, mishaps) : x \in Known(commands, mishaps')
  BY <1>3, KnownGrows
<1>5. 0 \in Known(commands, mishaps')
  BY <1>3, KnownGrows
<1>6. client[a].val \in 1..commands /\ \A x \in 1..commands : x \in Known(commands, mishaps')
  BY <1>3 DEF Known, IInv, FreshInv
<1> DEFINE e == Item(client[a].val, client[a].field, client[a].val)
<1>7. e \in Records /\ e.id = client[a].val
  BY StateFacts, NewItem DEF Item
<1>8. items' = Append(items, e)
  OBVIOUS
<1> HIDE DEF e
<1>9. /\ items \in Seq(Records) /\ Len(items) \in Nat /\ DOMAIN items = 1..Len(items)
      /\ DOMAIN items' = 1..(Len(items) + 1)
      /\ \A i \in 1..Len(items) : items'[i] = items[i]
      /\ items'[Len(items) + 1] = e
  <2>1. items \in Seq(Records)
    BY DEF IInv, TypeOK
  <2> QED
    BY <1>7, <1>8, <2>1
<1>10. \A i \in DOMAIN items' : (i \in DOMAIN items /\ items'[i] = items[i])
                                \/ (i = Len(items) + 1 /\ items'[i].id = client[a].val)
  BY <1>7, <1>9
<1>11. \A i \in DOMAIN items' : items'[i].id \in Known(commands, mishaps')
  BY <1>4, <1>6, <1>10 DEF IInv, FreshInv
<1>12. \A i \in DOMAIN items', j \in DOMAIN items' : items'[i].id = items'[j].id => i = j
  BY <1>10 DEF IInv, FreshInv
<1>13. \A b \in Clients : client'[b].item \in Known(commands, mishaps')
  BY <1>2, <1>4, <1>5, IdleFacts DEF IInv, FreshInv
<1>14. ASSUME NEW b \in Clients, Busy(b)'
       PROVE  /\ client'[b].val \in 1..commands
              /\ \A i \in DOMAIN items' : items'[i].id # client'[b].val
              /\ \A c \in Clients : client'[c].item # client'[b].val
              /\ \A c \in Clients \ {b} : Busy(c)' => client'[c].val # client'[b].val
  <2>1. client'[b] = client[b] /\ Busy(b) /\ b # a
    BY <1>2, <1>14, IdleFacts DEF Busy
  <2>2. client[b].val \in 1..commands /\ 0 \notin 1..commands /\ client[a].val # client[b].val
    BY <1>3, <2>1 DEF IInv, FreshInv
  <2>3. \A i \in DOMAIN items' : items'[i].id # client'[b].val
    BY <1>10, <2>1, <2>2 DEF IInv, FreshInv
  <2>4. \A c \in Clients : client'[c].item # client'[b].val
    BY <1>2, <2>1, <2>2, IdleFacts DEF IInv, FreshInv
  <2>5. \A c \in Clients \ {b} : Busy(c)' => client'[c].val # client'[b].val
    BY <1>2, <2>1, IdleFacts DEF Busy, IInv, FreshInv
  <2> QED
    BY <2>1, <2>2, <2>3, <2>4, <2>5
<1>15. ASSUME NEW b \in Clients, NEW i \in DOMAIN items', At(b, "replace")', items'[i].id = client'[b].item
       PROVE  i = 1
  <2>1. client'[b] = client[b] /\ b # a
    BY <1>2, <1>15, IdleFacts DEF At
  <2>2. client[b].item # client[a].val
    BY DEF IInv, FreshInv
  <2> QED
    BY <1>10, <1>15, <2>1, <2>2 DEF At, IInv, FreshInv
<1> QED
  BY <1>11, <1>12, <1>13, <1>14, <1>15 DEF FreshInv

\* CreatesItem, where the item is the first one or the call has looked.
LEMMA CreatesItemStep ==
  ASSUME IInv, NEW a \in Clients, NEW at, at # "idle", CreatesItem(a, at), client[a].op = "set",
         items = <<>> \/ (at = "create" /\ kind \in FirstFound \cup OnlyFound \cup {"protonpass"})
  PROVE  IInv'
<1>1. Busy(a) /\ Answers(a) /\ Stays /\ Accepts(a)
  BY AtBusy, DoneAnswers DEF CreatesItem, IInv, Answers
<1>2. kind' = kind /\ raced' = raced /\ commands' = commands
  BY <1>1 DEF Stays
<1>3. items' = Append(items, Item(client[a].val, client[a].field, client[a].val))
  BY DEF CreatesItem
<1>4. at = "create" => At(a, "create")
  BY DEF CreatesItem
<1>5. Sound
  BY <1>1, <1>2, <1>3, <1>4, CreatedSound
<1>6. FreshInv'
  BY <1>1, <1>2, <1>3, FreshCreated
<1> QED
  BY <1>1, <1>5, <1>6, EndStep

\* Only Proton Pass depends on fresh ids.
LEMMA FreshElsewhere ==
  ASSUME kind' = kind, kind # "protonpass"
  PROVE  FreshInv'
BY DEF FreshInv

\* CreatesNamed: a name that is taken refuses.
LEMMA CreatesNamedStep ==
  ASSUME IInv, NEW a \in Clients, NEW at \in {"create", "start", "post", "again"},
         NEW taken \in {"conflict", "put", "error"},
         CreatesNamed(a, at, taken), client[a].op = "set"
  PROVE  IInv'
<1>1. Busy(a)
  BY AtBusy DEF CreatesNamed
<1>2. CASE items = <<>> /\ CreatesItem(a, at)
  BY <1>2, CreatesItemStep
<1>3. CASE taken # "error" /\ Goes(a, taken) /\ Quiet /\ UNCHANGED <<items, possible>> /\ Stays
  <2>1. UNCHANGED <<items, possible, mishaps, kind, commands, raced>> /\ folder' \in BOOLEAN
    BY <1>3 DEF Quiet, Stays, IInv, TypeOK
  <2>2. taken \in Points /\ taken \notin {"none", "create"} /\ taken # "idle"
        /\ taken \notin {"idle", "edit", "template", "save", "delete", "replace"}
    BY <1>3 DEF Points
  <2> QED
    BY <1>1, <1>3, <2>1, <2>2, GoesStep
<1>4. CASE Refused(a) /\ Stays
  BY <1>1, <1>4, RefusedStep
<1> QED
  BY <1>2, <1>3, <1>4 DEF CreatesNamed

\* EditsField: the item found is the one that counts, or the call is overlapped.
LEMMA EditsFieldStep ==
  ASSUME IInv, NEW a \in Clients, NEW at \in {"edit", "version"}, EditsField(a, at), client[a].op = "set",
         kind # "protonpass",
         (at = "edit" /\ kind \in FirstFound \cup OnlyFound) \/ kind \in UniqueNames \cup Upserts
  PROVE  IInv'
<1>1. Busy(a) /\ Stays /\ client[a].at = at
  BY AtBusy DEF EditsField, At
<1>2. kind' = kind /\ raced' = raced /\ commands' = commands
  BY <1>1 DEF Stays
<1>3. CASE client[a].item \notin Ids /\ Refused(a)
  BY <1>1, <1>3, RefusedStep
<1>4. CASE /\ client[a].item \in Ids /\ Done(a)
           /\ items' = [items EXCEPT ![Place(client[a].item)].fields[client[a].field] = client[a].val]
  <2>1. Answers(a) /\ Accepts(a)
    BY <1>4, DoneAnswers DEF IInv, Answers
  <2>2. /\ items \in Seq(Records) /\ Len(items) \in Nat /\ DOMAIN items = 1..Len(items)
        /\ client[a].val \in Values /\ client[a].field \in Fields
    BY StateFacts
  <2> DEFINE p == Place(client[a].item)
  <2>3. p \in 1..Len(items) /\ (items[1].id = client[a].item => p = 1)
    BY <1>4, <2>2, PlaceIsFirst
  <2>e. items' = [items EXCEPT ![p].fields[client[a].field] = client[a].val]
    BY <1>4
  <2> HIDE DEF p
  <2>4. items' = Overwritten(items, p, client[a].field, client[a].val)
    BY <2>2, <2>3, <2>e, ExceptIsOverwritten
  <2>5. \A i \in 1..Len(items) : Shown(i) => i = p \/ client[a].overlapped
    <3>1. CASE client[a].overlapped
      BY <3>1
    <3>2. CASE ~client[a].overlapped /\ kind \in FirstFound /\ at = "edit"
      BY <1>1, <2>3, <3>2 DEF IInv, LookInv, Shown
    <3>3. CASE ~client[a].overlapped /\ kind \in OnlyFound /\ at = "edit"
      <4>1. Len(items) = 1
        BY <1>1, <3>3 DEF IInv, LookInv
      <4> QED
        BY <2>3, <4>1
    <3>4. CASE kind \in UniqueNames \cup Upserts
      <4>1. Len(items) <= 1
        BY <3>4 DEF IInv, KindInv
      <4> QED
        BY <2>2, <2>3, <4>1
    <3> QED
      BY <3>1, <3>2, <3>3, <3>4
  <2>6. Sound
    BY <1>2, <2>1, <2>3, <2>4, <2>5, OverwrittenSound
  <2>7. FreshInv'
    BY <1>2, FreshElsewhere
  <2> QED
    BY <1>1, <2>1, <2>6, <2>7, EndStep
<1> QED
  BY <1>3, <1>4 DEF EditsField

\* NothingToDelete: nothing was there, and nothing is unless somebody else
\* created it meanwhile.
LEMMA NothingToDeleteStep ==
  ASSUME IInv, NEW a \in Clients, NothingToDelete(a), kind # "protonpass"
  PROVE  IInv'
<1>1. Busy(a) /\ Stays /\ client[a].at = "none" /\ items' = items
  BY AtBusy DEF NothingToDelete, At
<1>2. kind' = kind /\ raced' = raced
  BY <1>1 DEF Stays
<1>3. Answers(a) /\ Accepts(a)
  BY AckAnswers DEF NothingToDelete, IInv, Answers
<1>4. client[a].op = "delete" /\ (items = <<>> \/ client[a].overlapped)
  BY <1>1 DEF IInv, KindInv, LookInv
<1>5. Sound
  BY <1>1, <1>2, <1>3, <1>4, UntouchedSound
<1> QED
  BY <1>1, <1>2, <1>3, <1>5, FreshElsewhere, EndStep

\* A delete of whatever has the name.
LEMMA ClearStep ==
  ASSUME IInv, NEW a \in Clients, Busy(a), client[a].op = "delete", items' = <<>>,
         Answers(a), Stays, kind # "protonpass"
  PROVE  IInv'
<1>1. kind' = kind /\ raced' = raced /\ Accepts(a)
  BY DEF Stays, Answers
<1>2. Sound
  BY <1>1, ClearedSound
<1> QED
  BY <1>1, <1>2, FreshElsewhere, EndStep

\* DeletesItem: the item found was the only one, or the call is overlapped.
LEMMA DeletesItemStep ==
  ASSUME IInv, NEW a \in Clients, DeletesItem(a), kind \in OnlyFound \cup UniqueNames \cup Upserts
  PROVE  IInv'
<1>1. Busy(a) /\ Stays /\ client[a].at = "delete"
  BY AtBusy DEF DeletesItem, At
<1>2. kind' = kind /\ raced' = raced /\ kind # "protonpass" /\ kind \notin FirstFound
  BY <1>1 DEF Stays, OnlyFound, UniqueNames, Upserts, FirstFound
<1>3. CASE client[a].item \notin Ids /\ Refused(a)
  BY <1>1, <1>3, RefusedStep
<1>4. CASE client[a].item \in Ids /\ items' = Without(client[a].item) /\ Done(a)
  <2>1. Answers(a) /\ Accepts(a)
    BY <1>4, DoneAnswers DEF IInv, Answers
  <2>2. client[a].op = "delete"
    BY <1>1 DEF IInv, KindInv
  <2>3. /\ items \in Seq(Records) /\ Len(items) \in Nat /\ DOMAIN items = 1..Len(items)
        /\ Touched(client[a]) = Fields /\ client[a].val = None
        /\ \A i \in 1..Len(items), f \in Fields : Shown(i) => items[i].fields[f] \in possible[f]
    BY <2>2, StateFacts
  <2>4. /\ items' \in Seq(Records) /\ Len(items') = Len(items) - 1
        /\ \A i \in 1..(Len(items) - 1) :
             items'[i] = IF i < Place(client[a].item) THEN items[i] ELSE items[i + 1]
    BY <1>4, <2>3, WithoutItem
  <2>5. \A i \in 1..Len(items') : \E j \in 1..Len(items) : items'[i] = items[j] /\ Shown(j)
    <3> TAKE i \in 1..Len(items')
    <3>1. i \in 1..Len(items) /\ i + 1 \in 1..Len(items) /\ (items'[i] = items[i] \/ items'[i] = items[i + 1])
      BY <2>3, <2>4
    <3>2. \A j \in 1..Len(items) : Shown(j)
      BY <1>2, <2>3 DEF Shown
    <3> QED
      BY <3>1, <3>2
  <2>6. ~client[a].overlapped => Len(items') = 0
    <3>1. ~client[a].overlapped => Len(items) <= 1
      <4> SUFFICES ASSUME ~client[a].overlapped PROVE Len(items) <= 1
        OBVIOUS
      <4>1. CASE kind \in OnlyFound
        <5>1. LookInv(a)
          BY DEF IInv
        <5>2. Len(items) = 1
          BY <1>1, <4>1, <5>1 DEF LookInv
        <5> QED
          BY <5>2
      <4>2. CASE kind \in UniqueNames \cup Upserts
        BY <4>2 DEF IInv, KindInv
      <4> QED
        BY <4>1, <4>2
    <3>2. Len(items') \in Nat
      BY <2>4
    <3> QED
      BY <2>3, <2>4, <3>1, <3>2
  <2>7. Sound
    <3>1. items' = <<>> => \A f \in Fields : Fits(a, f, None)
      BY <2>3 DEF Fits
    <3>2. ASSUME NEW i \in 1..Len(items'), Shown(i)', NEW f \in Fields
          PROVE  Fits(a, f, items'[i].fields[f])
      <4>1. client[a].overlapped
        BY <2>4, <2>6
      <4> QED
        BY <2>3, <2>5, <4>1 DEF Fits
    <3>3. kind \notin HasFields =>
            \A f \in Fields \ {Password}, i \in 1..Len(items') : items'[i].fields[f] = None
      BY <2>3, <2>5 DEF IInv, KindInv
    <3>4. (kind \in UniqueNames \cup Upserts => Len(items') <= 1) /\ (Len(items') > 1 => raced)
      <4>1. (kind \in UniqueNames \cup Upserts => Len(items) <= 1) /\ (Len(items) > 1 => raced)
        BY DEF IInv, KindInv, NoDuplicates
      <4>2. Len(items') \in Nat /\ Len(items') < Len(items)
        BY <2>3, <2>4
      <4> QED
        BY <2>3, <4>1, <4>2
    <3> QED
      BY <1>2, <2>1, <2>4, <3>1, <3>2, <3>3, <3>4, FitsSound
  <2> QED
    BY <1>1, <1>2, <2>1, <2>7, FreshElsewhere, EndStep
<1> QED
  BY <1>3, <1>4 DEF DeletesItem

\* The value of the item that has the name now.
LEMMA FirstOverwritten ==
  ASSUME IInv, NEW a \in Clients, items # <<>>, NEW f \in Fields
  PROVE  /\ 1 \in 1..Len(items)
         /\ [items EXCEPT ![1].fields[f] = client[a].val] = Overwritten(items, 1, f, client[a].val)
<1>1. items \in Seq(Records) /\ client[a].val \in Values /\ Len(items) \in Nat
  BY StateFacts
<1>2. 1 \in 1..Len(items)
  BY <1>1
<1> QED
  BY <1>1, <1>2, ExceptIsOverwritten

\* A write to the first item, where there is one at most or it counts.
LEMMA FirstWritten ==
  ASSUME IInv, NEW a \in Clients, Accepts(a), kind' = kind, raced' = raced, client[a].op = "set",
         items # <<>>, items' = [items EXCEPT ![1].fields[client[a].field] = client[a].val],
         kind # "protonpass", kind \in FirstFound \/ Len(items) <= 1
  PROVE  Sound
<1>1. client[a].field \in Fields /\ Len(items) \in Nat
  BY StateFacts
<1>2. 1 \in 1..Len(items) /\ items' = Overwritten(items, 1, client[a].field, client[a].val)
  BY <1>1, FirstOverwritten
<1>3. \A i \in 1..Len(items) : Shown(i) => i = 1
  BY <1>1 DEF Shown
<1> QED
  BY <1>2, <1>3, OverwrittenSound

\* Providers whose names are unique store one field.
LEMMA OneField ==
  ASSUME IInv, NEW a \in Clients, kind \in UniqueNames \cup Upserts
  PROVE  client[a].field = Password /\ Len(items) <= 1 /\ kind # "protonpass" /\ kind \notin OnlyFound
         /\ kind \notin HasFields
<1>1. kind \notin HasFields /\ kind # "protonpass" /\ kind \notin OnlyFound
  BY DEF UniqueNames, Upserts, HasFields, OnlyFound
<1> QED
  BY <1>1 DEF IInv, KindInv

\* PutsValue.
LEMMA PutsValueStep ==
  ASSUME IInv, NEW a \in Clients, NEW at, at # "idle", PutsValue(a, at), client[a].op = "set",
         kind \in UniqueNames \cup Upserts
  PROVE  IInv'
<1>1. Busy(a) /\ Stays
  BY AtBusy DEF PutsValue
<1>2. kind' = kind /\ raced' = raced
  BY <1>1 DEF Stays
<1>3. CASE items = <<>> /\ Refused(a)
  BY <1>1, <1>3, RefusedStep
<1>4. CASE /\ items # <<>> /\ Done(a)
           /\ items' = [items EXCEPT ![1].fields[Password] = client[a].val]
  <2>1. Answers(a) /\ Accepts(a)
    BY <1>4, DoneAnswers DEF IInv, Answers
  <2>2. client[a].field = Password /\ Len(items) <= 1 /\ kind # "protonpass"
    BY OneField
  <2>3. items' = [items EXCEPT ![1].fields[client[a].field] = client[a].val]
    BY <1>4, <2>2
  <2>4. Sound
    BY <1>2, <1>4, <2>1, <2>2, <2>3, FirstWritten
  <2> QED
    BY <1>1, <1>2, <2>1, <2>2, <2>4, FreshElsewhere, EndStep
<1> QED
  BY <1>3, <1>4 DEF PutsValue

\* Replaced: a value in the one item of the name, new or not.
LEMMA ReplacedSound ==
  ASSUME IInv, NEW a \in Clients, Busy(a), Accepts(a), kind' = kind, raced' = raced, client[a].op = "set",
         kind \in Upserts, items' = Replaced(a)
  PROVE  Sound
<1>1. client[a].field = Password /\ Len(items) <= 1 /\ kind # "protonpass"
  BY OneField
<1>2. CASE items = <<>>
  <2>1. items' = Append(items, Item(client[a].val, client[a].field, client[a].val))
    BY <1>1, <1>2 DEF Replaced
  <2> QED
    BY <1>2, <2>1, CreatedSound
<1>3. CASE items # <<>>
  <2>1. items' = [items EXCEPT ![1].fields[client[a].field] = client[a].val]
    BY <1>1, <1>3 DEF Replaced
  <2> QED
    BY <1>1, <1>3, <2>1, FirstWritten
<1> QED
  BY <1>2, <1>3

\* Upsert.
LEMMA UpsertStep ==
  ASSUME IInv, NEW a \in Clients, Upsert(a), kind \in Upserts
  PROVE  IInv'
<1>1. Busy(a) /\ Stays /\ client[a].op = "set" /\ Done(a) /\ items' = Replaced(a)
  BY AtBusy DEF Upsert, IsSet
<1>2. kind' = kind /\ raced' = raced /\ kind # "protonpass"
  BY <1>1, OneField DEF Stays
<1>3. Answers(a) /\ Accepts(a)
  BY <1>1, DoneAnswers DEF IInv, Answers
<1>4. Sound
  BY <1>1, <1>2, <1>3, ReplacedSound
<1> QED
  BY <1>1, <1>2, <1>3, <1>4, FreshElsewhere, EndStep

\* One item.
LEMMA OneItem ==
  ASSUME NEW e \in Records
  PROVE  /\ <<e>> \in Seq(Records) /\ DOMAIN <<e>> = {1} /\ <<e>>[1] = e /\ Len(<<e>>) = 1
         /\ <<e>> # <<>> /\ ~(Len(<<e>>) > 1) /\ Len(<<e>>) <= 1
OBVIOUS

\* The item that is made before its value.
LEMMA EnsuredSound ==
  ASSUME IInv, NEW a \in Clients, items = <<>>, UNCHANGED possible,
         items' = <<Item(client[a].val, Password, None)>>
  PROVE  Sound
<1> DEFINE e == Item(client[a].val, Password, None)
<1>1. client[a].val \in Values /\ Password \in Fields /\ None \in Values
  BY StateFacts DEF Values
<1>2. e \in Records /\ \A h \in Fields : e.fields[h] = None
  BY <1>1, NewItem
<1>3. items' = <<e>>
  OBVIOUS
<1> HIDE DEF e
<1>4. /\ items' \in Seq(Records) /\ DOMAIN items' = {1} /\ items'[1] = e /\ items' # <<>>
      /\ ~(Len(items') > 1) /\ Len(items') <= 1
  BY <1>2, <1>3, OneItem
<1>5. \A f \in Fields : None \in possible'[f]
  BY DEF IInv, CurrentInv
<1>6. CurrentInv'
  BY <1>2, <1>4, <1>5 DEF CurrentInv
<1>7. NoDuplicates'
  BY <1>4 DEF NoDuplicates
<1> QED
  BY <1>2, <1>4, <1>5, <1>6, <1>7 DEF Sound

\* An item without a value reads as no item does.
LEMMA EnsureStep ==
  ASSUME IInv, NEW a \in Clients, Busy(a), kind \in UniqueNames, client[a].op = "set",
         NEW d \in Calls, client' = [client EXCEPT ![a] = d], Continues(client[a], d),
         d.at \in {"version", "activate"}, UNCHANGED <<possible, mishaps>>, Stays,
         items' = IF items = <<>> THEN <<Item(client[a].val, Password, None)>> ELSE items
  PROVE  IInv'
<1>1. kind' = kind /\ raced' = raced /\ commands' = commands /\ folder' \in BOOLEAN
  BY DEF Stays, IInv, TypeOK
<1>2. kind # "protonpass" /\ kind \notin HasFields /\ Len(items) <= 1 /\ kind \notin OnlyFound
      /\ kind \notin FirstFound
  BY OneField DEF UniqueNames, FirstFound
<1>3. possible' \in [Fields -> SUBSET Values] /\ mishaps' \in 0..MaxMishaps
  BY DEF IInv, TypeOK
<1>4. Sound
  <2>1. CASE items # <<>>
    <3>1. items' = items
      BY <2>1
    <3>2. CurrentInv'
      BY <1>1, <3>1 DEF IInv, CurrentInv, Shown
    <3> QED
      BY <1>1, <3>1, <3>2 DEF Sound, IInv, TypeOK, KindInv, NoDuplicates
  <2>2. CASE items = <<>>
    BY <2>2, EnsuredSound
  <2> QED
    BY <2>1, <2>2
<1>5. client'[a] = d
  BY DEF IInv, TypeOK
<1>6. LookInv(a)'
  BY <1>5 DEF LookInv
<1>7. FreshInv'
  BY <1>1, <1>2, FreshElsewhere
<1> QED
  BY <1>1, <1>3, <1>4, <1>6, <1>7, CallStep

\* EnsuresItem.
LEMMA EnsuresItemStep ==
  ASSUME IInv, NEW a \in Clients, NEW next \in {"version", "activate"}, At(a, "start"),
         items' = IF items = <<>> THEN <<Item(client[a].val, Password, None)>> ELSE items,
         Goes(a, next), Quiet, UNCHANGED possible, Stays, client[a].op = "set", kind \in UniqueNames
  PROVE  IInv'
<1>1. client \in [Clients -> Calls] /\ client[a] \in Calls /\ Busy(a)
  BY AtBusy DEF IInv, TypeOK
<1> DEFINE d == [client[a] EXCEPT !.at = next]
<1>2. client' = [client EXCEPT ![a] = d]
  BY <1>1 DEF Goes
<1>3. /\ d \in Calls /\ d.at = next
      /\ d.op = client[a].op /\ d.field = client[a].field /\ d.val = client[a].val
      /\ d.overlapped = client[a].overlapped
  BY <1>1 DEF Calls, Points
<1> HIDE DEF d
<1>4. Continues(client[a], d)
  BY <1>3 DEF Continues
<1>5. UNCHANGED <<possible, mishaps>>
  BY DEF Quiet
<1> QED
  BY <1>1, <1>2, <1>3, <1>4, <1>5, EnsureStep

\* ScalewayEnsure and ScalewayLookup.
LEMMA ScalewayStep ==
  ASSUME IInv, NEW a \in Clients, Scaleway(a)
  PROVE  IInv'
<1>1. kind = "scaleway" /\ kind \in UniqueNames /\ client[a].op = "set" /\ kind # "protonpass"
      /\ kind \notin OnlyFound \cup FirstFound
  <2>1. kind = "scaleway"
    BY DEF Scaleway
  <2>2. kind \notin Deletes
    BY <2>1 DEF Deletes, Upserts
  <2>3. client[a].op \in {"set", "delete"} /\ (client[a].op = "delete" => kind \in Deletes)
    BY StateFacts DEF IInv, KindInv
  <2> QED
    BY <2>1, <2>2, <2>3 DEF UniqueNames, OnlyFound, FirstFound
<1>2. CASE ScalewayEnsure(a)
  <2>1. client \in [Clients -> Calls] /\ client[a] \in Calls /\ Busy(a) /\ client[a].val \in Values
    BY <1>2, AtBusy, StateFacts DEF IInv, TypeOK, ScalewayEnsure
  <2>2. CASE items = <<>>
    <3> DEFINE d == [client[a] EXCEPT !.at = "version", !.item = client[a].val]
    <3>1. client' = [client EXCEPT ![a] = d]
      BY <1>2, <2>1, <2>2 DEF ScalewayEnsure
    <3>2. /\ d \in Calls /\ d.at = "version"
          /\ d.op = client[a].op /\ d.field = client[a].field /\ d.val = client[a].val
          /\ d.overlapped = client[a].overlapped
      BY <2>1 DEF Calls, Points
    <3> HIDE DEF d
    <3>3. Continues(client[a], d)
      BY <1>1, <3>2 DEF Continues
    <3>4. /\ UNCHANGED <<possible, mishaps>> /\ Stays
          /\ items' = IF items = <<>> THEN <<Item(client[a].val, Password, None)>> ELSE items
      BY <1>2, <2>2 DEF ScalewayEnsure, Quiet
    <3> QED
      BY <1>1, <2>1, <3>1, <3>2, <3>3, <3>4, EnsureStep
  <2>3. CASE items # <<>>
    <3>1. /\ Goes(a, "lookup") /\ UNCHANGED <<items, possible, mishaps, kind, commands, raced>>
          /\ folder' \in BOOLEAN
      BY <1>2, <2>3 DEF ScalewayEnsure, Quiet, Stays, IInv, TypeOK
    <3>2. "lookup" \in Points
      BY DEF Points
    <3> QED
      BY <1>1, <2>1, <3>1, <3>2, GoesStep
  <2> QED
    BY <2>2, <2>3
<1>3. CASE ScalewayLookup(a)
  <2>1. Busy(a)
    BY <1>3, AtBusy DEF ScalewayLookup
  <2>2. CASE items # <<>> /\ Finds(a, items[1].id, "version")
    <3>1. items[1].id \in Ids /\ "version" \in Points
      BY <2>2, FirstId DEF Points
    <3> QED
      BY <1>1, <2>1, <2>2, <3>1, FindsStep
  <2>3. CASE Refused(a) /\ Stays
    BY <2>1, <2>3, RefusedStep
  <2> QED
    BY <1>3, <2>2, <2>3 DEF ScalewayLookup
<1>4. CASE EditsField(a, "version")
  BY <1>1, <1>4, EditsFieldStep
<1> QED
  BY <1>2, <1>3, <1>4 DEF Scaleway

\* BwTemplate: the item is still the only one, or the call is overlapped.
LEMMA BwTemplateStep ==
  ASSUME IInv, NEW a \in Clients, BwTemplate(a), kind = "bw"
  PROVE  IInv'
<1>1. Busy(a) /\ client[a].at = "template" /\ client[a].op = "set" /\ kind \in OnlyFound
      /\ kind \notin FirstFound /\ "save" \in Points
  <2>1. kind \notin Deletes
    BY DEF Deletes, Upserts
  <2>2. client[a].op = "set"
    BY <2>1, StateFacts DEF IInv, KindInv
  <2> QED
    BY <2>2, AtBusy DEF BwTemplate, At, OnlyFound, FirstFound, Points
<1>2. CASE client[a].item \in Ids /\ Finds(a, client[a].item, "save")
  <2>1. ~client[a].overlapped => Len(items) = 1
    BY <1>1 DEF IInv, LookInv
  <2> QED
    BY <1>1, <1>2, <2>1, FindsStep
<1>3. CASE Refused(a) /\ Stays
  BY <1>1, <1>3, RefusedStep
<1> QED
  BY <1>2, <1>3 DEF BwTemplate

\* SavesItem: the whole item as it was read.  What it takes back was stored
\* by a call that overlaps this one.
LEMMA SavesItemStep ==
  ASSUME IInv, NEW a \in Clients, SavesItem(a), kind \in WholeItem
  PROVE  IInv'
<1>1. /\ Busy(a) /\ Stays /\ client[a].at = "save" /\ kind \in OnlyFound /\ kind # "protonpass"
      /\ kind \in HasFields /\ kind \notin UniqueNames \cup Upserts
  BY AtBusy DEF SavesItem, At, WholeItem, OnlyFound, HasFields, UniqueNames, Upserts
<1>2. kind' = kind /\ raced' = raced /\ commands' = commands /\ folder' \in BOOLEAN
  BY <1>1 DEF Stays, IInv, TypeOK
<1>3. CASE client[a].item \notin Ids /\ Refused(a)
  BY <1>1, <1>3, RefusedStep
<1> DEFINE c == client[a]
           saved == [c.seen EXCEPT ![c.field] = c.val]
<1>4. CASE /\ c.item \in Ids
           /\ items' = [items EXCEPT ![Place(c.item)].fields = saved]
           /\ Quiet \/ Mishap
           /\ client' = [client EXCEPT ![a] = Idle]
           /\ possible' = [f \in Fields |->
                IF f = c.field
                THEN IF c.overlapped \/ mishaps' # mishaps
                     THEN possible[f] \cup {c.val} ELSE {c.val}
                ELSE IF c.overlapped THEN possible[f] \cup {saved[f]} ELSE possible[f]]
  <2>1. /\ items \in Seq(Records) /\ Len(items) \in Nat /\ DOMAIN items = 1..Len(items)
        /\ c \in Calls /\ c.val \in Values /\ c.field \in Fields /\ c.overlapped \in BOOLEAN
        /\ \A i \in 1..Len(items), f \in Fields : Shown(i) => items[i].fields[f] \in possible[f]
    BY StateFacts
  <2>2. /\ saved \in [Fields -> Values]
        /\ \A f \in Fields : saved[f] = IF f = c.field THEN c.val ELSE c.seen[f]
    BY <2>1 DEF Calls
  <2> DEFINE p == Place(c.item)
  <2>3. p \in 1..Len(items)
    BY <1>4, <2>1, PlaceIsFirst
  <2>4. items' = EditedAt(items, p, saved)
    BY <1>4 DEF EditedAt
  <2>5. ASSUME NEW f \in Fields
        PROVE  /\ possible[f] \in SUBSET Values /\ possible'[f] \in SUBSET Values
               /\ saved[f] \in possible'[f] \/ (f # c.field /\ ~c.overlapped /\ possible'[f] = possible[f])
               /\ c.overlapped => possible[f] \subseteq possible'[f]
               /\ f # c.field => possible[f] \subseteq possible'[f]
    <3>1. possible[f] \in SUBSET Values /\ saved[f] \in Values
      BY <2>2 DEF IInv, TypeOK
    <3>2. CASE f = c.field
      BY <1>4, <2>1, <2>2, <3>1, <3>2
    <3>3. CASE f # c.field
      BY <1>4, <2>1, <2>2, <3>1, <3>3
    <3> QED
      BY <3>2, <3>3
  <2>6. possible' \in [Fields -> SUBSET Values]
    <3>1. possible' = [f \in Fields |-> possible'[f]]
      BY <1>4
    <3> QED
      BY <2>5, <3>1
  <2> HIDE DEF saved, p
  <2>7. /\ items' \in Seq(Records) /\ Len(items') = Len(items)
        /\ \A i \in 1..Len(items) : items'[i].fields = (IF i = p THEN saved ELSE items[i].fields)
    BY <2>1, <2>2, <2>3, <2>4, EditedItems
  <2>8. ~c.overlapped => Len(items) = 1 /\ items[1].fields = c.seen
    BY <1>1 DEF IInv, LookInv
  <2>9. \A i \in 1..Len(items) : Shown(i)
    BY <1>1, <2>1 DEF Shown, OnlyFound, FirstFound
  <2>10. ASSUME NEW i \in 1..Len(items), NEW f \in Fields
         PROVE  items'[i].fields[f] \in possible'[f]
    <3>1. items[i].fields[f] \in possible[f]
      BY <2>1, <2>9
    <3>2. CASE i = p
      <4>1. items'[i].fields[f] = saved[f]
        BY <2>7, <3>2
      <4>2. CASE saved[f] \in possible'[f]
        BY <4>1, <4>2
      <4>3. CASE f # c.field /\ ~c.overlapped /\ possible'[f] = possible[f]
        <5>0. Len(items) = 1 /\ items[1].fields = c.seen
          BY <2>8, <4>3
        <5>1. i = 1
          BY <5>0
        <5>2. saved[f] = items[i].fields[f]
          BY <2>2, <4>3, <5>0, <5>1
        <5> QED
          BY <3>1, <4>1, <4>3, <5>2
      <4> QED
        BY <2>5, <4>2, <4>3
    <3>3. CASE i # p
      <4>1. c.overlapped
        BY <2>1, <2>3, <2>8, <3>3
      <4> QED
        BY <2>5, <2>7, <3>1, <3>3, <4>1
    <3> QED
      BY <3>2, <3>3
  <2>11. Sound
    <3>1. items' # <<>> /\ DOMAIN items' = 1..Len(items)
      BY <2>1, <2>3, <2>7
    <3>2. CurrentInv'
      BY <2>10, <3>1 DEF CurrentInv
    <3>3. NoDuplicates'
      BY <1>2, <2>7 DEF IInv, NoDuplicates
    <3> QED
      BY <1>1, <2>7, <3>2, <3>3 DEF Sound
  <2>12. mishaps' \in 0..MaxMishaps
    BY <1>4, ItemAssumption, CommandAssumption DEF Quiet, Mishap, IInv, TypeOK
  <2>13. client'[a] = Idle /\ Idle \in Calls
    BY <1>4, IdleFacts DEF IInv, TypeOK
  <2>14. LookInv(a)'
    BY <2>13, IdleFacts DEF LookInv
  <2>15. c.overlapped => \A f \in Fields : possible[f] \subseteq possible'[f]
    BY <2>5
  <2> QED
    BY <1>1, <1>2, <1>4, <2>6, <2>11, <2>12, <2>13, <2>14, <2>15, FreshElsewhere, CallStep
<1> QED
  BY <1>3, <1>4 DEF SavesItem

\* DopplerWrite, with the write that is sent again.
LEMMA DopplerWriteStep ==
  ASSUME IInv, NEW a \in Clients, DopplerWrite(a), kind = "doppler"
  PROVE  IInv'
<1>1. /\ kind \in Upserts /\ kind # "protonpass" /\ client[a].field = Password
      /\ kind \notin OnlyFound \cup FirstFound /\ kind \notin HasFields
  <2>1. kind \in Upserts
    BY DEF Upserts
  <2> QED
    BY <2>1, OneField DEF FirstFound
<1>2. Busy(a) /\ Stays /\ client[a].at \in {"start", "delete"}
  BY AtBusy DEF DopplerWrite, At
<1>3. kind' = kind /\ raced' = raced /\ commands' = commands /\ folder' \in BOOLEAN
  BY <1>2 DEF Stays, IInv, TypeOK
<1>4. \/ client[a].op = "set" /\ items' = Replaced(a)
      \/ client[a].op = "delete" /\ items' = <<>>
  BY DEF DopplerWrite, IsSet, At, IInv, KindInv
<1>5. Accepts(a) => Sound
  BY <1>1, <1>2, <1>3, <1>4, ReplacedSound, ClearedSound
<1>6. CASE Done(a)
  <2>1. Answers(a) /\ Accepts(a)
    BY <1>6, DoneAnswers DEF IInv, Answers
  <2> QED
    BY <1>1, <1>2, <1>3, <1>5, <2>1, FreshElsewhere, EndStep
<1>7. CASE Mishap /\ UNCHANGED client
           /\ possible' = [possible EXCEPT ![Password] = @ \cup {client[a].val}]
  <2>1. /\ client[a] \in Calls /\ client[a].val \in Values /\ client[a].overlapped \in BOOLEAN
        /\ Password \in Fields /\ (client[a].op = "delete" => client[a].val = None)
        /\ (client[a].op = "set" => Touched(client[a]) = {client[a].field})
        /\ client[a].op \in {"set", "delete"}
    BY StateFacts
  <2>2. possible \in [Fields -> SUBSET Values]
    BY DEF IInv, TypeOK
  <2>3. /\ possible' \in [Fields -> SUBSET Values]
        /\ \A f \in Fields : possible[f] \subseteq possible'[f]
        /\ client[a].val \in possible'[Password]
    BY <1>7, <2>1, <2>2
  <2>4. ASSUME NEW f \in Fields, NEW v \in Values, Fits(a, f, v) PROVE v \in possible'[f]
    <3>1. CASE v \in possible[f]
      BY <2>3, <3>1
    <3>2. CASE f \in Touched(client[a]) /\ v = client[a].val /\ f = Password
      BY <2>3, <3>2
    <3>3. CASE f \in Touched(client[a]) /\ v = client[a].val /\ f # Password
      <4>1. client[a].op = "delete" /\ v = None
        BY <1>1, <2>1, <3>3
      <4>2. None \in possible[f]
        BY <1>1, <3>3 DEF IInv, KindInv
      <4> QED
        BY <2>3, <4>1, <4>2
    <3> QED
      BY <2>4, <3>1, <3>2, <3>3 DEF Fits
  <2>5. Sound
    BY <1>5, <2>3, <2>4 DEF Accepts
  <2> DEFINE d == client[a]
  <2>6. client' = [client EXCEPT ![a] = d]
    BY <1>7 DEF IInv, TypeOK
  <2>7. Continues(client[a], d)
    BY <1>2 DEF Continues, IInv, KindInv
  <2>8. LookInv(a)'
    BY <1>1, <1>2, <1>3, <1>7 DEF LookInv
  <2>9. mishaps' \in 0..MaxMishaps
    BY <1>7, ItemAssumption, CommandAssumption DEF Mishap, IInv, TypeOK
  <2> HIDE DEF d
  <2>10. d \in Calls
    BY <2>1 DEF d
  <2> QED
    BY <1>1, <1>2, <1>3, <2>3, <2>5, <2>6, <2>7, <2>8, <2>9, <2>10, FreshElsewhere, CallStep
<1> QED
  BY <1>6, <1>7 DEF DopplerWrite

\* ProtonpassDelete: the item it removes is the first one, so that the last
\* one stays unless it is the only one.
LEMMA ProtonpassDeleteStep ==
  ASSUME IInv, NEW a \in Clients, ProtonpassDelete(a), kind = "protonpass"
  PROVE  IInv'
<1>1. /\ Busy(a) /\ Stays /\ client[a].at = "replace" /\ kind \notin HasFields /\ client[a].field = Password
      /\ kind \notin FirstFound \cup OnlyFound \cup UniqueNames \cup Upserts /\ client[a].op = "set"
  <2>1. kind \notin HasFields /\ kind \notin FirstFound \cup OnlyFound \cup UniqueNames \cup Upserts
        /\ kind \notin Deletes
    BY DEF HasFields, FirstFound, OnlyFound, UniqueNames, Upserts, Deletes
  <2>2. client[a].field = Password /\ client[a].op = "set"
    BY <2>1, StateFacts DEF IInv, KindInv
  <2> QED
    BY <2>1, <2>2, AtBusy DEF ProtonpassDelete, At
<1>2. kind' = kind /\ raced' = raced /\ commands' = commands /\ folder' \in BOOLEAN
  BY <1>1 DEF Stays, IInv, TypeOK
<1>3. CASE client[a].item \notin Ids /\ Refused(a)
  BY <1>1, <1>3, RefusedStep
<1>4. CASE /\ client[a].item \in Ids /\ items' = Without(client[a].item)
           /\ possible' = [possible EXCEPT ![client[a].field] = @ \cup {None}]
           /\ \/ Goes(a, "create") /\ Quiet
              \/ client' = [client EXCEPT ![a] = Idle] /\ Mishap
  <2>1. /\ items \in Seq(Records) /\ Len(items) \in Nat /\ DOMAIN items = 1..Len(items)
        /\ client[a] \in Calls /\ client[a].val \in Values /\ client[a].overlapped \in BOOLEAN
        /\ Password \in Fields
        /\ \A i \in 1..Len(items), f \in Fields : Shown(i) => items[i].fields[f] \in possible[f]
    BY StateFacts
  <2>2. Place(client[a].item) = 1 /\ 1 <= Len(items)
    <3>1. Place(client[a].item) \in 1..Len(items) /\ items[Place(client[a].item)].id = client[a].item
      BY <1>4, <2>1, PlaceIsFirst
    <3>2. Place(client[a].item) = 1
      BY <1>1, <2>1, <3>1 DEF At, IInv, FreshInv
    <3> QED
      BY <2>1, <3>1, <3>2
  <2>3. /\ items' \in Seq(Records) /\ Len(items') = Len(items) - 1
        /\ \A i \in 1..(Len(items) - 1) : items'[i] = items[i + 1]
    <3>1. /\ items' \in Seq(Records) /\ Len(items') = Len(items) - 1
          /\ \A i \in 1..(Len(items) - 1) :
               items'[i] = IF i < Place(client[a].item) THEN items[i] ELSE items[i + 1]
      BY <1>4, <2>1, WithoutItem
    <3> QED
      BY <2>1, <2>2, <3>1
  <2>4. DOMAIN items' = 1..(Len(items) - 1) /\ Len(items') \in Nat
    BY <2>3
  <2>5. possible \in [Fields -> SUBSET Values] /\ None \in Values
    BY DEF IInv, TypeOK, Values
  <2>6. /\ possible' \in [Fields -> SUBSET Values]
        /\ \A f \in Fields : possible[f] \subseteq possible'[f]
        /\ None \in possible'[Password]
    BY <1>1, <1>4, <2>1, <2>5
  <2>7. \A f \in Fields : None \in possible'[f]
    BY <1>1, <2>6 DEF IInv, KindInv
  <2>8. Sound
    <3>1. ASSUME NEW i \in DOMAIN items', Shown(i)', NEW f \in Fields
          PROVE  items'[i].fields[f] \in possible'[f]
      <4>1. i = Len(items') /\ i \in 1..(Len(items) - 1)
        BY <1>2, <2>4, <3>1 DEF Shown
      <4>2. i + 1 = Len(items) /\ items'[i] = items[Len(items)] /\ Len(items) \in 1..Len(items)
        BY <2>1, <2>3, <4>1
      <4>3. Shown(Len(items))
        BY <1>1, <2>1, <4>2 DEF Shown
      <4> QED
        BY <2>1, <2>6, <4>2, <4>3
    <3>2. CurrentInv'
      BY <2>7, <3>1 DEF CurrentInv
    <3>3. NoDuplicates'
      <4>1. Len(items') > 1 => Len(items) > 1
        BY <2>1, <2>3
      <4> QED
        BY <1>2, <4>1 DEF IInv, NoDuplicates
    <3>4. \A f \in Fields \ {Password}, i \in DOMAIN items' : items'[i].fields[f] = None
      <4> TAKE f \in Fields \ {Password}, i \in DOMAIN items'
      <4>1. i + 1 \in DOMAIN items /\ items'[i] = items[i + 1]
        BY <2>1, <2>3, <2>4
      <4> QED
        BY <1>1, <4>1 DEF IInv, KindInv
    <3> QED
      BY <1>1, <2>3, <2>7, <3>2, <3>3, <3>4 DEF Sound
  <2>9. /\ mishaps' \in 0..MaxMishaps /\ mishaps' \in Nat /\ mishaps \in Nat /\ mishaps' >= mishaps
        /\ commands \in Nat
    BY <1>4, ItemAssumption, CommandAssumption DEF Mishap, Quiet, IInv, TypeOK
  <2> DEFINE d == client'[a]
  <2>10. /\ client \in [Clients -> Calls] /\ client' = [client EXCEPT ![a] = d]
         /\ d = Idle \/ d = [client[a] EXCEPT !.at = "create"]
    BY <1>4 DEF Goes, IInv, TypeOK
  <2> HIDE DEF d
  <2>11. d \in Calls /\ (d = Idle \/ Continues(client[a], d)) /\ d.at \in {"idle", "create"}
         /\ (d.item = 0 \/ d.item = client[a].item) /\ (d.at # "idle" => d.val = client[a].val)
    <3>1. CASE d = Idle
      BY <3>1, IdleFacts
    <3>2. CASE d = [client[a] EXCEPT !.at = "create"]
      BY <1>1, <2>1, <3>2 DEF Calls, Points, Continues
    <3> QED
      BY <2>10, <3>1, <3>2
  <2>12. client'[a] = d /\ \A b \in Clients \ {a} : client'[b] = client[b]
    BY <2>10
  <2>13. LookInv(a)'
    <3>1. ~raced => items' = <<>>
      <4> SUFFICES ASSUME ~raced PROVE items' = <<>>
        OBVIOUS
      <4>1. ~(Len(items) > 1)
        BY DEF IInv, NoDuplicates
      <4>2. Len(items') = 0
        BY <2>1, <2>2, <2>3, <4>1
      <4> QED
        BY <2>3, <4>2
    <3> QED
      BY <1>1, <1>2, <2>11, <2>12, <3>1 DEF LookInv
  <2>14. FreshInv'
    <3>1. \A x \in Known(commands, mishaps) : x \in Known(commands, mishaps')
      BY <2>9, KnownGrows
    <3>2. 0 \in Known(commands, mishaps') /\ 0 \notin 1..commands
      BY <2>9, KnownGrows
    <3>3. \A i \in DOMAIN items' : i + 1 \in DOMAIN items /\ items'[i] = items[i + 1] /\ i \in Nat
      BY <2>1, <2>3, <2>4
    <3>4. \A b \in Clients : client'[b].item = client[b].item \/ client'[b].item = 0
      BY <2>11, <2>12
    <3>5. \A b \in Clients : Busy(b)' => Busy(b) /\ client'[b].val = client[b].val
      BY <1>1, <2>11, <2>12 DEF Busy
    <3>6. \A b \in Clients : At(b, "replace")' => At(b, "replace") /\ client'[b] = client[b]
      BY <2>11, <2>12 DEF At
    <3>7. \A i \in DOMAIN items', j \in DOMAIN items' : items'[i].id = items'[j].id => i = j
      <4> TAKE i \in DOMAIN items', j \in DOMAIN items'
      <4>1. items'[i].id = items'[j].id => i + 1 = j + 1
        BY <1>1, <3>3 DEF IInv, FreshInv
      <4>2. i \in Nat /\ j \in Nat
        BY <3>3
      <4> QED
        BY <4>1, <4>2
    <3>8. \A b \in Clients, i \in DOMAIN items' : At(b, "replace")' /\ items'[i].id = client'[b].item => i = 1
      <4> SUFFICES ASSUME NEW b \in Clients, NEW i \in DOMAIN items', At(b, "replace")',
                          items'[i].id = client'[b].item
                   PROVE  FALSE
        OBVIOUS
      <4>1. i + 1 = 1
        BY <3>3, <3>6 DEF IInv, FreshInv
      <4>2. i \in 1..(Len(items) - 1)
        BY <2>4
      <4> QED
        BY <4>1, <4>2
    <3>9. \A b \in Clients : client'[b].item \in Known(commands, mishaps')
      BY <3>1, <3>2, <3>4 DEF IInv, FreshInv
    <3>10. \A i \in DOMAIN items' : items'[i].id \in Known(commands, mishaps')
      BY <3>1, <3>3 DEF IInv, FreshInv
    <3>11. ASSUME NEW b \in Clients, Busy(b)'
           PROVE  /\ client'[b].val \in 1..commands
                  /\ \A i \in DOMAIN items' : items'[i].id # client'[b].val
                  /\ \A c \in Clients : client'[c].item # client'[b].val
                  /\ \A c \in Clients \ {b} : Busy(c)' => client'[c].val # client'[b].val
      BY <3>2, <3>3, <3>4, <3>5, <3>11 DEF IInv, FreshInv
    <3> QED
      BY <1>2, <3>7, <3>8, <3>9, <3>10, <3>11 DEF FreshInv
  <2> QED
    BY <1>1, <1>2, <2>6, <2>8, <2>9, <2>10, <2>11, <2>13, <2>14, CallStep
<1> QED
  BY <1>1, <1>3, <1>4 DEF ProtonpassDelete

----------------------------------------------------------------------------
(* A call begins, and others write *)

\* A call that begins overlaps those under way.
LEMMA BeginStep ==
  ASSUME IInv, NEW a \in Clients, NEW op \in {"set", "delete"}, NEW f \in Fields, Begin(a, op, f)
  PROVE  IInv'
<1> DEFINE others == {b \in Clients \ {a} : Busy(b)}
           new == [Idle EXCEPT !.at = "start", !.op = op, !.field = f,
                               !.val = IF op = "set" THEN commands + 1 ELSE None,
                               !.overlapped = others # {}]
<1>1. /\ ~Busy(a) /\ commands < MaxCommands /\ (op = "delete" => kind \in Deletes /\ f = Password)
      /\ (kind \in HasFields \/ f = Password) /\ commands' = commands + 1
      /\ client' = [b \in Clients |-> IF b = a THEN new
                                      ELSE IF b \in others THEN [client[b] EXCEPT !.overlapped = TRUE]
                                      ELSE client[b]]
      /\ raced' = (raced \/ others # {})
      /\ UNCHANGED <<kind, items, folder, possible, mishaps>>
  BY DEF Begin, Quiet
<1>2. /\ client \in [Clients -> Calls] /\ items \in Seq(Records) /\ possible \in [Fields -> SUBSET Values]
      /\ commands \in Nat /\ mishaps \in Nat /\ MaxCommands \in Nat
  BY ItemAssumption, CommandAssumption DEF IInv, TypeOK
<1>3. (IF op = "set" THEN commands + 1 ELSE None) \in Values
  <2>0. MaxMishaps \in Nat /\ commands < MaxCommands
    BY <1>1, ItemAssumption, CommandAssumption
  <2>1. commands + 1 \in 1..(MaxCommands + MaxMishaps)
    BY <1>2, <2>0
  <2> QED
    BY <2>1 DEF Values
<1>4. /\ new \in Calls /\ new.at = "start" /\ new.op = op /\ new.field = f /\ new.item = 0
      /\ new.val = (IF op = "set" THEN commands + 1 ELSE None) /\ new.overlapped = (others # {})
  BY <1>3, IdleFacts DEF Idle, Calls, Points
<1> HIDE DEF new
<1>5. client'[a] = new
  BY <1>1
<1>6. ASSUME NEW b \in Clients \ {a}
      PROVE  /\ client'[b] \in Calls /\ client'[b].at = client[b].at /\ client'[b].op = client[b].op
             /\ client'[b].field = client[b].field /\ client'[b].val = client[b].val
             /\ client'[b].item = client[b].item
             /\ Busy(b) => client'[b].overlapped = TRUE
  <2>1. CASE b \in others
    BY <1>1, <1>2, <2>1 DEF Calls
  <2>2. CASE b \notin others
    BY <1>1, <1>2, <2>2
  <2> QED
    BY <2>1, <2>2
<1>7. \A b \in Clients : Busy(b)' <=> Busy(b) \/ b = a
  BY <1>4, <1>5, <1>6 DEF Busy
<1>8. TypeOK'
  <2>1. client' \in [Clients -> Calls]
    <3>1. \A b \in Clients : client'[b] \in Calls
      BY <1>4, <1>5, <1>6
    <3>2. client' = [b \in Clients |-> client'[b]]
      BY <1>1
    <3> QED
      BY <3>1, <3>2
  <2>2. raced' \in BOOLEAN
    BY <1>1
  <2>3. commands' \in 0..MaxCommands
    BY <1>1, <1>2
  <2> QED
    BY <1>1, <2>1, <2>2, <2>3 DEF IInv, TypeOK
<1>9. CurrentInv'
  BY <1>1 DEF IInv, CurrentInv, Shown
<1>10. OverlapInv'
  <2>1. ASSUME NEW b \in Clients, NEW c \in Clients, b # c, Busy(b)', Busy(c)'
        PROVE  client'[b].overlapped
    <3>1. CASE b = a
      <4>1. c \in others
        BY <1>7, <2>1, <3>1
      <4> QED
        BY <1>4, <1>5, <3>1, <4>1
    <3>2. CASE b # a
      BY <1>6, <1>7, <2>1, <3>2
    <3> QED
      BY <3>1, <3>2
  <2>2. ASSUME NEW b \in Clients, Busy(b)', client'[b].overlapped PROVE raced'
    <3>1. CASE b = a
      BY <1>1, <1>4, <1>5, <2>2, <3>1
    <3>2. CASE b # a
      <4>1. b \in others
        BY <1>7, <2>2, <3>2
      <4> QED
        BY <1>1, <4>1
    <3> QED
      BY <3>1, <3>2
  <2> QED
    BY <2>1, <2>2 DEF OverlapInv
<1>11. KindInv'
  <2>1. ASSUME NEW b \in Clients
        PROVE  /\ kind \notin HasFields => client'[b].field = Password
               /\ client'[b].op = "delete" => /\ kind \in Deletes /\ client'[b].val = None
                                              /\ client'[b].at \in {"start", "delete", "none"}
               /\ client'[b].at \in {"delete", "none"} => client'[b].op = "delete"
    <3>1. CASE b = a
      BY <1>1, <1>4, <1>5, <3>1
    <3>2. CASE b # a
      BY <1>6, <3>2 DEF IInv, KindInv
    <3> QED
      BY <3>1, <3>2
  <2> QED
    BY <1>1, <2>1 DEF IInv, KindInv
<1>12. NoDuplicates'
  BY <1>1 DEF IInv, NoDuplicates
<1>13. ASSUME NEW b \in Clients PROVE LookInv(b)'
  <2>1. CASE b = a
    BY <1>4, <1>5, <2>1 DEF LookInv
  <2>2. CASE b # a /\ Busy(b)
    <3>1. client'[b].overlapped = TRUE /\ client'[b].at = client[b].at /\ kind' = kind /\ possible' = possible
      BY <1>1, <1>6, <2>2
    <3>2. client[b].at = "create" /\ kind \in OnlyFound => \A f2 \in Fields : None \in possible[f2]
      BY DEF IInv, LookInv
    <3> QED
      BY <3>1, <3>2 DEF LookInv
  <2>3. CASE b # a /\ ~Busy(b)
    BY <1>6, <2>3 DEF LookInv, Busy
  <2> QED
    BY <2>1, <2>2, <2>3
<1>14. FreshInv'
  <2> SUFFICES ASSUME kind = "protonpass" PROVE FreshInv'
    BY <1>1 DEF FreshInv
  <2>1. op = "set" /\ new.val = commands + 1
    BY <1>1, <1>4 DEF Deletes, Upserts
  <2>2. \A x \in Known(commands, mishaps) : x \in Known(commands + 1, mishaps) /\ x # commands + 1
    <3>1. \A x \in Known(commands, mishaps) : x \in Known(commands + 1, mishaps)
      BY <1>2, KnownGrows
    <3>2. \A x \in Known(commands, mishaps) : x # commands + 1
      BY <1>1, <1>2 DEF Known
    <3> QED
      BY <3>1, <3>2
  <2>3. 0 \in Known(commands + 1, mishaps)
    BY <1>2, KnownGrows
  <2>e. \A b \in Clients : \/ client'[b].item = 0
                           \/ client'[b].item = client[b].item /\ client[b].item \in Known(commands, mishaps)
    BY <1>4, <1>5, <1>6 DEF IInv, FreshInv
  <2>4. \A b \in Clients : client'[b].item \in Known(commands + 1, mishaps)
    BY <2>2, <2>3, <2>e
  <2>5. \A b \in Clients : client'[b].item # commands + 1
    <3>1. 0 # commands + 1
      BY <1>2
    <3> QED
      BY <2>2, <2>e, <3>1
  <2>6. \A b \in Clients \ {a} : Busy(b)' => client[b].val \in 1..commands /\ client[b].val # 0
    BY <1>2, <1>7 DEF IInv, FreshInv
  <2>7. \A x \in 1..commands : x \in 1..(commands + 1) /\ x # commands + 1
    BY <1>2
  <2>8. ASSUME NEW b \in Clients, Busy(b)'
        PROVE  /\ client'[b].val \in 1..(commands + 1)
               /\ \A i \in DOMAIN items : items[i].id # client'[b].val
               /\ \A c \in Clients : client'[c].item # client'[b].val
               /\ \A c \in Clients \ {b} : Busy(c)' => client'[c].val # client'[b].val
    <3>1. CASE b = a
      <4>1. client'[b].val = commands + 1 /\ commands + 1 \in 1..(commands + 1)
        BY <1>2, <1>5, <2>1, <3>1
      <4>2. \A c \in Clients \ {b} : Busy(c)' => client'[c].val # commands + 1
        BY <1>6, <2>6, <2>7, <3>1
      <4> QED
        BY <2>2, <2>5, <4>1, <4>2 DEF IInv, FreshInv
    <3>2. CASE b # a
      <4>1. client'[b].val = client[b].val /\ Busy(b) /\ client[b].val \in 1..commands /\ client[b].val # 0
        BY <1>6, <1>7, <2>6, <2>8, <3>2
      <4>2. \A c \in Clients : client'[c].item # client[b].val
        <5>1. \A c \in Clients : client[c].item # client[b].val
          BY <4>1 DEF IInv, FreshInv
        <5> QED
          BY <2>e, <4>1, <5>1
      <4>3. \A c \in Clients \ {b} : Busy(c)' => client'[c].val # client[b].val
        <5>1. \A c \in Clients \ {b} : Busy(c) => client[c].val # client[b].val
          BY <4>1 DEF IInv, FreshInv
        <5>2. client'[a].val # client[b].val
          BY <1>5, <2>1, <2>7, <4>1
        <5>3. \A c \in Clients \ {b} : c # a /\ Busy(c)' => Busy(c) /\ client'[c].val = client[c].val
          BY <1>6, <1>7
        <5> QED
          BY <5>1, <5>2, <5>3
      <4> QED
        BY <2>7, <4>1, <4>2, <4>3 DEF IInv, FreshInv
    <3> QED
      BY <3>1, <3>2
  <2>9. ASSUME NEW b \in Clients, NEW i \in DOMAIN items, At(b, "replace")', items[i].id = client'[b].item
        PROVE  i = 1
    <3>1. b # a
      BY <1>4, <1>5, <2>9 DEF At
    <3>2. At(b, "replace") /\ items[i].id = client[b].item
      BY <1>6, <2>9, <3>1 DEF At
    <3> QED
      BY <3>2 DEF IInv, FreshInv
  <2>10. \A i \in DOMAIN items : items[i].id \in Known(commands + 1, mishaps)
    BY <2>2 DEF IInv, FreshInv
  <2>11. kind' = kind /\ items' = items /\ commands' = commands + 1 /\ mishaps' = mishaps
    BY <1>1
  <2> QED
    BY <2>4, <2>8, <2>9, <2>10, <2>11 DEF IInv, FreshInv
<1> QED
  BY <1>8, <1>9, <1>10, <1>11, <1>12, <1>13, <1>14 DEF IInv

\* The value another program stores is nobody else's.
LEMMA OutsideValue ==
  ASSUME IInv, mishaps < MaxMishaps
  PROVE  /\ MaxCommands + mishaps + 1 \in Values
         /\ MaxCommands + mishaps + 1 \in Known(commands, mishaps + 1)
         /\ \A x \in Known(commands, mishaps) : x \in Known(commands, mishaps + 1)
                                                /\ x # MaxCommands + mishaps + 1
         /\ \A x \in 1..commands : x # MaxCommands + mishaps + 1
         /\ mishaps + 1 \in 0..MaxMishaps
<1>1. /\ commands \in 0..MaxCommands /\ mishaps \in Nat /\ MaxCommands \in Nat /\ MaxMishaps \in Nat
      /\ commands \in Nat
  BY ItemAssumption, CommandAssumption DEF IInv, TypeOK
<1>2. MaxCommands + mishaps + 1 \in 1..(MaxCommands + MaxMishaps)
  BY <1>1
<1>3. \A x \in Known(commands, mishaps) : x \in Known(commands, mishaps + 1)
  BY <1>1, KnownGrows
<1>4. \A x \in Known(commands, mishaps) : x # MaxCommands + mishaps + 1
  BY <1>1 DEF Known
<1>5. MaxCommands + mishaps + 1 \in Known(commands, mishaps + 1)
  BY <1>1 DEF Known
<1>6. \A x \in 1..commands : x # MaxCommands + mishaps + 1
  BY <1>1
<1>7. mishaps + 1 \in 0..MaxMishaps
  BY <1>1
<1> QED
  BY <1>2, <1>3, <1>4, <1>5, <1>6, <1>7 DEF Values

\* The only item.
LEMMA SingleItem ==
  ASSUME NEW s \in Seq(Records), s # <<>>, Len(s) <= 1
  PROVE  1 \in 1..Len(s) /\ Len(s) = 1 /\ DOMAIN s = {1} /\ ~(Len(s) > 1)
<1>1. Len(s) \in Nat \ {0} /\ DOMAIN s = 1..Len(s)
  BY EmptySeq, LenProperties
<1>2. Len(s) = 1
  BY <1>1
<1> QED
  BY <1>1, <1>2

\* Items of which the first has another value in a field.
LEMMA FirstChanged ==
  ASSUME NEW s \in Seq(Records), 1 \in 1..Len(s), NEW f \in Fields, NEW v \in Values
  PROVE  /\ Overwritten(s, 1, f, v) \in Seq(Records) /\ Len(Overwritten(s, 1, f, v)) = Len(s)
         /\ Overwritten(s, 1, f, v)[1].id = s[1].id
         /\ \A h \in Fields : Overwritten(s, 1, f, v)[1].fields[h] = IF h = f THEN v ELSE s[1].fields[h]
<1> DEFINE r == Overwritten(s, 1, f, v)
<1>1. /\ r \in Seq(Records) /\ Len(r) = Len(s)
      /\ \A i \in 1..Len(s) : r[i].id = s[i].id
      /\ \A i \in 1..Len(s), h \in Fields :
           r[i].fields[h] = IF i = 1 /\ h = f THEN v ELSE s[i].fields[h]
  BY OverwrittenItems
<1> HIDE DEF r
<1>2. r[1].id = s[1].id /\ \A h \in Fields : r[1].fields[h] = IF h = f THEN v ELSE s[1].fields[h]
  BY <1>1
<1> QED
  BY <1>1, <1>2 DEF r

\* Another program acts between two steps of the calls under way.
LEMMA OutsideStep ==
  ASSUME IInv, Outside
  PROVE  IInv'
<1> DEFINE v == MaxCommands + mishaps + 1
           busy == \E a \in Clients : Busy(a)
<1>1. /\ Len(items) <= 1 /\ client' = Overlaps /\ raced' = (raced \/ busy)
      /\ mishaps < MaxMishaps /\ mishaps' = mishaps + 1 /\ kind' = kind /\ commands' = commands
  BY DEF Outside, Mishap
<1>2. \/ /\ items' = IF items = <<>> THEN <<Item(v, Password, v)>>
                     ELSE [items EXCEPT ![1].fields[Password] = v]
         /\ folder' = TRUE /\ OutsideWrites(Password, v)
      \/ /\ items # <<>> /\ items' = <<>>
         /\ possible' = [f \in Fields |-> IF busy THEN possible[f] \cup {None} ELSE {None}]
         /\ UNCHANGED folder
  BY DEF Outside
<1>3. /\ v \in Values /\ v \in Known(commands, mishaps + 1) /\ mishaps' \in 0..MaxMishaps
      /\ \A x \in Known(commands, mishaps) : x \in Known(commands, mishaps + 1) /\ x # v
      /\ \A x \in 1..commands : x # v
  BY <1>1, OutsideValue
<1> HIDE DEF v
<1>4. /\ client \in [Clients -> Calls] /\ items \in Seq(Records) /\ possible \in [Fields -> SUBSET Values]
      /\ Password \in Fields /\ None \in Values /\ Len(items) \in Nat
  BY ItemAssumption, CommandAssumption DEF IInv, TypeOK, Values
<1>5. ASSUME NEW b \in Clients
      PROVE  /\ client'[b] \in Calls /\ client'[b].at = client[b].at /\ client'[b].op = client[b].op
             /\ client'[b].field = client[b].field /\ client'[b].val = client[b].val
             /\ client'[b].item = client[b].item /\ (Busy(b) => client'[b].overlapped = TRUE)
             /\ (Busy(b)' <=> Busy(b))
  <2>1. client'[b] = IF Busy(b) THEN [client[b] EXCEPT !.overlapped = TRUE] ELSE client[b]
    BY <1>1 DEF Overlaps
  <2>2. /\ client'[b] \in Calls /\ client'[b].at = client[b].at /\ client'[b].op = client[b].op
        /\ client'[b].field = client[b].field /\ client'[b].val = client[b].val
        /\ client'[b].item = client[b].item /\ (Busy(b) => client'[b].overlapped = TRUE)
    BY <1>4, <2>1 DEF Calls
  <2> QED
    BY <2>2 DEF Busy
<1>6. client' \in [Clients -> Calls]
  <2>1. client' = [b \in Clients |-> client'[b]]
    BY <1>1 DEF Overlaps
  <2> QED
    BY <1>5, <2>1
<1>7. OverlapInv'
  <2>1. \A b \in Clients : Busy(b)' => client'[b].overlapped /\ raced'
    BY <1>1, <1>5
  <2> QED
    BY <2>1 DEF OverlapInv
\* What is stored and what may be read.
<1>8. /\ items' \in Seq(Records) /\ Len(items') <= 1 /\ ~(Len(items') > 1)
      /\ folder' \in BOOLEAN /\ possible' \in [Fields -> SUBSET Values]
      /\ busy => \A f \in Fields : possible[f] \subseteq possible'[f]
      /\ CurrentInv'
      /\ kind \notin HasFields => \A f \in Fields \ {Password} :
           None \in possible'[f] /\ \A i \in DOMAIN items' : items'[i].fields[f] = None
      /\ kind = "protonpass" => \A i \in DOMAIN items' :
           i = 1 /\ (items'[i].id = v \/ (items # <<>> /\ items'[i].id = items[1].id))
  <2>1. CASE /\ items # <<>> /\ items' = <<>>
             /\ possible' = [f \in Fields |-> IF busy THEN possible[f] \cup {None} ELSE {None}]
             /\ UNCHANGED folder
    <3>1. items' \in Seq(Records) /\ Len(items') = 0 /\ DOMAIN items' = {}
      BY <2>1
    <3>2. \A f \in Fields : possible'[f] \in SUBSET Values /\ None \in possible'[f]
                            /\ (busy => possible[f] \subseteq possible'[f])
      BY <1>4, <2>1
    <3>3. possible' \in [Fields -> SUBSET Values]
      <4>1. possible' = [f \in Fields |-> possible'[f]]
        BY <2>1
      <4> QED
        BY <3>2, <4>1
    <3>4. CurrentInv'
      BY <3>1, <3>2 DEF CurrentInv
    <3>5. folder' \in BOOLEAN
      BY <2>1 DEF IInv, TypeOK
    <3> QED
      BY <3>1, <3>2, <3>3, <3>4, <3>5
  <2>2. CASE /\ items' = IF items = <<>> THEN <<Item(v, Password, v)>>
                         ELSE [items EXCEPT ![1].fields[Password] = v]
             /\ folder' = TRUE /\ OutsideWrites(Password, v)
    <3>1. \/ possible' = [possible EXCEPT ![Password] = @ \cup {v}]
          \/ ~busy /\ possible' = [possible EXCEPT ![Password] = {v}]
      BY <2>2 DEF OutsideWrites
    <3>2. /\ possible' \in [Fields -> SUBSET Values] /\ v \in possible'[Password]
          /\ \A f \in Fields \ {Password} : possible'[f] = possible[f]
          /\ busy => \A f \in Fields : possible[f] \subseteq possible'[f]
      BY <1>3, <1>4, <3>1
    <3>3. CASE items = <<>>
      <4> DEFINE e == Item(v, Password, v)
      <4>1. e \in Records /\ e.id = v /\ \A h \in Fields : e.fields[h] = IF h = Password THEN v ELSE None
        BY <1>3, <1>4, NewItem DEF Item
      <4>2. items' = <<e>>
        BY <2>2, <3>3
      <4> HIDE DEF e
      <4>3. /\ items' \in Seq(Records) /\ DOMAIN items' = {1} /\ items'[1] = e
            /\ items' # <<>> /\ ~(Len(items') > 1) /\ Len(items') <= 1
        BY <4>1, <4>2, OneItem
      <4>4. \A f \in Fields : None \in possible[f]
        BY <3>3 DEF IInv, CurrentInv
      <4>5. \A f \in Fields : e.fields[f] \in possible'[f]
        BY <3>2, <4>1, <4>4
      <4>6. CurrentInv'
        BY <4>3, <4>5 DEF CurrentInv
      <4> QED
        BY <2>2, <3>2, <4>1, <4>3, <4>4, <4>6
    <3>4. CASE items # <<>>
      <4>1. 1 \in 1..Len(items) /\ Len(items) = 1 /\ DOMAIN items = {1}
        BY <1>1, <1>4, <3>4, SingleItem
      <4>2. items' = Overwritten(items, 1, Password, v)
        BY <1>3, <1>4, <2>2, <3>4, <4>1, ExceptIsOverwritten
      <4>3. /\ items' \in Seq(Records) /\ Len(items') = Len(items) /\ items'[1].id = items[1].id
            /\ \A h \in Fields : items'[1].fields[h] = IF h = Password THEN v ELSE items[1].fields[h]
        <5>1. items \in Seq(Records) /\ 1 \in 1..Len(items) /\ Password \in Fields /\ v \in Values
          BY <1>3, <1>4, <4>1
        <5>2. /\ Overwritten(items, 1, Password, v) \in Seq(Records)
              /\ Len(Overwritten(items, 1, Password, v)) = Len(items)
              /\ Overwritten(items, 1, Password, v)[1].id = items[1].id
              /\ \A h \in Fields : Overwritten(items, 1, Password, v)[1].fields[h]
                                   = IF h = Password THEN v ELSE items[1].fields[h]
          BY <5>1, FirstChanged
        <5> QED
          BY <4>2, <5>2, Zenon
      <4>4. DOMAIN items' = {1} /\ items' # <<>> /\ ~(Len(items') > 1) /\ Len(items') <= 1 /\ DOMAIN items = {1}
        <5>1. Len(items') = 1 /\ items' # <<>>
          <6>1. Len(items') = 1
            BY <4>1, <4>3
          <6>2. Len(<<>>) = 0
            BY EmptySeq
          <6>3. items' # <<>>
            BY <6>1, <6>2
          <6> QED
            BY <6>1, <6>3
        <5>2. Len(items') <= 1
          BY <5>1
        <5> QED
          BY <4>1, <4>3, <5>1, <5>2, SingleItem
      <4>5. \A f \in Fields : items[1].fields[f] \in possible[f]
        BY <4>1, <4>4 DEF IInv, CurrentInv, Shown
      <4>6. \A f \in Fields : items'[1].fields[f] \in possible'[f]
        BY <3>2, <4>3, <4>5
      <4>7. CurrentInv'
        BY <4>4, <4>6 DEF CurrentInv
      <4>8. kind \notin HasFields => \A f \in Fields \ {Password} :
              None \in possible'[f] /\ \A i \in DOMAIN items' : items'[i].fields[f] = None
        BY <3>2, <4>3, <4>4 DEF IInv, KindInv
      <4> QED
        BY <2>2, <3>2, <3>4, <4>3, <4>4, <4>7, <4>8
    <3> QED
      BY <3>3, <3>4
  <2> QED
    BY <1>2, <2>1, <2>2
<1>9. TypeOK'
  <2>1. raced' \in BOOLEAN /\ kind' \in Kinds /\ commands' \in 0..MaxCommands
    BY <1>1 DEF IInv, TypeOK
  <2>2. items' \in Seq(Records) /\ folder' \in BOOLEAN /\ possible' \in [Fields -> SUBSET Values]
    BY <1>8
  <2>3. client' \in [Clients -> Calls] /\ mishaps' \in 0..MaxMishaps
    BY <1>3, <1>6
  <2> QED
    BY <2>1, <2>2, <2>3 DEF TypeOK
<1>10. KindInv'
  <2>1. Len(items') <= 1 /\ kind' = kind
    BY <1>1, <1>8
  <2>2. kind \notin HasFields => \A b \in Clients : client'[b].field = Password
    BY <1>5 DEF IInv, KindInv
  <2>3. kind \notin HasFields => \A f \in Fields \ {Password} :
          None \in possible'[f] /\ \A i \in DOMAIN items' : items'[i].fields[f] = None
    BY <1>8
  <2>4. \A b \in Clients : client'[b].op = "delete" =>
          kind \in Deletes /\ client'[b].val = None /\ client'[b].at \in {"start", "delete", "none"}
    BY <1>5 DEF IInv, KindInv
  <2>5. \A b \in Clients : client'[b].at \in {"delete", "none"} => client'[b].op = "delete"
    BY <1>5 DEF IInv, KindInv
  <2> QED
    BY <2>1, <2>2, <2>3, <2>4, <2>5 DEF KindInv
<1>11. NoDuplicates'
  BY <1>8 DEF NoDuplicates
<1>12. ASSUME NEW b \in Clients PROVE LookInv(b)'
  <2>1. CASE Busy(b)
    <3>1. client'[b].overlapped = TRUE /\ client'[b].at = client[b].at /\ kind' = kind
      BY <1>1, <1>5, <2>1
    <3>2. \A f \in Fields : possible[f] \subseteq possible'[f]
      BY <1>8, <2>1
    <3>3. client[b].at = "create" /\ kind \in OnlyFound => \A f \in Fields : None \in possible[f]
      BY DEF IInv, LookInv
    <3> QED
      BY <3>1, <3>2, <3>3 DEF LookInv
  <2>2. CASE ~Busy(b)
    BY <1>5, <2>2 DEF LookInv, Busy
  <2> QED
    BY <2>1, <2>2
<1>13. FreshInv'
  <2> SUFFICES ASSUME kind = "protonpass" PROVE FreshInv'
    BY <1>1 DEF FreshInv
  <2>1. 1 \in DOMAIN items \/ items = <<>>
    BY <1>4
  <2>2. \A i \in DOMAIN items' :
          i = 1 /\ (items'[i].id = v \/ (1 \in DOMAIN items /\ items'[i].id = items[1].id))
    BY <1>8, <2>1
  <2>3. \A i \in DOMAIN items' : items'[i].id \in Known(commands, mishaps + 1)
    BY <1>3, <2>2 DEF IInv, FreshInv
  <2>4. \A b \in Clients : client'[b].item \in Known(commands, mishaps + 1)
    BY <1>3, <1>5 DEF IInv, FreshInv
  <2>5. ASSUME NEW b \in Clients, Busy(b)'
        PROVE  /\ client'[b].val \in 1..commands
               /\ \A i \in DOMAIN items' : items'[i].id # client'[b].val
               /\ \A c \in Clients : client'[c].item # client'[b].val
               /\ \A c \in Clients \ {b} : Busy(c)' => client'[c].val # client'[b].val
    <3>1. client'[b].val = client[b].val /\ Busy(b) /\ client[b].val \in 1..commands
      BY <1>5, <2>5 DEF IInv, FreshInv
    <3>2. \A i \in DOMAIN items' : items'[i].id # client[b].val
      BY <1>3, <2>2, <3>1 DEF IInv, FreshInv
    <3>3. \A c \in Clients : client'[c].item # client[b].val
      <4>1. \A c \in Clients : client[c].item # client[b].val
        BY <3>1 DEF IInv, FreshInv
      <4> QED
        BY <1>5, <4>1
    <3>4. \A c \in Clients \ {b} : Busy(c)' => client'[c].val # client[b].val
      <4>1. \A c \in Clients \ {b} : Busy(c) => client[c].val # client[b].val
        BY <3>1 DEF IInv, FreshInv
      <4> QED
        BY <1>5, <4>1
    <3> QED
      BY <3>1, <3>2, <3>3, <3>4
  <2>6. \A i \in DOMAIN items', j \in DOMAIN items' : i = j
    BY <2>2
  <2> QED
    BY <1>1, <2>2, <2>3, <2>4, <2>5, <2>6 DEF FreshInv
<1> QED
  BY <1>7, <1>8, <1>9, <1>10, <1>11, <1>12, <1>13 DEF IInv

----------------------------------------------------------------------------
(* The providers *)

\* What a call does at the points that only one of the operations passes,
\* and in the providers that have no delete.
LEMMA Operation ==
  ASSUME IInv, NEW a \in Clients
  PROVE  /\ client[a].op \in {"set", "delete"} /\ (~IsSet(a) <=> client[a].op = "delete")
         /\ client[a].at \in {"delete", "none"} => client[a].op = "delete"
         /\ client[a].at \notin {"start", "delete", "none"} => client[a].op = "set"
         /\ kind \notin Deletes => client[a].op = "set"
<1>1. client[a].op \in {"set", "delete"}
  BY StateFacts
<1> QED
  BY <1>1 DEF IInv, KindInv, IsSet

\* Calls that find the first item of a name.
LEMMA FirstFoundStep ==
  ASSUME IInv, NEW a \in Clients, Bws(a) \/ Onepassword(a)
  PROVE  IInv'
<1>1. kind \in FirstFound /\ kind # "protonpass" /\ kind \notin OnlyFound /\ kind \notin Deletes
  BY DEF Bws, Onepassword, FirstFound, OnlyFound, Deletes, Upserts
<1>2. client[a].op = "set"
  BY <1>1, Operation
<1>3. CASE SetReference(a)
  <2>1. Busy(a) /\ Stays
    BY <1>3, AtBusy DEF SetReference
  <2>2. CASE /\ Len(items) = 1 /\ items' = [items EXCEPT ![1].fields[client[a].field] = client[a].val]
             /\ Done(a)
    <3>1. Answers(a) /\ Accepts(a) /\ kind' = kind /\ raced' = raced
      BY <2>1, <2>2, DoneAnswers DEF IInv, Answers, Stays
    <3>2. items # <<>>
      BY <2>2, EmptySeq
    <3>3. Sound
      BY <1>1, <1>2, <2>2, <3>1, <3>2, FirstWritten
    <3>4. FreshInv'
      BY <1>1, <3>1, FreshElsewhere
    <3> QED
      BY <2>1, <3>1, <3>3, <3>4, EndStep
  <2>3. CASE Refused(a)
    BY <2>1, <2>3, RefusedStep
  <2> QED
    BY <1>3, <2>2, <2>3 DEF SetReference
<1>4. CASE ListsFirst(a, "edit", "create")
  BY <1>1, <1>2, <1>4, ListsFirstStep
<1>5. CASE EditsField(a, "edit")
  BY <1>1, <1>2, <1>5, EditsFieldStep
<1>6. CASE CreatesItem(a, "create")
  BY <1>1, <1>2, <1>6, CreatesItemStep
<1> QED
  BY <1>3, <1>4, <1>5, <1>6 DEF Bws, Onepassword

\* Calls that insist on one item of a name and edit a field of it.
LEMMA OnlyFoundStep ==
  ASSUME IInv, NEW a \in Clients, Passbolt(a) \/ Lastpass(a)
  PROVE  IInv'
<1>1. kind \in OnlyFound /\ kind # "protonpass" /\ kind \notin Deletes
  BY DEF Passbolt, Lastpass, OnlyFound, Deletes, Upserts
<1>2. client[a].op = "set"
  BY <1>1, Operation
<1>3. CASE ListsOnly(a, "edit", "create")
  BY <1>1, <1>2, <1>3, ListsOnlyStep
<1>4. CASE EditsField(a, "edit")
  BY <1>1, <1>2, <1>4, EditsFieldStep
<1>5. CASE CreatesItem(a, "create")
  BY <1>1, <1>2, <1>5, CreatesItemStep
<1> QED
  BY <1>3, <1>4, <1>5 DEF Passbolt, Lastpass

\* Calls that insist on one item of a name and replace it.
LEMMA WholeItemStep ==
  ASSUME IInv, NEW a \in Clients, Bw(a) \/ Keeper(a)
  PROVE  IInv'
<1>1. kind \in OnlyFound /\ kind \in WholeItem /\ kind # "protonpass"
  BY DEF Bw, Keeper, OnlyFound, WholeItem
<1>2. CASE SavesItem(a)
  BY <1>1, <1>2, SavesItemStep
<1>3. CASE CreatesItem(a, "create")
  <2>1. client[a].op = "set"
    BY <1>3, Operation DEF CreatesItem, At
  <2> QED
    BY <1>1, <1>3, <2>1, CreatesItemStep
<1>4. CASE Bw(a) /\ (ListsOnly(a, "template", "create") \/ BwTemplate(a))
  <2>1. kind = "bw" /\ client[a].op = "set"
    BY <1>4, Operation DEF Bw, Deletes, Upserts
  <2>2. CASE ListsOnly(a, "template", "create")
    BY <1>1, <2>1, <2>2, ListsOnlyStep
  <2>3. CASE BwTemplate(a)
    BY <2>1, <2>3, BwTemplateStep
  <2> QED
    BY <1>4, <2>2, <2>3
<1>5. CASE IsSet(a) /\ ListsOnly(a, "save", "create")
  <2>1. client[a].op = "set"
    BY <1>5 DEF IsSet
  <2> QED
    BY <1>1, <1>5, <2>1, ListsOnlyStep
<1>6. CASE ~IsSet(a) /\ ListsOnly(a, "delete", "none")
  <2>1. client[a].op = "delete"
    BY <1>6, Operation
  <2> QED
    BY <1>1, <1>6, <2>1, ListsOnlyStep
<1>7. CASE DeletesItem(a)
  BY <1>1, <1>7, DeletesItemStep
<1>8. CASE NothingToDelete(a)
  BY <1>1, <1>8, NothingToDeleteStep
<1> QED
  BY <1>2, <1>3, <1>4, <1>5, <1>6, <1>7, <1>8 DEF Bw, Keeper

\* Calls that replace the first item of a name by a new one.
LEMMA ProtonpassStep ==
  ASSUME IInv, NEW a \in Clients, Protonpass(a)
  PROVE  IInv'
<1>1. kind = "protonpass" /\ kind \notin OnlyFound /\ kind \notin Deletes
  BY DEF Protonpass, OnlyFound, Deletes, Upserts
<1>2. client[a].op = "set"
  BY <1>1, Operation
<1>3. CASE ListsFirst(a, "replace", "create")
  BY <1>1, <1>2, <1>3, ListsFirstStep
<1>4. CASE ProtonpassDelete(a)
  BY <1>1, <1>4, ProtonpassDeleteStep
<1>5. CASE CreatesItem(a, "create")
  BY <1>1, <1>2, <1>5, CreatesItemStep
<1> QED
  BY <1>3, <1>4, <1>5 DEF Protonpass

\* A delete that lists first, wherever a name has one item at most.
LEMMA LooksStep ==
  ASSUME IInv, NEW a \in Clients, ~IsSet(a), ListsFirst(a, "delete", "none"), kind \in UniqueNames \cup Upserts
  PROVE  IInv'
<1>1. client[a].op = "delete" /\ kind \notin OnlyFound
  BY Operation, OneField
<1> QED
  BY <1>1, ListsFirstStep

\* A delete by name.
LEMMA DeletesNameStep ==
  ASSUME IInv, NEW a \in Clients, Busy(a), client[a].op = "delete", items' = <<>>, Done(a), Stays,
         kind \in UniqueNames \cup Upserts
  PROVE  IInv'
<1>1. Answers(a) /\ kind # "protonpass"
  BY DoneAnswers, OneField DEF IInv
<1> QED
  BY <1>1, ClearStep

\* Calls that list, and then create, edit or delete what they listed.
LEMMA ListedStep ==
  ASSUME IInv, NEW a \in Clients, Cloudflare(a) \/ Netlify(a)
  PROVE  IInv'
<1>1. kind \in UniqueNames /\ kind # "protonpass" /\ kind \notin OnlyFound /\ kind \notin FirstFound
  BY DEF Cloudflare, Netlify, UniqueNames, OnlyFound, FirstFound
<1>2. CASE IsSet(a) /\ ListsFirst(a, "edit", "create")
  <2>1. client[a].op = "set"
    BY <1>2 DEF IsSet
  <2> QED
    BY <1>1, <1>2, <2>1, ListsFirstStep
<1>3. CASE ~IsSet(a) /\ ListsFirst(a, "delete", "none")
  BY <1>1, <1>3, LooksStep
<1>4. CASE EditsField(a, "edit")
  <2>1. client[a].op = "set"
    BY <1>4, Operation DEF EditsField, At
  <2> QED
    BY <1>1, <1>4, <2>1, EditsFieldStep
<1>5. CASE CreatesNamed(a, "create", "conflict") \/ CreatesNamed(a, "create", "error")
  <2>1. client[a].op = "set"
    BY <1>5, Operation DEF CreatesNamed, At
  <2> QED
    BY <1>5, <2>1, CreatesNamedStep
<1>6. CASE CloudflareConflict(a)
  <2>1. Busy(a) /\ client[a].op = "set"
    BY <1>6, AtBusy, Operation DEF CloudflareConflict, At
  <2>2. CASE items # <<>> /\ Finds(a, items[1].id, "edit")
    <3>1. items[1].id \in Ids /\ "edit" \in Points
      BY <2>2, FirstId DEF Points
    <3> QED
      BY <1>1, <2>1, <2>2, <3>1, FindsStep
  <2>3. CASE Refused(a) /\ Stays
    BY <2>1, <2>3, RefusedStep
  <2> QED
    BY <1>6, <2>2, <2>3 DEF CloudflareConflict
<1>7. CASE DeletesItem(a)
  BY <1>1, <1>7, DeletesItemStep
<1>8. CASE NothingToDelete(a)
  BY <1>1, <1>8, NothingToDeleteStep
<1> QED
  BY <1>2, <1>3, <1>4, <1>5, <1>6, <1>7, <1>8 DEF Cloudflare, Netlify

\* Calls that create the name, or its item, before the value.
LEMMA EnsuresStep ==
  ASSUME IInv, NEW a \in Clients, Awssm(a) \/ Gcsm(a)
  PROVE  IInv'
<1>1. kind \in UniqueNames /\ kind \notin Deletes
  BY DEF Awssm, Gcsm, UniqueNames, Deletes, Upserts
<1>2. client[a].op = "set"
  BY <1>1, Operation
<1>3. CASE CreatesNamed(a, "start", "put")
  BY <1>2, <1>3, CreatesNamedStep
<1>4. CASE PutsValue(a, "put") \/ PutsValue(a, "version")
  BY <1>1, <1>2, <1>4, PutsValueStep
<1>5. CASE EnsuresItem(a, "version")
  BY <1>1, <1>2, <1>5, EnsuresItemStep DEF EnsuresItem
<1> QED
  BY <1>3, <1>4, <1>5 DEF Awssm, Gcsm

\* One write of Infisical.
LEMMA InfisicalWriteStep ==
  ASSUME IInv, NEW a \in Clients, NEW at \in {"start", "post", "again"}, NEW method \in {"PATCH", "POST"},
         NEW missing \in {"post", "folder", "error"}, method = "PATCH" <=> at = "start",
         InfisicalWrite(a, at, method, missing), kind = "infisical"
  PROVE  IInv'
<1>1. kind \in UniqueNames /\ kind \notin Deletes
  BY DEF UniqueNames, Deletes, Upserts
<1>2. client[a].op = "set" /\ Busy(a)
  BY <1>1, Operation, AtBusy DEF InfisicalWrite
<1>3. CASE PutsValue(a, at)
  BY <1>1, <1>2, <1>3, PutsValueStep
<1>4. CASE CreatesNamed(a, at, "error")
  BY <1>2, <1>4, CreatesNamedStep
<1>5. CASE Err(a) /\ Quiet /\ UNCHANGED items /\ Stays
  BY <1>2, <1>5, ErrStep
<1>6. CASE missing # "error" /\ Goes(a, missing) /\ UNCHANGED possible /\ Quiet /\ UNCHANGED items /\ Stays
  <2>1. missing \in Points /\ missing \notin {"idle", "edit", "template", "save", "delete", "replace", "none", "create"}
    BY <1>6 DEF Points
  <2>2. folder' \in BOOLEAN /\ UNCHANGED <<items, possible, mishaps, kind, commands, raced>>
    BY <1>6 DEF IInv, TypeOK, Stays, Quiet
  <2> QED
    BY <1>2, <1>6, <2>1, <2>2, GoesStep
<1> QED
  BY <1>3, <1>4, <1>5, <1>6 DEF InfisicalWrite

\* Infisical's calls: PATCH, POST, the folder, POST again.
LEMMA InfisicalStep ==
  ASSUME IInv, NEW a \in Clients, Infisical(a)
  PROVE  IInv'
<1>1. kind = "infisical" /\ kind \notin Deletes
  BY DEF Infisical, Deletes, Upserts
<1>2. CASE InfisicalWrite(a, "start", "PATCH", "post")
  BY <1>1, <1>2, InfisicalWriteStep
<1>3. CASE InfisicalWrite(a, "post", "POST", "folder")
  BY <1>1, <1>3, InfisicalWriteStep
<1>4. CASE InfisicalWrite(a, "again", "POST", "error")
  BY <1>1, <1>4, InfisicalWriteStep
<1>5. CASE InfisicalFolder(a)
  <2>1. Busy(a) /\ client[a].op = "set" /\ "again" \in Points
    BY <1>1, <1>5, AtBusy, Operation DEF InfisicalFolder, Points
  <2>2. folder' \in BOOLEAN /\ UNCHANGED <<items, possible, mishaps, kind, commands, raced>> /\ Goes(a, "again")
    BY <1>5 DEF InfisicalFolder, Quiet
  <2> QED
    BY <2>1, <2>2, GoesStep
<1> QED
  BY <1>2, <1>3, <1>4, <1>5 DEF Infisical

\* Setec's calls: a version is put and then activated.
LEMMA SetecStep ==
  ASSUME IInv, NEW a \in Clients, Setec(a)
  PROVE  IInv'
<1>1. kind \in UniqueNames /\ kind # "protonpass"
  BY DEF Setec, UniqueNames
<1>2. CASE SetecPut(a)
  <2>1. client[a].op = "set"
    BY <1>2 DEF SetecPut, IsSet
  <2> QED
    BY <1>1, <1>2, <2>1, EnsuresItemStep DEF SetecPut
<1>3. CASE PutsValue(a, "activate")
  <2>1. client[a].op = "set"
    BY <1>3, Operation DEF PutsValue, At
  <2> QED
    BY <1>1, <1>3, <2>1, PutsValueStep
<1>4. CASE ~IsSet(a) /\ ListsFirst(a, "delete", "none")
  BY <1>1, <1>4, LooksStep
<1>5. CASE NothingToDelete(a)
  BY <1>1, <1>5, NothingToDeleteStep
<1>6. CASE At(a, "delete") /\ items' = <<>> /\ Done(a) /\ Stays
  <2>1. Busy(a) /\ client[a].op = "delete"
    BY <1>6, AtBusy, Operation DEF At
  <2> QED
    BY <1>1, <1>6, <2>1, DeletesNameStep
<1> QED
  BY <1>2, <1>3, <1>4, <1>5, <1>6 DEF Setec

\* App Configuration's calls: the entry that was read is the condition.
LEMMA AacStep ==
  ASSUME IInv, NEW a \in Clients, Aac(a)
  PROVE  IInv'
<1>1. kind \in UniqueNames /\ kind # "protonpass" /\ kind \notin OnlyFound
  BY DEF Aac, UniqueNames, OnlyFound
<1>2. CASE IsSet(a) /\ ListsFirst(a, "put", "create")
  <2>1. client[a].op = "set"
    BY <1>2 DEF IsSet
  <2> QED
    BY <1>1, <1>2, <2>1, ListsFirstStep
<1>3. CASE ~IsSet(a) /\ ListsFirst(a, "delete", "none")
  BY <1>1, <1>3, LooksStep
<1>4. CASE AacWrite(a)
  <2>1. Busy(a) /\ Stays /\ client[a].op = "set"
    BY <1>4, AtBusy, Operation DEF AacWrite, At
  <2>2. CASE Unchanged(client[a]) /\ items' = [items EXCEPT ![1].fields[Password] = client[a].val] /\ Done(a)
    <3>1. Answers(a) /\ Accepts(a) /\ kind' = kind /\ raced' = raced
      BY <2>1, <2>2, DoneAnswers DEF IInv, Answers, Stays
    <3>2. items # <<>> /\ Len(items) <= 1 /\ client[a].field = Password
      BY <1>1, <2>2, OneField DEF Unchanged
    <3>3. Sound
      BY <1>1, <2>1, <2>2, <3>1, <3>2, FirstWritten
    <3>4. FreshInv'
      BY <1>1, <3>1, FreshElsewhere
    <3> QED
      BY <2>1, <3>1, <3>3, <3>4, EndStep
  <2>3. CASE Refused(a)
    BY <2>1, <2>3, RefusedStep
  <2> QED
    BY <1>4, <2>2, <2>3 DEF AacWrite
<1>5. CASE AacDelete(a)
  <2>1. Busy(a) /\ Stays /\ client[a].op = "delete"
    BY <1>5, AtBusy, Operation DEF AacDelete, At
  <2>2. CASE items' = <<>> /\ Done(a)
    BY <1>1, <2>1, <2>2, DeletesNameStep
  <2>3. CASE items = <<>> /\ Ack(a) /\ UNCHANGED items
    BY <1>1, <2>1, <2>3, AckAnswers, ClearStep DEF IInv
  <2>4. CASE Refused(a)
    BY <2>1, <2>4, RefusedStep
  <2> QED
    BY <1>5, <2>2, <2>3, <2>4 DEF AacDelete
<1>6. CASE CreatesNamed(a, "create", "error")
  <2>1. client[a].op = "set"
    BY <1>6, Operation DEF CreatesNamed, At
  <2> QED
    BY <1>6, <2>1, CreatesNamedStep
<1>7. CASE NothingToDelete(a)
  BY <1>1, <1>7, NothingToDeleteStep
<1> QED
  BY <1>2, <1>3, <1>4, <1>5, <1>6, <1>7 DEF Aac

\* Calls that write in one command, and delete in one or after a look.
LEMMA UpsertsStep ==
  ASSUME IInv, NEW a \in Clients,
         \/ Awsps(a) \/ Akv(a) \/ Pass(a) \/ Gopass(a) \/ Keyring(a) \/ Kubernetes(a) \/ Railway(a)
         \/ Vault(a) \/ Convex(a) \/ Fly(a) \/ File(a) \/ Vercel(a) \/ Doppler(a)
  PROVE  IInv'
<1>1. /\ kind \in Upserts /\ kind # "protonpass"
      /\ \/ Upsert(a) \/ DeletesAtOnce(a) \/ LooksFirst(a) \/ NothingToDelete(a) \/ DeletesName(a)
         \/ Refused(a) /\ Stays /\ At(a, "delete")
         \/ DeletesItem(a)
         \/ DopplerWrite(a) /\ kind = "doppler"
  BY DEF Awsps, Akv, Pass, Gopass, Keyring, Kubernetes, Railway, Vault, Convex, Fly, File, Vercel, Doppler,
         LooksThenDeletes, Upserts
<1>2. CASE Upsert(a)
  BY <1>1, <1>2, UpsertStep
<1>3. CASE DeletesAtOnce(a)
  <2>1. Busy(a) /\ client[a].op = "delete"
    BY <1>3, AtBusy, Operation DEF DeletesAtOnce
  <2> QED
    BY <1>1, <1>3, <2>1, DeletesNameStep DEF DeletesAtOnce
<1>4. CASE LooksFirst(a)
  BY <1>1, <1>4, LooksStep DEF LooksFirst
<1>5. CASE NothingToDelete(a)
  BY <1>1, <1>5, NothingToDeleteStep
<1>6. CASE DeletesName(a)
  <2>1. Busy(a) /\ client[a].op = "delete"
    BY <1>6, AtBusy, Operation DEF DeletesName, At
  <2> QED
    BY <1>1, <1>6, <2>1, DeletesNameStep DEF DeletesName
<1>7. CASE Refused(a) /\ Stays /\ At(a, "delete")
  BY <1>7, AtBusy, RefusedStep
<1>8. CASE DeletesItem(a)
  BY <1>1, <1>8, DeletesItemStep
<1>9. CASE DopplerWrite(a) /\ kind = "doppler"
  BY <1>9, DopplerWriteStep
<1> QED
  BY <1>1, <1>2, <1>3, <1>4, <1>5, <1>6, <1>7, <1>8, <1>9

----------------------------------------------------------------------------
(* The invariant and what follows from it *)

\* No call is under way and nothing is stored.
LEMMA InitIInv == Init => IInv
<1> SUFFICES ASSUME Init PROVE IInv
  OBVIOUS
<1>1. /\ items = <<>> /\ items \in Seq(Records) /\ Len(items) = 0 /\ DOMAIN items = {}
      /\ client = [a \in Clients |-> Idle] /\ possible = [f \in Fields |-> {None}]
      /\ kind \in Kinds /\ folder = FALSE /\ raced = FALSE /\ commands = 0 /\ mishaps = 0
  BY DEF Init
<1>2. \A a \in Clients : /\ client[a] = Idle /\ client[a].at = "idle" /\ client[a].op = "set"
                         /\ client[a].field = Password /\ client[a].item = 0 /\ ~Busy(a)
  BY <1>1, IdleFacts DEF Busy
<1>3. TypeOK
  <2>1. client \in [Clients -> Calls]
    BY <1>1, IdleFacts
  <2>2. possible \in [Fields -> SUBSET Values]
    BY <1>1 DEF Values
  <2>3. commands \in 0..MaxCommands /\ mishaps \in 0..MaxMishaps
    BY <1>1, ItemAssumption, CommandAssumption
  <2> QED
    BY <1>1, <2>1, <2>2, <2>3 DEF TypeOK
<1>4. CurrentInv
  BY <1>1 DEF CurrentInv
<1>5. OverlapInv
  BY <1>2 DEF OverlapInv
<1>6. KindInv
  BY <1>1, <1>2 DEF KindInv
<1>7. NoDuplicates
  BY <1>1 DEF NoDuplicates
<1>8. FreshInv
  <2>1. 0 \in Known(commands, mishaps)
    BY <1>1 DEF Known
  <2> QED
    BY <1>1, <1>2, <2>1 DEF FreshInv, At
<1>9. \A a \in Clients : LookInv(a)
  BY <1>2 DEF LookInv
<1> QED
  BY <1>3, <1>4, <1>5, <1>6, <1>7, <1>8, <1>9 DEF IInv

\* Every step of every provider, every failure and every other program
\* preserves the invariant.
LEMMA NextIInv ==
  ASSUME IInv, [Next]_vars
  PROVE  IInv'
<1>1. CASE UNCHANGED vars
  BY <1>1 DEF vars, IInv, TypeOK, CurrentInv, Shown, OverlapInv, KindInv, NoDuplicates, FreshInv, LookInv,
              Busy, At
<1>2. CASE Outside
  BY <1>2, OutsideStep
<1>3. ASSUME NEW a \in Clients, Fails(a) PROVE IInv'
  BY <1>3, ErrStep DEF Fails
<1>4. ASSUME NEW a \in Clients, NEW op \in {"set", "delete"}, NEW f \in Fields, Begin(a, op, f) PROVE IInv'
  BY <1>4, BeginStep
<1>5. ASSUME NEW a \in Clients, Bws(a) \/ Onepassword(a) \/ Passbolt(a) \/ Lastpass(a) \/ Bw(a) \/ Keeper(a)
                                \/ Protonpass(a)
      PROVE  IInv'
  BY <1>5, FirstFoundStep, OnlyFoundStep, WholeItemStep, ProtonpassStep
<1>6. ASSUME NEW a \in Clients, Cloudflare(a) \/ Netlify(a) \/ Awssm(a) \/ Gcsm(a) \/ Scaleway(a)
                                \/ Infisical(a) \/ Setec(a) \/ Aac(a)
      PROVE  IInv'
  BY <1>6, ListedStep, EnsuresStep, ScalewayStep, InfisicalStep, SetecStep, AacStep
<1>7. ASSUME NEW a \in Clients,
             \/ Awsps(a) \/ Akv(a) \/ Pass(a) \/ Gopass(a) \/ Keyring(a) \/ Kubernetes(a) \/ Railway(a)
             \/ Vault(a) \/ Convex(a) \/ Fly(a) \/ File(a) \/ Vercel(a) \/ Doppler(a)
      PROVE  IInv'
  BY <1>7, UpsertsStep
<1> QED
  BY <1>1, <1>2, <1>3, <1>4, <1>5, <1>6, <1>7 DEF Next

\* The invariant, for every provider, client, field and bound.
THEOREM Invariance == Spec => []IInv
BY InitIInv, NextIInv, PTL DEF Spec

\* The types of the state: items, calls and what may be read stay within
\* the values that were ever written.
THEOREM TypeCorrect == Spec => []TypeOK
<1>1. IInv => TypeOK
  BY DEF IInv
<1> QED
  BY <1>1, Invariance, PTL

\* Calls that never overlap leave one item of a name, in every provider that
\* looks before it creates (bws, onepassword, passbolt, lastpass, bw, keeper,
\* protonpass), whatever failed or lost its answer on the way; in the others
\* a name never has two.
THEOREM NamesStayUnambiguous == Spec => []NoDuplicates
<1>1. IInv => NoDuplicates
  BY DEF IInv
<1> QED
  BY <1>1, Invariance, PTL

\* A read while no call is under way, by get or by get_many, finds the value of
\* the last set that was acknowledged and alone, or one that overlapped or failed
\* since, or is refused: no provider's sequence of commands loses the secret.  A
\* batch read of bws or 1Password while a race has left two items is not covered.
THEOREM ReadsStayCurrent == Spec => []ReadsAreCurrent
<1>1. IInv => ReadsAreCurrent
  <2> SUFFICES ASSUME IInv, NEW f \in Fields
               PROVE  /\ ~GetRefused(f) => Get(f) \in possible[f]
                      /\ ~GetManyRefused(f) /\ ~BatchMisses => GetMany(f) \in possible[f]
    BY DEF ReadsAreCurrent
  <2>1. items \in Seq(Records) /\ Len(items) \in Nat /\ DOMAIN items = 1..Len(items)
    BY LenProperties DEF IInv, TypeOK
  <2>2. CASE items = <<>>
    BY <2>2 DEF IInv, CurrentInv, Get, GetMany
  <2>3. CASE items # <<>>
    <3>1. 1 \in DOMAIN items /\ Len(items) \in DOMAIN items
      BY <2>1, <2>3, EmptySeq
    <3>2. ASSUME ~GetRefused(f) PROVE Get(f) \in possible[f]
      <4>1. kind = "protonpass" => Len(items) = 1
        BY <2>1, <3>1, <3>2 DEF GetRefused
      <4>2. Shown(1)
        BY <3>1, <4>1 DEF Shown
      <4> QED
        BY <2>3, <3>1, <4>2 DEF IInv, CurrentInv, Get
    <3>3. ASSUME ~BatchMisses PROVE GetMany(f) \in possible[f]
      <4>1. kind \in FirstFound => Len(items) = 1
        BY <2>1, <3>1, <3>3 DEF BatchMisses
      <4>2. Shown(Len(items))
        BY <3>1, <4>1 DEF Shown
      <4> QED
        BY <2>3, <3>1, <4>2 DEF IInv, CurrentInv, GetMany
    <3> QED
      BY <3>2, <3>3
  <2> QED
    BY <2>2, <2>3
<1> QED
  BY <1>1, Invariance, PTL

----------------------------------------------------------------------------
(***************************************************************************)
(* Providers of documents: theorems about DocumentStores, for any number   *)
(* of clients, processes, keys and calls.  A client replaces the document  *)
(* by what it read, so the invariant says how that relates to the document *)
(* now: it is the same unless the revision moved on and a racer is noted,  *)
(* and no racer is one that the provider's lock excludes.                  *)
(***************************************************************************)
USE DocumentAssumption, CommandAssumption

\* About to replace the document.
Holds == {"write", "create"}

\* A revision stands for one content.
ReadOk(a) ==
  client[a].at \in Holds =>
    /\ client[a].seen.rev <= doc.rev
    /\ client[a].seen.rev = doc.rev => client[a].seen = doc
    /\ client[a].racers = {} => client[a].seen = doc

\* The locks exclude the rivals, so none of them races.
LockOk(a) ==
  /\ \A b \in Rivals(a) : ~(Holding(a) /\ Holding(b))
  /\ client[a].at \in Holds => client[a].racers \cap Rivals(a) = {}

\* Only the remote providers create a document in a request of its own.
KindOk(a) == client[a].at = "create" => kind \in Remote

\* What a client stored last is in the document, and in the copy that its
\* instance is about to remember.
OwnOk(a) ==
  \A k \in Keys :
    own[a][k] # Unset =>
      /\ own[a][k] = doc.map[k]
      /\ client[a].at = "remember" /\ k # client[a].key => client[a].seen.map[k] = own[a][k]

ClientOk(a) == ReadOk(a) /\ LockOk(a) /\ KindOk(a) /\ OwnOk(a)
ClientInv == \A a \in Clients : ClientOk(a)

\* A document that does not exist holds nothing.
AbsentInv == ~doc.exists => doc.map = Empty

DocumentInv == DocumentTypeOK /\ ClientInv /\ AbsentInv /\ OwnWritesVisible

----------------------------------------------------------------------------
(* Types *)

\* The record of a call, and of the client that is in none.
LEMMA IdleIsCall ==
  /\ NoCall \in Call_ /\ NoCall.at = "idle" /\ NoCall.key \in Keys
  /\ Absent \in Doc /\ Empty \in [Keys -> Values] /\ None \in Values
<1>1. None \in Values
  BY DEF Values
<1>2. Empty \in [Keys -> Values]
  BY <1>1 DEF Empty
<1>3. Absent \in Doc
  BY <1>2 DEF Absent, Doc
<1>4. (CHOOSE k \in Keys : TRUE) \in Keys
  OBVIOUS
<1> DEFINE key == CHOOSE k \in Keys : TRUE
<1>5. key \in Keys
  BY <1>4
<1> HIDE DEF key
<1>6. [at |-> "idle", op |-> "set", key |-> key, val |-> None,
       seen |-> Absent, left |-> 0, created |-> FALSE, racers |-> {}] \in Call_
  BY <1>1, <1>3, <1>5 DEF Call_
<1>7. NoCall = [at |-> "idle", op |-> "set", key |-> key, val |-> None,
              seen |-> Absent, left |-> 0, created |-> FALSE, racers |-> {}]
  BY DEF NoCall, key
<1> QED BY <1>1, <1>2, <1>3, <1>5, <1>6, <1>7

\* The fields of a call.
LEMMA CallFields ==
  ASSUME NEW c \in Call_
  PROVE  /\ c.at \in {"idle", "lock", "read", "create", "write", "remember"}
         /\ c.op \in {"set", "delete"} /\ c.key \in Keys /\ c.val \in Values
         /\ c.seen \in Doc /\ c.left \in 0..UsizeMax /\ c.created \in BOOLEAN
         /\ c.racers \subseteq Clients \cup {Other}
         /\ c.seen.map \in [Keys -> Values] /\ c.seen.rev \in Nat /\ c.seen.exists \in BOOLEAN
BY DEF Call_, Doc

Places == {"idle", "lock", "read", "create", "write", "remember"}
Lefts == 0..UsizeMax
Racers == SUBSET (Clients \cup {Other})

\* A call with some of its fields replaced is one.
LEMMA CallRecords ==
  ASSUME NEW c \in Call_, NEW at \in Places, NEW d \in Doc, NEW r \in Racers
  PROVE  /\ [c EXCEPT !.at = at] \in Call_
         /\ [c EXCEPT !.at = at, !.seen = d, !.racers = r] \in Call_
         /\ [c EXCEPT !.racers = r] \in Call_
         /\ [[c EXCEPT !.at = at] EXCEPT !.created = TRUE] \in Call_
<1>1. [c EXCEPT !.at = at] \in Call_
  BY DEF Call_, Places
<1>2. [c EXCEPT !.at = at, !.seen = d, !.racers = r] \in Call_
  BY DEF Call_, Places, Racers
<1>3. [c EXCEPT !.racers = r] \in Call_
  BY DEF Call_, Racers
<1>4. [[c EXCEPT !.at = at] EXCEPT !.created = TRUE] \in Call_
  BY DEF Call_, Places
<1> QED BY <1>1, <1>2, <1>3, <1>4

\* The attempts left are a usize, wrapped or not.
LEMMA SpendCall ==
  ASSUME NEW c \in Call_
  PROVE  /\ Spend(c) \in Call_
         /\ Spend(c).at = c.at /\ Spend(c).key = c.key /\ Spend(c).op = c.op
         /\ Spend(c).val = c.val /\ Spend(c).created = c.created
<1> DEFINE l == IF c.left = 0 THEN UsizeMax ELSE c.left - 1
<1>1. l \in Lefts
  BY CallFields DEF Lefts
<1>2. Spend(c) = [c EXCEPT !.left = l]
  BY CallFields DEF Spend
<1> HIDE DEF l
<1> QED BY <1>1, <1>2 DEF Call_, Lefts

\* What a client writes: the document it read, with its own key replaced.
LEMMA EditedMap ==
  ASSUME NEW c \in Call_
  PROVE  /\ Edited(c) \in [Keys -> Values]
         /\ Edited(c)[c.key] = c.val
         /\ \A k \in Keys : k # c.key => Edited(c)[k] = c.seen.map[k]
BY CallFields DEF Edited

\* The clients that a lock excludes.
LEMMA RivalFacts ==
  ASSUME DocumentTypeOK
  PROVE  /\ \A a \in Clients : Rivals(a) \subseteq Clients /\ a \notin Rivals(a)
         /\ \A a, b \in Clients : b \in Rivals(a) => a \in Rivals(b)
         /\ kind \in Remote => \A a \in Clients : Rivals(a) = {}
<1>1. CASE kind = "sops"
  BY <1>1 DEF Rivals, Remote
<1>2. CASE kind = "kdbx"
  BY <1>2 DEF Rivals, Remote
<1>3. CASE kind # "sops" /\ kind # "kdbx"
  BY <1>3 DEF Rivals
<1> QED BY <1>1, <1>2, <1>3

\* The clients after a change of the document.
LEMMA RaceFacts ==
  ASSUME NEW cs \in [Clients -> Call_], NEW w \in Clients \cup {Other}
  PROVE  /\ Race(cs, w) \in [Clients -> Call_]
         /\ \A b \in Clients : (b = w \/ cs[b].at \notin Holds) => Race(cs, w)[b] = cs[b]
         /\ \A b \in Clients :
              /\ Race(cs, w)[b].at = cs[b].at /\ Race(cs, w)[b].seen = cs[b].seen
              /\ Race(cs, w)[b].key = cs[b].key
              /\ b # w /\ cs[b].at \in Holds => Race(cs, w)[b].racers = cs[b].racers \cup {w}
<1> DEFINE R == Race(cs, w)
<1>1. R = [b \in Clients |-> IF b # w /\ cs[b].at \in Holds
                             THEN [cs[b] EXCEPT !.racers = cs[b].racers \cup {w}] ELSE cs[b]]
  BY DEF Race, Holds
<1> HIDE DEF R
<1>2. ASSUME NEW b \in Clients
      PROVE  /\ R[b] \in Call_
             /\ (b = w \/ cs[b].at \notin Holds) => R[b] = cs[b]
             /\ R[b].at = cs[b].at /\ R[b].seen = cs[b].seen /\ R[b].key = cs[b].key
             /\ b # w /\ cs[b].at \in Holds => R[b].racers = cs[b].racers \cup {w}
  <2>1. CASE b # w /\ cs[b].at \in Holds
    <3>1. R[b] = [cs[b] EXCEPT !.racers = cs[b].racers \cup {w}]
      BY <1>1, <1>2, <2>1
    <3>2. cs[b] \in Call_ /\ cs[b].racers \cup {w} \in Racers
      BY CallFields DEF Racers
    <3> QED BY <2>1, <3>1, <3>2 DEF Call_, Racers
  <2>2. CASE ~(b # w /\ cs[b].at \in Holds)
    <3>1. R[b] = cs[b]
      BY <1>1, <1>2, <2>2
    <3> QED BY <2>2, <3>1
  <2> QED BY <2>1, <2>2
<1>3. R \in [Clients -> Call_]
  BY <1>1, <1>2
<1> QED BY <1>2, <1>3 DEF R

----------------------------------------------------------------------------
(* The steps, by what they do to the document and the clients *)

\* One client goes on with c; the document stays.
Moves(a, c) == client' = [client EXCEPT ![a] = c] /\ UNCHANGED <<kind, procOf, doc>>
Fit(a, c) ==
  \/ c.at \in {"idle", "lock"}
  \/ c.at = "read" /\ \A b \in Rivals(a) : ~Holding(b)
  \/ /\ c.at \in Holds /\ client[a].at = "read" /\ c.seen = doc /\ c.racers = {}
     /\ c.at = "create" => kind \in Remote
MoveStep ==
  \E a \in Clients, c \in Call_ : Moves(a, c) /\ Fit(a, c) /\ UNCHANGED <<cache, own>>

\* One client replaces the document by m and goes on with c.
Replaces(a, c, m) ==
  /\ Commits(m) /\ client' = Race([client EXCEPT ![a] = c], a)
  /\ UNCHANGED <<kind, procOf>>
Spares(a, m) ==
  \A k \in Keys :
    m[k] # doc.map[k] => k = client[a].key \/ (kind \in Files /\ client[a].racers \ Rivals(a) # {})
After(a, c, m) ==
  /\ client[a].at \in Holds /\ c.at \in {"idle", "remember", "read"}
  /\ c.at = "read" => kind \in Remote
  /\ c.at = "remember" =>
       c.seen = client[a].seen /\ c.key = client[a].key /\ m = Edited(client[a])
ReplaceStep ==
  \E a \in Clients, c \in Call_, m \in [Keys -> Values] :
    Replaces(a, c, m) /\ After(a, c, m) /\ Spares(a, m) /\ UNCHANGED cache

\* A call begins.
LEMMA BeginMoves ==
  ASSUME DocumentInv, NEW a \in Clients, NEW op \in {"set", "delete"}, NEW k \in Keys, BeginsCall(a, op, k)
  PROVE  MoveStep
<1> DEFINE v == IF op = "set" THEN commands + 1 ELSE None
<1> DEFINE c == [NoCall EXCEPT !.at = "lock", !.op = op, !.key = k, !.left = MaxWriteAttempts, !.val = v]
<1>1. Moves(a, c) /\ UNCHANGED <<cache, own>>
  BY DEF BeginsCall, Steps, Moves
<1>2. v \in Values
  <2>1. commands \in 0..MaxCommands /\ commands < MaxCommands
    BY DEF BeginsCall, DocumentInv, DocumentTypeOK
  <2> QED BY <2>1 DEF Values
<1>3. MaxWriteAttempts \in Lefts
  BY DEF Lefts
<1> HIDE DEF v
<1>4. c \in Call_ /\ c.at = "lock"
  BY <1>2, <1>3, IdleIsCall DEF Call_, Lefts
<1> QED BY <1>1, <1>4 DEF MoveStep, Fit

\* The lock is taken, when no rival has it.
LEMMA AcquireMoves ==
  ASSUME DocumentInv, NEW a \in Clients, AcquireLock(a)
  PROVE  MoveStep
<1> DEFINE c == [client[a] EXCEPT !.at = "read"]
<1>1. Moves(a, c) /\ UNCHANGED <<cache, own>> /\ \A b \in Rivals(a) : ~Holding(b)
  BY DEF AcquireLock, Steps, Moves
<1>2. client[a] \in Call_
  BY DEF DocumentInv, DocumentTypeOK
<1>3. c \in Call_ /\ c.at = "read"
  BY <1>2 DEF Call_
<1> QED BY <1>1, <1>3 DEF MoveStep, Fit

\* A call ends without having changed the document.
LEMMA EndsMoves ==
  ASSUME NEW a \in Clients, Ends(a), UNCHANGED <<kind, procOf, doc, cache, own>>
  PROVE  MoveStep
<1>1. Moves(a, NoCall)
  BY DEF Ends, Steps, Moves
<1> QED BY <1>1, IdleIsCall DEF MoveStep, Fit

\* A file is read.
LEMMA ReadsMoves ==
  ASSUME DocumentInv, NEW a \in Clients, ReadsFile(a)
  PROVE  MoveStep
<1>1. At(a, "read") /\ UNCHANGED <<kind, procOf, doc, cache, own>>
  BY DEF ReadsFile
<1>2. CASE Ends(a)
  BY <1>1, <1>2, EndsMoves
<1>3. CASE Steps(a, [client[a] EXCEPT !.at = "write", !.seen = doc, !.racers = {}])
  <2> DEFINE c == [client[a] EXCEPT !.at = "write", !.seen = doc, !.racers = {}]
  <2>1. client[a] \in Call_ /\ doc \in Doc
    BY DEF DocumentInv, DocumentTypeOK
  <2>2. c \in Call_
    BY <2>1, CallRecords DEF Places, Racers
  <2>3. c.at = "write" /\ c.seen = doc /\ c.racers = {}
    BY <2>1 DEF Call_
  <2>4. Moves(a, c)
    BY <1>1, <1>3 DEF Moves, Steps
  <2> QED BY <1>1, <2>2, <2>3, <2>4 DEF MoveStep, Fit, Holds, At
<1> QED BY <1>2, <1>3 DEF ReadsFile, Fresh

\* A remote document is fetched, with its revision.
LEMMA FetchMoves ==
  ASSUME DocumentInv, NEW a \in Clients, FetchDigitalocean(a) \/ FetchPulumi(a)
  PROVE  MoveStep
<1> DEFINE s == Spend(client[a])
<1>1. At(a, "read") /\ UNCHANGED <<kind, procOf, doc, cache, own>> /\ kind \in Remote
  BY DEF FetchDigitalocean, FetchPulumi, Remote
<1>2. CASE Ends(a)
  BY <1>1, <1>2, EndsMoves
<1>3. CASE Steps(a, [s EXCEPT !.seen = doc, !.racers = {},
                              !.at = IF doc.exists THEN "write" ELSE "create"])
  <2> DEFINE p == IF doc.exists THEN "write" ELSE "create"
  <2> DEFINE c == [s EXCEPT !.seen = doc, !.racers = {}, !.at = p]
  <2>1. client[a] \in Call_ /\ doc \in Doc
    BY DEF DocumentInv, DocumentTypeOK
  <2>2. s \in Call_
    BY <2>1, SpendCall
  <2>3. p \in Places /\ p \in Holds
    BY DEF Places, Holds
  <2> HIDE DEF s, p
  <2>4. c \in Call_ /\ c.at = p /\ c.seen = doc /\ c.racers = {}
    BY <2>1, <2>2, <2>3 DEF Call_, Places
  <2>5. Moves(a, c)
    BY <1>1, <1>3 DEF Moves, Steps, p
  <2> QED BY <1>1, <2>3, <2>4, <2>5 DEF MoveStep, Fit, At
<1> QED BY <1>2, <1>3 DEF FetchDigitalocean, FetchPulumi

\* An operation fails.
LEMMA FailsMoves ==
  ASSUME NEW a \in Clients, CallFails(a)
  PROVE  MoveStep
BY EndsMoves DEF CallFails

\* The next round of a remote call.
LEMMA AgainMoves ==
  ASSUME DocumentInv, NEW a \in Clients, kind \in Remote, Steps(a, [client[a] EXCEPT !.at = "read"]),
         UNCHANGED <<kind, procOf, doc, cache, own>>
  PROVE  MoveStep
<1> DEFINE c == [client[a] EXCEPT !.at = "read"]
<1>1. Moves(a, c)
  BY DEF Steps, Moves
<1>2. client[a] \in Call_ /\ Rivals(a) = {}
  BY RivalFacts DEF DocumentInv, DocumentTypeOK
<1>3. c \in Call_ /\ c.at = "read"
  BY <1>2 DEF Call_
<1> QED BY <1>1, <1>2, <1>3 DEF MoveStep, Fit

\* A file is replaced: what was read is still there, or a racer that no lock
\* excludes has changed it.
LEMMA PersistsReplaces ==
  ASSUME DocumentInv, NEW a \in Clients, kind \in Files, NEW c \in Call_,
         c.at \in {"idle", "remember"},
         c.at = "remember" => c.seen = client[a].seen /\ c.key = client[a].key,
         Persists(a, c)
  PROVE  ReplaceStep
<1> DEFINE m == Edited(client[a])
<1>1. /\ client[a].at = "write" /\ Commits(m) /\ client' = Race([client EXCEPT ![a] = c], a)
      /\ UNCHANGED <<kind, procOf, cache>>
  BY DEF Persists, At
<1>2. client[a] \in Call_ /\ ReadOk(a) /\ LockOk(a)
  BY DEF DocumentInv, DocumentTypeOK, ClientInv, ClientOk
<1>3. m \in [Keys -> Values] /\ \A k \in Keys : k # client[a].key => m[k] = client[a].seen.map[k]
  BY <1>2, EditedMap
<1>4. Spares(a, m)
  <2>1. CASE client[a].racers = {}
    <3>1. client[a].seen = doc
      BY <1>1, <1>2, <2>1 DEF ReadOk, Holds
    <3> QED BY <1>3, <3>1 DEF Spares
  <2>2. CASE client[a].racers # {}
    <3>1. client[a].racers \cap Rivals(a) = {}
      BY <1>1, <1>2 DEF LockOk, Holds
    <3>2. client[a].racers \ Rivals(a) # {}
      BY <2>2, <3>1
    <3> QED BY <3>2 DEF Spares
  <2> QED BY <2>1, <2>2
<1>5. After(a, c, m)
  BY <1>1 DEF After, Holds
<1>6. Replaces(a, c, m)
  BY <1>1 DEF Replaces
<1> QED BY <1>1, <1>3, <1>4, <1>5, <1>6 DEF ReplaceStep

\* The four writers of files.
LEMMA WritersReplace ==
  ASSUME DocumentInv, NEW a \in Clients,
         WriteDotenvStore(a) \/ WriteAgeStore(a) \/ SaveKdbx(a) \/ SetAtomically(a)
  PROVE  ReplaceStep
<1>1. CASE WriteDotenvStore(a)
  <2> DEFINE c == [client[a] EXCEPT !.at = "remember"]
  <2>1. client[a] \in Call_
    BY DEF DocumentInv, DocumentTypeOK
  <2>2. c \in Call_ /\ c.at = "remember" /\ c.seen = client[a].seen /\ c.key = client[a].key
    BY <2>1 DEF Call_
  <2>3. Persists(a, c) /\ kind \in Files
    BY <1>1 DEF WriteDotenvStore, Files
  <2> HIDE DEF c
  <2> QED BY <2>2, <2>3, PersistsReplaces
<1>2. CASE WriteAgeStore(a) \/ SaveKdbx(a) \/ SetAtomically(a)
  <2>1. Persists(a, NoCall) /\ kind \in Files
    BY <1>2 DEF WriteAgeStore, SaveKdbx, SetAtomically, Files
  <2> QED BY <2>1, IdleIsCall, PersistsReplaces
<1> QED BY <1>1, <1>2

\* A remote document is replaced under its revision, whether or not the
\* answer arrives.
LEMMA CurrentReplaces ==
  ASSUME DocumentInv, NEW a \in Clients, client[a].at = "write", Current(client[a]),
         Commits(Edited(client[a])), client' = Race([client EXCEPT ![a] = NoCall], a),
         UNCHANGED <<kind, procOf, cache>>
  PROVE  ReplaceStep
<1> DEFINE m == Edited(client[a])
<1>1. client[a] \in Call_ /\ ReadOk(a)
  BY DEF DocumentInv, DocumentTypeOK, ClientInv, ClientOk
<1>2. m \in [Keys -> Values] /\ \A k \in Keys : k # client[a].key => m[k] = client[a].seen.map[k]
  BY <1>1, EditedMap
<1>3. client[a].seen = doc
  BY <1>1 DEF ReadOk, Current, Holds
<1>4. Spares(a, m)
  BY <1>2, <1>3 DEF Spares
<1>5. After(a, NoCall, m) /\ Replaces(a, NoCall, m)
  BY IdleIsCall DEF After, Replaces, Holds
<1> QED BY <1>2, <1>4, <1>5, IdleIsCall DEF ReplaceStep

\* A replacement that is refused is tried again or ends the call.
LEMMA ReplaceCases ==
  ASSUME DocumentInv, NEW a \in Clients, ReplaceDocument(a) \/ AnswerLost(a)
  PROVE  MoveStep \/ ReplaceStep
<1>1. client[a].at = "write" /\ kind \in Remote /\ UNCHANGED <<kind, procOf, cache>>
  BY DEF ReplaceDocument, AnswerLost, At
<1>2. CASE /\ Current(client[a]) /\ Commits(Edited(client[a]))
           /\ client' = Race([client EXCEPT ![a] = NoCall], a)
  BY <1>1, <1>2, CurrentReplaces
<1>3. CASE Steps(a, [client[a] EXCEPT !.at = "read"]) /\ UNCHANGED <<doc, own>>
  BY <1>1, <1>3, AgainMoves
<1>4. CASE Ends(a) /\ UNCHANGED <<doc, own>>
  BY <1>1, <1>4, EndsMoves
<1> QED BY <1>2, <1>3, <1>4 DEF ReplaceDocument, AnswerLost

\* A document is created: there was nothing in it.
LEMMA CreateCases ==
  ASSUME DocumentInv, NEW a \in Clients, CreateDocument(a)
  PROVE  MoveStep \/ ReplaceStep
<1> DEFINE again == [client[a] EXCEPT !.at = "read"]
<1> DEFINE made == [again EXCEPT !.created = TRUE]
<1>1. /\ client[a].at = "create" /\ UNCHANGED <<kind, procOf, cache>>
      /\ kind \in Remote /\ client[a] \in Call_ /\ AbsentInv
  BY DEF CreateDocument, At, DocumentInv, ClientInv, ClientOk, KindOk, DocumentTypeOK
<1>2. CASE /\ ~doc.exists /\ kind = "digitalocean"
           /\ Commits([Empty EXCEPT ![client[a].key] = client[a].val])
           /\ client' = Race([client EXCEPT ![a] = NoCall], a)
  <2> DEFINE m == [Empty EXCEPT ![client[a].key] = client[a].val]
  <2>1. client[a].key \in Keys /\ client[a].val \in Values
    BY <1>1, CallFields
  <2>2. m \in [Keys -> Values] /\ \A k \in Keys : k # client[a].key => m[k] = Empty[k]
    BY <2>1, IdleIsCall
  <2>3. doc.map = Empty
    BY <1>1, <1>2 DEF AbsentInv
  <2>4. Spares(a, m)
    BY <2>2, <2>3 DEF Spares
  <2>5. After(a, NoCall, m) /\ Replaces(a, NoCall, m)
    BY <1>1, <1>2, IdleIsCall DEF After, Replaces, Holds
  <2> HIDE DEF m
  <2> QED BY <1>1, <2>2, <2>4, <2>5, IdleIsCall DEF ReplaceStep
<1>3. CASE /\ ~doc.exists /\ kind = "pulumi" /\ Commits(Empty)
           /\ client' = Race([client EXCEPT ![a] = made], a)
  <2>1. doc.map = Empty
    BY <1>1, <1>3 DEF AbsentInv
  <2>2. Spares(a, Empty)
    BY <2>1 DEF Spares
  <2>3. again \in Call_ /\ again.at = "read"
    BY <1>1 DEF Call_
  <2>4. made \in Call_ /\ made.at = "read"
    BY <2>3 DEF Call_
  <2> HIDE DEF made, again
  <2>5. After(a, made, Empty) /\ Replaces(a, made, Empty)
    BY <1>1, <1>3, <2>4 DEF After, Replaces, Holds
  <2> QED BY <1>1, <2>2, <2>4, <2>5, IdleIsCall DEF ReplaceStep
<1>4. CASE Steps(a, again) /\ UNCHANGED <<doc, own>>
  BY <1>1, <1>4, AgainMoves
<1>5. CASE Ends(a) /\ UNCHANGED <<doc, own>>
  BY <1>1, <1>5, EndsMoves
<1> QED BY <1>2, <1>3, <1>4, <1>5 DEF CreateDocument

\* Every step is one of six.
LEMMA NextCases ==
  ASSUME DocumentInv, DocumentNext
  PROVE  \/ MoveStep \/ ReplaceStep \/ OtherProgram
         \/ \E a \in Clients : RememberWritten(a) \/ LoadCache(a)
         \/ \E p \in Procs : Crash(p)
<1>1. ASSUME NEW a \in Clients, Call(a), ~RememberWritten(a) PROVE MoveStep \/ ReplaceStep
  BY <1>1, AcquireMoves, ReadsMoves, FetchMoves, WritersReplace, ReplaceCases, CreateCases
     DEF Call, FreshStore, LoadAge, LoadKdbx, CopyEncrypted
<1>2. ASSUME NEW a \in Clients, AnswerLost(a) \/ CallFails(a) PROVE MoveStep \/ ReplaceStep
  BY <1>2, ReplaceCases, FailsMoves
<1>3. ASSUME NEW a \in Clients, NEW op \in {"set", "delete"}, NEW k \in Keys, BeginsCall(a, op, k)
      PROVE  MoveStep
  BY <1>3, BeginMoves
<1> QED BY <1>1, <1>2, <1>3 DEF DocumentNext

----------------------------------------------------------------------------
(* What the steps keep *)

Owns == [Clients -> [Keys -> Values \cup {Unset}]]

\* What a change of the document leaves of the history.
LEMMA ForgetFacts ==
  ASSUME DocumentTypeOK, NEW m, Forget(m)
  PROVE  /\ own' \in Owns
         /\ \A a \in Clients, k \in Keys :
              own'[a][k] # Unset => own'[a][k] = own[a][k] /\ m[k] = doc.map[k]
BY DEF DocumentTypeOK, Forget, Owns

\* The document after a change.
LEMMA CommitFacts ==
  ASSUME DocumentTypeOK, NEW m \in [Keys -> Values], Commits(m)
  PROVE  /\ doc' \in Doc /\ doc'.exists /\ doc'.map = m /\ doc'.rev = doc.rev + 1
         /\ doc.rev \in Nat /\ Forget(m)
<1>1. doc.rev \in Nat
  BY DEF DocumentTypeOK, Doc
<1>2. doc' = [exists |-> TRUE, map |-> m, rev |-> doc.rev + 1] /\ Forget(m)
  BY DEF Commits
<1> QED BY <1>1, <1>2 DEF Doc

\* The clients after a move.
LEMMA MoveFacts ==
  ASSUME DocumentTypeOK, NEW a \in Clients, NEW c \in Call_, Moves(a, c)
  PROVE  /\ client' \in [Clients -> Call_] /\ client'[a] = c
         /\ \A b \in Clients : b # a => client'[b] = client[b]
         /\ \A b \in Clients : Rivals(b)' = Rivals(b)
BY DEF DocumentTypeOK, Moves, Rivals

\* The clients after a replacement.
LEMMA ReplaceFacts ==
  ASSUME DocumentTypeOK, NEW a \in Clients, NEW c \in Call_, NEW m \in [Keys -> Values], Replaces(a, c, m)
  PROVE  /\ client' \in [Clients -> Call_] /\ client'[a] = c
         /\ \A b \in Clients : b # a =>
              /\ client'[b].at = client[b].at /\ client'[b].seen = client[b].seen
              /\ client'[b].key = client[b].key
              /\ client[b].at \in Holds => client'[b].racers = client[b].racers \cup {a}
         /\ \A b \in Clients : Rivals(b)' = Rivals(b)
<1> DEFINE cs == [client EXCEPT ![a] = c]
<1>1. cs \in [Clients -> Call_] /\ cs[a] = c /\ \A b \in Clients : b # a => cs[b] = client[b]
  BY DEF DocumentTypeOK
<1>2. client' = Race(cs, a)
  BY DEF Replaces
<1> HIDE DEF cs
<1>3. \A b \in Clients : Rivals(b)' = Rivals(b)
  BY DEF Replaces, Rivals
<1>4. client' \in [Clients -> Call_] /\ client'[a] = c
  BY <1>1, <1>2, RaceFacts
<1>5. ASSUME NEW b \in Clients, b # a
      PROVE  /\ client'[b].at = client[b].at /\ client'[b].seen = client[b].seen
             /\ client'[b].key = client[b].key
             /\ client[b].at \in Holds => client'[b].racers = client[b].racers \cup {a}
  BY <1>1, <1>2, <1>5, RaceFacts
<1> QED BY <1>3, <1>4, <1>5

\* A move keeps what is known of the copies and the locks.
LEMMA MoveKeeps ==
  ASSUME DocumentInv, NEW a \in Clients, NEW c \in Call_, Moves(a, c), Fit(a, c)
  PROVE  \A b \in Clients : ReadOk(b)' /\ LockOk(b)' /\ KindOk(b)'
<1>1. DocumentTypeOK /\ (\A b \in Clients : ClientOk(b)) /\ doc' = doc /\ kind' = kind
  BY DEF DocumentInv, ClientInv, Moves
<1>2. /\ client'[a] = c /\ \A b \in Clients : b # a => client'[b] = client[b]
      /\ \A b \in Clients : Rivals(b)' = Rivals(b)
  BY <1>1, MoveFacts
<1>3. /\ \A b \in Clients : Rivals(b) \subseteq Clients /\ b \notin Rivals(b)
      /\ \A b, d \in Clients : d \in Rivals(b) => b \in Rivals(d)
      /\ doc.rev \in Nat
  BY <1>1, RivalFacts DEF DocumentTypeOK, Doc
<1>4. Holding(a)' => \A b \in Rivals(a) : ~Holding(b)
  <2>1. Holding(a)' => c.at \in {"read", "write"}
    BY <1>2 DEF Holding
  <2>2. CASE c.at = "read"
    BY <2>2 DEF Fit, Holds
  <2>3. CASE c.at = "write"
    <3>1. client[a].at = "read" /\ LockOk(a)
      BY <1>1, <2>3 DEF Fit, ClientOk
    <3> QED BY <3>1 DEF LockOk, Holding
  <2> QED BY <2>1, <2>2, <2>3
<1>5. ASSUME NEW b \in Clients PROVE ReadOk(b)' /\ KindOk(b)'
  <2>1. CASE b = a
    BY <1>1, <1>2, <1>3, <2>1 DEF Fit, ReadOk, KindOk, Holds
  <2>2. CASE b # a
    BY <1>1, <1>2, <2>2 DEF ClientOk, ReadOk, KindOk
  <2> QED BY <2>1, <2>2
<1>6. ASSUME NEW b \in Clients PROVE LockOk(b)'
  <2>1. ASSUME NEW d \in Rivals(b), Holding(b)', Holding(d)' PROVE FALSE
    <3>1. d \in Clients /\ d # b /\ b \in Rivals(d)
      BY <1>3, <2>1
    <3>2. CASE b = a
      BY <1>2, <1>4, <2>1, <3>1, <3>2 DEF Holding
    <3>3. CASE d = a
      BY <1>2, <1>4, <2>1, <3>1, <3>3 DEF Holding
    <3>4. CASE b # a /\ d # a
      BY <1>1, <1>2, <2>1, <3>1, <3>4 DEF Holding, ClientOk, LockOk
    <3> QED BY <3>2, <3>3, <3>4
  <2>2. client'[b].at \in Holds => client'[b].racers \cap Rivals(b) = {}
    <3>1. CASE b = a
      BY <1>2, <3>1 DEF Fit, Holds
    <3>2. CASE b # a
      BY <1>1, <1>2, <3>2 DEF ClientOk, LockOk
    <3> QED BY <3>1, <3>2
  <2> QED BY <1>2, <2>1, <2>2 DEF LockOk
<1> QED BY <1>5, <1>6

\* A replacement makes every other copy old, and meets no rival.
LEMMA ReplaceKeeps ==
  ASSUME DocumentInv, NEW a \in Clients, NEW c \in Call_, NEW m \in [Keys -> Values],
         Replaces(a, c, m), After(a, c, m)
  PROVE  \A b \in Clients : ReadOk(b)' /\ LockOk(b)' /\ KindOk(b)'
<1>1. DocumentTypeOK /\ (\A b \in Clients : ClientOk(b)) /\ kind' = kind /\ Commits(m)
  BY DEF DocumentInv, ClientInv, Replaces
<1>2. /\ client'[a] = c
      /\ \A b \in Clients : b # a =>
           /\ client'[b].at = client[b].at /\ client'[b].seen = client[b].seen
           /\ client[b].at \in Holds => client'[b].racers = client[b].racers \cup {a}
      /\ \A b \in Clients : Rivals(b)' = Rivals(b)
  BY <1>1, ReplaceFacts
<1>3. /\ \A b \in Clients : Rivals(b) \subseteq Clients /\ b \notin Rivals(b)
      /\ \A b, d \in Clients : d \in Rivals(b) => b \in Rivals(d)
      /\ kind \in Remote => \A b \in Clients : Rivals(b) = {}
  BY <1>1, RivalFacts
<1>4. doc.rev \in Nat /\ doc'.rev = doc.rev + 1
  BY <1>1, CommitFacts
<1>5. c.at \notin Holds /\ (kind \notin Remote => c.at \notin {"read", "write"})
  BY DEF After, Holds
<1>6. ASSUME NEW b \in Clients PROVE ReadOk(b)' /\ KindOk(b)'
  <2>1. CASE b = a
    BY <1>2, <1>5, <2>1 DEF ReadOk, KindOk, Holds
  <2>2. CASE b # a
    <3>1. KindOk(b)'
      BY <1>1, <1>2, <2>2 DEF ClientOk, KindOk
    <3>2. ASSUME client'[b].at \in Holds
          PROVE  /\ client'[b].seen.rev <= doc'.rev /\ client'[b].seen.rev # doc'.rev
                 /\ client'[b].racers # {}
      <4>1. client[b].at \in Holds /\ client[b].seen.rev <= doc.rev /\ client[b].seen.rev \in Nat
        BY <1>1, <1>2, <2>2, <3>2, CallFields DEF ClientOk, ReadOk, DocumentTypeOK
      <4> QED BY <1>2, <1>4, <2>2, <4>1
    <3> QED BY <3>1, <3>2 DEF ReadOk
  <2> QED BY <2>1, <2>2
<1>7. ASSUME NEW b \in Clients PROVE LockOk(b)'
  <2>1. CASE kind \in Remote
    BY <1>2, <1>3, <2>1 DEF LockOk
  <2>2. CASE kind \notin Remote
    <3>1. client[a].at = "write"
      BY <1>1, <2>2 DEF After, Holds, ClientOk, KindOk
    <3>2. ASSUME NEW d \in Rivals(b), Holding(b)', Holding(d)' PROVE FALSE
      <4>1. d \in Clients /\ b # a /\ d # a
        BY <1>2, <1>3, <1>5, <2>2, <3>2 DEF Holding
      <4> QED BY <1>1, <1>2, <3>2, <4>1 DEF Holding, ClientOk, LockOk
    <3>3. ASSUME client'[b].at \in Holds PROVE client'[b].racers \cap Rivals(b) = {}
      <4>1. b # a /\ client[b].at \in Holds
        BY <1>2, <1>5, <3>3
      <4>2. client[b].at = "write"
        BY <1>1, <2>2, <4>1 DEF ClientOk, KindOk, Holds
      <4>3. a \notin Rivals(b)
        BY <1>1, <3>1, <4>2 DEF ClientOk, LockOk, Holding
      <4>4. client[b].racers \cap Rivals(b) = {}
        BY <1>1, <4>1 DEF ClientOk, LockOk
      <4> QED BY <1>2, <4>1, <4>3, <4>4
    <3> QED BY <1>2, <3>2, <3>3 DEF LockOk
  <2> QED BY <2>1, <2>2
<1> QED BY <1>6, <1>7

\* Another program's write makes every copy old, and is nobody's rival.
LEMMA OutsideFacts ==
  ASSUME DocumentTypeOK, OtherProgram
  PROVE  /\ doc' \in Doc /\ doc'.rev = doc.rev + 1 /\ doc.rev \in Nat
         /\ ~doc'.exists => doc'.map = Empty
         /\ Forget(doc'.map) /\ own' \in Owns
         /\ client' = Race(client, Other) /\ client' \in [Clients -> Call_]
         /\ UNCHANGED <<kind, procOf, cache, commands>>
<1>1. client' = Race(client, Other) /\ UNCHANGED <<kind, procOf, cache, commands>>
  BY DEF OtherProgram
<1>2. client' \in [Clients -> Call_]
  BY <1>1, RaceFacts DEF DocumentTypeOK
<1>3. doc \in Doc /\ doc.rev \in Nat /\ doc.map \in [Keys -> Values]
  BY DEF DocumentTypeOK, Doc
<1>4. CASE \E k \in Keys : Commits([doc.map EXCEPT ![k] = MaxCommands + mishaps + 1])
  <2>1. PICK k \in Keys : Commits([doc.map EXCEPT ![k] = MaxCommands + mishaps + 1])
    BY <1>4
  <2>2. MaxCommands + mishaps + 1 \in Values
    BY DEF OtherProgram, Mishap, DocumentTypeOK, Values
  <2> DEFINE m == [doc.map EXCEPT ![k] = MaxCommands + mishaps + 1]
  <2>3. m \in [Keys -> Values]
    BY <1>3, <2>2
  <2> HIDE DEF m
  <2>4. Commits(m)
    BY <2>1 DEF m
  <2> QED BY <1>1, <1>2, <1>3, <2>3, <2>4, CommitFacts, ForgetFacts
<1>5. CASE doc' = [Absent EXCEPT !.rev = doc.rev + 1] /\ Forget(Empty)
  <2>1. doc' = [exists |-> FALSE, map |-> Empty, rev |-> doc.rev + 1]
    BY <1>5 DEF Absent
  <2>2. Empty \in [Keys -> Values] /\ doc.rev + 1 \in Nat
    BY <1>3, IdleIsCall
  <2>3. doc' \in Doc /\ doc'.map = Empty /\ doc'.rev = doc.rev + 1
    BY <2>1, <2>2 DEF Doc
  <2> QED BY <1>1, <1>2, <1>3, <1>5, <2>3, ForgetFacts
<1> QED BY <1>4, <1>5 DEF OtherProgram

\* So the copies and the locks stay as the invariant has them.
LEMMA OutsideKeeps ==
  ASSUME DocumentInv, OtherProgram
  PROVE  \A b \in Clients : ReadOk(b)' /\ LockOk(b)' /\ KindOk(b)'
<1>1. DocumentTypeOK /\ \A b \in Clients : ClientOk(b)
  BY DEF DocumentInv, ClientInv
<1>2. /\ doc'.rev = doc.rev + 1 /\ doc.rev \in Nat /\ client' = Race(client, Other)
      /\ UNCHANGED <<kind, procOf>>
  BY <1>1, OutsideFacts
<1>3. ASSUME NEW b \in Clients
      PROVE  /\ client'[b].at = client[b].at /\ client'[b].seen = client[b].seen
             /\ client[b].at \in Holds => client'[b].racers = client[b].racers \cup {Other}
             /\ Rivals(b)' = Rivals(b)
  <2>1. client \in [Clients -> Call_] /\ b # Other
    BY <1>1 DEF DocumentTypeOK, Other
  <2>2. Rivals(b)' = Rivals(b)
    BY <1>2 DEF Rivals
  <2> QED BY <1>2, <2>1, <2>2, RaceFacts
<1>4. \A b \in Clients : Rivals(b) \subseteq Clients /\ Other \notin Rivals(b)
  BY <1>1, RivalFacts DEF Other
<1>5. ASSUME NEW b \in Clients PROVE ReadOk(b)' /\ KindOk(b)'
  <2>1. KindOk(b)'
    BY <1>1, <1>2, <1>3 DEF ClientOk, KindOk
  <2>2. ASSUME client'[b].at \in Holds
        PROVE  /\ client'[b].seen.rev <= doc'.rev /\ client'[b].seen.rev # doc'.rev
               /\ client'[b].racers # {}
    <3>1. client[b].at \in Holds /\ client[b].seen.rev <= doc.rev /\ client[b].seen.rev \in Nat
      BY <1>1, <1>3, <2>2, CallFields DEF ClientOk, ReadOk, DocumentTypeOK
    <3> QED BY <1>2, <1>3, <3>1
  <2> QED BY <2>1, <2>2 DEF ReadOk
<1>6. ASSUME NEW b \in Clients PROVE LockOk(b)'
  <2>1. \A d \in Rivals(b) : ~(Holding(b)' /\ Holding(d)')
    BY <1>1, <1>3, <1>4 DEF Holding, ClientOk, LockOk
  <2>2. client'[b].at \in Holds => client'[b].racers \cap Rivals(b) = {}
    BY <1>1, <1>3, <1>4 DEF ClientOk, LockOk
  <2> QED BY <1>3, <2>1, <2>2 DEF LockOk
<1> QED BY <1>5, <1>6

\* Clients that end and clients that stay, over the same document.
LEMMA IdlingKeeps ==
  ASSUME DocumentInv, UNCHANGED <<kind, procOf, doc>>,
         \A b \in Clients : client'[b] = NoCall \/ client'[b] = client[b]
  PROVE  \A b \in Clients : ReadOk(b)' /\ LockOk(b)' /\ KindOk(b)'
<1>1. DocumentTypeOK /\ \A b \in Clients : ClientOk(b)
  BY DEF DocumentInv, ClientInv
<1>2. \A b \in Clients : Rivals(b)' = Rivals(b) /\ Rivals(b) \subseteq Clients
  BY <1>1, RivalFacts DEF Rivals
<1>3. ASSUME NEW b \in Clients PROVE ReadOk(b)' /\ KindOk(b)'
  <2>1. CASE client'[b] = NoCall
    BY <2>1, IdleIsCall DEF ReadOk, KindOk, Holds
  <2>2. CASE client'[b] = client[b]
    BY <1>1, <2>2 DEF ClientOk, ReadOk, KindOk
  <2> QED BY <2>1, <2>2
<1>4. ASSUME NEW b \in Clients PROVE LockOk(b)'
  <2>1. \A d \in Clients : Holding(d)' => Holding(d)
    BY IdleIsCall DEF Holding
  <2>2. \A d \in Rivals(b) : ~(Holding(b)' /\ Holding(d)')
    BY <1>1, <1>2, <2>1 DEF ClientOk, LockOk
  <2>3. client'[b].at \in Holds => client'[b].racers \cap Rivals(b) = {}
    BY <1>1, IdleIsCall DEF ClientOk, LockOk, Holds
  <2> QED BY <1>2, <2>2, <2>3 DEF LockOk
<1> QED BY <1>3, <1>4

\* Steps of the instance's cache, and crashes, are of that form.
LEMMA RestKeeps ==
  ASSUME DocumentInv, \/ \E a \in Clients : RememberWritten(a) \/ LoadCache(a)
               \/ \E p \in Procs : Crash(p)
  PROVE  \A b \in Clients : ReadOk(b)' /\ LockOk(b)' /\ KindOk(b)'
<1>1. client \in [Clients -> Call_]
  BY DEF DocumentInv, DocumentTypeOK
<1>2. UNCHANGED <<kind, procOf, doc>>
  BY DEF RememberWritten, LoadCache, Crash
<1>3. \A b \in Clients : client'[b] = NoCall \/ client'[b] = client[b]
  BY <1>1 DEF RememberWritten, LoadCache, Crash, Ends, Steps
<1> QED BY <1>2, <1>3, IdlingKeeps

\* The copies and the locks, after every step.
LEMMA CopiesStep ==
  ASSUME DocumentInv, DocumentNext
  PROVE  \A b \in Clients : ReadOk(b)' /\ LockOk(b)' /\ KindOk(b)'
<1>1. CASE MoveStep
  BY <1>1, MoveKeeps DEF MoveStep
<1>2. CASE ReplaceStep
  BY <1>2, ReplaceKeeps DEF ReplaceStep
<1> QED BY <1>1, <1>2, OutsideKeeps, RestKeeps, NextCases

----------------------------------------------------------------------------
(* What a client stored last *)

\* The history after every step.
LEMMA OwnStep ==
  ASSUME DocumentInv, DocumentNext
  PROVE  (\A b \in Clients : OwnOk(b)') /\ OwnWritesVisible' /\ own' \in Owns
<1>0. /\ DocumentTypeOK /\ (\A b \in Clients : OwnOk(b)) /\ OwnWritesVisible /\ own \in Owns
      /\ client \in [Clients -> Call_] /\ NoCall.at = "idle"
  BY IdleIsCall DEF DocumentInv, ClientInv, ClientOk, DocumentTypeOK, Owns
<1>1. CASE MoveStep
  <2>1. PICK a \in Clients, c \in Call_ : Moves(a, c) /\ Fit(a, c) /\ UNCHANGED <<cache, own>>
    BY <1>1 DEF MoveStep
  <2>2. /\ client'[a] = c /\ (\A b \in Clients : b # a => client'[b] = client[b])
        /\ doc' = doc /\ c.at # "remember"
    BY <1>0, <2>1, MoveFacts DEF Moves, Fit, Holds
  <2>3. ASSUME NEW b \in Clients PROVE OwnOk(b)'
    BY <1>0, <2>1, <2>2 DEF OwnOk
  <2>4. OwnWritesVisible'
    BY <1>0, <2>1 DEF OwnWritesVisible
  <2> QED BY <1>0, <2>1, <2>3, <2>4
<1>2. CASE ReplaceStep
  <2>1. PICK a \in Clients, c \in Call_, m \in [Keys -> Values] :
               Replaces(a, c, m) /\ After(a, c, m) /\ UNCHANGED cache
    BY <1>2 DEF ReplaceStep
  <2>2. /\ client'[a] = c
        /\ \A b \in Clients : b # a =>
             /\ client'[b].at = client[b].at /\ client'[b].seen = client[b].seen
             /\ client'[b].key = client[b].key
        /\ doc'.map = m /\ Forget(m)
    BY ZenonT(60), <1>0, <2>1, ReplaceFacts, CommitFacts DEF Replaces
  <2>3. /\ own' \in Owns
        /\ \A b \in Clients, k \in Keys :
             own'[b][k] # Unset => own'[b][k] = own[b][k] /\ m[k] = doc.map[k]
    BY <1>0, <2>2, ForgetFacts
  <2>4. ASSUME NEW b \in Clients, NEW k \in Keys, own'[b][k] # Unset
        PROVE  /\ own'[b][k] = doc'.map[k]
               /\ client'[b].at = "remember" /\ k # client'[b].key => client'[b].seen.map[k] = own'[b][k]
    <3>1. own'[b][k] = own[b][k] /\ m[k] = doc.map[k] /\ own[b][k] = doc.map[k]
      BY <1>0, <2>3, <2>4 DEF OwnOk
    <3>2. CASE b = a
      <4>1. ASSUME c.at = "remember", k # c.key PROVE c.seen.map[k] = own'[b][k]
        <5>1. c.seen = client[a].seen /\ c.key = client[a].key /\ m = Edited(client[a])
          BY <2>1, <4>1 DEF After
        <5>2. m[k] = client[a].seen.map[k]
          BY <1>0, <4>1, <5>1, EditedMap
        <5> QED BY <3>1, <5>1, <5>2
      <4> QED BY <2>2, <3>1, <3>2, <4>1
    <3>3. CASE b # a
      BY <1>0, <2>2, <2>4, <3>1, <3>3 DEF OwnOk
    <3> QED BY <3>2, <3>3
  <2>5. \A b \in Clients : OwnOk(b)'
    BY <2>4 DEF OwnOk
  <2>6. OwnWritesVisible'
    BY <1>0, <2>1, <2>3 DEF OwnWritesVisible
  <2> QED BY <2>3, <2>5, <2>6
<1>3. CASE OtherProgram
  <2>1. /\ Forget(doc'.map) /\ own' \in Owns /\ client' = Race(client, Other) /\ cache' = cache
    BY <1>0, <1>3, OutsideFacts
  <2>2. \A b \in Clients : /\ client'[b].at = client[b].at /\ client'[b].seen = client[b].seen
                           /\ client'[b].key = client[b].key
    BY <1>0, <2>1, RaceFacts
  <2>3. \A b \in Clients, k \in Keys :
          own'[b][k] # Unset => own'[b][k] = own[b][k] /\ doc'.map[k] = doc.map[k]
    BY <1>0, <2>1, ForgetFacts
  <2>4. ASSUME NEW b \in Clients PROVE OwnOk(b)'
    BY <1>0, <2>2, <2>3 DEF OwnOk
  <2>5. OwnWritesVisible'
    BY <1>0, <2>1, <2>3 DEF OwnWritesVisible
  <2> QED BY <2>1, <2>4, <2>5
<1>4. ASSUME NEW a \in Clients, LoadCache(a)
      PROVE  (\A b \in Clients : OwnOk(b)') /\ OwnWritesVisible' /\ own' \in Owns
  <2>1. own' = own /\ client' = client /\ doc' = doc /\ ~cache[a].loaded
    BY <1>4 DEF LoadCache
  <2>2. \A b \in Clients : b # a => cache'[b] = cache[b]
    BY <1>0, <1>4 DEF LoadCache, DocumentTypeOK
  <2>3. \A k \in Keys : own[a][k] = Unset
    BY <1>0, <2>1 DEF OwnWritesVisible
  <2>4. OwnWritesVisible'
    BY <1>0, <2>1, <2>2, <2>3 DEF OwnWritesVisible
  <2>5. ASSUME NEW b \in Clients PROVE OwnOk(b)'
    BY <1>0, <2>1 DEF OwnOk
  <2> QED BY <1>0, <2>1, <2>4, <2>5
<1>5. ASSUME NEW a \in Clients, RememberWritten(a)
      PROVE  (\A b \in Clients : OwnOk(b)') /\ OwnWritesVisible' /\ own' \in Owns
  <2> DEFINE c == client[a]
  <2> DEFINE v == IF doc.map[c.key] = c.val THEN c.val ELSE Unset
  <2>1. /\ c.at = "remember" /\ c \in Call_ /\ doc' = doc /\ c.key \in Keys /\ c.val \in Values
    BY <1>0, <1>5, CallFields DEF RememberWritten, At
  <2>2. /\ client'[a] = NoCall /\ \A b \in Clients : b # a => client'[b] = client[b]
    BY <1>0, <1>5 DEF RememberWritten, Ends, Steps
  <2>3. own' = [own EXCEPT ![a] = [own[a] EXCEPT ![c.key] = v]] /\ own[a] \in [Keys -> Values \cup {Unset}]
    BY <1>0, <1>5 DEF RememberWritten, Owns
  <2>4. v \in Values \cup {Unset}
    BY <2>1
  <2>5. [own[a] EXCEPT ![c.key] = v] \in [Keys -> Values \cup {Unset}]
    BY <2>3, <2>4
  <2>6. own' \in Owns
    BY <1>0, <2>3, <2>5 DEF Owns
  <2>7. /\ \A b \in Clients : b # a => own'[b] = own[b]
        /\ own'[a] = [own[a] EXCEPT ![c.key] = v]
    BY <1>0, <2>3 DEF Owns
  <2>8. own'[a][c.key] = v /\ \A k \in Keys : k # c.key => own'[a][k] = own[a][k]
    BY <2>1, <2>3, <2>7
  <2>9. ASSUME NEW b \in Clients PROVE OwnOk(b)'
    <3>1. CASE b = a
      BY <1>0, <2>1, <2>2, <2>8, <3>1 DEF OwnOk
    <3>2. CASE b # a
      BY <1>0, <2>1, <2>2, <2>7, <3>2 DEF OwnOk
    <3> QED BY <3>1, <3>2
  <2>10. /\ \A b \in Clients : b # a => cache'[b] = cache[b]
         /\ cache'[a].loaded /\ cache'[a].map = Edited(c)
    BY <1>0, <1>5 DEF RememberWritten, DocumentTypeOK
  <2>11. OwnWritesVisible'
    <3>1. ASSUME NEW k \in Keys, own'[a][k] # Unset PROVE cache'[a].map[k] = own'[a][k]
      <4>1. CASE k = c.key
        BY <2>1, <2>8, <2>10, <3>1, <4>1, EditedMap
      <4>2. CASE k # c.key
        BY <1>0, <2>1, <2>8, <2>10, <3>1, <4>2, EditedMap DEF OwnOk
      <4> QED BY <4>1, <4>2
    <3>2. ASSUME NEW b \in Clients, NEW k \in Keys, own'[b][k] # Unset
          PROVE  cache'[b].loaded /\ cache'[b].map[k] = own'[b][k]
      <4>1. CASE b = a
        BY <2>10, <3>1, <3>2, <4>1
      <4>2. CASE b # a
        BY <1>0, <2>7, <2>10, <3>2, <4>2 DEF OwnWritesVisible
      <4> QED BY <4>1, <4>2
    <3> QED BY <3>2 DEF OwnWritesVisible
  <2> QED BY <2>6, <2>9, <2>11
<1>6. ASSUME NEW p \in Procs, Crash(p)
      PROVE  (\A b \in Clients : OwnOk(b)') /\ OwnWritesVisible' /\ own' \in Owns
  <2>1. doc' = doc
    BY <1>6 DEF Crash
  <2>2. \A b \in Clients : procOf[b] # p =>
          client'[b] = client[b] /\ cache'[b] = cache[b] /\ own'[b] = own[b]
    BY <1>6 DEF Crash
  <2>3. \A b \in Clients : procOf[b] = p => client'[b] = NoCall /\ own'[b] = [k \in Keys |-> Unset]
    BY <1>6 DEF Crash
  <2>4. own' \in Owns
    BY <1>0, <1>6 DEF Crash, Owns
  <2>5. ASSUME NEW b \in Clients PROVE OwnOk(b)'
    BY <1>0, <2>1, <2>2, <2>3 DEF OwnOk
  <2>6. OwnWritesVisible'
    BY <1>0, <2>2, <2>3 DEF OwnWritesVisible
  <2> QED BY <2>4, <2>5, <2>6
<1> QED BY <1>1, <1>2, <1>3, <1>4, <1>5, <1>6, NextCases

----------------------------------------------------------------------------
(* The theorems *)

\* A document that does not exist holds nothing, and keeps its types.
LEMMA DocumentStep ==
  ASSUME DocumentInv, DocumentNext
  PROVE  AbsentInv' /\ doc' \in Doc /\ client' \in [Clients -> Call_] /\ UNCHANGED <<kind, procOf>>
<1>0. DocumentTypeOK /\ AbsentInv /\ doc \in Doc /\ client \in [Clients -> Call_]
  BY DEF DocumentInv, DocumentTypeOK
<1>1. CASE MoveStep
  BY <1>0, <1>1, MoveFacts DEF MoveStep, Moves, AbsentInv
<1>2. CASE ReplaceStep
  BY <1>0, <1>2, ReplaceFacts, CommitFacts DEF ReplaceStep, Replaces, AbsentInv
<1>3. CASE OtherProgram
  BY <1>0, <1>3, OutsideFacts DEF AbsentInv
<1>4. CASE (\E a \in Clients : RememberWritten(a) \/ LoadCache(a)) \/ \E p \in Procs : Crash(p)
  <2>1. UNCHANGED <<kind, procOf, doc>>
    BY <1>4 DEF RememberWritten, LoadCache, Crash
  <2>2. client' \in [Clients -> Call_]
    BY <1>0, <1>4, IdleIsCall DEF RememberWritten, LoadCache, Crash, Ends, Steps
  <2> QED BY <1>0, <2>1, <2>2 DEF AbsentInv
<1> QED BY <1>1, <1>2, <1>3, <1>4, NextCases

\* The bounds of the calls and the mishaps, and the caches of the instances.
LEMMA CountersStep ==
  ASSUME DocumentInv, DocumentNext
  PROVE  /\ commands' \in 0..MaxCommands /\ mishaps' \in 0..MaxMishaps
         /\ cache' \in [Clients -> [loaded : BOOLEAN, map : [Keys -> Values]]]
<1>0. DocumentTypeOK
  BY DEF DocumentInv
<1>1. commands' \in 0..MaxCommands
  <2>1. commands' = commands \/ (commands < MaxCommands /\ commands' = commands + 1)
    BY ZenonT(60) DEF DocumentNext, Call, AcquireLock, FreshStore, LoadAge, LoadKdbx, CopyEncrypted, ReadsFile,
           WriteDotenvStore, RememberWritten, WriteAgeStore, SaveKdbx, SetAtomically, Persists,
           FetchDigitalocean, FetchPulumi, CreateDocument, ReplaceDocument, LoadCache, AnswerLost,
           CallFails, BeginsCall, Crash, OtherProgram
  <2> QED BY <1>0, <2>1 DEF DocumentTypeOK
<1>2. mishaps' \in 0..MaxMishaps
  <2>1. mishaps' = mishaps \/ (mishaps < MaxMishaps /\ mishaps' = mishaps + 1)
    BY ZenonT(60) DEF DocumentNext, Call, AcquireLock, FreshStore, LoadAge, LoadKdbx, CopyEncrypted, ReadsFile,
           WriteDotenvStore, RememberWritten, WriteAgeStore, SaveKdbx, SetAtomically, Persists,
           FetchDigitalocean, FetchPulumi, CreateDocument, ReplaceDocument, LoadCache, AnswerLost,
           CallFails, BeginsCall, Crash, OtherProgram, Quiet, Mishap
  <2> QED BY <1>0, <2>1 DEF DocumentTypeOK
<1>3. cache' \in [Clients -> [loaded : BOOLEAN, map : [Keys -> Values]]]
  <2> DEFINE Cached == [loaded : BOOLEAN, map : [Keys -> Values]]
  <2>1. cache \in [Clients -> Cached] /\ doc.map \in [Keys -> Values] /\ Unloaded \in Cached
    BY <1>0, IdleIsCall DEF DocumentTypeOK, Doc, Unloaded
  <2>2. ASSUME NEW a \in Clients PROVE [loaded |-> TRUE, map |-> Edited(client[a])] \in Cached
    <3>1. client[a] \in Call_
      BY <1>0 DEF DocumentTypeOK
    <3> QED BY <3>1, EditedMap
  <2>3. [loaded |-> TRUE, map |-> doc.map] \in Cached
    BY <2>1
  <2> HIDE DEF Cached
  <2>4. ASSUME MoveStep \/ ReplaceStep \/ OtherProgram PROVE cache' \in [Clients -> Cached]
    BY <2>1, <2>4 DEF MoveStep, ReplaceStep, OtherProgram
  <2>5. ASSUME NEW a \in Clients, RememberWritten(a) \/ LoadCache(a) PROVE cache' \in [Clients -> Cached]
    BY <2>1, <2>2, <2>3, <2>5 DEF RememberWritten, LoadCache
  <2>6. ASSUME NEW p \in Procs, Crash(p) PROVE cache' \in [Clients -> Cached]
    BY <2>1, <2>6 DEF Crash
  <2>7. cache' \in [Clients -> Cached]
    BY <2>4, <2>5, <2>6, NextCases
  <2> QED BY <2>7 DEF Cached
<1> QED BY <1>1, <1>2, <1>3

\* Before the first call there is no document.
LEMMA StartsAbsent == DocumentInit => DocumentInv
<1> SUFFICES ASSUME DocumentInit PROVE DocumentInv
  OBVIOUS
<1>1. /\ doc = Absent /\ (\A a \in Clients : client[a] = NoCall)
      /\ \A a \in Clients, k \in Keys : own[a][k] = Unset
  BY DEF DocumentInit
<1>2. DocumentTypeOK
  BY IdleIsCall DEF DocumentInit, DocumentTypeOK, Unloaded
<1>3. ASSUME NEW a \in Clients PROVE ClientOk(a)
  <2>1. client[a].at = "idle"
    BY <1>1, IdleIsCall
  <2>2. \A b \in Rivals(a) : ~(Holding(a) /\ Holding(b))
    BY <2>1 DEF Holding
  <2> QED BY <1>1, <2>1, <2>2 DEF ClientOk, ReadOk, LockOk, KindOk, OwnOk, Holds
<1>4. AbsentInv
  BY <1>1 DEF AbsentInv, Absent
<1>5. OwnWritesVisible
  BY <1>1 DEF OwnWritesVisible
<1> QED BY <1>2, <1>3, <1>4, <1>5 DEF DocumentInv, ClientInv

\* Nothing changes in a stuttering step.
LEMMA Stuttering ==
  ASSUME DocumentInv, UNCHANGED documentVars
  PROVE  DocumentInv'
<1> USE DEF documentVars
<1>1. DocumentTypeOK'
  BY DEF DocumentInv, DocumentTypeOK
<1>2. ASSUME NEW a \in Clients PROVE ClientOk(a)'
  <2>1. ClientOk(a) /\ Rivals(a)' = Rivals(a)
    BY DEF DocumentInv, ClientInv, Rivals
  <2>2. LockOk(a)'
    BY <2>1 DEF ClientOk, LockOk, Holding
  <2> QED BY <2>1, <2>2 DEF ClientOk, ReadOk, KindOk, OwnOk
<1>3. AbsentInv' /\ OwnWritesVisible'
  BY DEF DocumentInv, AbsentInv, OwnWritesVisible
<1> QED BY <1>1, <1>2, <1>3 DEF DocumentInv, ClientInv

(***************************************************************************)
(* The inductive invariant: a copy whose revision is the newest is the     *)
(* document, and none was overtaken by a client that its lock excludes.    *)
(***************************************************************************)
THEOREM DocumentInvariance == DocumentSpec => []DocumentInv
<1>1. DocumentInit => DocumentInv
  BY StartsAbsent
<1>2. ASSUME DocumentInv, DocumentNext PROVE DocumentInv'
  <2>1. DocumentTypeOK'
    BY <1>2, DocumentStep, CountersStep, OwnStep DEF DocumentInv, DocumentTypeOK, Owns
  <2>2. ClientInv'
    BY <1>2, CopiesStep, OwnStep DEF ClientInv, ClientOk
  <2> QED BY <1>2, <2>1, <2>2, DocumentStep, OwnStep DEF DocumentInv
<1>3. DocumentInv /\ [DocumentNext]_documentVars => DocumentInv'
  BY <1>2, Stuttering
<1> QED BY <1>1, <1>3, PTL DEF DocumentSpec

(***************************************************************************)
(* Every variable keeps to its domain; attempts_left stays a usize though  *)
(* Pulumi's loop may take it below zero.                                   *)
(***************************************************************************)
THEOREM DocumentTypeCorrect == DocumentSpec => []DocumentTypeOK
<1>1. DocumentInv => DocumentTypeOK
  BY DEF DocumentInv
<1> QED BY <1>1, DocumentInvariance, PTL

(***************************************************************************)
(* A dotenv instance answers what it stored or deleted last, whatever      *)
(* other clients and programs write.                                       *)
(***************************************************************************)
THEOREM OwnWritesStayVisible == DocumentSpec => []OwnWritesVisible
<1>1. DocumentInv => OwnWritesVisible
  BY DEF DocumentInv
<1> QED BY <1>1, DocumentInvariance, PTL

(***************************************************************************)
(* set and delete leave the other secrets of a document alone: always when *)
(* it is replaced under its revision, and otherwise unless a writer that   *)
(* no lock excludes came between the read and the rename.                  *)
(***************************************************************************)
THEOREM NeighboursAreSpared == DocumentSpec => NeighboursSurvive
<1> DEFINE Spared ==
      \A a \in Clients, k \in Keys :
        Writes(a) /\ doc'.map[k] # doc.map[k]
        => k = client[a].key \/ (kind \in Files /\ client[a].racers \ Rivals(a) # {})
<1>1. ASSUME DocumentInv, DocumentNext PROVE Spared
  <2>0. DocumentTypeOK
    BY <1>1 DEF DocumentInv
  <2>1. CASE UNCHANGED doc
    BY <2>1 DEF Writes
  <2>2. CASE ReplaceStep
    <3>1. PICK a \in Clients, c \in Call_, m \in [Keys -> Values] : Replaces(a, c, m) /\ Spares(a, m)
      BY <2>2 DEF ReplaceStep
    <3>2. doc'.map = m
      BY <2>0, <3>1, CommitFacts DEF Replaces
    <3>3. \A b \in Clients : b # a => client'[b].at = client[b].at
      BY <2>0, <3>1, ReplaceFacts
    <3> QED BY <3>1, <3>2, <3>3 DEF Writes, Spares
  <2>3. CASE OtherProgram
    <3>1. client' = Race(client, Other) /\ client \in [Clients -> Call_]
      BY <2>0, <2>3, OutsideFacts DEF DocumentTypeOK
    <3>2. \A b \in Clients : client'[b].at = client[b].at
      BY <3>1, RaceFacts
    <3> QED BY <3>2 DEF Writes
  <2>4. MoveStep => UNCHANGED doc
    BY DEF MoveStep, Moves
  <2>5. (\E a \in Clients : RememberWritten(a) \/ LoadCache(a)) \/ (\E p \in Procs : Crash(p))
        => UNCHANGED doc
    BY DEF RememberWritten, LoadCache, Crash
  <2> QED BY <1>1, <2>1, <2>2, <2>3, <2>4, <2>5, NextCases
<1>2. DocumentInv /\ [DocumentNext]_documentVars => [Spared]_documentVars
  BY <1>1
<1>3. NeighboursSurvive <=> [][Spared]_documentVars
  BY DEF NeighboursSurvive
<1> QED BY <1>2, <1>3, DocumentInvariance, PTL DEF DocumentSpec
=============================================================================
