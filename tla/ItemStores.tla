----------------------------- MODULE ItemStores -----------------------------
(***************************************************************************)
(* The providers that keep a secret in an item of its own, found by its    *)
(* name: what their set and delete do to the items of one name             *)
(* (crates/monosecret/src/provider).  Every command of a provider's CLI    *)
(* and every request to its API is a step; it may fail, its answer may be  *)
(* lost, the process may die, and another client or program may act        *)
(* between any two.                                                        *)
(***************************************************************************)
EXTENDS StoreCommands, Sequences

CONSTANTS
  Fields,       \* the fields of an item that secrets live in
  Password,     \* the field of a secret stored by convention; a `ref` names others
  Kinds         \* the providers an instance of the model is about

FirstFound == {"bws", "onepassword"}            \* a name picks its first item
OnlyFound == {"passbolt", "lastpass", "bw", "keeper"}  \* two items of a name are an error
WholeItem == {"bw", "keeper"}                   \* an item is read and replaced
UniqueNames ==                                  \* the service keeps names unique
  {"cloudflare", "netlify", "awssm", "scaleway", "gcsm", "infisical", "setec", "aac"}
Upserts ==                                      \* one command creates or replaces
  {"vercel", "railway", "convex", "vault", "fly", "doppler", "file",
   "pass", "gopass", "keyring", "kubernetes", "awsps", "akv"}
HasFields == {"onepassword", "passbolt", "bw", "keeper"}
Deletes == {"keeper", "cloudflare", "netlify", "setec", "aac"} \cup (Upserts \ {"awsps", "akv"})

ASSUME ItemAssumption ==
  /\ Password \in Fields
  /\ Kinds \subseteq FirstFound \cup OnlyFound \cup UniqueNames \cup Upserts \cup {"protonpass"}

Blank == [f \in Fields |-> None]

VARIABLES
  items,     \* the items of the name, in the order the service lists them
  folder,    \* infisical: the folder of the secret exists
  possible,  \* what a read may answer now, by field: history
  raced      \* two clients were ever in calls at once: history

vars == <<kind, items, folder, client, commands, mishaps, possible, raced>>

Idle == [at |-> "idle", op |-> "set", field |-> Password, val |-> None,
         item |-> 0, seen |-> Blank, overlapped |-> FALSE]

Busy(a) == client[a].at # "idle"
Goes(a, point) == client' = [client EXCEPT ![a].at = point]
Stays == UNCHANGED <<kind, folder, commands, raced>>

\* The call answers.  A set that was alone is the only thing a read may find.
Touched(c) == IF c.op = "delete" THEN Fields ELSE {c.field}
Ack(a) ==
  LET c == client[a]
  IN  /\ client' = [client EXCEPT ![a] = Idle]
      /\ possible' = [f \in Fields |->
           IF f \notin Touched(c) THEN possible[f]
           ELSE IF c.overlapped THEN possible[f] \cup {c.val} ELSE {c.val}]
      /\ Quiet
\* An error: the value may be stored or not.
Err(a) ==
  LET c == client[a]
  IN  /\ client' = [client EXCEPT ![a] = Idle]
      /\ possible' = [f \in Fields |-> IF f \in Touched(c) THEN possible[f] \cup {c.val}
                                        ELSE possible[f]]
Refused(a) == Err(a) /\ Quiet /\ UNCHANGED items
\* The last step of a call took effect; its answer arrives, or it does not.
Done(a) == Ack(a) \/ (Err(a) /\ Mishap)

Ids == {items[i].id : i \in DOMAIN items}
Place(id) == CHOOSE i \in DOMAIN items : items[i].id = id /\ \A j \in 1..(i - 1) : items[j].id # id
\* An item is known by the command that created it.
Item(id, f, v) == [id |-> id, fields |-> [Blank EXCEPT ![f] = v]]
Without(id) == SubSeq(items, 1, Place(id) - 1) \o SubSeq(items, Place(id) + 1, Len(items))

Begin(a, op, f) ==
  /\ ~Busy(a) /\ commands < MaxCommands
  /\ op = "delete" => kind \in Deletes /\ f = Password
  /\ kind \in HasFields \/ f = Password
  /\ commands' = commands + 1
  /\ LET others == {b \in Clients \ {a} : Busy(b)}
     IN  /\ client' = [b \in Clients |->
              IF b = a THEN [Idle EXCEPT !.at = "start", !.op = op, !.field = f,
                                         !.val = IF op = "set" THEN commands + 1 ELSE None,
                                         !.overlapped = others # {}]
              ELSE IF b \in others THEN [client[b] EXCEPT !.overlapped = TRUE] ELSE client[b]]
         /\ raced' = (raced \/ others # {})
  /\ Quiet /\ UNCHANGED <<kind, items, folder, possible>>

(***************************************************************************)
(* The steps the providers are made of                                     *)
(***************************************************************************)
Finds(a, id, point) ==
  /\ client' = [client EXCEPT ![a].item = id, ![a].at = point, ![a].seen = items[Place(id)].fields]
  /\ Quiet /\ UNCHANGED <<items, possible>> /\ Stays
FindsNothing(a, point) ==
  /\ items = <<>> /\ Goes(a, point)
  /\ Quiet /\ UNCHANGED <<items, possible>> /\ Stays

\* Not the code: the items of the name are not looked at.
CreatesUnseen(a, found, missing) ==
  /\ At(a, "start") /\ Goes(a, missing)
  /\ Quiet /\ UNCHANGED <<items, possible>> /\ Stays
ListsFirst(a, found, missing) ==
  /\ At(a, "start")
  /\ \/ items # <<>> /\ Finds(a, items[1].id, found)
     \/ FindsNothing(a, missing)

\* Except in Bitwarden, a `ref` names an item that exists.
Reference(a) == client[a].field # Password
ListsOnly(a, found, missing) ==
  /\ At(a, "start")
  /\ \/ Len(items) = 1 /\ Finds(a, items[1].id, found)
     \/ Len(items) > 1 /\ Refused(a) /\ Stays
     \/ items = <<>> /\ Reference(a) /\ kind # "bw" /\ Refused(a) /\ Stays
     \/ (Reference(a) => kind = "bw") /\ FindsNothing(a, missing)

\* Nothing to delete: Ok(false).
NothingToDelete(a) ==
  At(a, "none") /\ Ack(a) /\ UNCHANGED items /\ Stays

CreatesItem(a, at) ==
  /\ At(a, at)
  /\ items' = Append(items, Item(client[a].val, client[a].field, client[a].val))
  /\ Done(a) /\ Stays

\* Where names are unique an item of the name refuses a second one.
CreatesNamed(a, at, taken) ==
  /\ At(a, at)
  /\ \/ items = <<>> /\ CreatesItem(a, at)
     \/ items # <<>> /\ taken # "error" /\ Goes(a, taken)
        /\ Quiet /\ UNCHANGED <<items, possible>> /\ Stays
     \/ items # <<>> /\ taken = "error" /\ Refused(a) /\ Stays

\* The field of the item found, which may be gone by now.
EditsField(a, at) ==
  LET c == client[a]
  IN  /\ At(a, at)
      /\ \/ /\ c.item \in Ids
            /\ items' = [items EXCEPT ![Place(c.item)].fields[c.field] = c.val]
            /\ Done(a)
         \/ c.item \notin Ids /\ Refused(a)
      /\ Stays

\* The item found, as it was read, with the new field: it takes back what
\* somebody else changed in it since.
SavesItem(a) ==
  LET c == client[a]
      saved == [c.seen EXCEPT ![c.field] = c.val]
  IN  /\ At(a, "save")
      /\ \/ /\ c.item \in Ids
            /\ items' = [items EXCEPT ![Place(c.item)].fields = saved]
            /\ \/ Quiet
               \/ Mishap
            /\ client' = [client EXCEPT ![a] = Idle]
            /\ possible' = [f \in Fields |->
                 IF f = c.field
                 THEN IF c.overlapped \/ mishaps' # mishaps
                      THEN possible[f] \cup {c.val} ELSE {c.val}
                 ELSE IF c.overlapped THEN possible[f] \cup {saved[f]} ELSE possible[f]]
         \/ c.item \notin Ids /\ Refused(a)
      /\ Stays

DeletesItem(a) ==
  LET c == client[a]
  IN  /\ At(a, "delete")
      /\ \/ c.item \in Ids /\ items' = Without(c.item) /\ Done(a)
         \/ c.item \notin Ids /\ Refused(a)
      /\ Stays

(***************************************************************************)
(* The providers                                                           *)
(***************************************************************************)
IsSet(a) == client[a].op = "set"

Bws(a) ==
  kind = "bws"
  /\ (ListsFirst(a, "edit", "create") \/ EditsField(a, "edit") \/ CreatesItem(a, "create"))

\* `op item edit` by title, which refuses a title of two items.
SetReference(a) ==
  /\ At(a, "start") /\ Reference(a)
  /\ \/ /\ Len(items) = 1
        /\ items' = [items EXCEPT ![1].fields[client[a].field] = client[a].val]
        /\ Done(a)
     \/ Len(items) # 1 /\ Refused(a)
  /\ Stays
Onepassword(a) ==
  kind = "onepassword"
  /\ \/ SetReference(a)
     \/ ~Reference(a) /\ ListsFirst(a, "edit", "create")
     \/ EditsField(a, "edit") \/ CreatesItem(a, "create")

Passbolt(a) ==
  kind = "passbolt"
  /\ (ListsOnly(a, "edit", "create") \/ EditsField(a, "edit") \/ CreatesItem(a, "create"))

Lastpass(a) ==
  kind = "lastpass"
  /\ (ListsOnly(a, "edit", "create") \/ EditsField(a, "edit") \/ CreatesItem(a, "create"))

\* The item is fetched again by its id before it is edited.
BwTemplate(a) ==
  LET c == client[a]
  IN  /\ At(a, "template")
      /\ \/ c.item \in Ids /\ Finds(a, c.item, "save")
         \/ c.item \notin Ids /\ Refused(a) /\ Stays
Bw(a) ==
  kind = "bw"
  /\ (ListsOnly(a, "template", "create") \/ BwTemplate(a) \/ SavesItem(a) \/ CreatesItem(a, "create"))

Keeper(a) ==
  kind = "keeper"
  /\ \/ IsSet(a) /\ ListsOnly(a, "save", "create")
     \/ ~IsSet(a) /\ ListsOnly(a, "delete", "none")
     \/ SavesItem(a) \/ CreatesItem(a, "create") \/ DeletesItem(a) \/ NothingToDelete(a)

\* An existing item is deleted, and the new one created after that.
ProtonpassDelete(a) ==
  LET c == client[a]
  IN  /\ At(a, "replace")
      /\ \/ /\ c.item \in Ids /\ items' = Without(c.item)
            /\ possible' = [possible EXCEPT ![c.field] = @ \cup {None}]
            /\ \/ Goes(a, "create") /\ Quiet
               \/ client' = [client EXCEPT ![a] = Idle] /\ Mishap
         \/ c.item \notin Ids /\ Refused(a)
      /\ Stays
Protonpass(a) ==
  kind = "protonpass"
  /\ (ListsFirst(a, "replace", "create") \/ ProtonpassDelete(a) \/ CreatesItem(a, "create"))

\* 409 to the create: somebody else created it, so it is looked up again.
CloudflareConflict(a) ==
  /\ At(a, "conflict")
  /\ \/ items # <<>> /\ Finds(a, items[1].id, "edit")
     \/ items = <<>> /\ Refused(a) /\ Stays
Cloudflare(a) ==
  kind = "cloudflare"
  /\ \/ IsSet(a) /\ ListsFirst(a, "edit", "create")
     \/ ~IsSet(a) /\ ListsFirst(a, "delete", "none")
     \/ EditsField(a, "edit") \/ CreatesNamed(a, "create", "conflict") \/ CloudflareConflict(a)
     \/ DeletesItem(a) \/ NothingToDelete(a)

Netlify(a) ==
  kind = "netlify"
  /\ \/ IsSet(a) /\ ListsFirst(a, "edit", "create")
     \/ ~IsSet(a) /\ ListsFirst(a, "delete", "none")
     \/ EditsField(a, "edit") \/ CreatesNamed(a, "create", "error")
     \/ DeletesItem(a) \/ NothingToDelete(a)

\* The value goes to whatever item has the name now.
PutsValue(a, at) ==
  /\ At(a, at)
  /\ \/ /\ items # <<>>
        /\ items' = [items EXCEPT ![1].fields[Password] = client[a].val]
        /\ Done(a)
     \/ items = <<>> /\ Refused(a)
  /\ Stays

Awssm(a) ==
  kind = "awssm"
  /\ (CreatesNamed(a, "start", "put") \/ PutsValue(a, "put"))

\* The item is made first, without a value, and its first version after it.
EnsuresItem(a, next) ==
  /\ At(a, "start")
  /\ items' = IF items = <<>> THEN <<Item(client[a].val, Password, None)>> ELSE items
  /\ Goes(a, next) /\ Quiet /\ UNCHANGED possible /\ Stays

Gcsm(a) == kind = "gcsm" /\ (EnsuresItem(a, "version") \/ PutsValue(a, "version"))

ScalewayEnsure(a) ==
  /\ At(a, "start")
  /\ IF items = <<>>
     THEN /\ items' = <<Item(client[a].val, Password, None)>>
          /\ client' = [client EXCEPT ![a].at = "version", ![a].item = client[a].val]
     ELSE Goes(a, "lookup") /\ UNCHANGED items
  /\ Quiet /\ UNCHANGED possible /\ Stays
ScalewayLookup(a) ==
  /\ At(a, "lookup")
  /\ \/ items # <<>> /\ Finds(a, items[1].id, "version")
     \/ items = <<>> /\ Refused(a) /\ Stays
Scaleway(a) ==
  kind = "scaleway" /\ (ScalewayEnsure(a) \/ ScalewayLookup(a) \/ EditsField(a, "version"))

\* PATCH, then POST, then the folder, then POST again.
InfisicalWrite(a, at, method, missing) ==
  LET patch == method = "PATCH"
  IN  /\ At(a, at)
      /\ \/ patch /\ items # <<>> /\ PutsValue(a, at)
         \/ ~patch /\ folder /\ CreatesNamed(a, at, "error")
         \/ /\ IF patch THEN items = <<>> ELSE ~folder
            /\ IF missing = "error" THEN Err(a) ELSE Goes(a, missing) /\ UNCHANGED possible
            /\ Quiet /\ UNCHANGED items /\ Stays
InfisicalFolder(a) ==
  /\ At(a, "folder")
  /\ folder' = TRUE /\ Goes(a, "again")
  /\ Quiet /\ UNCHANGED <<kind, items, possible, commands, raced>>
Infisical(a) ==
  kind = "infisical"
  /\ \/ InfisicalWrite(a, "start", "PATCH", "post")
     \/ InfisicalWrite(a, "post", "POST", "folder")
     \/ InfisicalFolder(a)
     \/ InfisicalWrite(a, "again", "POST", "error")

\* Not the code: a set that stores a version and never activates it.
SetecPutOnly(a) ==
  /\ At(a, "start") /\ IsSet(a)
  /\ items' = IF items = <<>> THEN <<Item(client[a].val, Password, None)>> ELSE items
  /\ Ack(a) /\ Stays
\* A version is stored, and becomes the one that reads find when activated.
SetecPut(a) ==
  /\ At(a, "start") /\ IsSet(a)
  /\ items' = IF items = <<>> THEN <<Item(client[a].val, Password, None)>> ELSE items
  /\ Goes(a, "activate") /\ Quiet /\ UNCHANGED possible /\ Stays
Setec(a) ==
  kind = "setec"
  /\ \/ SetecPut(a) \/ PutsValue(a, "activate")
     \/ ~IsSet(a) /\ ListsFirst(a, "delete", "none")
     \/ NothingToDelete(a)
     \/ At(a, "delete") /\ items' = <<>> /\ Done(a) /\ Stays

\* One request creates the secret or replaces its value.
Replaced(a) ==
  IF items = <<>> THEN <<Item(client[a].val, Password, client[a].val)>>
  ELSE [items EXCEPT ![1].fields[Password] = client[a].val]
Upsert(a) ==
  /\ At(a, "start") /\ IsSet(a)
  /\ items' = Replaced(a) /\ Done(a) /\ Stays
Awsps(a) == kind = "awsps" /\ Upsert(a)
Akv(a) == kind = "akv" /\ Upsert(a)

\* A delete that answers whether there was anything, in one command.
DeletesAtOnce(a) ==
  /\ At(a, "start") /\ ~IsSet(a)
  /\ items' = <<>> /\ Done(a) /\ Stays
Pass(a) == kind = "pass" /\ (Upsert(a) \/ DeletesAtOnce(a))
Gopass(a) == kind = "gopass" /\ (Upsert(a) \/ DeletesAtOnce(a))
Keyring(a) == kind = "keyring" /\ (Upsert(a) \/ DeletesAtOnce(a))
Kubernetes(a) == kind = "kubernetes" /\ (Upsert(a) \/ DeletesAtOnce(a))

\* A delete that looks first, and removes what has the name then.
LooksFirst(a) == ~IsSet(a) /\ ListsFirst(a, "delete", "none")
DeletesName(a) ==
  /\ At(a, "delete")
  /\ items' = <<>> /\ Done(a) /\ Stays
LooksThenDeletes(a) == LooksFirst(a) \/ NothingToDelete(a) \/ DeletesName(a)
Railway(a) == kind = "railway" /\ (Upsert(a) \/ LooksThenDeletes(a))
\* The entry's metadata outlives its values: the delete looks for that, and
\* a path that is gone by the time of the request counts as deleted.
Vault(a) == kind = "vault" /\ (Upsert(a) \/ LooksThenDeletes(a))
Convex(a) == kind = "convex" /\ (Upsert(a) \/ LooksThenDeletes(a))
Fly(a) == kind = "fly" /\ (Upsert(a) \/ LooksThenDeletes(a))

\* A file of its own; the entry that is gone by now is an error.
File(a) ==
  kind = "file"
  /\ \/ Upsert(a) \/ LooksFirst(a) \/ NothingToDelete(a)
     \/ items # <<>> /\ DeletesName(a)
     \/ At(a, "delete") /\ items = <<>> /\ Refused(a) /\ Stays

Vercel(a) ==
  kind = "vercel"
  /\ (Upsert(a) \/ LooksFirst(a) \/ NothingToDelete(a) \/ DeletesItem(a))

\* Doppler's writes are sent again when no answer came, set and null alike.
DopplerWrite(a) ==
  LET c == client[a]
  IN  /\ \/ IsSet(a) /\ At(a, "start") /\ items' = Replaced(a)
         \/ At(a, "delete") /\ items' = <<>>
      /\ \/ Done(a)
         \/ Mishap /\ UNCHANGED client
            /\ possible' = [possible EXCEPT ![Password] = @ \cup {c.val}]
      /\ Stays
Doppler(a) == kind = "doppler" /\ (DopplerWrite(a) \/ LooksFirst(a) \/ NothingToDelete(a))

\* The ETag of the entry that was read, or the absence of one, is the
\* condition of the write; any difference is an error for the caller.
Unchanged(c) == items # <<>> /\ items[1].id = c.item /\ items[1].fields = c.seen
AacWrite(a) ==
  LET c == client[a]
  IN  /\ At(a, "put")
      /\ \/ Unchanged(c) /\ items' = [items EXCEPT ![1].fields[Password] = c.val] /\ Done(a)
         \/ ~Unchanged(c) /\ Refused(a)
      /\ Stays
AacDelete(a) ==
  LET c == client[a]
  IN  /\ At(a, "delete")
      /\ \/ Unchanged(c) /\ items' = <<>> /\ Done(a)
         \/ items = <<>> /\ Ack(a) /\ UNCHANGED items
         \/ items # <<>> /\ ~Unchanged(c) /\ Refused(a)
      /\ Stays
Aac(a) ==
  kind = "aac"
  /\ \/ IsSet(a) /\ ListsFirst(a, "put", "create")
     \/ ~IsSet(a) /\ ListsFirst(a, "delete", "none")
     \/ AacWrite(a) \/ AacDelete(a) \/ CreatesNamed(a, "create", "error") \/ NothingToDelete(a)

(***************************************************************************)
(* What goes wrong around the calls                                        *)
(***************************************************************************)
\* A command or request fails without effect, or the process dies.
Fails(a) ==
  /\ Busy(a) /\ Err(a)
  /\ Mishap /\ UNCHANGED items /\ Stays

\* Another program stores the secret, or removes it.
OutsideWrites(f, v) ==
  IF \E a \in Clients : Busy(a) THEN possible' = [possible EXCEPT ![f] = @ \cup {v}]
  ELSE possible' = [possible EXCEPT ![f] = {v}]
Overlaps == [a \in Clients |-> IF Busy(a) THEN [client[a] EXCEPT !.overlapped = TRUE] ELSE client[a]]
Outside ==
  LET v == MaxCommands + mishaps + 1
  IN  /\ Len(items) <= 1
      /\ \/ /\ items' = IF items = <<>> THEN <<Item(v, Password, v)>>
                        ELSE [items EXCEPT ![1].fields[Password] = v]
            /\ folder' = TRUE /\ OutsideWrites(Password, v)
         \/ /\ items # <<>> /\ items' = <<>>
            /\ possible' = [f \in Fields |-> IF \E a \in Clients : Busy(a)
                                            THEN possible[f] \cup {None} ELSE {None}]
            /\ UNCHANGED folder
      /\ client' = Overlaps /\ raced' = (raced \/ \E a \in Clients : Busy(a))
      /\ Mishap /\ UNCHANGED <<kind, commands>>

Init ==
  /\ kind \in Kinds
  /\ items = <<>> /\ folder = FALSE
  /\ client = [a \in Clients |-> Idle]
  /\ commands = 0 /\ mishaps = 0
  /\ possible = [f \in Fields |-> {None}] /\ raced = FALSE

Next ==
  \/ \E a \in Clients :
       \/ Bws(a) \/ Onepassword(a) \/ Passbolt(a) \/ Lastpass(a) \/ Bw(a) \/ Keeper(a) \/ Protonpass(a)
       \/ Cloudflare(a) \/ Netlify(a) \/ Awssm(a) \/ Gcsm(a) \/ Scaleway(a) \/ Infisical(a)
       \/ Setec(a) \/ Aac(a) \/ Awsps(a) \/ Akv(a) \/ Pass(a) \/ Gopass(a) \/ Keyring(a)
       \/ Kubernetes(a) \/ Railway(a) \/ Vault(a) \/ Convex(a) \/ Fly(a) \/ File(a) \/ Vercel(a) \/ Doppler(a)
       \/ Fails(a)
       \/ \E op \in {"set", "delete"}, f \in Fields : Begin(a, op, f)
  \/ Outside

Spec == Init /\ [][Next]_vars

(***************************************************************************)
(* Properties                                                              *)
(***************************************************************************)
Points == {"idle", "start", "edit", "create", "template", "save", "delete", "none", "replace",
           "conflict", "put", "version", "lookup", "post", "folder", "again", "activate"}

Records == [id : Values, fields : [Fields -> Values]]
Calls == [at : Points, op : {"set", "delete"}, field : Fields, val : Values,
          item : Values \cup {0}, seen : [Fields -> Values], overlapped : BOOLEAN]

\* The types of the state.
TypeOK ==
  /\ kind \in Kinds /\ folder \in BOOLEAN /\ raced \in BOOLEAN
  /\ items \in Seq(Records) /\ client \in [Clients -> Calls]
  /\ possible \in [Fields -> SUBSET Values]
  /\ commands \in 0..MaxCommands /\ mishaps \in 0..MaxMishaps

\* A read lists or looks up the items anew (an instance of bws that has read
\* before answers from its first listing).  Where a title is looked up by the
\* service or a second match is an error, a name of two items is refused.
TitleRefused(f) ==
  Len(items) > 1 /\ (kind \in OnlyFound \/ (kind = "onepassword" /\ f # Password))

\* get: the first item of the name.
GetRefused(f) == TitleRefused(f) \/ (Len(items) > 1 /\ kind = "protonpass")
Get(f) == IF items = <<>> THEN None ELSE items[1].fields[f]

\* get_many collects the listing into a map by name, which keeps the last one.
GetManyRefused(f) == TitleRefused(f)
GetMany(f) == IF items = <<>> THEN None ELSE items[Len(items)].fields[f]

\* A set of bws or 1Password edits the first of two items that a race has left,
\* and a batch read answers from the last.
BatchMisses == Len(items) > 1 /\ kind \in FirstFound

\* Once no call is under way, a read that is not refused finds the last value
\* that was stored: the one of the last set, if it was acknowledged and alone;
\* else one of those it overlapped, or the one before it if it failed.  A failed
\* set never leaves a secret without a value, except in Proton Pass, where an
\* update deletes the item before it creates the new one.  The one read this is
\* not true of is a batch read of bws or 1Password while a name has two items.
ReadsAreCurrent ==
  (\A a \in Clients : ~Busy(a)) =>
    \A f \in Fields :
      /\ ~GetRefused(f) => Get(f) \in possible[f]
      /\ ~GetManyRefused(f) /\ ~BatchMisses => GetMany(f) \in possible[f]

\* Calls that never overlap leave one item of the name, however many of
\* them fail or lose their answer, and so the name is never ambiguous.
NoDuplicates == Len(items) > 1 => raced
=============================================================================
