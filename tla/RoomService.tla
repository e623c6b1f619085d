----------------------------- MODULE RoomService -----------------------------
(***************************************************************************)
(* The HTTP API (http/handler.ts) over the room store and the image store: *)
(* the requests that leave something behind, cut at their awaits, with     *)
(* failing store calls, a server that stops at any point, and the offline  *)
(* account migration between two runs.  Emails stand for persons; a row of *)
(* the database belongs to a user id, minted at a person's first request   *)
(* or left by the browser-id days.                                         *)
(***************************************************************************)
EXTENDS AccountMigration

CONSTANTS
  Emails,      \* the persons
  LegacyOf,    \* person -> the browser ids the database holds for them
  Old,         \* the room and the image the database starts with, a pair
  Minted,      \* names randomName draws
  Chosen,      \* names people type
  Tags,        \* labels people give to rooms
  Slots,       \* requests in progress at once
  Resolvable,  \* bound: rooms whose labels a mapping may resolve
  MaxRequests, \* bound: requests
  MaxFaults    \* bound: store and disk calls that fail

ASSUME NamesAssumption ==
  /\ None \notin Emails \cup Users \cup Images \cup Minted \cup Chosen \cup Tags
  /\ "no row" \notin Tags \cup {None}
ASSUME DatabaseAssumption == LegacyOf \in [Emails -> SUBSET Users] /\ Old \in Rooms \X Images
ASSUME BoundAssumption == Resolvable \subseteq Rooms /\ MaxRequests \in Nat /\ MaxFaults \in Nat

VARIABLES
  db,        \* the database without its rooms (AccountMigration)
  rooms,     \* room -> the image it shows, or None
  files,     \* image -> the files written under its id
  slots,     \* the requests in progress, or Idle
  up,        \* the server runs
  requests, faults,
  whose, uploader, creator, told, joined   \* history, read by no action's guard but ids' freshness

server == <<db, rooms, files, slots, up>>
bounds == <<requests, faults>>
history == <<whose, uploader, creator, told, joined>>
vars == <<server, bounds, history>>

MaxAttempts == 3

Idle == [pc |-> "idle", kind |-> "none", user |-> None, room |-> None, image |-> None,
         tries |-> 0, seen |-> None]
Requests ==
  [pc : {"idle", "route", "bytes", "meta", "create", "member", "gallery", "name"},
   kind : {"none", "upload", "reuse", "profile", "join"}, user : Users \cup {None},
   room : Rooms \cup {None}, image : Images \cup {None}, tries : 0..MaxAttempts,
   seen : Minted \cup Chosen \cup {None}]
Free(s) == up /\ slots[s] = Idle
At(s, pc) == up /\ slots[s].pc = pc

FreshRooms == {r \in Rooms : creator[r] = None}
FreshImages == {i \in Images : uploader[i] = None}

--------------------------------------------------------------------------
(* Stores *)

\* recordMembership: the created flag is sticky and the label untouched.
Upserted(d, r, u, created) ==
  [d EXCEPT !.members[<<r, u>>] =
    [created |-> created \/ @.created, label |-> IF @ = NoRow THEN None ELSE @.label]]

\* Mutated form: the label is upserted.
LabelledAnyway(d, r, u, label) ==
  [d EXCEPT !.members[<<r, u>>] = [created |-> @.created, label |-> label]]

\* setRoomName: only a membership that exists is labelled.
Labelled(d, r, u, label) ==
  IF d.members[<<r, u>>] = NoRow THEN d ELSE [d EXCEPT !.members[<<r, u>>].label = label]

\* getUserImage: the gallery row, for its owner only.
Owned(d, i, u) == d.owner[i] = u

\* Mutated form: no name for a new account.
BornNameless(d, e, u, name) ==
  IF \E v \in Users : d.email[v] = e THEN d ELSE [d EXCEPT !.email[u] = e]

\* findOrCreateAccount: the account with this email, or a fresh id born with a name.
LoggedIn(d, e, u, name) ==
  IF \E v \in Users : d.email[v] = e THEN d ELSE [d EXCEPT !.email[u] = e, !.name[u] = name]

--------------------------------------------------------------------------
(* A request arrives, and is routed *)

\* route, first half: the caller's token becomes an account.
Authenticate(s, e) ==
  /\ Free(s)
  /\ requests < MaxRequests /\ requests' = requests + 1
  /\ \E u \in {v \in Users : whose[v] = None} \cup {v \in Users : db.email[v] = e}, name \in Minted :
       /\ db' = LoggedIn(db, e, u, name)
       /\ db'.email[u] = e
       /\ slots' = [slots EXCEPT ![s] = [Idle EXCEPT !.pc = "route", !.user = u]]
       /\ whose' = [whose EXCEPT ![u] = e]
  /\ UNCHANGED <<rooms, files, up, faults, uploader, creator, told, joined>>

\* route, second half: a path that names a user id must name the caller's.
Permitted(s, owner) == owner = slots[s].user

Proceed(s, pc) == slots' = [slots EXCEPT ![s].pc = pc]
Answer(s) == slots' = [slots EXCEPT ![s] = Idle]

\* handleCreateRoomFromUpload, up to the picture being processed: the room's id
\* and the image's are fresh.
Upload(s) ==
  /\ At(s, "route")
  /\ FreshRooms # {} /\ FreshImages # {}
  /\ LET r == CHOOSE x \in FreshRooms : TRUE
         i == CHOOSE x \in FreshImages : TRUE
     IN  /\ slots' = [slots EXCEPT ![s] =
              [@ EXCEPT !.pc = "bytes", !.kind = "upload", !.room = r, !.image = i]]
         /\ creator' = [creator EXCEPT ![r] = whose[slots[s].user]]
         /\ uploader' = [uploader EXCEPT ![i] = whose[slots[s].user]]
  /\ UNCHANGED <<db, rooms, files, up, bounds, whose, told, joined>>

\* handleCreateRoomFromGallery: only an image of the caller's gallery.
Reuse(s, i) ==
  /\ At(s, "route")
  /\ FreshRooms # {}
  /\ Owned(db, i, slots[s].user)
  /\ LET r == CHOOSE x \in FreshRooms : TRUE
     IN  /\ slots' = [slots EXCEPT ![s] =
              [@ EXCEPT !.pc = "create", !.kind = "reuse", !.room = r, !.image = i]]
         /\ creator' = [creator EXCEPT ![r] = whose[slots[s].user]]
  /\ UNCHANGED <<db, rooms, files, up, bounds, whose, uploader, told, joined>>

\* handleDeleteUserImage: the gallery row goes, the picture stays.
DeleteImage(s, owner, i) ==
  /\ At(s, "route") /\ Permitted(s, owner)
  /\ Owned(db, i, owner)
  /\ db' = [db EXCEPT !.owner[i] = None]
  /\ Answer(s)
  /\ UNCHANGED <<rooms, files, up, bounds, history>>

\* handleRenameUserRoom.
Rename(s, owner, r, label) ==
  /\ At(s, "route") /\ Permitted(s, owner)
  /\ db' = Labelled(db, r, owner, label)
  /\ Answer(s)
  /\ UNCHANGED <<rooms, files, up, bounds, history>>

\* handleSetUserProfile.
SetName(s, owner, name) ==
  /\ At(s, "route") /\ Permitted(s, owner)
  /\ db' = [db EXCEPT !.name[owner] = name]
  /\ Answer(s)
  /\ UNCHANGED <<rooms, files, up, bounds, history>>

\* ensureUserDisplayName reads the name here and acts on it after an await:
\* handleGetUserProfile ...
Profile(s, owner) ==
  /\ At(s, "route") /\ Permitted(s, owner)
  /\ slots' = [slots EXCEPT ![s] = [@ EXCEPT !.pc = "name", !.kind = "profile", !.seen = db.name[owner]]]
  /\ UNCHANGED <<db, rooms, files, up, bounds, history>>

\* ... and the join of a room over the socket.
Join(s, r) ==
  /\ At(s, "route")
  /\ rooms[r] # None
  /\ slots' = [slots EXCEPT ![s] =
       [@ EXCEPT !.pc = "name", !.kind = "join", !.seen = db.name[slots[s].user], !.room = r]]
  /\ joined' = joined \cup {<<r, whose[slots[s].user]>>}
  /\ UNCHANGED <<db, rooms, files, up, bounds, whose, uploader, creator, told>>

\* A request that only reads, or is refused or fails before it wrote anything.
LeavesNoTrace(s) ==
  /\ At(s, "route")
  /\ Answer(s)
  /\ UNCHANGED <<db, rooms, files, up, bounds, history>>

--------------------------------------------------------------------------
(* What a request does after its awaits *)

\* ImageStore.put writes two files, one after the other.
PutBytes(s) ==
  /\ At(s, "bytes")
  /\ files' = [files EXCEPT ![slots[s].image] = @ \cup {"bytes"}]
  /\ Proceed(s, "meta")
  /\ UNCHANGED <<db, rooms, up, bounds, history>>

\* Mutated form: the gallery row is written before the room.
PutMetaAndRecord(s) ==
  /\ At(s, "meta")
  /\ files' = [files EXCEPT ![slots[s].image] = @ \cup {"meta"}]
  /\ db' = [db EXCEPT !.owner[slots[s].image] = slots[s].user]
  /\ Proceed(s, "create")
  /\ UNCHANGED <<rooms, up, bounds, history>>

PutMeta(s) ==
  /\ At(s, "meta")
  /\ files' = [files EXCEPT ![slots[s].image] = @ \cup {"meta"}]
  /\ Proceed(s, "create")
  /\ UNCHANGED <<db, rooms, up, bounds, history>>

\* RoomStore.create.
CreateRoom(s) ==
  /\ At(s, "create")
  /\ rooms' = [rooms EXCEPT ![slots[s].room] = slots[s].image]
  /\ Proceed(s, "member")
  /\ UNCHANGED <<db, files, up, bounds, history>>

\* The name is minted and stored where none was seen.
EnsureName(s) ==
  /\ At(s, "name")
  /\ \E name \in Minted :
       db' = IF slots[s].seen = None THEN [db EXCEPT !.name[slots[s].user] = name] ELSE db
  /\ IF slots[s].kind = "join" THEN Proceed(s, "member") ELSE Answer(s)
  /\ UNCHANGED <<rooms, files, up, bounds, history>>

\* After the membership: an upload is recorded in the gallery, the others are
\* answered; a create is told its room.
AfterMembership(s) ==
  LET q == slots[s]
  IN  /\ IF q.kind = "upload" THEN Proceed(s, "gallery") ELSE Answer(s)
      /\ told' = IF q.kind = "reuse" THEN told \cup {q.room} ELSE told

RecordMember(s) ==
  /\ At(s, "member")
  /\ db' = Upserted(db, slots[s].room, slots[s].user, slots[s].kind # "join")
  /\ AfterMembership(s)
  /\ UNCHANGED <<rooms, files, up, bounds, whose, uploader, creator, joined>>

\* recordMembershipWithRetry: a failing write is tried again, then given up.
MemberFails(s) ==
  /\ At(s, "member")
  /\ faults < MaxFaults /\ faults' = faults + 1
  /\ IF slots[s].tries + 1 < MaxAttempts
       THEN slots' = [slots EXCEPT ![s].tries = @ + 1] /\ UNCHANGED told
       ELSE AfterMembership(s)
  /\ UNCHANGED <<db, rooms, files, up, requests, whose, uploader, creator, joined>>

\* recordImage, whose failure is caught: the room is created either way.
RecordImage(s) ==
  /\ At(s, "gallery")
  /\ db' = [db EXCEPT !.owner[slots[s].image] = slots[s].user]
  /\ Answer(s)
  /\ told' = told \cup {slots[s].room}
  /\ UNCHANGED <<rooms, files, up, bounds, whose, uploader, creator, joined>>

RecordImageFails(s) ==
  /\ At(s, "gallery")
  /\ faults < MaxFaults /\ faults' = faults + 1
  /\ Answer(s)
  /\ told' = told \cup {slots[s].room}
  /\ UNCHANGED <<db, rooms, files, up, requests, whose, uploader, creator, joined>>

\* A call that throws: createHttpHandler answers 500, and a join goes on without
\* the profile's name.
Throws(s) ==
  /\ up /\ slots[s].pc \in {"bytes", "meta", "create", "name"}
  /\ faults < MaxFaults /\ faults' = faults + 1
  /\ IF slots[s].pc = "name" /\ slots[s].kind = "join" THEN Proceed(s, "member") ELSE Answer(s)
  /\ UNCHANGED <<db, rooms, files, up, requests, history>>

--------------------------------------------------------------------------
(* The server and its operator *)

\* A crash or a stop drops what is in progress.
Stop ==
  /\ up
  /\ up' = FALSE
  /\ slots' = [s \in Slots |-> Idle]
  /\ UNCHANGED <<db, rooms, files, bounds, history>>

Start ==
  /\ ~up /\ up' = TRUE
  /\ UNCHANGED <<db, rooms, files, slots, bounds, history>>

\* The reviewed mappings of one person: all their ids under one of them, with any
\* resolutions of room names, also where nothing conflicts; None is the explicit null.
MappingsOf(e) ==
  LET mine == {u \in Users : whose[u] = e /\ db.name[u] # None}
  IN  {m \in [email : {e}, user : mine, legacy : SUBSET mine, name : Chosen,
               labels : UNION {[named -> Tags \cup {None}] : named \in SUBSET Resolvable}] :
         m.legacy = mine \ {m.user}}

\* migrateAccounts, run while the server is stopped.
Migrate(m) ==
  /\ ~up
  /\ Accepted(db, m)
  /\ db' = Migrated(db, m)
  /\ UNCHANGED <<rooms, files, slots, up, bounds, history>>

--------------------------------------------------------------------------
\* A database of the browser-id days: the first person made a room with one id
\* and played in it with each.
LegacyIds == UNION {LegacyOf[e] : e \in Emails}
PersonOf(u) == IF u \in LegacyIds THEN CHOOSE e \in Emails : u \in LegacyOf[e] ELSE None

Init ==
  /\ \E maker \in LegacyIds, label \in [LegacyIds -> Tags \cup {None}], name \in Minted :
       /\ \A u, v \in LegacyIds : u # v => label[u] # label[v]
       /\ db = [name    |-> [u \in Users |-> IF u \in LegacyIds THEN name ELSE None],
                email   |-> [u \in Users |-> None],
                members |-> [ru \in Rooms \X Users |->
                              IF ru[1] = Old[1] /\ ru[2] \in LegacyIds
                                THEN [created |-> ru[2] = maker, label |-> label[ru[2]]] ELSE NoRow],
                owner   |-> [i \in Images |-> IF i = Old[2] THEN maker ELSE None],
                placed  |-> [ru \in Rooms \X Users |->
                              IF ru[1] = Old[1] /\ ru[2] \in LegacyIds THEN IF ru[2] = maker THEN 2 ELSE 1 ELSE NoPlayer]]
       /\ uploader = [i \in Images |-> IF i = Old[2] THEN PersonOf(maker) ELSE None]
       /\ creator = [r \in Rooms |-> IF r = Old[1] THEN PersonOf(maker) ELSE None]
       /\ joined = {<<Old[1], PersonOf(u)>> : u \in LegacyIds}
  /\ rooms = [r \in Rooms |-> IF r = Old[1] THEN Old[2] ELSE None]
  /\ files = [i \in Images |-> IF i = Old[2] THEN {"bytes", "meta"} ELSE {}]
  /\ slots = [s \in Slots |-> Idle]
  /\ up = FALSE /\ requests = 0 /\ faults = 0
  /\ whose = [u \in Users |-> PersonOf(u)]
  /\ told = {}

\* The steps a request in progress takes by itself.
Step(s) ==
  \/ PutBytes(s) \/ PutMeta(s) \/ CreateRoom(s) \/ EnsureName(s)
  \/ RecordMember(s) \/ MemberFails(s) \/ RecordImage(s) \/ RecordImageFails(s) \/ Throws(s)

Routed(s) ==
  \/ Upload(s) \/ LeavesNoTrace(s)
  \/ \E i \in Images : Reuse(s, i) \/ \E u \in Users : DeleteImage(s, u, i)
  \/ \E u \in Users, r \in Rooms, label \in Tags \cup {None} : Rename(s, u, r, label)
  \/ \E u \in Users, name \in Chosen : SetName(s, u, name)
  \/ \E u \in Users : Profile(s, u)
  \/ \E r \in Rooms : Join(s, r)

Next ==
  \/ \E s \in Slots : Step(s) \/ Routed(s) \/ \E e \in Emails : Authenticate(s, e)
  \/ Stop \/ Start
  \/ \E e \in Emails : \E m \in MappingsOf(e) : Migrate(m)

Spec == Init /\ [][Next]_vars
=============================================================================
