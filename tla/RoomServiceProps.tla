--------------------------- MODULE RoomServiceProps ---------------------------
(***************************************************************************)
(* What the HTTP API and the account migration owe to the people they      *)
(* serve.  A person's rows are those of all the ids that are theirs.       *)
(***************************************************************************)
EXTENDS RoomService

IdsOf(e) == {u \in Users : whose[u] = e}
RowsOf(d, r, e) == {d.members[<<r, u>>] : u \in IdsOf(e)} \ {NoRow}
LabelsOf(d, r, e) == {row.label : row \in RowsOf(d, r, e)} \ {None}
ScoreOf(d, r, e) == MapThenSumSet(LAMBDA u : IF d.placed[<<r, u>>] = NoPlayer THEN 0 ELSE d.placed[<<r, u>>], IdsOf(e))
IsMaker(d, r, e) == \E row \in RowsOf(d, r, e) : row.created

\* The kinds of values the stores and the requests hold; a stopped server has no
\* request in progress.
ServiceTypeOK ==
  /\ DOMAIN db = {"name", "email", "members", "owner", "placed"}
  /\ db.name \in [Users -> Minted \cup Chosen \cup {None}]
  /\ db.email \in [Users -> Emails \cup {None}]
  /\ db.members \in [Rooms \X Users -> [created : BOOLEAN, label : Tags \cup {None}] \cup {NoRow}]
  /\ db.owner \in [Images -> Users \cup {None}]
  /\ rooms \in [Rooms -> Images \cup {None}]
  /\ files \in [Images -> SUBSET {"bytes", "meta"}]
  /\ slots \in [Slots -> Requests]
  /\ up \in BOOLEAN /\ requests \in 0..MaxRequests /\ faults \in 0..MaxFaults
  /\ \A s \in Slots : slots[s] # Idle => up /\ slots[s].pc # "idle"
  /\ whose \in [Users -> Emails \cup {None}] /\ uploader \in [Images -> Emails \cup {None}]
  /\ creator \in [Rooms -> Emails \cup {None}] /\ told \subseteq Rooms /\ joined \subseteq Rooms \X Emails

Making(q) == q.kind \in {"upload", "reuse"}

\* A request in progress is an account's, and the room and the picture it makes are its
\* caller's own, as far along as the request is.
RequestIsSound(q) ==
  /\ q # Idle => q.user \in Users /\ db.email[q.user] # None
  /\ q.kind = "none" => q.pc \in {"idle", "route"}
  /\ q.kind = "upload" => q.pc \in {"bytes", "meta", "create", "member", "gallery"}
  /\ q.kind = "reuse" => q.pc \in {"create", "member"}
  /\ q.kind = "profile" => q.pc = "name"
  /\ q.kind = "join" => q.pc \in {"name", "member"} /\ <<q.room, whose[q.user]>> \in joined
  /\ Making(q) =>
       /\ q.room \in Rooms /\ q.image \in Images
       /\ creator[q.room] = whose[q.user] /\ uploader[q.image] = whose[q.user]
       /\ rooms[q.room] = IF q.pc \in {"member", "gallery"} THEN q.image ELSE None
       /\ q.pc = "meta" => "bytes" \in files[q.image]
       /\ q.pc \in {"create", "member", "gallery"} => files[q.image] = {"bytes", "meta"}

\* No two requests make the same room.
RequestsAreSound ==
  /\ \A s \in Slots : RequestIsSound(slots[s])
  /\ \A s, t \in Slots :
       s # t /\ Making(slots[s]) /\ Making(slots[t]) => slots[s].room # slots[t].room

\* What is somebody's is the same person's in every table: accounts, galleries, rooms.
IdsAreTrue ==
  /\ \A u \in Users : db.email[u] # None => whose[u] = db.email[u] /\ db.name[u] # None
  /\ \A u, v \in Users : db.email[u] = db.email[v] /\ db.email[u] # None => u = v
  /\ \A u \in Users : whose[u] = None => db.name[u] = None
  /\ \A u \in Users : db.name[u] = None => \A r \in Rooms : db.members[<<r, u>>] = NoRow
  /\ \A i \in Images : db.owner[i] # None =>
       whose[db.owner[i]] # None /\ uploader[i] = whose[db.owner[i]]
  /\ \A r \in Rooms : rooms[r] # None => creator[r] # None

\* SPEC 9 and handler.ts: "no partial rooms created": whatever failed or crashed,
\* a room that exists shows a picture that is stored whole.
NoPartialRooms == \A r \in Rooms : rooms[r] # None => files[rooms[r]] = {"bytes", "meta"}

\* RoomStore.deleteUserImage: "every upload backs at least one room": a gallery
\* never offers a picture that is not stored or that no room was made of.
GalleryBacked ==
  \A i \in Images : db.owner[i] # None =>
    files[i] = {"bytes", "meta"} /\ \E r \in Rooms : rooms[r] = i

\* handler.ts: "someone else's image id (even leaked) can't be reused": the picture
\* of a room was uploaded by the one who made the room, migrations included.
ReuseIsOwned == \A r \in Rooms : rooms[r] # None => uploader[rooms[r]] = creator[r]

\* Rooms, galleries and stored pictures fit each other whatever failed, crashed or
\* was deleted between the steps of making a room.
PicturesAreWhole ==
  /\ ServiceTypeOK /\ IdsAreTrue /\ RequestsAreSound
  /\ NoPartialRooms /\ GalleryBacked /\ ReuseIsOwned

\* recordMembershipWithRetry: a history outage shorter than its attempts costs
\* nothing: a room whose creation was answered is in its maker's history, as made.
MakerKeepsHistory == \A r \in told : IsMaker(db, r, creator[r])

\* "a rename can't create history": a room in a person's history is one they made
\* or joined, and is flagged as made only for its maker.
HistoryIsEarned ==
  \A r \in Rooms, e \in Emails :
    /\ RowsOf(db, r, e) # {} => creator[r] = e \/ <<r, e>> \in joined
    /\ IsMaker(db, r, e) => creator[r] = e

\* One account per verified email, and it belongs to that person.
OneAccount ==
  \A e \in Emails :
    /\ Cardinality({u \in Users : db.email[u] = e}) <= 1
    /\ \A u \in Users : db.email[u] = e => whose[u] = e

\* A row of a history is its person's, and the name a touch saw was there; no request
\* has been refused its write more often than writes have failed.
RowsAreTrue ==
  /\ \A r \in Rooms, u \in Users : db.members[<<r, u>>] # NoRow =>
       /\ creator[r] = whose[u] \/ <<r, whose[u]>> \in joined
       /\ db.members[<<r, u>>].created => creator[r] = whose[u]
  /\ \A s \in Slots :
       /\ slots[s].tries <= faults
       /\ slots[s].pc = "name" => slots[s].seen # None
       /\ slots[s].pc = "gallery" => IsMaker(db, slots[s].room, creator[slots[s].room])

\* What a person is shown is theirs, and what they made is there.
HistoryIsTrue == RowsAreTrue /\ MakerKeepsHistory /\ HistoryIsEarned /\ OneAccount

\* A person's history, the made flag included, survives rejoins, renames, crashes
\* and the merging of their browser ids.
HistoryStep ==
  \A r \in Rooms, e \in Emails :
    /\ RowsOf(db, r, e) # {} => RowsOf(db', r, e) # {}
    /\ IsMaker(db, r, e) => IsMaker(db', r, e)
HistoryOnlyGrows == [][HistoryStep]_vars

\* The migration leaves a person the labels they gave a room, under whichever of their
\* ids, unless its reviewed mapping names that room: then it has the label resolved
\* there, or none ...
LabelStep ==
  ~up => \A r \in Rooms, e \in Emails :
    \/ LabelsOf(db', r, e) = LabelsOf(db, r, e)
    \/ \E m \in MappingsOf(e) :
         /\ Migrate(m) /\ r \in DOMAIN m.labels
         /\ LabelsOf(db', r, e) = {m.labels[r]} \ {None}
LabelsAreKept == [][LabelStep]_vars

\* ... and conserves scores, which stay counts of pieces.
MergeStep ==
  ~up => \A r \in Rooms :
    /\ \A e \in Emails : ScoreOf(db', r, e) = ScoreOf(db, r, e)
    /\ \A u \in Users : db'.placed[<<r, u>>] \in Nat \cup {NoPlayer}
MergeKeepsAll == LabelsAreKept /\ [][MergeStep]_vars

\* Requests, crashes and migrations take no room and no made flag out of anybody's
\* history, and a migration no score and, but where it was told to, no label.
HistoryIsPreserved == HistoryOnlyGrows /\ MergeKeepsAll

\* names.ts, on concurrent touches: a mint hits only "a random name nobody has seen yet".
\* As accounts are born with a name, no touch finds none to mint: a name once stored
\* changes only by a person's choice.
NameStep ==
  \A u \in Users : db.name[u] \notin {None, db'.name[u]} =>
    db'.name[u] \in Chosen \/ (~up /\ db'.name[u] = None)
NameIsKept == [][NameStep]_vars
=============================================================================
