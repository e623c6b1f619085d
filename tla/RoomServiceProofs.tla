-------------------------- MODULE RoomServiceProofs --------------------------
(***************************************************************************)
(* Rooms, galleries and stored pictures fit each other, and a person's     *)
(* history is true and only grows, for every set of persons, ids, rooms    *)
(* and requests, whatever fails, stops or is migrated in between.          *)
(***************************************************************************)
EXTENDS RoomServiceProps, SumLemmas, TLAPS

-----------------------------------------------------------------------------
(* The values of the stores and the requests. *)

Memberships == [created : BOOLEAN, label : Tags \cup {None}]

\* A membership is never the absence of one.
LEMMA RowFacts == NoRow \notin Memberships
BY NamesAssumption DEF NoRow, Memberships

LEMMA NoRowFacts == NoRow.created = FALSE
BY DEF NoRow

LEMMA IdleFacts == Idle \in Requests /\ Idle.pc = "idle" /\ Idle.kind = "none"
BY DEF Idle, Requests, MaxAttempts

\* The database as its fields.
Database(d) ==
  /\ DOMAIN d = {"name", "email", "members", "owner", "placed"}
  /\ d.name \in [Users -> Minted \cup Chosen \cup {None}]
  /\ d.email \in [Users -> Emails \cup {None}]
  /\ d.members \in [Rooms \X Users -> Memberships \cup {NoRow}]
  /\ d.owner \in [Images -> Users \cup {None}]

\* recordMembership touches one row, which is there afterwards.
LEMMA UpsertedRow ==
  ASSUME NEW d, Database(d), NEW r \in Rooms, NEW u \in Users, NEW created \in BOOLEAN
  PROVE  \E row \in Memberships :
           /\ row.created <=> created \/ (d.members[<<r, u>>] # NoRow /\ d.members[<<r, u>>].created)
           /\ Upserted(d, r, u, created) = [d EXCEPT !.members[<<r, u>>] = row]
<1> DEFINE row == d.members[<<r, u>>]
           new == [created |-> created \/ row.created, label |-> IF row = NoRow THEN None ELSE row.label]
<1>1. row \in Memberships \cup {NoRow}
  BY DEF Database
<1>2. new \in Memberships /\ (new.created <=> created \/ (row # NoRow /\ row.created))
  <2>1. CASE row = NoRow
    <3>1. row.created = FALSE
      BY <2>1, NoRowFacts
    <3>2. (created \/ row.created) \in BOOLEAN /\ ((created \/ row.created) <=> created)
      BY <3>1
    <3> QED
      BY <2>1, <3>2 DEF Memberships
  <2>2. CASE row # NoRow
    BY <1>1, <2>2 DEF Memberships
  <2> QED
    BY <2>1, <2>2
<1>3. Upserted(d, r, u, created) = [d EXCEPT !.members[<<r, u>>] = new]
  BY DEF Upserted, Database
<1> HIDE DEF new
<1> QED
  BY <1>2, <1>3

LEMMA UpsertedKeeps ==
  ASSUME NEW d, Database(d), NEW r \in Rooms, NEW u \in Users, NEW created \in BOOLEAN
  PROVE  /\ Database(Upserted(d, r, u, created))
         /\ Upserted(d, r, u, created).name = d.name /\ Upserted(d, r, u, created).email = d.email
         /\ Upserted(d, r, u, created).owner = d.owner
<1>1. PICK row \in Memberships :
        /\ row.created <=> created \/ (d.members[<<r, u>>] # NoRow /\ d.members[<<r, u>>].created)
        /\ Upserted(d, r, u, created) = [d EXCEPT !.members[<<r, u>>] = row]
  BY UpsertedRow
<1> QED
  BY <1>1 DEF Database

LEMMA UpsertedOthers ==
  ASSUME NEW d, Database(d), NEW r \in Rooms, NEW u \in Users, NEW created \in BOOLEAN,
         NEW q \in Rooms, NEW v \in Users, q # r \/ v # u
  PROVE  Upserted(d, r, u, created).members[<<q, v>>] = d.members[<<q, v>>]
<1>1. PICK row \in Memberships :
        /\ row.created <=> created \/ (d.members[<<r, u>>] # NoRow /\ d.members[<<r, u>>].created)
        /\ Upserted(d, r, u, created) = [d EXCEPT !.members[<<r, u>>] = row]
  BY UpsertedRow
<1>2. Upserted(d, r, u, created).members = [d.members EXCEPT ![<<r, u>>] = row] /\ row # NoRow
  BY <1>1, RowFacts DEF Database
<1>3. d.members \in [Rooms \X Users -> Memberships \cup {NoRow}]
  BY DEF Database
<1> QED
  BY <1>1, <1>2, <1>3

LEMMA UpsertedIsThere ==
  ASSUME NEW d, Database(d), NEW r \in Rooms, NEW u \in Users, NEW created \in BOOLEAN
  PROVE  Upserted(d, r, u, created).members[<<r, u>>] # NoRow
<1>1. PICK row \in Memberships :
        /\ row.created <=> created \/ (d.members[<<r, u>>] # NoRow /\ d.members[<<r, u>>].created)
        /\ Upserted(d, r, u, created) = [d EXCEPT !.members[<<r, u>>] = row]
  BY UpsertedRow
<1>2. Upserted(d, r, u, created).members = [d.members EXCEPT ![<<r, u>>] = row] /\ row # NoRow
  BY <1>1, RowFacts DEF Database
<1>3. d.members \in [Rooms \X Users -> Memberships \cup {NoRow}]
  BY DEF Database
<1> QED
  BY <1>1, <1>2, <1>3

LEMMA UpsertedIsMade ==
  ASSUME NEW d, Database(d), NEW r \in Rooms, NEW u \in Users, NEW created \in BOOLEAN
  PROVE  Upserted(d, r, u, created).members[<<r, u>>].created <=>
           created \/ (d.members[<<r, u>>] # NoRow /\ d.members[<<r, u>>].created)
<1>1. PICK row \in Memberships :
        /\ row.created <=> created \/ (d.members[<<r, u>>] # NoRow /\ d.members[<<r, u>>].created)
        /\ Upserted(d, r, u, created) = [d EXCEPT !.members[<<r, u>>] = row]
  BY UpsertedRow
<1>2. Upserted(d, r, u, created).members = [d.members EXCEPT ![<<r, u>>] = row] /\ row # NoRow
  BY <1>1, RowFacts DEF Database
<1>3. d.members \in [Rooms \X Users -> Memberships \cup {NoRow}]
  BY DEF Database
<1> QED
  BY <1>1, <1>2, <1>3

\* setRoomName touches one label, of a row that is there.
LEMMA LabelledFacts ==
  ASSUME NEW d, Database(d), NEW r \in Rooms, NEW u \in Users, NEW label \in Tags \cup {None}
  PROVE  /\ Database(Labelled(d, r, u, label))
         /\ Labelled(d, r, u, label).name = d.name /\ Labelled(d, r, u, label).email = d.email
         /\ Labelled(d, r, u, label).owner = d.owner
         /\ \A ru \in Rooms \X Users :
              /\ Labelled(d, r, u, label).members[ru] # NoRow <=> d.members[ru] # NoRow
              /\ d.members[ru] # NoRow => Labelled(d, r, u, label).members[ru].created = d.members[ru].created
<1>1. CASE d.members[<<r, u>>] = NoRow
  BY <1>1 DEF Labelled
<1>2. CASE d.members[<<r, u>>] # NoRow
  <2> DEFINE row == d.members[<<r, u>>]
             new == [row EXCEPT !.label = label]
  <2>1. row \in Memberships
    BY <1>2 DEF Database
  <2>2. new \in Memberships /\ new.created = row.created /\ new # NoRow
    BY <2>1, RowFacts DEF Memberships
  <2>3. Labelled(d, r, u, label) = [d EXCEPT !.members[<<r, u>>] = new]
    BY <1>2 DEF Labelled, Database
  <2> HIDE DEF new
  <2> QED
    BY <2>2, <2>3, <1>2 DEF Database
<1> QED
  BY <1>1, <1>2

\* findOrCreateAccount: an account that was there is left as it is, a new one has a name.
LEMMA LoggedInFacts ==
  ASSUME NEW d, Database(d), NEW e \in Emails, NEW u \in Users, NEW name \in Minted
  PROVE  /\ Database(LoggedIn(d, e, u, name))
         /\ LoggedIn(d, e, u, name).members = d.members /\ LoggedIn(d, e, u, name).owner = d.owner
         /\ \/ LoggedIn(d, e, u, name) = d
            \/ /\ \A v \in Users : d.email[v] # e
               /\ \A v \in Users : LoggedIn(d, e, u, name).email[v] = IF v = u THEN e ELSE d.email[v]
               /\ \A v \in Users : LoggedIn(d, e, u, name).name[v] = IF v = u THEN name ELSE d.name[v]
BY DEF LoggedIn, Database

\* The reviewed mapping of a person merges all their ids, and resolves a label to one people
\* give or to none.
LEMMA MappingFacts ==
  ASSUME NEW e \in Emails, NEW m \in MappingsOf(e)
  PROVE  /\ m.email = e /\ m.user \in Users /\ OldIds(m) \subseteq IdsOf(e) /\ m.name \in Chosen
         /\ OldIds(m) = {u \in Users : whose[u] = e /\ db.name[u] # None}
         /\ \A r \in Rooms : r \in DOMAIN m.labels => m.labels[r] \in Tags \cup {None}
<1> DEFINE mine == {u \in Users : whose[u] = e /\ db.name[u] # None}
           resolved == UNION {[named -> Tags \cup {None}] : named \in SUBSET Resolvable}
<1>1. m \in [email : {e}, user : mine, legacy : SUBSET mine, name : Chosen, labels : resolved]
      /\ m.legacy = mine \ {m.user}
  BY DEF MappingsOf
<1> HIDE DEF resolved
<1>2. m.email = e /\ m.user \in mine /\ m.legacy = mine \ {m.user} /\ m.name \in Chosen /\ m.labels \in resolved
  BY <1>1
<1>3. OldIds(m) = mine
  BY <1>2 DEF OldIds
<1>4. OldIds(m) \subseteq IdsOf(e)
  BY <1>3 DEF IdsOf
<1>5. PICK named \in SUBSET Resolvable : m.labels \in [named -> Tags \cup {None}]
  BY <1>2 DEF resolved
<1>6. \A r \in Rooms : r \in DOMAIN m.labels => m.labels[r] \in Tags \cup {None}
  BY <1>5
<1> QED
  BY <1>2, <1>3, <1>4, <1>6

\* The merged membership is there if one of those it replaces is, made if one of them is,
\* and labelled as resolved, or else as those it replaces are.
LEMMA MergedFacts ==
  ASSUME NEW d, Database(d), NEW e \in Emails, NEW m \in MappingsOf(e), NEW r \in Rooms
  PROVE  /\ MergedRow(d, m, r) \in Memberships \cup {NoRow}
         /\ MergedRow(d, m, r) # NoRow <=> \E u \in OldIds(m) : d.members[<<r, u>>] # NoRow
         /\ MergedRow(d, m, r) # NoRow =>
              (MergedRow(d, m, r).created <=>
                 \E u \in OldIds(m) : d.members[<<r, u>>] # NoRow /\ d.members[<<r, u>>].created)
         /\ MergedRow(d, m, r) # NoRow =>
              IF r \in DOMAIN m.labels THEN MergedRow(d, m, r).label = m.labels[r]
              ELSE IF Labels(d, m, r) = {} THEN MergedRow(d, m, r).label = None
              ELSE MergedRow(d, m, r).label \in Labels(d, m, r)
<1> DEFINE rows == {d.members[<<r, u>>] : u \in OldIds(m)} \ {NoRow}
           label == IF r \in DOMAIN m.labels THEN m.labels[r]
                    ELSE IF Labels(d, m, r) = {} THEN None
                    ELSE CHOOSE l \in Labels(d, m, r) : TRUE
           made == \E row \in rows : row.created
<1>1. OldIds(m) \subseteq Users
  BY MappingFacts DEF IdsOf
<1>2. \A u \in OldIds(m) : d.members[<<r, u>>] \in Memberships \cup {NoRow}
  BY <1>1 DEF Database
<1>3. Labels(d, m, r) \subseteq Tags
  BY <1>2 DEF Labels, Memberships
<1>5. /\ label \in Tags \cup {None}
      /\ IF r \in DOMAIN m.labels THEN label = m.labels[r]
         ELSE IF Labels(d, m, r) = {} THEN label = None ELSE label \in Labels(d, m, r)
  <2>1. CASE r \in DOMAIN m.labels
    BY <2>1, MappingFacts
  <2>2. CASE r \notin DOMAIN m.labels /\ Labels(d, m, r) = {}
    BY <2>2
  <2>3. CASE r \notin DOMAIN m.labels /\ Labels(d, m, r) # {}
    BY <2>3, <1>3
  <2> QED
    BY <2>1, <2>2, <2>3
<1>6. made \in BOOLEAN
  OBVIOUS
<1>7. MergedRow(d, m, r) = IF rows = {} THEN NoRow ELSE [created |-> made, label |-> label]
  BY DEF MergedRow
<1> HIDE DEF label
<1>8. rows # {} <=> \E u \in OldIds(m) : d.members[<<r, u>>] # NoRow
  OBVIOUS
<1>9. made <=> \E u \in OldIds(m) : d.members[<<r, u>>] # NoRow /\ d.members[<<r, u>>].created
  OBVIOUS
<1> HIDE DEF rows, made
<1>11. [created |-> made, label |-> label] \in Memberships
  BY <1>5, <1>6 DEF Memberships
<1>12. MergedRow(d, m, r) # NoRow <=> rows # {}
  BY <1>7, <1>11, RowFacts
<1>13. MergedRow(d, m, r) # NoRow => (MergedRow(d, m, r).created <=> made)
  BY <1>7
<1>14. rows # {} => MergedRow(d, m, r).label = label
  BY <1>7
<1> QED
  BY <1>5, <1>7, <1>8, <1>9, <1>11, <1>12, <1>13, <1>14

\* The migration moves what the old ids have to the account, and touches nothing else.
LEMMA MigratedFacts ==
  ASSUME NEW d, Database(d), NEW e \in Emails, NEW m \in MappingsOf(e)
  PROVE  /\ Database(Migrated(d, m))
         /\ \A u \in Users :
              /\ Migrated(d, m).name[u] =
                   IF u = m.user THEN m.name ELSE IF u \in OldIds(m) THEN None ELSE d.name[u]
              /\ Migrated(d, m).email[u] =
                   IF u = m.user THEN m.email ELSE IF u \in OldIds(m) THEN None ELSE d.email[u]
         /\ \A i \in Images :
              Migrated(d, m).owner[i] = IF d.owner[i] \in OldIds(m) THEN m.user ELSE d.owner[i]
         /\ \A r \in Rooms, u \in Users :
              Migrated(d, m).members[<<r, u>>] =
                IF u = m.user THEN MergedRow(d, m, r)
                ELSE IF u \in OldIds(m) THEN NoRow ELSE d.members[<<r, u>>]
<1>1. \A r \in Rooms : MergedRow(d, m, r) \in Memberships \cup {NoRow}
  BY MergedFacts
<1>2. m.email \in Emails /\ m.user \in Users /\ m.name \in Chosen
  BY MappingFacts
<1> DEFINE members == [ru \in Rooms \X Users |->
                 IF ru[2] = m.user THEN MergedRow(d, m, ru[1])
                 ELSE IF ru[2] \in OldIds(m) THEN NoRow ELSE d.members[ru]]
<1>3. members \in [Rooms \X Users -> Memberships \cup {NoRow}]
  BY <1>1 DEF Database
<1>4. Migrated(d, m).members = members
  BY DEF Migrated
<1>5. DOMAIN Migrated(d, m) = {"name", "email", "members", "owner", "placed"}
  BY DEF Migrated
<1>6. /\ Migrated(d, m).name = [u \in Users |-> IF u = m.user THEN m.name
                                  ELSE IF u \in OldIds(m) THEN None ELSE d.name[u]]
      /\ Migrated(d, m).email = [u \in Users |-> IF u = m.user THEN m.email
                                  ELSE IF u \in OldIds(m) THEN None ELSE d.email[u]]
      /\ Migrated(d, m).owner = [i \in Images |-> IF d.owner[i] \in OldIds(m) THEN m.user ELSE d.owner[i]]
  BY DEF Migrated
<1>7. \A r \in Rooms, u \in Users :
        members[<<r, u>>] = IF u = m.user THEN MergedRow(d, m, r)
                            ELSE IF u \in OldIds(m) THEN NoRow ELSE d.members[<<r, u>>]
  OBVIOUS
<1> HIDE DEF members
<1>8. Database(Migrated(d, m))
  BY <1>2, <1>3, <1>4, <1>5, <1>6 DEF Database
<1> QED
  BY <1>4, <1>6, <1>7, <1>8

-----------------------------------------------------------------------------
(* How a request moves on. *)

LEMMA DatabaseType == ServiceTypeOK => Database(db)
BY DEF ServiceTypeOK, Database, Memberships

\* Everything of q but how far it is.
SameRequest(p, q) ==
  p.kind = q.kind /\ p.user = q.user /\ p.room = q.room /\ p.image = q.image /\ p.seen = q.seen

LEMMA ProceedFacts ==
  ASSUME ServiceTypeOK, NEW s \in Slots, slots[s] # Idle,
         NEW pc \in {"route", "bytes", "meta", "create", "member", "gallery", "name"}, Proceed(s, pc)
  PROVE  /\ slots' \in [Slots -> Requests] /\ slots'[s].pc = pc /\ slots'[s] # Idle
         /\ SameRequest(slots'[s], slots[s]) /\ slots'[s].tries = slots[s].tries
         /\ \A t \in Slots : t # s => slots'[t] = slots[t]
<1>1. slots \in [Slots -> Requests] /\ slots' = [slots EXCEPT ![s].pc = pc]
  BY DEF ServiceTypeOK, Proceed
<1>2. [slots[s] EXCEPT !.pc = pc] \in Requests
  BY <1>1 DEF Requests
<1>3. slots' = [slots EXCEPT ![s] = [slots[s] EXCEPT !.pc = pc]]
  BY <1>1
<1>4. /\ [slots[s] EXCEPT !.pc = pc].pc = pc
      /\ SameRequest([slots[s] EXCEPT !.pc = pc], slots[s])
      /\ [slots[s] EXCEPT !.pc = pc].tries = slots[s].tries
  BY <1>1 DEF Requests, SameRequest
<1>5. slots'[s].pc = pc /\ slots'[s] # Idle
  BY <1>1, <1>3, <1>4, IdleFacts
<1> QED
  BY <1>1, <1>2, <1>3, <1>4, <1>5

LEMMA AnswerFacts ==
  ASSUME ServiceTypeOK, NEW s \in Slots, Answer(s)
  PROVE  /\ slots' \in [Slots -> Requests] /\ slots'[s] = Idle
         /\ \A t \in Slots : t # s => slots'[t] = slots[t]
BY IdleFacts DEF ServiceTypeOK, Answer

\* The slots of a step of a request by itself: what it was is what it is, only further.
StepsOn(s) ==
  /\ slots' \in [Slots -> Requests]
  /\ \A t \in Slots : t # s => slots'[t] = slots[t]
  /\ up /\ up' = up /\ slots[s] # Idle
  /\ \/ slots'[s] = Idle
     \/ SameRequest(slots'[s], slots[s]) /\ slots'[s].pc # "idle" /\ slots'[s] # Idle

LEMMA StepSlots ==
  ASSUME ServiceTypeOK, NEW s \in Slots, Step(s)
  PROVE  /\ StepsOn(s) /\ UNCHANGED <<up, requests, whose, uploader, creator, joined>>
         /\ faults' \in 0..MaxFaults
<1>1. CASE PutBytes(s)
  BY <1>1, IdleFacts, ProceedFacts DEF At, PutBytes, StepsOn, bounds, history, ServiceTypeOK
<1>2. CASE PutMeta(s)
  BY <1>2, IdleFacts, ProceedFacts DEF At, PutMeta, StepsOn, bounds, history, ServiceTypeOK
<1>3. CASE CreateRoom(s)
  BY <1>3, IdleFacts, ProceedFacts DEF At, CreateRoom, StepsOn, bounds, history, ServiceTypeOK
<1>4. CASE EnsureName(s)
  <2>1. up /\ slots[s] # Idle /\ UNCHANGED <<up, bounds, history>> /\ (Proceed(s, "member") \/ Answer(s))
    BY <1>4, IdleFacts DEF At, EnsureName
  <2> QED
    BY <2>1, AnswerFacts, ProceedFacts DEF StepsOn, bounds, history, ServiceTypeOK
<1>5. CASE RecordMember(s)
  <2>1. up /\ slots[s] # Idle /\ UNCHANGED <<up, bounds, whose, uploader, creator, joined>>
        /\ (Proceed(s, "gallery") \/ Answer(s))
    BY <1>5, IdleFacts DEF At, RecordMember, AfterMembership
  <2> QED
    BY <2>1, AnswerFacts, ProceedFacts DEF StepsOn, bounds, ServiceTypeOK
<1>6. CASE MemberFails(s)
  <2>1. up /\ slots[s] # Idle /\ UNCHANGED <<up, requests, whose, uploader, creator, joined>>
        /\ faults' \in 0..MaxFaults
    BY <1>6, IdleFacts, BoundAssumption DEF At, MemberFails, ServiceTypeOK
  <2>2. CASE slots[s].tries + 1 < MaxAttempts
    <3>1. slots' = [slots EXCEPT ![s] = [slots[s] EXCEPT !.tries = slots[s].tries + 1]]
      BY <1>6, <2>2 DEF MemberFails
    <3>2. slots \in [Slots -> Requests] /\ slots[s].pc # "idle"
      BY <1>6 DEF MemberFails, At, ServiceTypeOK
    <3>3. [slots[s] EXCEPT !.tries = slots[s].tries + 1] \in Requests
      BY <2>2, <3>2 DEF Requests, MaxAttempts
    <3>4. /\ SameRequest([slots[s] EXCEPT !.tries = slots[s].tries + 1], slots[s])
          /\ [slots[s] EXCEPT !.tries = slots[s].tries + 1].pc = slots[s].pc
      BY <3>2 DEF Requests, SameRequest
    <3>5. SameRequest(slots'[s], slots[s]) /\ slots'[s].pc # "idle" /\ slots'[s] # Idle
      BY <3>1, <3>2, <3>4, IdleFacts
    <3> QED
      BY <2>1, <3>1, <3>2, <3>3, <3>5 DEF StepsOn
  <2>3. CASE ~(slots[s].tries + 1 < MaxAttempts)
    <3>1. Proceed(s, "gallery") \/ Answer(s)
      BY <1>6, <2>3 DEF MemberFails, AfterMembership
    <3> QED
      BY <2>1, <3>1, AnswerFacts, ProceedFacts DEF StepsOn
  <2> QED
    BY <2>2, <2>3
<1>7. CASE RecordImage(s)
  BY <1>7, IdleFacts, AnswerFacts DEF At, RecordImage, StepsOn, bounds, ServiceTypeOK
<1>8. CASE RecordImageFails(s)
  BY <1>8, IdleFacts, BoundAssumption, AnswerFacts DEF At, RecordImageFails, StepsOn, ServiceTypeOK
<1>9. CASE Throws(s)
  <2>1. up /\ slots[s] # Idle /\ UNCHANGED <<up, requests, whose, uploader, creator, joined>>
        /\ faults' \in 0..MaxFaults /\ (Proceed(s, "member") \/ Answer(s))
    BY <1>9, IdleFacts, BoundAssumption DEF Throws, history, ServiceTypeOK
  <2> QED
    BY <2>1, AnswerFacts, ProceedFacts DEF StepsOn
<1> QED
  BY <1>1, <1>2, <1>3, <1>4, <1>5, <1>6, <1>7, <1>8, <1>9 DEF Step

\* The slots of a request that is routed: it is answered, or goes on with the fields it
\* has from its route.
RoutesOn(s) ==
  /\ slots' \in [Slots -> Requests]
  /\ \A t \in Slots : t # s => slots'[t] = slots[t]
  /\ up /\ slots[s] # Idle /\ slots[s].pc = "route"

\* What a slot is given: a request with some fields of its own.
LEMMA RoutedFacts ==
  ASSUME ServiceTypeOK, NEW s \in Slots, NEW q \in Requests, slots' = [slots EXCEPT ![s] = q],
         At(s, "route")
  PROVE  RoutesOn(s) /\ slots'[s] = q
BY IdleFacts DEF ServiceTypeOK, At, RoutesOn

LEMMA UploadFacts ==
  ASSUME ServiceTypeOK, NEW s \in Slots, Upload(s)
  PROVE  \E r \in FreshRooms, i \in FreshImages :
           /\ RoutesOn(s) /\ UNCHANGED <<db, rooms, files, up, bounds, whose, told, joined>>
           /\ slots'[s].pc = "bytes" /\ slots'[s].kind = "upload" /\ slots'[s].user = slots[s].user
           /\ slots'[s].room = r /\ slots'[s].image = i /\ slots'[s].tries = slots[s].tries
           /\ creator' = [creator EXCEPT ![r] = whose[slots[s].user]]
           /\ uploader' = [uploader EXCEPT ![i] = whose[slots[s].user]]
<1> DEFINE r == CHOOSE x \in FreshRooms : TRUE
           i == CHOOSE x \in FreshImages : TRUE
           q == [slots[s] EXCEPT !.pc = "bytes", !.kind = "upload", !.room = r, !.image = i]
<1>1. r \in FreshRooms /\ i \in FreshImages /\ r \in Rooms /\ i \in Images
  BY DEF Upload, FreshRooms, FreshImages
<1>2. slots' = [slots EXCEPT ![s] = q]
  BY DEF Upload
<1> HIDE DEF r, i
<1>3. /\ q \in Requests /\ q.pc = "bytes" /\ q.kind = "upload" /\ q.user = slots[s].user
      /\ q.room = r /\ q.image = i /\ q.tries = slots[s].tries
  <2>1. slots[s] \in Requests
    BY DEF ServiceTypeOK
  <2>2. q \in Requests
    BY <1>1, <2>1 DEF Requests
  <2>3. /\ q.pc = "bytes" /\ q.kind = "upload" /\ q.user = slots[s].user
        /\ q.room = r /\ q.image = i /\ q.tries = slots[s].tries
    BY <2>1 DEF Requests
  <2> QED
    BY <2>2, <2>3
<1> HIDE DEF q
<1>4. RoutesOn(s) /\ slots'[s] = q
  BY <1>2, <1>3, RoutedFacts DEF Upload
<1>5. /\ UNCHANGED <<db, rooms, files, up, bounds, whose, told, joined>>
      /\ creator' = [creator EXCEPT ![r] = whose[slots[s].user]]
      /\ uploader' = [uploader EXCEPT ![i] = whose[slots[s].user]]
  BY DEF Upload, r, i
<1> QED
  BY <1>1, <1>3, <1>4, <1>5 DEF q

LEMMA ReuseFacts ==
  ASSUME ServiceTypeOK, NEW s \in Slots, NEW i \in Images, Reuse(s, i)
  PROVE  \E r \in FreshRooms :
           /\ RoutesOn(s) /\ UNCHANGED <<db, rooms, files, up, bounds, whose, uploader, told, joined>>
           /\ slots'[s].pc = "create" /\ slots'[s].kind = "reuse" /\ slots'[s].user = slots[s].user
           /\ slots'[s].room = r /\ slots'[s].image = i /\ slots'[s].tries = slots[s].tries
           /\ creator' = [creator EXCEPT ![r] = whose[slots[s].user]]
           /\ db.owner[i] = slots[s].user
<1> DEFINE r == CHOOSE x \in FreshRooms : TRUE
           q == [slots[s] EXCEPT !.pc = "create", !.kind = "reuse", !.room = r, !.image = i]
<1>1. r \in FreshRooms /\ r \in Rooms
  BY DEF Reuse, FreshRooms
<1>2. slots' = [slots EXCEPT ![s] = q]
  BY DEF Reuse
<1> HIDE DEF r
<1>3. /\ q \in Requests /\ q.pc = "create" /\ q.kind = "reuse" /\ q.user = slots[s].user
      /\ q.room = r /\ q.image = i /\ q.tries = slots[s].tries
  <2>1. slots[s] \in Requests
    BY DEF ServiceTypeOK
  <2>2. q \in Requests
    BY <1>1, <2>1 DEF Requests
  <2>3. /\ q.pc = "create" /\ q.kind = "reuse" /\ q.user = slots[s].user
        /\ q.room = r /\ q.image = i /\ q.tries = slots[s].tries
    BY <2>1 DEF Requests
  <2> QED
    BY <2>2, <2>3
<1> HIDE DEF q
<1>4. RoutesOn(s) /\ slots'[s] = q
  BY <1>2, <1>3, RoutedFacts DEF Reuse
<1>5. /\ UNCHANGED <<db, rooms, files, up, bounds, whose, uploader, told, joined>>
      /\ creator' = [creator EXCEPT ![r] = whose[slots[s].user]] /\ db.owner[i] = slots[s].user
  BY DEF Reuse, r, Owned
<1> QED
  BY <1>1, <1>3, <1>4, <1>5

LEMMA ProfileFacts ==
  ASSUME ServiceTypeOK, NEW s \in Slots, slots[s].user \in Users, NEW u \in Users, Profile(s, u)
  PROVE  /\ RoutesOn(s) /\ UNCHANGED <<db, rooms, files, up, bounds, history>>
         /\ slots'[s].pc = "name" /\ slots'[s].kind = "profile" /\ slots'[s].user = slots[s].user
         /\ slots'[s].seen = db.name[slots[s].user] /\ slots'[s].tries = slots[s].tries
<1> DEFINE q == [slots[s] EXCEPT !.pc = "name", !.kind = "profile", !.seen = db.name[u]]
<1>1. slots' = [slots EXCEPT ![s] = q] /\ u = slots[s].user
  BY DEF Profile, Permitted
<1>2. db.name[u] \in Minted \cup Chosen \cup {None}
  BY DEF ServiceTypeOK
<1>3. /\ q \in Requests /\ q.pc = "name" /\ q.kind = "profile" /\ q.user = slots[s].user
      /\ q.seen = db.name[u] /\ q.tries = slots[s].tries
  <2>1. slots[s] \in Requests
    BY DEF ServiceTypeOK
  <2>2. q \in Requests
    BY <1>2, <2>1 DEF Requests
  <2>3. /\ q.pc = "name" /\ q.kind = "profile" /\ q.user = slots[s].user
        /\ q.seen = db.name[u] /\ q.tries = slots[s].tries
    BY <2>1 DEF Requests
  <2> QED
    BY <2>2, <2>3
<1> HIDE DEF q
<1>4. RoutesOn(s) /\ slots'[s] = q
  BY <1>1, <1>3, RoutedFacts DEF Profile
<1> QED
  BY <1>1, <1>3, <1>4 DEF Profile

LEMMA JoinFacts ==
  ASSUME ServiceTypeOK, NEW s \in Slots, slots[s].user \in Users, NEW r \in Rooms, Join(s, r)
  PROVE  /\ RoutesOn(s) /\ UNCHANGED <<db, rooms, files, up, bounds, whose, uploader, creator, told>>
         /\ slots'[s].pc = "name" /\ slots'[s].kind = "join" /\ slots'[s].user = slots[s].user
         /\ slots'[s].seen = db.name[slots[s].user] /\ slots'[s].room = r /\ slots'[s].tries = slots[s].tries
         /\ joined' = joined \cup {<<r, whose[slots[s].user]>>}
<1> DEFINE u == slots[s].user
           q == [slots[s] EXCEPT !.pc = "name", !.kind = "join", !.seen = db.name[u], !.room = r]
<1>1. slots' = [slots EXCEPT ![s] = q]
  BY DEF Join
<1>2. db.name[u] \in Minted \cup Chosen \cup {None}
  BY DEF ServiceTypeOK
<1>3. /\ q \in Requests /\ q.pc = "name" /\ q.kind = "join" /\ q.user = slots[s].user
      /\ q.seen = db.name[u] /\ q.room = r /\ q.tries = slots[s].tries
  <2>1. slots[s] \in Requests
    BY DEF ServiceTypeOK
  <2>2. q \in Requests
    BY <1>2, <2>1 DEF Requests
  <2>3. /\ q.pc = "name" /\ q.kind = "join" /\ q.user = slots[s].user
        /\ q.seen = db.name[u] /\ q.room = r /\ q.tries = slots[s].tries
    BY <2>1 DEF Requests
  <2> QED
    BY <2>2, <2>3
<1> HIDE DEF q
<1>4. RoutesOn(s) /\ slots'[s] = q
  BY <1>1, <1>3, RoutedFacts DEF Join
<1> QED
  BY <1>1, <1>3, <1>4 DEF Join

LEMMA AuthenticateFacts ==
  ASSUME ServiceTypeOK, NEW s \in Slots, NEW e \in Emails, Authenticate(s, e)
  PROVE  \E u \in Users, name \in Minted :
           /\ whose[u] = None \/ db.email[u] = e
           /\ db' = LoggedIn(db, e, u, name) /\ db'.email[u] = e
           /\ whose' = [whose EXCEPT ![u] = e]
           /\ slots' \in [Slots -> Requests] /\ up /\ slots[s] = Idle
           /\ \A t \in Slots : t # s => slots'[t] = slots[t]
           /\ slots'[s] # Idle /\ slots'[s].pc = "route" /\ slots'[s].kind = "none"
           /\ slots'[s].user = u /\ slots'[s].tries = 0
           /\ requests' \in 0..MaxRequests
           /\ UNCHANGED <<rooms, files, up, faults, uploader, creator, told, joined>>
<1>1. PICK u \in Users, name \in Minted :
        /\ whose[u] = None \/ db.email[u] = e
        /\ db' = LoggedIn(db, e, u, name) /\ db'.email[u] = e
        /\ whose' = [whose EXCEPT ![u] = e]
        /\ slots' = [slots EXCEPT ![s] = [Idle EXCEPT !.pc = "route", !.user = u]]
  BY DEF Authenticate
<1> DEFINE q == [Idle EXCEPT !.pc = "route", !.user = u]
<1>2. q \in Requests /\ q.pc = "route" /\ q.kind = "none" /\ q.user = u /\ q.tries = 0
  <2>1. Idle \in Requests /\ Idle.kind = "none" /\ Idle.tries = 0
    BY IdleFacts DEF Idle
  <2>2. q \in Requests
    BY <2>1 DEF Requests
  <2>3. q.pc = "route" /\ q.kind = "none" /\ q.user = u /\ q.tries = 0
    BY <2>1 DEF Requests
  <2> QED
    BY <2>2, <2>3
<1>3. q # Idle
  BY <1>2, IdleFacts
<1>4. slots \in [Slots -> Requests] /\ slots' = [slots EXCEPT ![s] = q]
  BY <1>1 DEF ServiceTypeOK
<1> HIDE DEF q
<1>5. up /\ slots[s] = Idle /\ requests' \in 0..MaxRequests
  BY BoundAssumption DEF Authenticate, Free, ServiceTypeOK
<1> QED
  <2>1. /\ slots' \in [Slots -> Requests] /\ slots'[s] = q
        /\ \A t \in Slots : t # s => slots'[t] = slots[t]
    BY <1>2, <1>4
  <2>2. UNCHANGED <<rooms, files, up, faults, uploader, creator, told, joined>>
    BY DEF Authenticate
  <2> QED
    BY <1>1, <1>2, <1>3, <1>5, <2>1, <2>2

-----------------------------------------------------------------------------
(* Type correctness. *)

\* What a request in progress is known to be.
LEMMA RequestFacts ==
  ASSUME ServiceTypeOK, IdsAreTrue, RequestsAreSound, NEW s \in Slots, slots[s] # Idle
  PROVE  /\ slots[s].user \in Users /\ whose[slots[s].user] \in Emails
         /\ db.email[slots[s].user] # None /\ db.name[slots[s].user] # None /\ up
         /\ Making(slots[s]) => slots[s].room \in Rooms /\ slots[s].image \in Images
<1>1. slots[s].user \in Users /\ db.email[slots[s].user] # None
  BY DEF RequestsAreSound, RequestIsSound
<1>2. whose[slots[s].user] = db.email[slots[s].user] /\ db.name[slots[s].user] # None
  BY <1>1 DEF IdsAreTrue
<1>3. db.email[slots[s].user] \in Emails \cup {None} /\ up
  BY <1>1 DEF ServiceTypeOK
<1>4. Making(slots[s]) => slots[s].room \in Rooms /\ slots[s].image \in Images
  BY DEF RequestsAreSound, RequestIsSound
<1> QED
  BY <1>1, <1>2, <1>3, <1>4

\* A request that writes a membership names a room, whatever it is for.
LEMMA MemberFacts ==
  ASSUME ServiceTypeOK, IdsAreTrue, RequestsAreSound, NEW s \in Slots,
         slots[s].pc \in {"member", "gallery"}
  PROVE  /\ slots[s].room \in Rooms /\ slots[s].kind \in {"upload", "reuse", "join"}
         /\ slots[s].kind = "join" => <<slots[s].room, whose[slots[s].user]>> \in joined
<1>1. slots[s] \in Requests /\ RequestIsSound(slots[s])
  BY DEF ServiceTypeOK, RequestsAreSound
<1>2. slots[s].kind \in {"upload", "reuse", "join"}
  BY <1>1 DEF RequestIsSound, Requests
<1>3. CASE slots[s].kind = "join"
  BY <1>1, <1>3 DEF RequestIsSound, ServiceTypeOK
<1>4. CASE slots[s].kind # "join"
  BY <1>1, <1>2, <1>4 DEF RequestIsSound, Making
<1> QED
  BY <1>2, <1>3, <1>4

\* The stores but the database.
Outside ==
  /\ rooms \in [Rooms -> Images \cup {None}]
  /\ files \in [Images -> SUBSET {"bytes", "meta"}]
  /\ whose \in [Users -> Emails \cup {None}] /\ uploader \in [Images -> Emails \cup {None}]
  /\ creator \in [Rooms -> Emails \cup {None}] /\ told \subseteq Rooms /\ joined \subseteq Rooms \X Emails

\* What a request changes of the stores by itself.
LEMMA StepStores ==
  ASSUME ServiceTypeOK, IdsAreTrue, RequestsAreSound, NEW s \in Slots, Step(s)
  PROVE  Database(db') /\ Outside'
<1>1. slots[s].pc # "idle" /\ slots[s] # Idle /\ Database(db) /\ slots[s] \in Requests
  BY IdleFacts, DatabaseType DEF Step, At, PutBytes, PutMeta, CreateRoom, EnsureName, RecordMember,
     MemberFails, RecordImage, RecordImageFails, Throws, ServiceTypeOK
<1>2. slots[s].user \in Users /\ whose[slots[s].user] \in Emails
  BY <1>1, RequestFacts
<1>3. CASE PutBytes(s) \/ PutMeta(s)
  BY <1>1, <1>3 DEF PutBytes, PutMeta, history, ServiceTypeOK, Outside
<1>4. CASE CreateRoom(s)
  BY <1>1, <1>4 DEF CreateRoom, history, ServiceTypeOK, Outside, Requests
<1>5. CASE EnsureName(s)
  <2>1. Outside'
    BY <1>1, <1>5 DEF EnsureName, history, ServiceTypeOK, Outside
  <2>2. PICK name \in Minted :
          db' = IF slots[s].seen = None THEN [db EXCEPT !.name[slots[s].user] = name] ELSE db
    BY <1>5 DEF EnsureName
  <2> QED
    BY <1>1, <2>1, <2>2 DEF Database
<1>6. CASE RecordMember(s)
  <2>1. slots[s].room \in Rooms
    BY <1>6, MemberFacts DEF RecordMember, At
  <2>2. Database(db')
    BY <1>1, <1>2, <1>6, <2>1, UpsertedKeeps DEF RecordMember
  <2> QED
    BY <1>6, <2>1, <2>2 DEF RecordMember, AfterMembership, ServiceTypeOK, Outside
<1>7. CASE MemberFails(s)
  <2>1. slots[s].room \in Rooms
    BY <1>7, MemberFacts DEF MemberFails, At
  <2> QED
    BY <1>1, <1>7, <2>1 DEF MemberFails, AfterMembership, ServiceTypeOK, Outside
<1>8. CASE RecordImage(s) \/ RecordImageFails(s)
  <2>1. slots[s].room \in Rooms
    BY <1>8, MemberFacts DEF RecordImage, RecordImageFails, At
  <2> QED
    BY <1>1, <1>2, <1>8, <2>1 DEF RecordImage, RecordImageFails, ServiceTypeOK, Outside, Database
<1>9. CASE Throws(s)
  BY <1>1, <1>9 DEF Throws, history, ServiceTypeOK, Outside
<1> QED
  BY <1>3, <1>4, <1>5, <1>6, <1>7, <1>8, <1>9 DEF Step

\* ServiceTypeOK', from its parts.
LEMMA TypeFromParts ==
  ASSUME Database(db'), Outside', slots' \in [Slots -> Requests],
         up' \in BOOLEAN, requests' \in 0..MaxRequests, faults' \in 0..MaxFaults,
         \A s \in Slots : slots'[s] # Idle => up' /\ slots'[s].pc # "idle"
  PROVE  ServiceTypeOK'
BY DEF ServiceTypeOK, Database, Memberships, Outside

LEMMA TypeStep ==
  ASSUME ServiceTypeOK, IdsAreTrue, RequestsAreSound, [Next]_vars
  PROVE  ServiceTypeOK'
<1>0. /\ Database(db) /\ Outside /\ slots \in [Slots -> Requests] /\ up \in BOOLEAN
      /\ requests \in 0..MaxRequests /\ faults \in 0..MaxFaults
      /\ \A s \in Slots : slots[s] # Idle => up /\ slots[s].pc # "idle"
  BY DatabaseType DEF ServiceTypeOK, Outside
<1>1. ASSUME NEW s \in Slots, Step(s) PROVE ServiceTypeOK'
  <2>1. \A t \in Slots : slots'[t] # Idle => up' /\ slots'[t].pc # "idle"
    BY <1>0, <1>1, StepSlots DEF StepsOn
  <2> QED
    BY <1>0, <1>1, <2>1, StepSlots, StepStores, TypeFromParts DEF StepsOn
<1>2. ASSUME NEW s \in Slots, NEW e \in Emails, Authenticate(s, e) PROVE ServiceTypeOK'
  <2>1. PICK u \in Users, name \in Minted :
           /\ db' = LoggedIn(db, e, u, name)
           /\ whose' = [whose EXCEPT ![u] = e]
           /\ slots' \in [Slots -> Requests] /\ up
           /\ \A t \in Slots : t # s => slots'[t] = slots[t]
           /\ slots'[s].pc = "route" /\ requests' \in 0..MaxRequests
           /\ UNCHANGED <<rooms, files, up, faults, uploader, creator, told, joined>>
    BY <1>2, AuthenticateFacts
  <2>2. Database(db')
    BY <1>0, <2>1, LoggedInFacts
  <2>3. Outside'
    BY <1>0, <2>1 DEF Outside
  <2>4. \A t \in Slots : slots'[t] # Idle => up' /\ slots'[t].pc # "idle"
    BY <1>0, <2>1
  <2> QED
    BY <1>0, <2>1, <2>2, <2>3, <2>4, TypeFromParts
<1>3. ASSUME NEW s \in Slots, Upload(s) PROVE ServiceTypeOK'
  <2>1. PICK r \in FreshRooms, i \in FreshImages :
           /\ RoutesOn(s) /\ UNCHANGED <<db, rooms, files, up, bounds, whose, told, joined>>
           /\ slots'[s].pc = "bytes" /\ slots'[s].kind = "upload" /\ slots'[s].user = slots[s].user
           /\ slots'[s].room = r /\ slots'[s].image = i /\ slots'[s].tries = slots[s].tries
           /\ creator' = [creator EXCEPT ![r] = whose[slots[s].user]]
           /\ uploader' = [uploader EXCEPT ![i] = whose[slots[s].user]]
    BY <1>3, UploadFacts
  <2>2. whose[slots[s].user] \in Emails
    BY <2>1, RequestFacts DEF RoutesOn
  <2>3. Outside'
    BY <1>0, <2>1, <2>2 DEF Outside
  <2>4. \A t \in Slots : slots'[t] # Idle => up' /\ slots'[t].pc # "idle"
    BY <1>0, <2>1 DEF RoutesOn
  <2> QED
    BY <1>0, <2>1, <2>3, <2>4, TypeFromParts DEF RoutesOn, bounds
<1>4. ASSUME NEW s \in Slots, NEW i \in Images, Reuse(s, i) PROVE ServiceTypeOK'
  <2>1. PICK r \in FreshRooms :
           /\ RoutesOn(s) /\ UNCHANGED <<db, rooms, files, up, bounds, whose, uploader, told, joined>>
           /\ slots'[s].pc = "create"
           /\ creator' = [creator EXCEPT ![r] = whose[slots[s].user]]
    BY <1>4, ReuseFacts
  <2>2. whose[slots[s].user] \in Emails
    BY <2>1, RequestFacts DEF RoutesOn
  <2>3. Outside'
    BY <1>0, <2>1, <2>2 DEF Outside
  <2>4. \A t \in Slots : slots'[t] # Idle => up' /\ slots'[t].pc # "idle"
    BY <1>0, <2>1 DEF RoutesOn
  <2> QED
    BY <1>0, <2>1, <2>3, <2>4, TypeFromParts DEF RoutesOn, bounds
<1>5. ASSUME NEW s \in Slots, NEW u \in Users, Profile(s, u) PROVE ServiceTypeOK'
  <2>1. slots[s].user \in Users
    BY <1>5, IdleFacts, RequestFacts DEF Profile, At
  <2>2. RoutesOn(s) /\ UNCHANGED <<db, rooms, files, up, bounds, history>> /\ slots'[s].pc = "name"
    BY <1>5, <2>1, ProfileFacts
  <2>3. \A t \in Slots : slots'[t] # Idle => up' /\ slots'[t].pc # "idle"
    BY <1>0, <2>2 DEF RoutesOn
  <2>4. Outside'
    BY <1>0, <2>2 DEF Outside, history
  <2> QED
    BY <1>0, <2>2, <2>3, <2>4, TypeFromParts DEF RoutesOn, bounds
<1>6. ASSUME NEW s \in Slots, NEW r \in Rooms, Join(s, r) PROVE ServiceTypeOK'
  <2>1. slots[s].user \in Users /\ whose[slots[s].user] \in Emails
    BY <1>6, IdleFacts, RequestFacts DEF Join, At
  <2>2. /\ RoutesOn(s) /\ UNCHANGED <<db, rooms, files, up, bounds, whose, uploader, creator, told>>
        /\ slots'[s].pc = "name" /\ joined' = joined \cup {<<r, whose[slots[s].user]>>}
    BY <1>6, <2>1, JoinFacts
  <2>3. \A t \in Slots : slots'[t] # Idle => up' /\ slots'[t].pc # "idle"
    BY <1>0, <2>2 DEF RoutesOn
  <2>4. Outside'
    BY <1>0, <2>1, <2>2 DEF Outside
  <2> QED
    BY <1>0, <2>2, <2>3, <2>4, TypeFromParts DEF RoutesOn, bounds
<1>7. ASSUME NEW s \in Slots, Answer(s), Database(db'), UNCHANGED <<rooms, files, up, bounds, history>>
      PROVE  ServiceTypeOK'
  <2>1. slots' \in [Slots -> Requests] /\ \A t \in Slots : slots'[t] # Idle => up' /\ slots'[t].pc # "idle"
    BY <1>0, <1>7, AnswerFacts
  <2>2. Outside'
    BY <1>0, <1>7 DEF Outside, history
  <2> QED
    BY <1>0, <1>7, <2>1, <2>2, TypeFromParts DEF bounds
<1>8. ASSUME NEW s \in Slots, NEW u \in Users, NEW i \in Images, DeleteImage(s, u, i) PROVE ServiceTypeOK'
  <2>1. Database(db')
    BY <1>0, <1>8 DEF DeleteImage, Database
  <2> QED
    BY <1>7, <1>8, <2>1 DEF DeleteImage
<1>9. ASSUME NEW s \in Slots, NEW u \in Users, NEW r \in Rooms, NEW label \in Tags \cup {None},
             Rename(s, u, r, label)
      PROVE  ServiceTypeOK'
  <2>1. Database(db')
    BY <1>0, <1>9, LabelledFacts DEF Rename
  <2> QED
    BY <1>7, <1>9, <2>1 DEF Rename
<1>10. ASSUME NEW s \in Slots, NEW u \in Users, NEW name \in Chosen, SetName(s, u, name) PROVE ServiceTypeOK'
  <2>1. Database(db')
    BY <1>0, <1>10 DEF SetName, Database
  <2> QED
    BY <1>7, <1>10, <2>1 DEF SetName
<1>11. ASSUME NEW s \in Slots, LeavesNoTrace(s) PROVE ServiceTypeOK'
  BY <1>0, <1>7, <1>11 DEF LeavesNoTrace
<1>12. CASE Stop
  <2>1. slots' \in [Slots -> Requests] /\ \A t \in Slots : slots'[t] = Idle
    BY <1>12, IdleFacts DEF Stop
  <2>2. Outside'
    BY <1>0, <1>12 DEF Stop, Outside, history
  <2> QED
    BY <1>0, <1>12, <2>1, <2>2, TypeFromParts DEF Stop, bounds
<1>13. CASE Start
  <2>1. Outside'
    BY <1>0, <1>13 DEF Start, Outside, history
  <2> QED
    BY <1>0, <1>13, <2>1, TypeFromParts DEF Start, bounds
<1>14. ASSUME NEW e \in Emails, NEW m \in MappingsOf(e), Migrate(m) PROVE ServiceTypeOK'
  <2>1. Outside' /\ UNCHANGED <<slots, up, bounds>>
    BY <1>0, <1>14 DEF Migrate, Outside, history
  <2>2. Database(db')
    BY <1>0, <1>14, MigratedFacts DEF Migrate
  <2> QED
    BY <1>0, <2>1, <2>2, TypeFromParts DEF bounds
<1>15. CASE UNCHANGED vars
  <2>1. Outside' /\ UNCHANGED <<db, slots, up, bounds>>
    BY <1>0, <1>15 DEF vars, server, history, Outside
  <2> QED
    BY <1>0, <2>1, TypeFromParts DEF bounds
<1> QED
  BY <1>1, <1>2, <1>3, <1>4, <1>5, <1>6, <1>8, <1>9, <1>10, <1>11, <1>12, <1>13, <1>14, <1>15
     DEF Next, Routed

-----------------------------------------------------------------------------
(* What is never taken back. *)

Whole == {"bytes", "meta"}

\* Whose an id, a room or a picture is stays as it is once it is known; nobody is taken
\* out of a room or an account while the server runs; files are only added.
Grows ==
  /\ \A u \in Users : whose[u] # None => whose'[u] = whose[u]
  /\ \A r \in Rooms : creator[r] # None => creator'[r] = creator[r]
  /\ \A i \in Images : uploader[i] # None => uploader'[i] = uploader[i]
  /\ joined \subseteq joined'
  /\ \A i \in Images : files[i] \subseteq files'[i]
  /\ up => \A u \in Users : db.email[u] # None => db'.email[u] = db.email[u]

\* A new room shows a picture that is whole and its maker's own; a gallery offers no
\* picture but of a room.
RoomsGrow ==
  /\ \A r \in Rooms : rooms'[r] # rooms[r] =>
       /\ rooms[r] = None /\ rooms'[r] \in Images /\ files[rooms'[r]] = Whole
       /\ creator[r] # None /\ uploader[rooms'[r]] = creator[r]
  /\ \A i \in Images : db'.owner[i] # None /\ db'.owner[i] # db.owner[i] =>
       \/ db.owner[i] # None
       \/ files[i] = Whole /\ \E r \in Rooms : rooms[r] = i

\* A step of a request by itself.
LEMMA StepGrows ==
  ASSUME ServiceTypeOK, IdsAreTrue, RequestsAreSound, NEW s \in Slots, Step(s)
  PROVE  Grows /\ RoomsGrow
<1>0. /\ UNCHANGED <<up, whose, uploader, creator, joined>> /\ slots[s] # Idle
      /\ slots[s] \in Requests /\ RequestIsSound(slots[s]) /\ Database(db)
  BY StepSlots, DatabaseType DEF StepsOn, ServiceTypeOK, RequestsAreSound
<1>1. slots[s].user \in Users /\ whose[slots[s].user] \in Emails /\ None \notin Emails
  BY <1>0, RequestFacts, NamesAssumption
<1>2. CASE PutBytes(s) \/ PutMeta(s)
  BY <1>0, <1>2 DEF PutBytes, PutMeta, Grows, RoomsGrow, ServiceTypeOK
<1>3. CASE CreateRoom(s)
  <2>1. slots[s].pc = "create" /\ slots[s].kind \in {"upload", "reuse"}
    BY <1>0, <1>3 DEF CreateRoom, At, RequestIsSound, Requests
  <2>2. /\ slots[s].room \in Rooms /\ slots[s].image \in Images
        /\ creator[slots[s].room] = whose[slots[s].user] /\ uploader[slots[s].image] = whose[slots[s].user]
        /\ rooms[slots[s].room] = None /\ files[slots[s].image] = Whole
    BY <1>0, <2>1 DEF RequestIsSound, Making, Whole
  <2>3. UNCHANGED <<db, files>> /\ rooms' = [rooms EXCEPT ![slots[s].room] = slots[s].image]
    BY <1>3 DEF CreateRoom
  <2>4. Grows
    BY <1>0, <2>3 DEF Grows
  <2>5. RoomsGrow
    BY <1>1, <2>2, <2>3 DEF RoomsGrow, ServiceTypeOK
  <2> QED
    BY <2>4, <2>5
<1>4. CASE EnsureName(s)
  <2>1. PICK name \in Minted :
          db' = IF slots[s].seen = None THEN [db EXCEPT !.name[slots[s].user] = name] ELSE db
    BY <1>4 DEF EnsureName
  <2>2. db'.email = db.email /\ db'.owner = db.owner /\ UNCHANGED <<rooms, files>>
    BY <1>0, <1>4, <2>1 DEF EnsureName, Database
  <2> QED
    BY <1>0, <2>2 DEF Grows, RoomsGrow
<1>5. CASE RecordMember(s)
  <2>1. slots[s].room \in Rooms
    BY <1>5, MemberFacts DEF RecordMember, At
  <2>2. db'.email = db.email /\ db'.owner = db.owner /\ UNCHANGED <<rooms, files>>
    <3> DEFINE made == slots[s].kind # "join"
               new == Upserted(db, slots[s].room, slots[s].user, made)
    <3>1. made \in BOOLEAN
      OBVIOUS
    <3>2. db' = new /\ UNCHANGED <<rooms, files>>
      BY <1>5 DEF RecordMember
    <3> HIDE DEF made
    <3>3. ASSUME NEW c \in BOOLEAN
          PROVE  LET d == Upserted(db, slots[s].room, slots[s].user, c)
                 IN  d.email = db.email /\ d.owner = db.owner
      BY <1>0, <1>1, <2>1, <3>3, UpsertedKeeps
    <3>4. new.email = db.email /\ new.owner = db.owner
      BY <3>1, <3>3
    <3> QED
      BY <3>2, <3>4
  <2> QED
    BY <1>0, <2>2 DEF Grows, RoomsGrow
<1>6. CASE MemberFails(s) \/ RecordImageFails(s) \/ Throws(s)
  BY <1>0, <1>6 DEF MemberFails, RecordImageFails, Throws, Grows, RoomsGrow
<1>7. CASE RecordImage(s)
  <2>1. slots[s].pc = "gallery" /\ slots[s].kind = "upload"
    BY <1>0, <1>7 DEF RecordImage, At, RequestIsSound, Requests
  <2>2. /\ slots[s].room \in Rooms /\ slots[s].image \in Images
        /\ rooms[slots[s].room] = slots[s].image /\ files[slots[s].image] = Whole
    BY <1>0, <2>1 DEF RequestIsSound, Making, Whole
  <2>3. /\ db'.email = db.email /\ db'.owner = [db.owner EXCEPT ![slots[s].image] = slots[s].user]
        /\ UNCHANGED <<rooms, files>>
    BY <1>0, <1>7 DEF RecordImage, Database
  <2>4. db.owner \in [Images -> Users \cup {None}]
    BY DEF ServiceTypeOK
  <2> QED
    BY <1>0, <2>2, <2>3, <2>4 DEF Grows, RoomsGrow
<1> QED
  BY <1>2, <1>3, <1>4, <1>5, <1>6, <1>7 DEF Step

LEMMA GrowsStep ==
  ASSUME ServiceTypeOK, IdsAreTrue, RequestsAreSound, [Next]_vars
  PROVE  Grows /\ RoomsGrow
<1>0. Database(db)
  BY DatabaseType
<1>1. ASSUME NEW s \in Slots, Step(s) PROVE Grows /\ RoomsGrow
  BY <1>1, StepGrows
<1>2. ASSUME NEW s \in Slots, NEW e \in Emails, Authenticate(s, e) PROVE Grows /\ RoomsGrow
  <2>1. PICK u \in Users, name \in Minted :
           /\ whose[u] = None \/ db.email[u] = e
           /\ db' = LoggedIn(db, e, u, name) /\ db'.email[u] = e
           /\ whose' = [whose EXCEPT ![u] = e]
           /\ UNCHANGED <<rooms, files, up, faults, uploader, creator, told, joined>>
    BY <1>2, AuthenticateFacts
  <2>2. None \notin Emails
    BY NamesAssumption
  <2>0. /\ LoggedIn(db, e, u, name).owner = db.owner
        /\ \/ LoggedIn(db, e, u, name) = db
           \/ \A v \in Users : LoggedIn(db, e, u, name).email[v] = IF v = u THEN e ELSE db.email[v]
    BY <1>0, <1>2, <2>1, LoggedInFacts
  <2>3. db.email[u] \in {None, e} /\ (whose[u] = None => db.email[u] = None) /\ whose[u] \in {None, e}
    BY <2>1, <2>2 DEF IdsAreTrue
  <2>4. \A v \in Users : whose[v] # None => whose'[v] = whose[v]
    BY <2>1, <2>3 DEF ServiceTypeOK
  <2>5. \A v \in Users : db.email[v] # None => db'.email[v] = db.email[v]
    <3>1. CASE db' = db
      BY <3>1
    <3>2. CASE \A v \in Users : db'.email[v] = IF v = u THEN e ELSE db.email[v]
      BY <2>3, <3>2 DEF ServiceTypeOK
    <3> QED
      BY <2>1, <2>0, <3>1, <3>2
  <2>6. db'.owner = db.owner
    BY <2>0, <2>1
  <2> QED
    BY <2>1, <2>4, <2>5, <2>6 DEF Grows, RoomsGrow
<1>3. ASSUME NEW s \in Slots, Upload(s) PROVE Grows /\ RoomsGrow
  <2>1. PICK r \in FreshRooms, i \in FreshImages :
           /\ RoutesOn(s) /\ UNCHANGED <<db, rooms, files, up, bounds, whose, told, joined>>
           /\ slots'[s].pc = "bytes" /\ slots'[s].kind = "upload" /\ slots'[s].user = slots[s].user
           /\ slots'[s].room = r /\ slots'[s].image = i /\ slots'[s].tries = slots[s].tries
           /\ creator' = [creator EXCEPT ![r] = whose[slots[s].user]]
           /\ uploader' = [uploader EXCEPT ![i] = whose[slots[s].user]]
    BY <1>3, UploadFacts
  <2> QED
    BY <2>1 DEF Grows, RoomsGrow, FreshRooms, FreshImages, ServiceTypeOK
<1>4. ASSUME NEW s \in Slots, NEW i \in Images, Reuse(s, i) PROVE Grows /\ RoomsGrow
  <2>1. PICK r \in FreshRooms :
           /\ UNCHANGED <<db, rooms, files, up, bounds, whose, uploader, told, joined>>
           /\ creator' = [creator EXCEPT ![r] = whose[slots[s].user]]
    BY <1>4, ReuseFacts
  <2> QED
    BY <2>1 DEF Grows, RoomsGrow, FreshRooms, ServiceTypeOK
<1>5. ASSUME NEW s \in Slots, NEW u \in Users, Profile(s, u) PROVE Grows /\ RoomsGrow
  BY <1>5 DEF Profile, history, Grows, RoomsGrow
<1>6. ASSUME NEW s \in Slots, NEW r \in Rooms, Join(s, r) PROVE Grows /\ RoomsGrow
  BY <1>6 DEF Join, Grows, RoomsGrow
<1>7. ASSUME NEW s \in Slots, NEW u \in Users, NEW i \in Images, DeleteImage(s, u, i)
      PROVE  Grows /\ RoomsGrow
  <2>1. db'.email = db.email /\ db'.owner = [db.owner EXCEPT ![i] = None]
    BY <1>0, <1>7 DEF DeleteImage, Database
  <2> QED
    BY <1>7, <2>1 DEF DeleteImage, history, Grows, RoomsGrow, ServiceTypeOK
<1>8. ASSUME NEW s \in Slots, NEW u \in Users, NEW r \in Rooms, NEW label \in Tags \cup {None},
             Rename(s, u, r, label)
      PROVE  Grows /\ RoomsGrow
  <2>1. db'.email = db.email /\ db'.owner = db.owner
    BY <1>0, <1>8, LabelledFacts DEF Rename
  <2> QED
    BY <1>8, <2>1 DEF Rename, history, Grows, RoomsGrow
<1>9. ASSUME NEW s \in Slots, NEW u \in Users, NEW name \in Chosen, SetName(s, u, name)
      PROVE  Grows /\ RoomsGrow
  <2>1. db'.email = db.email /\ db'.owner = db.owner
    BY <1>0, <1>9 DEF SetName, Database
  <2> QED
    BY <1>9, <2>1 DEF SetName, history, Grows, RoomsGrow
<1>10. ASSUME NEW s \in Slots, LeavesNoTrace(s) PROVE Grows /\ RoomsGrow
  BY <1>10 DEF LeavesNoTrace, history, Grows, RoomsGrow
<1>11. CASE Stop \/ Start \/ UNCHANGED vars
  BY <1>11 DEF Stop, Start, vars, server, history, Grows, RoomsGrow
<1>12. ASSUME NEW e \in Emails, NEW m \in MappingsOf(e), Migrate(m) PROVE Grows /\ RoomsGrow
  <2>1. ~up /\ UNCHANGED <<rooms, files, history>> /\ db' = Migrated(db, m)
    BY <1>12 DEF Migrate
  <2>2. \A i \in Images : db'.owner[i] # db.owner[i] => db.owner[i] # None
    <3>1. None \notin OldIds(m)
      BY MappingFacts, NamesAssumption DEF IdsOf
    <3>2. \A i \in Images :
            Migrated(db, m).owner[i] = IF db.owner[i] \in OldIds(m) THEN m.user ELSE db.owner[i]
      BY <1>0, <1>12, MigratedFacts
    <3> QED
      BY <1>0, <2>1, <3>1, <3>2
  <2> QED
    BY <2>1, <2>2 DEF history, Grows, RoomsGrow
<1> QED
  BY <1>1, <1>2, <1>3, <1>4, <1>5, <1>6, <1>7, <1>8, <1>9, <1>10, <1>11, <1>12 DEF Next, Routed

-----------------------------------------------------------------------------
(* Ids, requests and pictures. *)

\* Steps that touch no person's id: names are only given to known ids, rows to named ones.
LEMMA IdsKept ==
  ASSUME ServiceTypeOK, IdsAreTrue, Grows, RoomsGrow, UNCHANGED whose, db'.email = db.email,
         \A u \in Users : db'.name[u] = db.name[u] \/ (whose[u] # None /\ db'.name[u] # None),
         \A r \in Rooms, u \in Users :
           db'.members[<<r, u>>] # NoRow => db.members[<<r, u>>] # NoRow \/ db.name[u] # None,
         \A i \in Images : db'.owner[i] # None => db'.owner[i] \in Users /\
           \/ db'.owner[i] = db.owner[i]
           \/ whose[db'.owner[i]] # None /\ uploader[i] = whose[db'.owner[i]]
  PROVE  IdsAreTrue'
<1>1. \A u \in Users : db'.email[u] # None => whose'[u] = db'.email[u] /\ db'.name[u] # None
  BY DEF IdsAreTrue
<1>2. \A u, v \in Users : db'.email[u] = db'.email[v] /\ db'.email[u] # None => u = v
  BY DEF IdsAreTrue
<1>3. \A u \in Users : whose'[u] = None => db'.name[u] = None
  BY DEF IdsAreTrue
<1>6. \A u \in Users : db'.name[u] = None => \A r \in Rooms : db'.members[<<r, u>>] = NoRow
  BY DEF IdsAreTrue
<1>4. \A i \in Images : db'.owner[i] # None =>
        whose'[db'.owner[i]] # None /\ uploader'[i] = whose'[db'.owner[i]]
  BY DEF IdsAreTrue, Grows
<1>5. \A r \in Rooms : rooms'[r] # None => creator'[r] # None
  BY DEF IdsAreTrue, Grows, RoomsGrow
<1> QED
  BY <1>1, <1>2, <1>3, <1>4, <1>5, <1>6 DEF IdsAreTrue

LEMMA IdsStepAlone ==
  ASSUME ServiceTypeOK, IdsAreTrue, RequestsAreSound, NEW s \in Slots, Step(s)
  PROVE  IdsAreTrue'
<1>0. /\ UNCHANGED <<up, whose, uploader, creator, joined>> /\ slots[s] # Idle
      /\ slots[s] \in Requests /\ RequestIsSound(slots[s]) /\ Database(db)
  BY StepSlots, DatabaseType DEF StepsOn, ServiceTypeOK, RequestsAreSound
<1>1. /\ slots[s].user \in Users /\ whose[slots[s].user] \in Emails /\ db.name[slots[s].user] # None
      /\ None \notin Emails \cup Users \cup Minted
  BY <1>0, RequestFacts, NamesAssumption
<1>2. Grows /\ RoomsGrow
  BY StepGrows
<1>3. \A i \in Images : db.owner[i] \in Users \cup {None}
  BY DEF ServiceTypeOK
<1>4. CASE db' = db
  BY <1>0, <1>2, <1>3, <1>4, IdsKept
<1>5. CASE EnsureName(s)
  <2>1. PICK name \in Minted :
          db' = IF slots[s].seen = None THEN [db EXCEPT !.name[slots[s].user] = name] ELSE db
    BY <1>5 DEF EnsureName
  <2>2. /\ db'.email = db.email /\ db'.owner = db.owner /\ db'.members = db.members
        /\ db'.name = db.name \/ db'.name = [db.name EXCEPT ![slots[s].user] = name]
    BY <1>0, <2>1 DEF Database
  <2>3. \A u \in Users : db'.name[u] = db.name[u] \/ (whose[u] # None /\ db'.name[u] # None)
    BY <1>0, <1>1, <2>1, <2>2 DEF Database
  <2> QED
    BY <1>0, <1>2, <1>3, <2>2, <2>3, IdsKept
<1>6. CASE RecordMember(s)
  <2>1. slots[s].room \in Rooms /\ (slots[s].kind # "join") \in BOOLEAN
    BY <1>6, MemberFacts DEF RecordMember, At
  <2>2. db' = Upserted(db, slots[s].room, slots[s].user, slots[s].kind # "join")
    BY <1>6 DEF RecordMember
  <2>3. db'.name = db.name /\ db'.email = db.email /\ db'.owner = db.owner
    BY <1>0, <1>1, <2>1, <2>2, UpsertedKeeps
  <2>4. \A q \in Rooms, v \in Users :
          q # slots[s].room \/ v # slots[s].user => db'.members[<<q, v>>] = db.members[<<q, v>>]
    <3>1. ASSUME NEW c \in BOOLEAN, NEW q \in Rooms, NEW v \in Users, q # slots[s].room \/ v # slots[s].user
          PROVE  Upserted(db, slots[s].room, slots[s].user, c).members[<<q, v>>] = db.members[<<q, v>>]
      BY <1>0, <1>1, <2>1, <3>1, UpsertedOthers
    <3> QED
      BY <2>1, <2>2, <3>1
  <2> QED
    BY <1>0, <1>1, <1>2, <1>3, <2>3, <2>4, IdsKept
<1>7. CASE RecordImage(s)
  <2>1. slots[s].pc = "gallery" /\ slots[s].kind = "upload"
    BY <1>0, <1>7 DEF RecordImage, At, RequestIsSound, Requests
  <2>2. slots[s].image \in Images /\ uploader[slots[s].image] = whose[slots[s].user]
    BY <1>0, <2>1 DEF RequestIsSound, Making
  <2>3. /\ db'.email = db.email /\ db'.name = db.name /\ db'.members = db.members
        /\ db'.owner = [db.owner EXCEPT ![slots[s].image] = slots[s].user]
    BY <1>0, <1>7 DEF RecordImage, Database
  <2>4. \A i \in Images : db'.owner[i] = db.owner[i] \/ (i = slots[s].image /\ db'.owner[i] = slots[s].user)
    BY <2>3 DEF ServiceTypeOK
  <2> QED
    BY <1>0, <1>1, <1>2, <1>3, <2>2, <2>3, <2>4, IdsKept
<1> QED
  BY <1>4, <1>5, <1>6, <1>7
     DEF Step, PutBytes, PutMeta, CreateRoom, MemberFails, RecordImageFails, Throws

LEMMA IdsStep ==
  ASSUME ServiceTypeOK, IdsAreTrue, RequestsAreSound, [Next]_vars
  PROVE  IdsAreTrue'
<1>0. Database(db) /\ Grows /\ RoomsGrow /\ \A i \in Images : db.owner[i] \in Users \cup {None}
  BY DatabaseType, GrowsStep DEF ServiceTypeOK
<1>1. None \notin Emails \cup Users \cup Minted \cup Chosen
  BY NamesAssumption
<1>2. ASSUME NEW s \in Slots, NEW e \in Emails, Authenticate(s, e) PROVE IdsAreTrue'
  <2>1. PICK u \in Users, name \in Minted :
           /\ whose[u] = None \/ db.email[u] = e
           /\ db' = LoggedIn(db, e, u, name) /\ db'.email[u] = e
           /\ whose' = [whose EXCEPT ![u] = e]
           /\ UNCHANGED <<rooms, files, up, faults, uploader, creator, told, joined>>
    BY <1>2, AuthenticateFacts
  <2>2. /\ db'.owner = db.owner /\ db'.members = db.members
        /\ \/ db' = db
           \/ /\ \A v \in Users : db.email[v] # e
              /\ \A v \in Users : db'.email[v] = IF v = u THEN e ELSE db.email[v]
              /\ \A v \in Users : db'.name[v] = IF v = u THEN name ELSE db.name[v]
    <3>1. /\ LoggedIn(db, e, u, name).members = db.members /\ LoggedIn(db, e, u, name).owner = db.owner
          /\ \/ LoggedIn(db, e, u, name) = db
             \/ /\ \A v \in Users : db.email[v] # e
                /\ \A v \in Users : LoggedIn(db, e, u, name).email[v] = IF v = u THEN e ELSE db.email[v]
                /\ \A v \in Users : LoggedIn(db, e, u, name).name[v] = IF v = u THEN name ELSE db.name[v]
      BY <1>0, <1>2, <2>1, LoggedInFacts
    <3> QED
      BY <2>1, <3>1
  <2>3. \A v \in Users : whose'[v] = IF v = u THEN e ELSE whose[v]
    BY <2>1 DEF ServiceTypeOK
  <2>4. \A v \in Users : db'.email[v] # None => whose'[v] = db'.email[v] /\ db'.name[v] # None
    BY <1>1, <1>2, <2>1, <2>2, <2>3 DEF IdsAreTrue
  <2>5. \A v, w \in Users : db'.email[v] = db'.email[w] /\ db'.email[v] # None => v = w
    BY <1>1, <1>2, <2>1, <2>2 DEF IdsAreTrue
  <2>6. \A v \in Users : whose'[v] = None => db'.name[v] = None
    BY <1>1, <1>2, <2>1, <2>2, <2>3 DEF IdsAreTrue
  <2>9. \A v \in Users : db'.name[v] = None => \A r \in Rooms : db'.members[<<r, v>>] = NoRow
    BY <1>1, <1>2, <2>1, <2>2 DEF IdsAreTrue
  <2>7. \A i \in Images : db'.owner[i] # None =>
          whose'[db'.owner[i]] # None /\ uploader'[i] = whose'[db'.owner[i]]
    BY <1>0, <2>1, <2>2 DEF IdsAreTrue, Grows
  <2>8. \A r \in Rooms : rooms'[r] # None => creator'[r] # None
    BY <2>1 DEF IdsAreTrue
  <2> QED
    BY <2>4, <2>5, <2>6, <2>7, <2>8, <2>9 DEF IdsAreTrue
<1>3. ASSUME db' = db, UNCHANGED whose PROVE IdsAreTrue'
  BY <1>0, <1>3, IdsKept
<1>4. ASSUME NEW s \in Slots, Upload(s) PROVE IdsAreTrue'
  BY <1>3, <1>4 DEF Upload
<1>5. ASSUME NEW s \in Slots, NEW i \in Images, Reuse(s, i) PROVE IdsAreTrue'
  BY <1>3, <1>5 DEF Reuse
<1>6. ASSUME NEW s \in Slots, NEW u \in Users, NEW i \in Images, DeleteImage(s, u, i) PROVE IdsAreTrue'
  <2>1. /\ db'.email = db.email /\ db'.name = db.name /\ db'.members = db.members
        /\ db'.owner = [db.owner EXCEPT ![i] = None] /\ UNCHANGED whose
    BY <1>0, <1>6 DEF DeleteImage, history, Database
  <2>2. \A j \in Images : db'.owner[j] \in {db.owner[j], None}
    BY <2>1 DEF ServiceTypeOK
  <2> QED
    BY <1>0, <2>1, <2>2, IdsKept
<1>7. ASSUME NEW s \in Slots, NEW u \in Users, NEW r \in Rooms, NEW label \in Tags \cup {None},
             Rename(s, u, r, label)
      PROVE  IdsAreTrue'
  <2>1. db' = Labelled(db, r, u, label) /\ UNCHANGED whose
    BY <1>7 DEF Rename, history
  <2>2. /\ db'.email = db.email /\ db'.name = db.name /\ db'.owner = db.owner
        /\ \A ru \in Rooms \X Users : db'.members[ru] # NoRow <=> db.members[ru] # NoRow
    BY <1>0, <1>7, <2>1, LabelledFacts
  <2> QED
    BY <1>0, <2>1, <2>2, IdsKept
<1>8. ASSUME NEW s \in Slots, NEW u \in Users, NEW name \in Chosen, SetName(s, u, name) PROVE IdsAreTrue'
  <2>1. slots[s] # Idle /\ slots[s].user = u /\ whose[u] # None
    BY <1>1, <1>8, IdleFacts, RequestFacts DEF SetName, At, Permitted
  <2>2. /\ db'.email = db.email /\ db'.name = [db.name EXCEPT ![u] = name] /\ db'.members = db.members
        /\ db'.owner = db.owner /\ UNCHANGED whose
    BY <1>0, <1>8 DEF SetName, history, Database
  <2>3. \A v \in Users : db'.name[v] = db.name[v] \/ (v = u /\ db'.name[v] = name)
    BY <2>2 DEF ServiceTypeOK
  <2> QED
    BY <1>0, <1>1, <1>8, <2>1, <2>2, <2>3, IdsKept
<1>9. ASSUME NEW s \in Slots, LeavesNoTrace(s) \/ (\E u \in Users : Profile(s, u)) \/ \E r \in Rooms : Join(s, r)
      PROVE  IdsAreTrue'
  BY <1>3, <1>9 DEF LeavesNoTrace, Profile, Join, history
<1>10. CASE Stop \/ Start \/ UNCHANGED vars
  BY <1>3, <1>10 DEF Stop, Start, vars, server, history
<1>11. ASSUME NEW e \in Emails, NEW m \in MappingsOf(e), Migrate(m) PROVE IdsAreTrue'
  <2>1. /\ UNCHANGED <<rooms, whose, uploader, creator>> /\ db' = Migrated(db, m)
        /\ \A u \in Users : db.email[u] = m.email => u \in OldIds(m)
    BY <1>11 DEF Migrate, history, Accepted
  <2>2. /\ m.email = e /\ m.user \in Users /\ m.name \in Chosen /\ m.user \in OldIds(m)
        /\ \A u \in OldIds(m) : u \in Users /\ whose[u] = e
    BY <1>11, MappingFacts DEF IdsOf, OldIds
  <2>3. \A u \in Users :
          /\ db'.name[u] = IF u = m.user THEN m.name ELSE IF u \in OldIds(m) THEN None ELSE db.name[u]
          /\ db'.email[u] = IF u = m.user THEN m.email ELSE IF u \in OldIds(m) THEN None ELSE db.email[u]
    BY <1>0, <1>11, <2>1, MigratedFacts
  <2>4. \A i \in Images : db'.owner[i] = IF db.owner[i] \in OldIds(m) THEN m.user ELSE db.owner[i]
    BY <1>0, <1>11, <2>1, MigratedFacts
  <2>5. \A r \in Rooms, u \in Users : u \notin OldIds(m) => db'.members[<<r, u>>] = db.members[<<r, u>>]
    BY <1>0, <1>11, <2>1, <2>2, MigratedFacts
  <2>6. \A u \in Users : db'.email[u] # None => whose'[u] = db'.email[u] /\ db'.name[u] # None
    BY <1>1, <2>1, <2>2, <2>3 DEF IdsAreTrue
  <2>7. \A u, v \in Users : db'.email[u] = db'.email[v] /\ db'.email[u] # None => u = v
    BY <2>1, <2>2, <2>3 DEF IdsAreTrue
  <2>8. \A u \in Users : whose'[u] = None => db'.name[u] = None
    BY <1>1, <1>11, <2>1, <2>2, <2>3 DEF IdsAreTrue
  <2>10. \A r \in Rooms, u \in Users : u \in OldIds(m) /\ u # m.user => db'.members[<<r, u>>] = NoRow
    BY <1>0, <1>11, <2>1, MigratedFacts
  <2>11. \A u \in Users : db'.name[u] = None => \A r \in Rooms : db'.members[<<r, u>>] = NoRow
    BY <1>1, <2>2, <2>3, <2>5, <2>10 DEF IdsAreTrue
  <2>9. \A i \in Images : db'.owner[i] # None =>
          whose'[db'.owner[i]] # None /\ uploader'[i] = whose'[db'.owner[i]]
    BY <1>1, <1>11, <2>1, <2>2, <2>4 DEF IdsAreTrue
  <2> QED
    BY <2>1, <2>6, <2>7, <2>8, <2>9, <2>11 DEF IdsAreTrue
<1> QED
  BY <1>2, <1>4, <1>5, <1>6, <1>7, <1>8, <1>9, <1>10, <1>11, IdsStepAlone DEF Next, Routed

\* A request that is not touched stays sound.
LEMMA SoundKept ==
  ASSUME ServiceTypeOK, ServiceTypeOK', IdsAreTrue, Grows, NEW t \in Slots,
         slots'[t] = slots[t], RequestIsSound(slots[t]), slots[t] # Idle => UNCHANGED up,
         Making(slots[t]) => rooms'[slots[t].room] = rooms[slots[t].room]
  PROVE  RequestIsSound(slots[t])'
<1> DEFINE q == slots[t]
<1>1. /\ q' = q /\ (q # Idle => up /\ q.user \in Users /\ whose[q.user] = db.email[q.user] /\ whose[q.user] # None)
      /\ q.kind \in {"upload", "reuse", "join"} => q # Idle
  BY IdleFacts DEF ServiceTypeOK, RequestIsSound, IdsAreTrue
<1>2. /\ q # Idle => q.user \in Users /\ db'.email[q.user] # None
      /\ q.kind = "none" => q.pc \in {"idle", "route"}
      /\ q.kind = "upload" => q.pc \in {"bytes", "meta", "create", "member", "gallery"}
      /\ q.kind = "reuse" => q.pc \in {"create", "member"}
      /\ q.kind = "profile" => q.pc = "name"
  BY <1>1 DEF RequestIsSound, Grows
<1>3. q.kind = "join" => q.pc \in {"name", "member"} /\ <<q.room, whose'[q.user]>> \in joined'
  BY <1>1 DEF RequestIsSound, Grows
<1>4. ASSUME Making(q)
      PROVE  /\ q.room \in Rooms /\ q.image \in Images
             /\ creator'[q.room] = whose'[q.user] /\ uploader'[q.image] = whose'[q.user]
             /\ rooms'[q.room] = IF q.pc \in {"member", "gallery"} THEN q.image ELSE None
             /\ q.pc = "meta" => "bytes" \in files'[q.image]
             /\ q.pc \in {"create", "member", "gallery"} => files'[q.image] = {"bytes", "meta"}
  <2>1. /\ q.room \in Rooms /\ q.image \in Images
        /\ creator[q.room] = whose[q.user] /\ uploader[q.image] = whose[q.user]
        /\ rooms[q.room] = IF q.pc \in {"member", "gallery"} THEN q.image ELSE None
        /\ q.pc = "meta" => "bytes" \in files[q.image]
        /\ q.pc \in {"create", "member", "gallery"} => files[q.image] = {"bytes", "meta"}
    BY <1>4 DEF RequestIsSound
  <2>2. q.user \in Users /\ whose[q.user] # None
    BY <1>1, <1>4 DEF Making
  <2>3. creator'[q.room] = whose'[q.user] /\ uploader'[q.image] = whose'[q.user]
    BY <2>1, <2>2 DEF Grows
  <2>4. files[q.image] \subseteq files'[q.image] /\ files'[q.image] \subseteq {"bytes", "meta"}
    BY <2>1 DEF Grows, ServiceTypeOK
  <2> QED
    BY <1>4, <2>1, <2>3, <2>4
<1> HIDE DEF q
<1>5. RequestIsSound(q)'
  BY <1>1, <1>2, <1>3, <1>4 DEF RequestIsSound, Making
<1> QED
  BY <1>5 DEF q

\* One request moves on or is answered; where it goes on it makes the room it made.
LEMMA OneMoves ==
  ASSUME ServiceTypeOK, ServiceTypeOK', IdsAreTrue, RequestsAreSound, Grows, NEW s \in Slots, UNCHANGED up,
         \A t \in Slots : t # s => slots'[t] = slots[t],
         \A t \in Slots : t # s /\ Making(slots[t]) => rooms'[slots[t].room] = rooms[slots[t].room],
         Making(slots'[s]) =>
           \/ Making(slots[s]) /\ slots'[s].room = slots[s].room
           \/ slots'[s].room \in FreshRooms,
         RequestIsSound(slots[s])'
  PROVE  RequestsAreSound'
<1>1. \A t \in Slots : RequestIsSound(slots[t])'
  <2>1. ASSUME NEW t \in Slots, t # s PROVE RequestIsSound(slots[t])'
    BY <2>1, SoundKept DEF RequestsAreSound
  <2> QED
    BY <2>1
<1>2. ASSUME NEW t \in Slots, t # s, Making(slots'[s]), Making(slots'[t]) PROVE slots'[t].room # slots'[s].room
  <2>1. Making(slots[t]) /\ slots'[t].room = slots[t].room
    BY <1>2
  <2>2. CASE Making(slots[s]) /\ slots'[s].room = slots[s].room
    BY <1>2, <2>1, <2>2 DEF RequestsAreSound
  <2>3. CASE slots'[s].room \in FreshRooms
    <3>1. slots[t] # Idle
      BY <2>1, IdleFacts DEF Making
    <3>2. creator[slots[t].room] = whose[slots[t].user] /\ whose[slots[t].user] # None
      <4>1. creator[slots[t].room] = whose[slots[t].user]
        BY <2>1 DEF RequestsAreSound, RequestIsSound
      <4>2. whose[slots[t].user] \in Emails /\ None \notin Emails
        BY <3>1, RequestFacts, NamesAssumption
      <4> QED
        BY <4>1, <4>2
    <3> QED
      BY <2>1, <2>3, <3>2 DEF FreshRooms
  <2> QED
    BY <1>2, <2>2, <2>3
<1>3. \A t, r \in Slots : t # r /\ Making(slots'[t]) /\ Making(slots'[r]) => slots'[t].room # slots'[r].room
  <2> SUFFICES ASSUME NEW t \in Slots, NEW r \in Slots, t # r, Making(slots'[t]), Making(slots'[r])
               PROVE  slots'[t].room # slots'[r].room
    OBVIOUS
  <2>1. CASE t = s \/ r = s
    BY <1>2, <2>1
  <2>2. CASE t # s /\ r # s
    BY <2>2 DEF RequestsAreSound
  <2> QED
    BY <2>1, <2>2
<1> QED
  BY <1>1, <1>3 DEF RequestsAreSound, Making

LEMMA IdleIsSound == RequestIsSound(Idle)'
BY IdleFacts DEF RequestIsSound, Making

\* The request of s is as far along as it says.
AsFar(s) ==
  LET q == slots[s]
      pc == slots'[s].pc
  IN  /\ q.kind \notin {"none", "profile"}
      /\ q.kind = "upload" => pc \in {"bytes", "meta", "create", "member", "gallery"}
      /\ q.kind = "reuse" => pc \in {"create", "member"}
      /\ q.kind = "join" => pc \in {"name", "member"}
      /\ Making(q) =>
           /\ rooms'[q.room] = IF pc \in {"member", "gallery"} THEN q.image ELSE None
           /\ pc = "meta" => "bytes" \in files'[q.image]
           /\ pc \in {"create", "member", "gallery"} => files'[q.image] = {"bytes", "meta"}

LEMMA MovesOn ==
  ASSUME ServiceTypeOK, ServiceTypeOK', IdsAreTrue, RequestsAreSound, Grows, NEW s \in Slots,
         slots[s] # Idle, SameRequest(slots'[s], slots[s]), UNCHANGED <<whose, creator, uploader>>, AsFar(s)
  PROVE  RequestIsSound(slots[s])'
<1> DEFINE q == slots[s]
           p == slots'[s]
<1>1. p.kind = q.kind /\ p.user = q.user /\ p.room = q.room /\ p.image = q.image
  BY DEF SameRequest
<1>2. RequestIsSound(q) /\ q.user \in Users /\ db.email[q.user] # None /\ up
  BY RequestFacts DEF RequestsAreSound
<1>3. db'.email[p.user] # None /\ p.user \in Users
  BY <1>1, <1>2 DEF Grows
<1>4. p.kind = "join" => <<p.room, whose'[p.user]>> \in joined'
  BY <1>1, <1>2 DEF RequestIsSound, Grows
<1>5. Making(p) =>
        /\ p.room \in Rooms /\ p.image \in Images
        /\ creator'[p.room] = whose'[p.user] /\ uploader'[p.image] = whose'[p.user]
        /\ rooms'[p.room] = IF p.pc \in {"member", "gallery"} THEN p.image ELSE None
        /\ p.pc = "meta" => "bytes" \in files'[p.image]
        /\ p.pc \in {"create", "member", "gallery"} => files'[p.image] = {"bytes", "meta"}
  BY <1>1, <1>2 DEF RequestIsSound, Making, AsFar
<1> HIDE DEF q
<1> QED
  BY <1>1, <1>3, <1>4, <1>5 DEF RequestIsSound, Making, AsFar, q

LEMMA RequestsStepAlone ==
  ASSUME ServiceTypeOK, ServiceTypeOK', IdsAreTrue, RequestsAreSound, NEW s \in Slots, Step(s)
  PROVE  RequestsAreSound'
<1>0. /\ StepsOn(s) /\ UNCHANGED <<up, whose, uploader, creator, joined>> /\ slots[s] # Idle
      /\ slots[s] \in Requests /\ RequestIsSound(slots[s])
  BY StepSlots DEF StepsOn, ServiceTypeOK, RequestsAreSound
<1>1. Grows
  BY StepGrows
<1>2. \A t \in Slots : t # s /\ Making(slots[t]) => rooms'[slots[t].room] = rooms[slots[t].room]
  <2>1. CASE CreateRoom(s)
    <3>1. slots[s].pc = "create" /\ slots[s].kind \in {"upload", "reuse"}
      BY <1>0, <2>1 DEF CreateRoom, At, RequestIsSound, Requests
    <3>2. \A t \in Slots : t # s /\ Making(slots[t]) =>
            slots[t].room # slots[s].room /\ slots[t].room \in Rooms
      BY <3>1 DEF RequestsAreSound, RequestIsSound, Making
    <3> QED
      BY <2>1, <3>2 DEF CreateRoom, ServiceTypeOK
  <2>2. CASE ~CreateRoom(s)
    BY <2>2 DEF Step, PutBytes, PutMeta, EnsureName, RecordMember, MemberFails, RecordImage,
       RecordImageFails, Throws
  <2> QED
    BY <2>1, <2>2
<1>3. CASE slots'[s] = Idle
  <2>1. RequestIsSound(slots[s])'
    BY <1>3, IdleIsSound
  <2>2. ~Making(slots'[s])
    BY <1>3, IdleFacts DEF Making
  <2> QED
    BY <1>0, <1>1, <1>2, <2>1, <2>2, OneMoves DEF StepsOn
<1>4. CASE slots'[s] # Idle
  <2>0. SameRequest(slots'[s], slots[s])
    BY <1>0, <1>4 DEF StepsOn
  <2>1. ASSUME PutBytes(s) PROVE RequestIsSound(slots[s])'
    <3>1. slots[s].pc = "bytes" /\ slots[s].kind = "upload"
      BY <1>0, <2>1 DEF PutBytes, At, RequestIsSound, Requests
    <3>2. slots[s].image \in Images /\ slots[s].room \in Rooms /\ rooms[slots[s].room] = None
      BY <1>0, <3>1 DEF RequestIsSound, Making
    <3>3. slots'[s].pc = "meta"
      BY <1>0, <2>1, ProceedFacts DEF PutBytes
    <3>4. rooms' = rooms /\ "bytes" \in files'[slots[s].image]
      BY <2>1, <3>2 DEF PutBytes, ServiceTypeOK
    <3>a. AsFar(s)
      BY <3>1, <3>2, <3>3, <3>4 DEF AsFar, Making
    <3> QED
      BY <1>0, <1>1, <2>0, <3>a, MovesOn
  <2>2. ASSUME PutMeta(s) PROVE RequestIsSound(slots[s])'
    <3>1. slots[s].pc = "meta" /\ slots[s].kind = "upload"
      BY <1>0, <2>2 DEF PutMeta, At, RequestIsSound, Requests
    <3>2. slots[s].image \in Images /\ rooms[slots[s].room] = None /\ "bytes" \in files[slots[s].image]
      BY <1>0, <3>1 DEF RequestIsSound, Making
    <3>3. slots'[s].pc = "create"
      BY <1>0, <2>2, ProceedFacts DEF PutMeta
    <3>4. rooms' = rooms /\ files'[slots[s].image] = {"bytes", "meta"}
      BY <2>2, <3>2 DEF PutMeta, ServiceTypeOK
    <3>a. AsFar(s)
      BY <3>1, <3>2, <3>3, <3>4 DEF AsFar, Making
    <3> QED
      BY <1>0, <1>1, <2>0, <3>a, MovesOn
  <2>3. ASSUME CreateRoom(s) PROVE RequestIsSound(slots[s])'
    <3>1. slots[s].pc = "create" /\ slots[s].kind \in {"upload", "reuse"}
      BY <1>0, <2>3 DEF CreateRoom, At, RequestIsSound, Requests
    <3>2. slots[s].room \in Rooms /\ files[slots[s].image] = {"bytes", "meta"}
      BY <1>0, <3>1 DEF RequestIsSound, Making
    <3>3. slots'[s].pc = "member"
      BY <1>0, <2>3, ProceedFacts DEF CreateRoom
    <3>4. rooms'[slots[s].room] = slots[s].image /\ files' = files
      BY <2>3, <3>2 DEF CreateRoom, ServiceTypeOK
    <3>a. AsFar(s)
      BY <3>1, <3>2, <3>3, <3>4 DEF AsFar, Making
    <3> QED
      BY <1>0, <1>1, <2>0, <3>a, MovesOn
  <2>4. ASSUME EnsureName(s) \/ Throws(s) PROVE RequestIsSound(slots[s])'
    <3>1. slots[s].kind = "join" /\ Proceed(s, "member") /\ ~Making(slots[s])
      BY <1>4, <2>4, AnswerFacts DEF EnsureName, Throws, Making
    <3>2. slots'[s].pc = "member"
      BY <1>0, <3>1, ProceedFacts
    <3>a. AsFar(s)
      BY <3>1, <3>2 DEF AsFar, Making
    <3> QED
      BY <1>0, <1>1, <2>0, <3>a, MovesOn
  <2>5. ASSUME RecordMember(s) \/ MemberFails(s) PROVE RequestIsSound(slots[s])'
    <3>1. slots[s].pc = "member" /\ slots[s].kind \in {"upload", "reuse", "join"} /\ UNCHANGED <<rooms, files>>
      BY <2>5, MemberFacts DEF RecordMember, MemberFails, At
    <3>2. Making(slots[s]) =>
            rooms[slots[s].room] = slots[s].image /\ files[slots[s].image] = {"bytes", "meta"}
      BY <1>0, <3>1 DEF RequestIsSound
    <3>3. CASE slots[s].kind = "upload" /\ Proceed(s, "gallery")
      <4>1. slots'[s].pc = "gallery"
        BY <1>0, <3>3, ProceedFacts
      <4>a. AsFar(s)
        BY <3>1, <3>2, <3>3, <4>1 DEF AsFar, Making
      <4> QED
        BY <1>0, <1>1, <2>0, <4>a, MovesOn
    <3>4. CASE slots' = [slots EXCEPT ![s].tries = @ + 1]
      <4>1. slots'[s].pc = "member"
        BY <1>0, <3>1, <3>4 DEF ServiceTypeOK, Requests
      <4>a. AsFar(s)
        BY <3>1, <3>2, <4>1 DEF AsFar, Making
      <4> QED
        BY <1>0, <1>1, <2>0, <4>a, MovesOn
    <3> QED
      BY <1>4, <2>5, <3>3, <3>4, AnswerFacts DEF RecordMember, MemberFails, AfterMembership
  <2>6. RequestIsSound(slots[s])'
    <3>1. ~(RecordImage(s) \/ RecordImageFails(s))
      BY <1>4, AnswerFacts DEF RecordImage, RecordImageFails
    <3> QED
      BY <2>1, <2>2, <2>3, <2>4, <2>5, <3>1 DEF Step
  <2>7. Making(slots'[s]) => Making(slots[s]) /\ slots'[s].room = slots[s].room
    BY <2>0 DEF SameRequest, Making
  <2> QED
    BY <1>0, <1>1, <1>2, <2>6, <2>7, OneMoves DEF StepsOn
<1> QED
  BY <1>3, <1>4

LEMMA RequestsStep ==
  ASSUME ServiceTypeOK, ServiceTypeOK', IdsAreTrue, RequestsAreSound, GalleryBacked, [Next]_vars
  PROVE  RequestsAreSound'
<1>0. Grows /\ None \notin Emails \cup Users
  BY GrowsStep, NamesAssumption
<1>1. ASSUME NEW s \in Slots, NEW e \in Emails, Authenticate(s, e) PROVE RequestsAreSound'
  <2>1. PICK u \in Users, name \in Minted :
           /\ db'.email[u] = e
           /\ \A t \in Slots : t # s => slots'[t] = slots[t]
           /\ slots'[s].pc = "route" /\ slots'[s].kind = "none" /\ slots'[s].user = u
           /\ UNCHANGED <<rooms, up>>
    BY <1>1, AuthenticateFacts
  <2>2. RequestIsSound(slots[s])' /\ ~Making(slots'[s])
    BY <1>0, <1>1, <2>1 DEF RequestIsSound, Making
  <2> QED
    BY <1>0, <2>1, <2>2, OneMoves
<1>2. ASSUME NEW s \in Slots, Upload(s) PROVE RequestsAreSound'
  <2>1. PICK r \in FreshRooms, i \in FreshImages :
           /\ RoutesOn(s) /\ UNCHANGED <<db, rooms, files, up, bounds, whose, told, joined>>
           /\ slots'[s].pc = "bytes" /\ slots'[s].kind = "upload" /\ slots'[s].user = slots[s].user
           /\ slots'[s].room = r /\ slots'[s].image = i /\ slots'[s].tries = slots[s].tries
           /\ creator' = [creator EXCEPT ![r] = whose[slots[s].user]]
           /\ uploader' = [uploader EXCEPT ![i] = whose[slots[s].user]]
    BY <1>2, UploadFacts
  <2>2. slots[s].user \in Users /\ db.email[slots[s].user] # None
    BY <2>1, RequestFacts DEF RoutesOn
  <2>3. /\ r \in Rooms /\ i \in Images /\ rooms[r] = None
        /\ creator'[r] = whose[slots[s].user] /\ uploader'[i] = whose[slots[s].user]
    BY <2>1 DEF FreshRooms, FreshImages, IdsAreTrue, ServiceTypeOK
  <2>4. RequestIsSound(slots[s])'
    BY <2>1, <2>2, <2>3 DEF RequestIsSound, Making
  <2> QED
    BY <1>0, <2>1, <2>4, OneMoves DEF RoutesOn
<1>3. ASSUME NEW s \in Slots, NEW i \in Images, Reuse(s, i) PROVE RequestsAreSound'
  <2>1. PICK r \in FreshRooms :
           /\ RoutesOn(s) /\ UNCHANGED <<db, rooms, files, up, bounds, whose, uploader, told, joined>>
           /\ slots'[s].pc = "create" /\ slots'[s].kind = "reuse" /\ slots'[s].user = slots[s].user
           /\ slots'[s].room = r /\ slots'[s].image = i /\ slots'[s].tries = slots[s].tries
           /\ creator' = [creator EXCEPT ![r] = whose[slots[s].user]]
           /\ db.owner[i] = slots[s].user
    BY <1>3, ReuseFacts
  <2>2. slots[s].user \in Users /\ db.email[slots[s].user] # None
    BY <2>1, RequestFacts DEF RoutesOn
  <2>3. r \in Rooms /\ rooms[r] = None /\ creator'[r] = whose[slots[s].user]
    BY <2>1 DEF FreshRooms, IdsAreTrue, ServiceTypeOK
  <2>4. uploader[i] = whose[slots[s].user] /\ files[i] = {"bytes", "meta"}
    BY <1>0, <1>3, <2>1, <2>2 DEF IdsAreTrue, GalleryBacked
  <2>5. RequestIsSound(slots[s])'
    BY <1>3, <2>1, <2>2, <2>3, <2>4 DEF RequestIsSound, Making
  <2> QED
    BY <1>0, <2>1, <2>5, OneMoves DEF RoutesOn
<1>4. ASSUME NEW s \in Slots, NEW u \in Users, Profile(s, u) PROVE RequestsAreSound'
  <2>1. slots[s].user \in Users /\ db.email[slots[s].user] # None
    BY <1>4, IdleFacts, RequestFacts DEF Profile, At
  <2>2. /\ RoutesOn(s) /\ UNCHANGED <<db, rooms, files, up, bounds, history>>
        /\ slots'[s].pc = "name" /\ slots'[s].kind = "profile" /\ slots'[s].user = slots[s].user
    BY <1>4, <2>1, ProfileFacts
  <2>3. RequestIsSound(slots[s])' /\ ~Making(slots'[s])
    BY <2>1, <2>2 DEF RequestIsSound, Making
  <2> QED
    BY <1>0, <2>2, <2>3, OneMoves DEF RoutesOn
<1>5. ASSUME NEW s \in Slots, NEW r \in Rooms, Join(s, r) PROVE RequestsAreSound'
  <2>1. slots[s].user \in Users /\ db.email[slots[s].user] # None
    BY <1>5, IdleFacts, RequestFacts DEF Join, At
  <2>2. /\ RoutesOn(s) /\ UNCHANGED <<db, rooms, files, up, bounds, whose, uploader, creator, told>>
        /\ slots'[s].pc = "name" /\ slots'[s].kind = "join" /\ slots'[s].user = slots[s].user
        /\ slots'[s].seen = db.name[slots[s].user] /\ slots'[s].room = r /\ slots'[s].tries = slots[s].tries
        /\ joined' = joined \cup {<<r, whose[slots[s].user]>>}
    BY <1>5, <2>1, JoinFacts
  <2>3. RequestIsSound(slots[s])' /\ ~Making(slots'[s])
    BY <2>1, <2>2 DEF RequestIsSound, Making
  <2> QED
    BY <1>0, <2>2, <2>3, OneMoves DEF RoutesOn
<1>6. ASSUME NEW s \in Slots, Answer(s), UNCHANGED <<rooms, up>> PROVE RequestsAreSound'
  <2>1. slots'[s] = Idle /\ \A t \in Slots : t # s => slots'[t] = slots[t]
    BY <1>6, AnswerFacts
  <2>2. RequestIsSound(slots[s])' /\ ~Making(slots'[s])
    BY <2>1, IdleIsSound, IdleFacts DEF Making
  <2> QED
    BY <1>0, <1>6, <2>1, <2>2, OneMoves
<1>7. ASSUME NEW s \in Slots,
             \/ LeavesNoTrace(s)
             \/ \E u \in Users, i \in Images : DeleteImage(s, u, i)
             \/ \E u \in Users, r \in Rooms, label \in Tags \cup {None} : Rename(s, u, r, label)
             \/ \E u \in Users, name \in Chosen : SetName(s, u, name)
      PROVE  RequestsAreSound'
  BY <1>6, <1>7 DEF LeavesNoTrace, DeleteImage, Rename, SetName
<1>8. ASSUME \A s \in Slots : slots'[s] = Idle PROVE RequestsAreSound'
  <2>1. \A s \in Slots : RequestIsSound(slots[s])' /\ ~Making(slots'[s])
    BY <1>8, IdleIsSound, IdleFacts DEF Making
  <2> QED
    BY <2>1 DEF RequestsAreSound, Making
<1>9. CASE Stop
  BY <1>8, <1>9 DEF Stop
<1>10. CASE Start \/ \E e \in Emails : \E m \in MappingsOf(e) : Migrate(m)
  <2>1. \A s \in Slots : slots'[s] = Idle
    BY <1>10 DEF Start, Migrate, ServiceTypeOK
  <2> QED
    BY <1>8, <2>1
<1>11. CASE UNCHANGED vars
  <2>1. UNCHANGED <<slots, up, rooms>>
    BY <1>11 DEF vars, server
  <2>2. \A t \in Slots : RequestIsSound(slots[t])'
    BY <1>0, <2>1, SoundKept DEF RequestsAreSound
  <2> QED
    BY <2>1, <2>2 DEF RequestsAreSound, Making
<1> QED
  BY <1>1, <1>2, <1>3, <1>4, <1>5, <1>7, <1>9, <1>10, <1>11, RequestsStepAlone DEF Next, Routed

LEMMA PicturesStep ==
  ASSUME ServiceTypeOK, ServiceTypeOK', IdsAreTrue, NoPartialRooms, GalleryBacked, ReuseIsOwned, Grows, RoomsGrow
  PROVE  NoPartialRooms' /\ GalleryBacked' /\ ReuseIsOwned'
<1>1. \A i \in Images : files[i] = Whole => files'[i] = Whole
  BY DEF Grows, Whole, ServiceTypeOK
<1>2. \A r \in Rooms : rooms[r] \in Images \cup {None} /\ (rooms[r] # None => rooms'[r] = rooms[r])
  BY DEF RoomsGrow, ServiceTypeOK
<1>3. NoPartialRooms'
  <2> SUFFICES ASSUME NEW r \in Rooms, rooms'[r] # None PROVE files'[rooms'[r]] = Whole
    BY DEF NoPartialRooms, Whole
  <2>1. CASE rooms'[r] = rooms[r]
    BY <1>1, <1>2, <2>1 DEF NoPartialRooms, Whole
  <2>2. CASE rooms'[r] # rooms[r]
    BY <1>1, <2>2 DEF RoomsGrow
  <2> QED
    BY <2>1, <2>2
<1>4. GalleryBacked'
  <2> SUFFICES ASSUME NEW i \in Images, db'.owner[i] # None
               PROVE  files'[i] = Whole /\ \E r \in Rooms : rooms'[r] = i
    BY DEF GalleryBacked, Whole
  <2>1. files[i] = Whole /\ \E r \in Rooms : rooms[r] = i
    BY DEF RoomsGrow, GalleryBacked, Whole
  <2>2. i # None
    BY NamesAssumption
  <2> QED
    BY <1>1, <1>2, <2>1, <2>2
<1>5. ReuseIsOwned'
  <2> SUFFICES ASSUME NEW r \in Rooms, rooms'[r] # None PROVE uploader'[rooms'[r]] = creator'[r]
    BY DEF ReuseIsOwned
  <2>1. CASE rooms'[r] = rooms[r]
    <3>1. rooms[r] \in Images /\ uploader[rooms[r]] = creator[r] /\ creator[r] # None
      BY <1>2, <2>1 DEF ReuseIsOwned, IdsAreTrue
    <3> QED
      BY <2>1, <3>1 DEF Grows
  <2>2. CASE rooms'[r] # rooms[r]
    BY <2>2 DEF RoomsGrow, Grows
  <2> QED
    BY <2>1, <2>2
<1> QED
  BY <1>3, <1>4, <1>5

LEMMA PicturesInductive == PicturesAreWhole /\ [Next]_vars => PicturesAreWhole'
<1> SUFFICES ASSUME PicturesAreWhole, [Next]_vars PROVE PicturesAreWhole'
  OBVIOUS
<1>1. ServiceTypeOK /\ IdsAreTrue /\ RequestsAreSound /\ NoPartialRooms /\ GalleryBacked /\ ReuseIsOwned
  BY DEF PicturesAreWhole
<1>2. ServiceTypeOK' /\ IdsAreTrue' /\ Grows /\ RoomsGrow
  BY <1>1, TypeStep, IdsStep, GrowsStep
<1>3. RequestsAreSound' /\ NoPartialRooms' /\ GalleryBacked' /\ ReuseIsOwned'
  BY <1>1, <1>2, RequestsStep, PicturesStep
<1> QED
  BY <1>2, <1>3 DEF PicturesAreWhole

LEMMA LegacyFacts ==
  /\ LegacyIds \subseteq Users /\ Old[1] \in Rooms /\ Old[2] \in Images
  /\ \A u \in LegacyIds : PersonOf(u) \in Emails
  /\ \A u \in Users : u \notin LegacyIds => PersonOf(u) = None
<1>1. \A e \in Emails : LegacyOf[e] \subseteq Users
  BY DatabaseAssumption
<1>2. LegacyIds \subseteq Users
  BY <1>1 DEF LegacyIds
<1>3. \A u \in LegacyIds : \E e \in Emails : u \in LegacyOf[e]
  BY DEF LegacyIds
<1>4. \A u \in LegacyIds : PersonOf(u) \in Emails
  BY <1>3 DEF PersonOf
<1> QED
  BY <1>2, <1>4, DatabaseAssumption DEF PersonOf

LEMMA InitPictures == Init => PicturesAreWhole
<1> SUFFICES ASSUME Init PROVE PicturesAreWhole
  OBVIOUS
<1>0. /\ None \notin Emails /\ None \notin Users /\ None \notin Images /\ None \notin Minted /\ None \notin Tags
      /\ 0 \in 0..MaxRequests /\ 0 \in 0..MaxFaults
  <2>1. None \notin Emails /\ None \notin Users /\ None \notin Images /\ None \notin Minted /\ None \notin Tags
    BY NamesAssumption
  <2> QED
    BY <2>1, BoundAssumption
<1>1. PICK maker \in LegacyIds, label \in [LegacyIds -> Tags \cup {None}], name \in Minted :
       /\ \A u, v \in LegacyIds : u # v => label[u] # label[v]
       /\ db = [name    |-> [u \in Users |-> IF u \in LegacyIds THEN name ELSE None],
                email   |-> [u \in Users |-> None],
                members |-> [ru \in Rooms \X Users |->
                              IF ru[1] = Old[1] /\ ru[2] \in LegacyIds
                                THEN [created |-> ru[2] = maker, label |-> label[ru[2]]] ELSE NoRow],
                owner   |-> [i \in Images |-> IF i = Old[2] THEN maker ELSE None],
                placed  |-> [ru \in Rooms \X Users |->
                              IF ru[1] = Old[1] /\ ru[2] \in LegacyIds THEN IF ru[2] = maker THEN 2 ELSE 1 ELSE NoPlayer]]
       /\ uploader = [i \in Images |-> IF i = Old[2] THEN PersonOf(maker) ELSE None]
       /\ creator = [r \in Rooms |-> IF r = Old[1] THEN PersonOf(maker) ELSE None]
       /\ joined = {<<Old[1], PersonOf(u)>> : u \in LegacyIds}
  BY Zenon DEF Init
<1>2. /\ rooms = [r \in Rooms |-> IF r = Old[1] THEN Old[2] ELSE None]
      /\ files = [i \in Images |-> IF i = Old[2] THEN {"bytes", "meta"} ELSE {}]
      /\ slots = [s \in Slots |-> Idle] /\ up = FALSE /\ requests = 0 /\ faults = 0
      /\ whose = [u \in Users |-> PersonOf(u)] /\ told = {}
  BY DEF Init
<1> DEFINE members == [ru \in Rooms \X Users |->
                        IF ru[1] = Old[1] /\ ru[2] \in LegacyIds
                          THEN [created |-> ru[2] = maker, label |-> label[ru[2]]] ELSE NoRow]
<1>3. /\ DOMAIN db = {"name", "email", "members", "owner", "placed"}
      /\ db.name = [u \in Users |-> IF u \in LegacyIds THEN name ELSE None]
      /\ db.email = [u \in Users |-> None] /\ db.members = members
      /\ db.owner = [i \in Images |-> IF i = Old[2] THEN maker ELSE None]
  BY <1>1
<1>4. members \in [Rooms \X Users -> Memberships \cup {NoRow}]
  BY <1>1 DEF Memberships
<1>5. \A r \in Rooms, u \in Users : u \notin LegacyIds => members[<<r, u>>] = NoRow
  OBVIOUS
<1> HIDE DEF members
<1>6. joined \subseteq Rooms \X Emails
  BY <1>1, LegacyFacts
<1>7. ServiceTypeOK
  BY <1>0, <1>1, <1>2, <1>3, <1>4, <1>6, LegacyFacts, IdleFacts DEF ServiceTypeOK, Memberships
<1>8. IdsAreTrue
  BY <1>0, <1>1, <1>2, <1>3, <1>5, LegacyFacts DEF IdsAreTrue
<1>9. RequestsAreSound
  BY <1>2, IdleFacts DEF RequestsAreSound, RequestIsSound, Making
<1>10. NoPartialRooms /\ GalleryBacked /\ ReuseIsOwned
  BY <1>0, <1>1, <1>2, <1>3, LegacyFacts DEF NoPartialRooms, GalleryBacked, ReuseIsOwned
<1> QED
  BY <1>7, <1>8, <1>9, <1>10 DEF PicturesAreWhole

\* SPEC 9, handler.ts: however requests interleave, fail, crash and are migrated, a room
\* shows a whole picture its maker uploaded, and a gallery offers only such pictures.
THEOREM PicturesAreWholeCorrect == Spec => []PicturesAreWhole
BY InitPictures, PicturesInductive, PTL DEF Spec

-----------------------------------------------------------------------------
(* Histories. *)

LEMMA RowsAre ==
  ASSUME NEW d, NEW r, NEW e
  PROVE  RowsOf(d, r, e) # {} <=> \E u \in Users : whose[u] = e /\ d.members[<<r, u>>] # NoRow
BY DEF RowsOf, IdsOf

LEMMA IsMakerIs ==
  ASSUME NEW d, NEW r, NEW e
  PROVE  IsMaker(d, r, e) <=>
           \E u \in Users : whose[u] = e /\ d.members[<<r, u>>] # NoRow /\ d.members[<<r, u>>].created
BY DEF IsMaker, RowsOf, IdsOf

\* Every row has a row of the same person's in d2, made if it was.
Survives(d, d2) ==
  \A r \in Rooms, u \in Users : d.members[<<r, u>>] # NoRow =>
    \E v \in Users : /\ whose[v] = whose[u] /\ d2.members[<<r, v>>] # NoRow
                     /\ d.members[<<r, u>>].created => d2.members[<<r, v>>].created

LEMMA RowsSurvive ==
  ASSUME NEW d, NEW d2, Survives(d, d2), NEW r \in Rooms, NEW e
  PROVE  /\ RowsOf(d, r, e) # {} => RowsOf(d2, r, e) # {}
         /\ IsMaker(d, r, e) => IsMaker(d2, r, e)
<1>1. ASSUME RowsOf(d, r, e) # {} PROVE RowsOf(d2, r, e) # {}
  <2>1. PICK u \in Users : whose[u] = e /\ d.members[<<r, u>>] # NoRow
    BY <1>1, RowsAre
  <2>2. PICK v \in Users : whose[v] = e /\ d2.members[<<r, v>>] # NoRow
    BY <2>1 DEF Survives
  <2> QED
    BY <2>2, RowsAre
<1>2. ASSUME IsMaker(d, r, e) PROVE IsMaker(d2, r, e)
  <2>1. PICK u \in Users : whose[u] = e /\ d.members[<<r, u>>] # NoRow /\ d.members[<<r, u>>].created
    BY <1>2, IsMakerIs
  <2>2. PICK v \in Users : whose[v] = e /\ d2.members[<<r, v>>] # NoRow /\ d2.members[<<r, v>>].created
    BY <2>1 DEF Survives
  <2> QED
    BY <2>2, IsMakerIs
<1> QED
  BY <1>1, <1>2

\* The rows and their made flags are what they were.
SameRows ==
  \A r \in Rooms, u \in Users :
    /\ db'.members[<<r, u>>] # NoRow <=> db.members[<<r, u>>] # NoRow
    /\ db.members[<<r, u>>] # NoRow => db'.members[<<r, u>>].created = db.members[<<r, u>>].created

LEMMA RowsChange ==
  ASSUME ServiceTypeOK, IdsAreTrue, [Next]_vars
  PROVE  \/ SameRows
         \/ \E s \in Slots : RecordMember(s)
         \/ \E e \in Emails : \E m \in MappingsOf(e) : Migrate(m)
<1>0. Database(db)
  BY DatabaseType
<1>1. ASSUME db'.members = db.members PROVE SameRows
  BY <1>1 DEF SameRows
<1>2. ASSUME NEW s \in Slots, Step(s), ~RecordMember(s) PROVE SameRows
  <2>1. CASE EnsureName(s)
    <3>1. PICK name \in Minted :
            db' = IF slots[s].seen = None THEN [db EXCEPT !.name[slots[s].user] = name] ELSE db
      BY <2>1 DEF EnsureName
    <3> QED
      BY <1>0, <1>1, <3>1 DEF Database
  <2>2. CASE RecordImage(s)
    BY <1>0, <1>1, <2>2 DEF RecordImage, Database
  <2> QED
    BY <1>1, <1>2, <2>1, <2>2 DEF Step, PutBytes, PutMeta, CreateRoom, MemberFails, RecordImageFails, Throws
<1>3. ASSUME NEW s \in Slots, NEW e \in Emails, Authenticate(s, e) PROVE SameRows
  <2>1. PICK u \in Users, name \in Minted : db' = LoggedIn(db, e, u, name)
    BY <1>3 DEF Authenticate
  <2>2. LoggedIn(db, e, u, name).members = db.members
    BY <1>0, <1>3, <2>1, LoggedInFacts
  <2> QED
    BY <1>1, <2>1, <2>2
<1>4. ASSUME NEW s \in Slots, NEW u \in Users, NEW r \in Rooms, NEW label \in Tags \cup {None},
             Rename(s, u, r, label)
      PROVE  SameRows
  <2>1. db' = Labelled(db, r, u, label)
    BY <1>4 DEF Rename
  <2>2. \A ru \in Rooms \X Users :
          /\ db'.members[ru] # NoRow <=> db.members[ru] # NoRow
          /\ db.members[ru] # NoRow => db'.members[ru].created = db.members[ru].created
    BY <1>0, <1>4, <2>1, LabelledFacts
  <2> QED
    BY <2>2 DEF SameRows
<1>5. ASSUME NEW s \in Slots, Routed(s), ~\E u \in Users, r \in Rooms, label \in Tags \cup {None} : Rename(s, u, r, label)
      PROVE  SameRows
  <2>1. ASSUME NEW u \in Users, NEW i \in Images, DeleteImage(s, u, i) PROVE SameRows
    BY <1>0, <1>1, <2>1 DEF DeleteImage, Database
  <2>2. ASSUME NEW u \in Users, NEW name \in Chosen, SetName(s, u, name) PROVE SameRows
    BY <1>0, <1>1, <2>2 DEF SetName, Database
  <2> QED
    BY <1>1, <1>5, <2>1, <2>2 DEF Routed, Upload, LeavesNoTrace, Reuse, Profile, Join
<1>6. CASE Stop \/ Start \/ UNCHANGED vars
  BY <1>1, <1>6 DEF Stop, Start, vars, server
<1> QED
  BY <1>2, <1>3, <1>4, <1>5, <1>6 DEF Next

\* No row and no made flag is lost: by its id, or by its person's in a migration.
LEMMA HistoryGrows ==
  ASSUME ServiceTypeOK, IdsAreTrue, RequestsAreSound, [Next]_vars
  PROVE  Survives(db, db')
<1>0. Database(db)
  BY DatabaseType
<1>1. CASE SameRows
  BY <1>1 DEF Survives, SameRows
<1>2. ASSUME NEW s \in Slots, RecordMember(s) PROVE Survives(db, db')
  <2>1. /\ slots[s].user \in Users /\ slots[s].room \in Rooms /\ (slots[s].kind # "join") \in BOOLEAN
        /\ db' = Upserted(db, slots[s].room, slots[s].user, slots[s].kind # "join")
    BY <1>2, MemberFacts, RequestFacts, IdleFacts DEF RecordMember, At
  <2>2. ASSUME NEW c \in BOOLEAN, NEW r \in Rooms, NEW u \in Users, db.members[<<r, u>>] # NoRow
        PROVE  LET new == Upserted(db, slots[s].room, slots[s].user, c).members[<<r, u>>]
               IN  new # NoRow /\ (db.members[<<r, u>>].created => new.created)
    <3>1. CASE r # slots[s].room \/ u # slots[s].user
      BY <1>0, <2>1, <2>2, <3>1, UpsertedOthers
    <3>2. CASE r = slots[s].room /\ u = slots[s].user
      <4>1. Upserted(db, slots[s].room, slots[s].user, c).members[<<r, u>>] # NoRow
        BY <1>0, <2>1, <2>2, <3>2, UpsertedIsThere
      <4>2. db.members[<<r, u>>].created => Upserted(db, slots[s].room, slots[s].user, c).members[<<r, u>>].created
        BY <1>0, <2>1, <2>2, <3>2, UpsertedIsMade
      <4> QED
        BY <4>1, <4>2
    <3> QED
      BY <3>1, <3>2
  <2>3. \A r \in Rooms, u \in Users : db.members[<<r, u>>] # NoRow =>
          /\ db'.members[<<r, u>>] # NoRow
          /\ db.members[<<r, u>>].created => db'.members[<<r, u>>].created
    BY <2>1, <2>2
  <2> QED
    BY <2>3 DEF Survives
<1>3. ASSUME NEW e \in Emails, NEW m \in MappingsOf(e), Migrate(m) PROVE Survives(db, db')
  <2>1. db' = Migrated(db, m) /\ m.user \in Users /\ m.user \in OldIds(m) /\ OldIds(m) \subseteq IdsOf(e)
    BY <1>3, MappingFacts DEF Migrate, OldIds
  <2>2. ASSUME NEW r \in Rooms, NEW u \in OldIds(m), db.members[<<r, u>>] # NoRow
        PROVE  /\ db'.members[<<r, m.user>>] # NoRow
               /\ db.members[<<r, u>>].created => db'.members[<<r, m.user>>].created
    <3>1. db'.members[<<r, m.user>>] = MergedRow(db, m, r)
      BY <1>0, <1>3, <2>1, MigratedFacts
    <3>2. MergedRow(db, m, r) # NoRow
      BY <1>0, <1>3, <2>2, MergedFacts
    <3>3. db.members[<<r, u>>].created => MergedRow(db, m, r).created
      BY <1>0, <1>3, <2>2, <3>2, MergedFacts
    <3> QED
      BY <3>1, <3>2, <3>3
  <2>3. \A r \in Rooms, u \in Users : u \notin OldIds(m) => db'.members[<<r, u>>] = db.members[<<r, u>>]
    BY <1>0, <1>3, <2>1, MigratedFacts
  <2>4. \A u \in OldIds(m) : u \in Users /\ whose[u] = whose[m.user]
    BY <2>1 DEF IdsOf
  <2> QED
    BY <2>1, <2>2, <2>3, <2>4 DEF Survives
<1> QED
  BY <1>1, <1>2, <1>3, RowsChange

\* Rejoins, renames, failures, crashes and the merging of browser ids take no room out of
\* anybody's history, and no made flag.
THEOREM HistoryOnlyGrowsCorrect == Spec => HistoryOnlyGrows
<1>1. PicturesAreWhole /\ [Next]_vars => [HistoryStep]_vars
  BY HistoryGrows, RowsSurvive DEF PicturesAreWhole, HistoryStep
<1> QED
  BY <1>1, InitPictures, PicturesInductive, PTL DEF Spec, HistoryOnlyGrows

\* How a step leaves a request: as it was, no further than before the name and the
\* gallery, about to see to a name it saw, refused its write once more, or past its
\* membership, which was written or given up.
MovesTo(t) ==
  LET p == slots[t]
      q == slots'[t]
  IN  \/ q = p
      \/ q.tries <= p.tries /\ q.pc \notin {"name", "gallery"}
      \/ q.tries <= p.tries /\ q.pc = "name" /\ q.seen # None
      \/ q.tries = p.tries + 1 /\ faults' = faults + 1 /\ q.pc = "member"
      \/ /\ q.tries <= p.tries /\ q.pc = "gallery" /\ q.room = p.room /\ p.kind = "upload"
         /\ RecordMember(t) \/ (MemberFails(t) /\ p.tries + 1 >= MaxAttempts)

LEMMA StepMoves ==
  ASSUME ServiceTypeOK, IdsAreTrue, RequestsAreSound, NEW s \in Slots, Step(s)
  PROVE  faults' \in {faults, faults + 1} /\ \A t \in Slots : MovesTo(t)
<1>0. /\ StepsOn(s) /\ slots[s] # Idle /\ slots[s] \in Requests /\ slots[s].tries \in Nat
      /\ \A t \in Slots : t # s => MovesTo(t)
  BY StepSlots DEF StepsOn, ServiceTypeOK, MovesTo, Requests
<1>1. ASSUME Answer(s) PROVE MovesTo(s)
  <2>1. slots'[s].tries = 0 /\ slots'[s].pc = "idle"
    BY <1>1, AnswerFacts DEF Idle
  <2> QED
    BY <1>0, <2>1 DEF MovesTo
<1>2. ASSUME NEW pc \in {"meta", "create", "member"}, Proceed(s, pc) PROVE MovesTo(s)
  <2>1. slots'[s].tries = slots[s].tries /\ slots'[s].pc = pc
    BY <1>0, <1>2, ProceedFacts
  <2> QED
    BY <1>0, <2>1 DEF MovesTo
<1>3. ASSUME RecordMember(s) \/ (MemberFails(s) /\ slots[s].tries + 1 >= MaxAttempts),
             slots[s].kind = "upload", Proceed(s, "gallery")
      PROVE  MovesTo(s)
  <2>1. slots'[s].tries = slots[s].tries /\ slots'[s].pc = "gallery" /\ slots'[s].room = slots[s].room
    BY <1>0, <1>3, ProceedFacts DEF SameRequest
  <2> QED
    BY <1>0, <1>3, <2>1 DEF MovesTo
<1>4. CASE PutBytes(s) \/ PutMeta(s) \/ CreateRoom(s) \/ EnsureName(s)
  <2>1. faults' = faults
    BY <1>4 DEF PutBytes, PutMeta, CreateRoom, EnsureName, bounds
  <2>2. Proceed(s, "meta") \/ Proceed(s, "create") \/ Proceed(s, "member") \/ Answer(s)
    BY <1>4 DEF PutBytes, PutMeta, CreateRoom, EnsureName
  <2> QED
    BY <1>0, <1>1, <1>2, <2>1, <2>2
<1>5. CASE RecordMember(s)
  <2>1. faults' = faults /\ AfterMembership(s)
    BY <1>5 DEF RecordMember, bounds
  <2> QED
    BY <1>0, <1>1, <1>3, <1>5, <2>1 DEF AfterMembership
<1>6. CASE MemberFails(s)
  <2>1. faults' = faults + 1 /\ slots[s].pc = "member"
    BY <1>6 DEF MemberFails, At
  <2>2. CASE slots[s].tries + 1 < MaxAttempts
    <3>1. slots' = [slots EXCEPT ![s] = [slots[s] EXCEPT !.tries = slots[s].tries + 1]]
      BY <1>6, <2>2 DEF MemberFails
    <3>2. slots'[s].tries = slots[s].tries + 1 /\ slots'[s].pc = "member"
      BY <1>0, <2>1, <3>1 DEF ServiceTypeOK, Requests
    <3> QED
      BY <1>0, <2>1, <3>2 DEF MovesTo
  <2>3. CASE ~(slots[s].tries + 1 < MaxAttempts)
    <3>1. AfterMembership(s) /\ slots[s].tries + 1 >= MaxAttempts
      BY <1>0, <1>6, <2>3 DEF MemberFails, MaxAttempts
    <3> QED
      BY <1>0, <1>1, <1>3, <1>6, <2>1, <3>1 DEF AfterMembership
  <2> QED
    BY <2>2, <2>3
<1>7. CASE RecordImage(s) \/ RecordImageFails(s) \/ Throws(s)
  <2>1. faults' \in {faults, faults + 1}
    BY <1>7 DEF RecordImage, RecordImageFails, Throws, bounds
  <2>2. Proceed(s, "member") \/ Answer(s)
    BY <1>7 DEF RecordImage, RecordImageFails, Throws
  <2> QED
    BY <1>0, <1>1, <1>2, <2>1, <2>2
<1> QED
  BY <1>4, <1>5, <1>6, <1>7 DEF Step

LEMMA AllMove ==
  ASSUME ServiceTypeOK, IdsAreTrue, RequestsAreSound, [Next]_vars
  PROVE  faults' \in {faults, faults + 1} /\ \A t \in Slots : MovesTo(t)
<1>0. \A t \in Slots : slots[t] \in Requests /\ slots[t].tries \in Nat
  BY DEF ServiceTypeOK, Requests
<1>1. ASSUME NEW s \in Slots, slots'[s] = Idle \/ MovesTo(s), \A t \in Slots : t # s => slots'[t] = slots[t]
      PROVE  \A t \in Slots : MovesTo(t)
  <2>1. slots'[s] = Idle => slots'[s].tries = 0 /\ slots'[s].pc = "idle"
    BY DEF Idle
  <2> QED
    BY <1>0, <1>1, <2>1 DEF MovesTo
<1>2. ASSUME NEW s \in Slots, NEW e \in Emails, Authenticate(s, e)
      PROVE  faults' = faults /\ \A t \in Slots : MovesTo(t)
  <2>1. PICK u \in Users, name \in Minted :
           /\ \A t \in Slots : t # s => slots'[t] = slots[t]
           /\ slots'[s].pc = "route" /\ slots'[s].tries = 0
    BY <1>2, AuthenticateFacts
  <2>2. MovesTo(s) /\ faults' = faults
    BY <1>0, <1>2, <2>1 DEF MovesTo, Authenticate
  <2> QED
    BY <1>1, <2>1, <2>2
<1>3. ASSUME NEW s \in Slots, Upload(s) PROVE faults' = faults /\ \A t \in Slots : MovesTo(t)
  <2>1. /\ RoutesOn(s) /\ UNCHANGED bounds
        /\ slots'[s].pc = "bytes" /\ slots'[s].tries = slots[s].tries
    BY <1>3, UploadFacts
  <2>2. MovesTo(s)
    BY <1>0, <1>3, <2>1 DEF MovesTo
  <2> QED
    BY <1>1, <2>1, <2>2 DEF RoutesOn, bounds
<1>4. ASSUME NEW s \in Slots, NEW i \in Images, Reuse(s, i)
      PROVE  faults' = faults /\ \A t \in Slots : MovesTo(t)
  <2>1. /\ RoutesOn(s) /\ UNCHANGED bounds
        /\ slots'[s].pc = "create" /\ slots'[s].tries = slots[s].tries
    BY <1>4, ReuseFacts
  <2>2. MovesTo(s)
    BY <1>0, <1>4, <2>1 DEF MovesTo
  <2> QED
    BY <1>1, <2>1, <2>2 DEF RoutesOn, bounds
<1>5. ASSUME NEW s \in Slots, (\E u \in Users : Profile(s, u)) \/ \E r \in Rooms : Join(s, r)
      PROVE  faults' = faults /\ \A t \in Slots : MovesTo(t)
  <2>1. slots[s] # Idle
    BY <1>5, IdleFacts DEF Profile, Join, At
  <2>2. slots[s].user \in Users /\ db.name[slots[s].user] # None
    BY <2>1, RequestFacts
  <2>3. /\ RoutesOn(s) /\ UNCHANGED bounds
        /\ slots'[s].pc = "name" /\ slots'[s].seen = db.name[slots[s].user] /\ slots'[s].tries = slots[s].tries
    BY <1>5, <2>2, ProfileFacts, JoinFacts
  <2>4. MovesTo(s)
    BY <1>0, <1>5, <2>2, <2>3 DEF MovesTo
  <2> QED
    BY <1>1, <2>3, <2>4 DEF RoutesOn, bounds
<1>6. ASSUME NEW s \in Slots, Answer(s), UNCHANGED bounds
      PROVE  faults' = faults /\ \A t \in Slots : MovesTo(t)
  BY <1>1, <1>6, AnswerFacts DEF bounds
<1>7. ASSUME NEW s \in Slots, Routed(s) PROVE faults' = faults /\ \A t \in Slots : MovesTo(t)
  BY <1>3, <1>4, <1>5, <1>6, <1>7 DEF Routed, LeavesNoTrace, DeleteImage, Rename, SetName
<1>8. CASE Stop
  <2>1. faults' = faults /\ \A t \in Slots : slots'[t] = Idle
    BY <1>8 DEF Stop, bounds
  <2>2. \A t \in Slots : slots'[t].tries = 0 /\ slots'[t].pc = "idle"
    BY <2>1 DEF Idle
  <2> QED
    BY <1>0, <2>1, <2>2 DEF MovesTo
<1>9. CASE Start \/ UNCHANGED vars \/ \E e \in Emails : \E m \in MappingsOf(e) : Migrate(m)
  BY <1>9 DEF Start, vars, server, bounds, Migrate, MovesTo
<1> QED
  BY <1>2, <1>7, <1>8, <1>9, StepMoves DEF Next

\* Who is told of a room has its membership behind them, written or given up.
LEMMA ToldStep ==
  ASSUME ServiceTypeOK, [Next]_vars, NEW r \in told', r \notin told
  PROVE  \E s \in Slots :
           /\ slots[s].room = r
           /\ \/ slots[s].pc = "gallery"
              \/ slots[s].kind = "reuse" /\ RecordMember(s)
              \/ MemberFails(s) /\ slots[s].tries + 1 >= MaxAttempts
<1>1. ASSUME NEW s \in Slots, MemberFails(s)
      PROVE  slots[s].room = r /\ slots[s].tries + 1 >= MaxAttempts
  <2>1. slots[s].tries \in Nat
    BY DEF ServiceTypeOK, Requests
  <2>2. ~(slots[s].tries + 1 < MaxAttempts) /\ AfterMembership(s)
    BY <1>1 DEF MemberFails
  <2> QED
    BY <2>1, <2>2 DEF AfterMembership, MaxAttempts
<1>2. ASSUME NEW s \in Slots, Step(s), ~MemberFails(s)
      PROVE  /\ slots[s].room = r
             /\ slots[s].pc = "gallery" \/ (slots[s].kind = "reuse" /\ RecordMember(s))
  BY <1>2 DEF Step, PutBytes, PutMeta, CreateRoom, EnsureName, RecordMember, AfterMembership,
     RecordImage, RecordImageFails, Throws, At, history
<1>3. \E s \in Slots : Step(s)
  BY DEF Next, Routed, Upload, Reuse, Profile, Join, LeavesNoTrace, DeleteImage, Rename, SetName,
     Authenticate, Stop, Start, Migrate, history, vars
<1> QED
  BY <1>1, <1>2, <1>3

-----------------------------------------------------------------------------
(* Names. *)

\* A touch looks for a name only after there is one.
NamesSeen == \A s \in Slots : slots[s].pc = "name" => slots[s].seen # None

LEMMA NamesSeenStep ==
  ASSUME ServiceTypeOK, IdsAreTrue, RequestsAreSound, NamesSeen, [Next]_vars
  PROVE  NamesSeen'
BY AllMove DEF NamesSeen, MovesTo

LEMMA NamesStep ==
  ASSUME ServiceTypeOK, IdsAreTrue, RequestsAreSound, NamesSeen, [Next]_vars
  PROVE  NameStep
<1>0. Database(db)
  BY DatabaseType
<1>1. ASSUME db'.name = db.name PROVE NameStep
  BY <1>1 DEF NameStep
<1>2. ASSUME NEW s \in Slots, Step(s) PROVE NameStep
  <2>1. CASE EnsureName(s)
    <3>1. slots[s].seen # None
      BY <2>1 DEF NamesSeen, EnsureName, At
    <3>2. db' = db
      BY <2>1, <3>1 DEF EnsureName
    <3> QED
      BY <1>1, <3>2
  <2>2. CASE RecordMember(s)
    <3>1. /\ slots[s].user \in Users /\ slots[s].room \in Rooms /\ (slots[s].kind # "join") \in BOOLEAN
          /\ db' = Upserted(db, slots[s].room, slots[s].user, slots[s].kind # "join")
      BY <2>2, MemberFacts, RequestFacts, IdleFacts DEF RecordMember, At
    <3>2. \A c \in BOOLEAN : Upserted(db, slots[s].room, slots[s].user, c).name = db.name
      BY <1>0, <3>1, UpsertedKeeps
    <3> QED
      BY <1>1, <3>1, <3>2
  <2>3. CASE RecordImage(s)
    BY <1>0, <1>1, <2>3 DEF RecordImage, Database
  <2> QED
    BY <1>1, <1>2, <2>1, <2>2, <2>3 DEF Step, PutBytes, PutMeta, CreateRoom, MemberFails, RecordImageFails, Throws
<1>3. ASSUME NEW s \in Slots, NEW e \in Emails, Authenticate(s, e) PROVE NameStep
  <2>1. PICK u \in Users, name \in Minted :
          (whose[u] = None \/ db.email[u] = e) /\ db' = LoggedIn(db, e, u, name)
    BY <1>3, AuthenticateFacts
  <2>2. CASE db' = db
    BY <1>1, <2>2
  <2>3. CASE db' # db
    <3>1. /\ \A v \in Users : db.email[v] # e
          /\ \A v \in Users : db'.name[v] = IF v = u THEN name ELSE db.name[v]
      BY <1>0, <1>3, <2>1, <2>3, LoggedInFacts
    <3>2. db.name[u] = None
      BY <2>1, <3>1 DEF IdsAreTrue
    <3> QED
      BY <3>1, <3>2 DEF NameStep
  <2> QED
    BY <2>2, <2>3
<1>4. ASSUME NEW s \in Slots, Routed(s) PROVE NameStep
  <2>1. ASSUME NEW u \in Users, NEW r \in Rooms, NEW label \in Tags \cup {None}, Rename(s, u, r, label)
        PROVE  NameStep
    BY <1>0, <1>1, <2>1, LabelledFacts DEF Rename
  <2>2. ASSUME NEW u \in Users, NEW i \in Images, DeleteImage(s, u, i) PROVE NameStep
    BY <1>0, <1>1, <2>2 DEF DeleteImage, Database
  <2>3. ASSUME NEW u \in Users, NEW name \in Chosen, SetName(s, u, name) PROVE NameStep
    <3>1. db' = [db EXCEPT !.name[u] = name]
      BY <2>3 DEF SetName
    <3>2. \A v \in Users : db'.name[v] = IF v = u THEN name ELSE db.name[v]
      BY <1>0, <3>1 DEF Database
    <3> QED
      BY <3>2 DEF NameStep
  <2> QED
    BY <1>1, <1>4, <2>1, <2>2, <2>3 DEF Routed, Upload, Reuse, Profile, Join, LeavesNoTrace
<1>5. ASSUME NEW e \in Emails, NEW m \in MappingsOf(e), Migrate(m) PROVE NameStep
  <2>1. db' = Migrated(db, m) /\ ~up /\ m.name \in Chosen
    BY <1>5, MappingFacts DEF Migrate
  <2>2. \A u \in Users :
          db'.name[u] = IF u = m.user THEN m.name ELSE IF u \in OldIds(m) THEN None ELSE db.name[u]
    BY <1>0, <1>5, <2>1, MigratedFacts
  <2> QED
    BY <2>1, <2>2 DEF NameStep
<1>6. CASE Stop \/ Start \/ UNCHANGED vars
  BY <1>1, <1>6 DEF Stop, Start, vars, server
<1> QED
  BY <1>2, <1>3, <1>4, <1>5, <1>6 DEF Next

\* names.ts: whatever touches, renames, logins and migrations interleave, a name that was
\* stored is replaced only by one its owner chose.
THEOREM NameIsKeptCorrect == Spec => NameIsKept
<1> DEFINE Inv == PicturesAreWhole /\ NamesSeen
<1>1. Init => Inv
  BY InitPictures, IdleFacts DEF Init, NamesSeen
<1>2. Inv /\ [Next]_vars => Inv' /\ [NameStep]_vars
  BY PicturesInductive, NamesSeenStep, NamesStep DEF PicturesAreWhole
<1> HIDE DEF Inv
<1> QED
  BY <1>1, <1>2, PTL DEF Spec, NameIsKept

-----------------------------------------------------------------------------
(* What a history holds. *)

\* A row is its person's own: they made its room or joined it, and made it if it says so.
RowIsEarned(row, r, u) ==
  /\ creator[r] = whose[u] \/ <<r, whose[u]>> \in joined
  /\ row.created => creator[r] = whose[u]
RowsAreEarned == \A r \in Rooms, u \in Users :
  db.members[<<r, u>>] # NoRow => RowIsEarned(db.members[<<r, u>>], r, u)

LEMMA EarnedIsKept ==
  ASSUME IdsAreTrue, Grows, NEW r \in Rooms, NEW u \in Users, NEW v \in Users, NEW row, NEW new,
         db.members[<<r, v>>] # NoRow, RowIsEarned(row, r, v), whose[v] = whose[u],
         new.created => row.created
  PROVE  RowIsEarned(new, r, u)'
<1>1. whose[v] # None /\ whose'[u] = whose[u] /\ (creator[r] = whose[u] => creator'[r] = creator[r])
  BY DEF IdsAreTrue, Grows
<1> QED
  BY <1>1 DEF RowIsEarned, Grows

LEMMA RowsStep ==
  ASSUME ServiceTypeOK, IdsAreTrue, RequestsAreSound, RowsAreEarned, [Next]_vars
  PROVE  RowsAreEarned'
<1>0. Database(db) /\ Grows
  BY DatabaseType, GrowsStep
<1>1. ASSUME NEW r \in Rooms, NEW u \in Users, NEW v \in Users, db'.members[<<r, u>>] # NoRow,
             db.members[<<r, v>>] # NoRow, whose[v] = whose[u],
             db'.members[<<r, u>>].created => db.members[<<r, v>>].created
      PROVE  RowIsEarned(db.members[<<r, u>>], r, u)'
  <2>1. RowIsEarned(db.members[<<r, v>>], r, v)
    BY <1>1 DEF RowsAreEarned
  <2>2. \A new : (new.created => db.members[<<r, v>>].created) => RowIsEarned(new, r, u)'
    BY <1>0, <1>1, <2>1, EarnedIsKept
  <2> QED
    BY <1>1, <2>2 DEF RowIsEarned
<1>2. CASE SameRows
  BY <1>1, <1>2 DEF RowsAreEarned, SameRows
<1>3. ASSUME NEW s \in Slots, RecordMember(s) PROVE RowsAreEarned'
  <2>1. /\ slots[s].user \in Users /\ slots[s].room \in Rooms /\ (slots[s].kind # "join") \in BOOLEAN
        /\ whose[slots[s].user] \in Emails /\ slots[s].kind \in {"upload", "reuse", "join"}
        /\ slots[s].kind = "join" => <<slots[s].room, whose[slots[s].user]>> \in joined
        /\ db' = Upserted(db, slots[s].room, slots[s].user, slots[s].kind # "join")
    BY <1>3, MemberFacts, RequestFacts, IdleFacts DEF RecordMember, At
  <2>2. slots[s].kind # "join" => creator[slots[s].room] = whose[slots[s].user]
    BY <2>1 DEF RequestsAreSound, RequestIsSound, Making
  <2>3. \A c \in BOOLEAN : \A r \in Rooms, u \in Users : r # slots[s].room \/ u # slots[s].user =>
          Upserted(db, slots[s].room, slots[s].user, c).members[<<r, u>>] = db.members[<<r, u>>]
    BY <1>0, <2>1, UpsertedOthers
  <2>4. \A c \in BOOLEAN :
          Upserted(db, slots[s].room, slots[s].user, c).members[<<slots[s].room, slots[s].user>>].created =>
            c \/ (db.members[<<slots[s].room, slots[s].user>>] # NoRow /\
                  db.members[<<slots[s].room, slots[s].user>>].created)
    BY <1>0, <2>1, UpsertedIsMade
  <2>5. UNCHANGED <<whose, creator, joined>>
    BY <1>3 DEF RecordMember
  <2> SUFFICES ASSUME NEW r \in Rooms, NEW u \in Users, db'.members[<<r, u>>] # NoRow
               PROVE  RowIsEarned(db.members[<<r, u>>], r, u)'
    BY DEF RowsAreEarned
  <2>6. CASE r # slots[s].room \/ u # slots[s].user
    <3>1. db'.members[<<r, u>>] = db.members[<<r, u>>]
      BY <2>1, <2>3, <2>6
    <3> QED
      BY <1>1, <3>1
  <2>7. CASE r = slots[s].room /\ u = slots[s].user
    <3>1. creator[r] = whose[u] \/ <<r, whose[u]>> \in joined
      BY <2>1, <2>2, <2>7
    <3>2. db'.members[<<r, u>>].created =>
            slots[s].kind # "join" \/ (db.members[<<r, u>>] # NoRow /\ db.members[<<r, u>>].created)
      BY <2>1, <2>4, <2>7
    <3>3. db'.members[<<r, u>>].created => creator[r] = whose[u]
      BY <2>2, <2>7, <3>2 DEF RowsAreEarned, RowIsEarned
    <3> QED
      BY <2>5, <3>1, <3>3 DEF RowIsEarned
  <2> QED
    BY <2>6, <2>7
<1>4. ASSUME NEW e \in Emails, NEW m \in MappingsOf(e), Migrate(m) PROVE RowsAreEarned'
  <2>1. db' = Migrated(db, m) /\ m.user \in Users /\ m.user \in OldIds(m) /\ OldIds(m) \subseteq IdsOf(e)
    BY <1>4, MappingFacts DEF Migrate, OldIds
  <2>2. \A u \in OldIds(m) : u \in Users /\ whose[u] = whose[m.user]
    BY <2>1 DEF IdsOf
  <2> SUFFICES ASSUME NEW r \in Rooms, NEW u \in Users, db'.members[<<r, u>>] # NoRow
               PROVE  RowIsEarned(db.members[<<r, u>>], r, u)'
    BY DEF RowsAreEarned
  <2>3. CASE u = m.user
    <3>1. db'.members[<<r, u>>] = MergedRow(db, m, r)
      BY <1>0, <1>4, <2>1, <2>3, MigratedFacts
    <3>2. PICK v \in OldIds(m) : db.members[<<r, v>>] # NoRow /\
            (MergedRow(db, m, r).created => db.members[<<r, v>>].created)
      BY <1>0, <1>4, <3>1, MergedFacts
    <3> QED
      BY <1>1, <2>2, <2>3, <3>1, <3>2
  <2>4. CASE u \notin OldIds(m)
    <3>1. db'.members[<<r, u>>] = db.members[<<r, u>>]
      BY <1>0, <1>4, <2>1, <2>4, MigratedFacts
    <3> QED
      BY <1>1, <3>1
  <2>5. CASE u \in OldIds(m) /\ u # m.user
    BY <1>0, <1>4, <2>1, <2>5, MigratedFacts
  <2> QED
    BY <2>3, <2>4, <2>5
<1> QED
  BY <1>2, <1>3, <1>4, RowsChange

LEMMA MakerStays ==
  ASSUME ServiceTypeOK, IdsAreTrue, RequestsAreSound, [Next]_vars, NEW r \in Rooms, IsMaker(db, r, creator[r])
  PROVE  IsMaker(db, r, creator[r])'
<1>1. PICK u \in Users : whose[u] = creator[r] /\ db.members[<<r, u>>] # NoRow /\ db.members[<<r, u>>].created
  BY IsMakerIs
<1>2. PICK v \in Users : /\ whose[v] = whose[u] /\ db'.members[<<r, v>>] # NoRow
                         /\ db.members[<<r, u>>].created => db'.members[<<r, v>>].created
  <2>1. Survives(db, db')
    BY HistoryGrows
  <2>2. db.members[<<r, u>>] # NoRow
    BY <1>1
  <2> QED
    BY Zenon, <2>1, <2>2 DEF Survives
<1>3. whose[u] # None /\ Grows
  BY <1>1, GrowsStep DEF IdsAreTrue
<1>4. whose'[v] = creator'[r]
  BY <1>1, <1>2, <1>3 DEF Grows
<1>5. db'.members[<<r, v>>].created
  BY <1>1, <1>2
<1> QED
  BY <1>2, <1>4, <1>5 DEF IsMaker, RowsOf, IdsOf

LEMMA MembershipIsMade ==
  ASSUME ServiceTypeOK, IdsAreTrue, RequestsAreSound, NEW s \in Slots, RecordMember(s),
         slots[s].kind \in {"upload", "reuse"}
  PROVE  \A r : r = slots[s].room => r \in Rooms /\ IsMaker(db, r, creator[r])'
<1>0. Database(db) /\ slots[s] # Idle
  BY DatabaseType, IdleFacts
<1>1. /\ slots[s].user \in Users /\ slots[s].room \in Rooms /\ slots[s] \in Requests
      /\ creator[slots[s].room] = whose[slots[s].user]
  BY <1>0, RequestFacts DEF RequestsAreSound, RequestIsSound, Making, ServiceTypeOK
<1>2. db' = Upserted(db, slots[s].room, slots[s].user, TRUE)
  BY DEF RecordMember
<1>3. db'.members[<<slots[s].room, slots[s].user>>] # NoRow
  BY <1>0, <1>1, <1>2, UpsertedIsThere
<1>4. db'.members[<<slots[s].room, slots[s].user>>].created
  BY <1>0, <1>1, <1>2, UpsertedIsMade
<1>5. UNCHANGED <<whose, creator>> /\ slots[s].room \in Rooms
  BY <1>1 DEF RecordMember
<1>6. \A r : r = slots[s].room => IsMaker(db, r, creator[r])'
  BY <1>1, <1>3, <1>4, <1>5 DEF IsMaker, RowsOf, IdsOf
<1> QED
  BY <1>1, <1>6

\* The counts of failures and what follows from their bound.
TriesAreCounted == \A s \in Slots : slots[s].tries <= faults
GalleryIsMade ==
  \A s \in Slots : slots[s].pc = "gallery" =>
    slots[s].room \in Rooms /\ IsMaker(db, slots[s].room, creator[slots[s].room])

LEMMA TriesStep ==
  ASSUME ServiceTypeOK, IdsAreTrue, RequestsAreSound, TriesAreCounted, [Next]_vars
  PROVE  TriesAreCounted'
<1>1. /\ \A t \in Slots : slots[t].tries \in Nat /\ slots'[t].tries \in Nat
      /\ faults \in Nat /\ faults' \in Nat
  BY TypeStep DEF ServiceTypeOK, Requests
<1>2. faults' \in {faults, faults + 1} /\ \A t \in Slots : MovesTo(t)
  BY AllMove
<1>3. \A t \in Slots : slots'[t].tries <= slots[t].tries \/ (slots'[t].tries = slots[t].tries + 1 /\ faults' = faults + 1)
  BY <1>1, <1>2 DEF MovesTo
<1> QED
  BY <1>1, <1>2, <1>3 DEF TriesAreCounted

\* With fewer failures than attempts no membership is given up.
LEMMA NeverGivenUp ==
  ASSUME MaxFaults < MaxAttempts, ServiceTypeOK, TriesAreCounted, NEW s \in Slots, MemberFails(s)
  PROVE  ~(slots[s].tries + 1 >= MaxAttempts)
<1>1. slots[s].tries \in Nat /\ slots[s].tries <= faults /\ faults < MaxFaults /\ faults \in Nat
  BY DEF ServiceTypeOK, Requests, TriesAreCounted, MemberFails
<1> QED
  BY <1>1, BoundAssumption DEF MaxAttempts

LEMMA GalleryStep ==
  ASSUME MaxFaults < MaxAttempts, ServiceTypeOK, IdsAreTrue, RequestsAreSound, TriesAreCounted,
         GalleryIsMade, [Next]_vars
  PROVE  GalleryIsMade'
<1> SUFFICES ASSUME NEW s \in Slots, slots'[s].pc = "gallery", NEW r, r = slots'[s].room
             PROVE  r \in Rooms /\ IsMaker(db, r, creator[r])'
  BY DEF GalleryIsMade, IsMaker, RowsOf, IdsOf
<1>1. CASE slots'[s] = slots[s]
  <2>1. r \in Rooms /\ IsMaker(db, r, creator[r])
    BY <1>1 DEF GalleryIsMade
  <2> QED
    BY <2>1, MakerStays
<1>2. CASE slots'[s] # slots[s]
  <2>1. slots'[s].room = slots[s].room /\ slots[s].kind = "upload" /\ RecordMember(s)
    BY <1>2, AllMove, NeverGivenUp DEF MovesTo
  <2> QED
    BY <2>1, MembershipIsMade
<1> QED
  BY <1>1, <1>2

LEMMA ToldIsMade ==
  ASSUME MaxFaults < MaxAttempts, ServiceTypeOK, IdsAreTrue, RequestsAreSound, TriesAreCounted,
         GalleryIsMade, MakerKeepsHistory, [Next]_vars
  PROVE  MakerKeepsHistory'
<1> SUFFICES ASSUME NEW r \in told' PROVE IsMaker(db, r, creator[r])'
  BY DEF MakerKeepsHistory
<1>1. CASE r \in told
  <2>1. r \in Rooms /\ IsMaker(db, r, creator[r])
    BY <1>1 DEF MakerKeepsHistory, ServiceTypeOK
  <2> QED
    BY <2>1, MakerStays
<1>2. CASE r \notin told
  <2>1. PICK s \in Slots : /\ slots[s].room = r
                           /\ \/ slots[s].pc = "gallery"
                              \/ slots[s].kind = "reuse" /\ RecordMember(s)
    BY <1>2, ToldStep, NeverGivenUp
  <2>2. CASE slots[s].pc = "gallery"
    <3>1. r \in Rooms /\ IsMaker(db, r, creator[r])
      BY <2>1, <2>2 DEF GalleryIsMade
    <3> QED
      BY <3>1, MakerStays
  <2>3. CASE slots[s].kind = "reuse" /\ RecordMember(s)
    BY <2>1, <2>3, MembershipIsMade
  <2> QED
    BY <2>1, <2>2, <2>3
<1> QED
  BY <1>1, <1>2

LEMMA EarnedIsHistory == ServiceTypeOK /\ RowsAreEarned => HistoryIsEarned
<1> SUFFICES ASSUME ServiceTypeOK, RowsAreEarned, NEW r \in Rooms, NEW e \in Emails
             PROVE  /\ RowsOf(db, r, e) # {} => creator[r] = e \/ <<r, e>> \in joined
                    /\ IsMaker(db, r, e) => creator[r] = e
  BY DEF HistoryIsEarned
<1>1. ASSUME RowsOf(db, r, e) # {} PROVE creator[r] = e \/ <<r, e>> \in joined
  <2>1. PICK u \in Users : whose[u] = e /\ db.members[<<r, u>>] # NoRow
    BY <1>1 DEF RowsOf, IdsOf
  <2> QED
    BY <2>1 DEF RowsAreEarned, RowIsEarned
<1>2. ASSUME IsMaker(db, r, e) PROVE creator[r] = e
  <2>1. PICK u \in Users : whose[u] = e /\ db.members[<<r, u>>] # NoRow /\ db.members[<<r, u>>].created
    BY <1>2 DEF IsMaker, RowsOf, IdsOf
  <2> QED
    BY <2>1 DEF RowsAreEarned, RowIsEarned
<1> QED
  BY <1>1, <1>2

LEMMA IdsAreAccounts == ServiceTypeOK /\ IdsAreTrue => OneAccount
<1> SUFFICES ASSUME ServiceTypeOK, IdsAreTrue, NEW e \in Emails
             PROVE  /\ Cardinality({u \in Users : db.email[u] = e}) <= 1
                    /\ \A u \in Users : db.email[u] = e => whose[u] = e
  BY DEF OneAccount
<1>1. e # None
  BY NamesAssumption
<1>2. \A u, v \in {w \in Users : db.email[w] = e} : u = v
  BY <1>1 DEF IdsAreTrue
<1>3. Cardinality({u \in Users : db.email[u] = e}) <= 1
  <2>1. CASE {u \in Users : db.email[u] = e} = {}
    BY <2>1, FS_EmptySet
  <2>2. CASE {u \in Users : db.email[u] = e} # {}
    <3>1. PICK v : {u \in Users : db.email[u] = e} = {v}
      BY <1>2, <2>2
    <3>2. Cardinality({v}) = 1
      BY FS_Singleton
    <3> QED
      BY <3>1, <3>2
  <2> QED
    BY <2>1, <2>2
<1> QED
  BY <1>1, <1>3 DEF IdsAreTrue

\* What is inductive of HistoryIsTrue, besides what the stores are.
HistoryInv ==
  PicturesAreWhole /\ NamesSeen /\ RowsAreEarned /\ TriesAreCounted /\ GalleryIsMade /\ MakerKeepsHistory

LEMMA HistoryIsInv == HistoryInv => HistoryIsTrue
<1> SUFFICES ASSUME HistoryInv PROVE HistoryIsTrue
  OBVIOUS
<1>1. RowsAreTrue
  BY DEF HistoryInv, NamesSeen, RowsAreEarned, RowIsEarned, TriesAreCounted, GalleryIsMade, RowsAreTrue
<1> QED
  BY <1>1, EarnedIsHistory, IdsAreAccounts DEF HistoryInv, PicturesAreWhole, HistoryIsTrue

LEMMA InitHistory == Init => HistoryInv
<1> SUFFICES ASSUME Init PROVE HistoryInv
  OBVIOUS
<1>1. PICK maker \in LegacyIds, label \in [LegacyIds -> Tags \cup {None}], name \in Minted :
       /\ \A u, v \in LegacyIds : u # v => label[u] # label[v]
       /\ db = [name    |-> [u \in Users |-> IF u \in LegacyIds THEN name ELSE None],
                email   |-> [u \in Users |-> None],
                members |-> [ru \in Rooms \X Users |->
                              IF ru[1] = Old[1] /\ ru[2] \in LegacyIds
                                THEN [created |-> ru[2] = maker, label |-> label[ru[2]]] ELSE NoRow],
                owner   |-> [i \in Images |-> IF i = Old[2] THEN maker ELSE None],
                placed  |-> [ru \in Rooms \X Users |->
                              IF ru[1] = Old[1] /\ ru[2] \in LegacyIds THEN IF ru[2] = maker THEN 2 ELSE 1 ELSE NoPlayer]]
       /\ uploader = [i \in Images |-> IF i = Old[2] THEN PersonOf(maker) ELSE None]
       /\ creator = [r \in Rooms |-> IF r = Old[1] THEN PersonOf(maker) ELSE None]
       /\ joined = {<<Old[1], PersonOf(u)>> : u \in LegacyIds}
  BY Zenon DEF Init
<1>2. slots = [s \in Slots |-> Idle] /\ faults = 0 /\ whose = [u \in Users |-> PersonOf(u)] /\ told = {}
  BY DEF Init
<1>3. \A r \in Rooms, u \in Users :
        db.members[<<r, u>>] = IF r = Old[1] /\ u \in LegacyIds
                                 THEN [created |-> u = maker, label |-> label[u]] ELSE NoRow
  BY <1>1
<1>4. RowsAreEarned
  <2> SUFFICES ASSUME NEW r \in Rooms, NEW u \in Users, db.members[<<r, u>>] # NoRow
               PROVE  RowIsEarned(db.members[<<r, u>>], r, u)
    BY DEF RowsAreEarned
  <2>0. r = Old[1] /\ u \in LegacyIds
    BY <1>3
  <2>a. db.members[<<r, u>>] = [created |-> u = maker, label |-> label[u]]
    BY <1>3, <2>0
  <2>b. db.members[<<r, u>>].created <=> u = maker
    <3>1. \A c \in BOOLEAN : \A l : [created |-> c, label |-> l].created = c
      OBVIOUS
    <3>2. (u = maker) \in BOOLEAN
      OBVIOUS
    <3>3. [created |-> u = maker, label |-> label[u]].created = (u = maker)
      BY Zenon, <3>1, <3>2
    <3> QED
      BY Zenon, <2>a, <3>3
  <2>1. r = Old[1] /\ u \in LegacyIds /\ (db.members[<<r, u>>].created => u = maker)
    BY <2>0, <2>b
  <2>2. <<r, whose[u]>> \in joined
    BY <1>1, <1>2, <2>1
  <2>3. u = maker => creator[r] = whose[u]
    BY <1>1, <1>2, <2>1
  <2> QED
    BY <2>1, <2>2, <2>3 DEF RowIsEarned
<1>5. NamesSeen /\ TriesAreCounted /\ GalleryIsMade /\ MakerKeepsHistory
  BY <1>2 DEF Idle, NamesSeen, TriesAreCounted, GalleryIsMade, MakerKeepsHistory
<1> QED
  BY <1>4, <1>5, InitPictures DEF HistoryInv

\* handler.ts, room-store.ts: as long as fewer writes fail than a write is attempted, a
\* maker who was told of a room has it in their history as made; and whatever fails, nobody
\* has a room they did not make or join, nor anybody else's account.
THEOREM HistoryIsTrueCorrect == ASSUME MaxFaults < MaxAttempts PROVE Spec => []HistoryIsTrue
<1>1. HistoryInv /\ [Next]_vars => HistoryInv'
  BY PicturesInductive, NamesSeenStep, RowsStep, TriesStep, GalleryStep, ToldIsMade
     DEF HistoryInv, PicturesAreWhole
<1> QED
  BY <1>1, InitHistory, HistoryIsInv, PTL DEF Spec

\* handler.ts, however many writes fail: a room in a person's history is one they made or
\* joined, flagged as made only for its maker, and an email has one account.
THEOREM HistoryIsEarnedCorrect == Spec => [](HistoryIsEarned /\ OneAccount)
<1> DEFINE Inv == PicturesAreWhole /\ RowsAreEarned
<1>1. Inv /\ [Next]_vars => Inv'
  BY PicturesInductive, RowsStep DEF PicturesAreWhole
<1>2. Init => Inv
  BY InitHistory DEF HistoryInv
<1>3. Inv => HistoryIsEarned /\ OneAccount
  BY EarnedIsHistory, IdsAreAccounts DEF PicturesAreWhole
<1> HIDE DEF Inv
<1> QED
  BY <1>1, <1>2, <1>3, PTL DEF Spec

-----------------------------------------------------------------------------
(* The migration's labels.  There are finitely many ids, so that a conflict *)
(* of labels can be counted at all.                                        *)

\* Labels that do not conflict are at most one.
LEMMA OneLabel ==
  ASSUME IsFiniteSet(Users), NEW d, NEW e \in Emails, NEW m \in MappingsOf(e), NEW r,
         ~(Cardinality(Labels(d, m, r)) > 1),
         NEW k \in Labels(d, m, r), NEW l \in Labels(d, m, r)
  PROVE  k = l
<1> DEFINE rowed == {v \in OldIds(m) : d.members[<<r, v>>] # NoRow}
           given == {d.members[<<r, u>>].label : u \in rowed}
<1>1. OldIds(m) \subseteq Users
  BY MappingFacts
<1>2. IsFiniteSet(rowed)
  BY <1>1, FS_Subset
<1>3. IsFiniteSet(given)
  <2> DEFINE f == [u \in rowed |-> d.members[<<r, u>>].label]
  <2>1. f \in Surjection(rowed, given)
    BY DEF Surjection
  <2> HIDE DEF f, rowed, given
  <2> QED
    BY <1>2, <2>1, FS_Surjection
<1>4. Labels(d, m, r) = given \ {None}
  BY DEF Labels
<1>5. IsFiniteSet(Labels(d, m, r))
  BY <1>3, <1>4, FS_Subset
<1>6. Cardinality(Labels(d, m, r)) \in Nat
  BY <1>5, FS_CardinalityType
<1>7. SUFFICES ASSUME k # l PROVE FALSE
  OBVIOUS
<1>8. IsFiniteSet({k, l}) /\ Cardinality({k, l}) = 2
  <2>1. IsFiniteSet({k}) /\ Cardinality({k}) = 1
    BY FS_Singleton
  <2>2. IsFiniteSet({k} \cup {l}) /\ Cardinality({k} \cup {l}) = IF l \in {k} THEN 1 ELSE 1 + 1
    BY <2>1, FS_AddElement
  <2>3. {k, l} = {k} \cup {l} /\ l \notin {k}
    BY <1>7
  <2> QED
    BY <2>2, <2>3
<1>9. Cardinality({k, l}) <= Cardinality(Labels(d, m, r))
  BY <1>5, FS_Subset
<1> QED
  BY <1>6, <1>8, <1>9

LEMMA LabelsStep ==
  ASSUME IsFiniteSet(Users), ServiceTypeOK, IdsAreTrue, RequestsAreSound, [Next]_vars
  PROVE  LabelStep
<1>0. Database(db)
  BY DatabaseType
<1>1. ASSUME ~up, db' # db PROVE \E e \in Emails : \E m \in MappingsOf(e) : Migrate(m)
  <2>1. \A s \in Slots : slots[s] = Idle
    BY <1>1 DEF ServiceTypeOK
  <2>2. ~\E s \in Slots : Step(s)
    BY <2>1, IdleFacts, StepSlots DEF StepsOn
  <2>3. ~\E s \in Slots : Routed(s) \/ \E e \in Emails : Authenticate(s, e)
    BY <1>1 DEF Routed, Upload, Reuse, Profile, Join, LeavesNoTrace, DeleteImage, Rename, SetName,
       Authenticate, Free, At
  <2> QED
    BY <1>1, <2>2, <2>3 DEF Next, Stop, Start, vars, server
<1>2. ASSUME NEW e \in Emails, NEW m \in MappingsOf(e), Migrate(m), NEW r \in Rooms
      PROVE  /\ \A p \in Emails \ {e} : LabelsOf(db', r, p) = LabelsOf(db, r, p)
             /\ \/ LabelsOf(db', r, e) = LabelsOf(db, r, e)
                \/ r \in DOMAIN m.labels /\ LabelsOf(db', r, e) = {m.labels[r]} \ {None}
  <2>1. /\ db' = Migrated(db, m) /\ m.user \in Users /\ m.user \in OldIds(m)
        /\ OldIds(m) = {u \in Users : whose[u] = e /\ db.name[u] # None}
        /\ Cardinality(Labels(db, m, r)) > 1 => r \in DOMAIN m.labels
    BY <1>2, MappingFacts DEF Migrate, OldIds, Accepted
  <2>2. \A u \in Users : db'.members[<<r, u>>] = IF u = m.user THEN MergedRow(db, m, r)
                          ELSE IF u \in OldIds(m) THEN NoRow ELSE db.members[<<r, u>>]
    BY <1>0, <1>2, <2>1, MigratedFacts
  <2>3. ASSUME NEW p \in Emails \ {e} PROVE LabelsOf(db', r, p) = LabelsOf(db, r, p)
    <3>1. \A u \in Users : whose[u] = p => db'.members[<<r, u>>] = db.members[<<r, u>>]
      BY <2>1, <2>2
    <3>2. RowsOf(db', r, p) = RowsOf(db, r, p)
      BY <3>1 DEF RowsOf, IdsOf
    <3> QED
      BY <3>2 DEF LabelsOf
  <2>4. \A u \in Users : whose[u] = e /\ db.members[<<r, u>>] # NoRow => u \in OldIds(m)
    BY <1>2, <2>1 DEF IdsAreTrue
  <2>5. LabelsOf(db, r, e) = Labels(db, m, r)
    BY <2>1, <2>4 DEF LabelsOf, RowsOf, IdsOf, Labels
  <2>6. \A u \in Users : whose[u] = e /\ db'.members[<<r, u>>] # NoRow <=>
                            u = m.user /\ MergedRow(db, m, r) # NoRow
    BY <2>1, <2>2, <2>4
  <2>7. CASE MergedRow(db, m, r) = NoRow
    <3>1. RowsOf(db', r, e) = {} /\ LabelsOf(db', r, e) = {}
      BY <2>6, <2>7 DEF RowsOf, IdsOf, LabelsOf
    <3>2. Labels(db, m, r) = {}
      BY <1>0, <1>2, <2>7, MergedFacts DEF Labels
    <3> QED
      BY <2>3, <2>5, <3>1, <3>2
  <2>8. CASE MergedRow(db, m, r) # NoRow
    <3>1. RowsOf(db', r, e) = {MergedRow(db, m, r)}
      <4>1. db'.members[<<r, m.user>>] = MergedRow(db, m, r) /\ m.user \in IdsOf(e)
        BY <2>1, <2>2 DEF IdsOf
      <4>2. \A u \in IdsOf(e) : db'.members[<<r, u>>] # NoRow => u = m.user
        BY <2>6 DEF IdsOf
      <4> QED
        BY <2>8, <4>1, <4>2 DEF RowsOf
    <3>5. LabelsOf(db', r, e) = {MergedRow(db, m, r).label} \ {None}
      BY <3>1 DEF LabelsOf
    <3>2. IF r \in DOMAIN m.labels THEN MergedRow(db, m, r).label = m.labels[r]
          ELSE IF Labels(db, m, r) = {} THEN MergedRow(db, m, r).label = None
          ELSE MergedRow(db, m, r).label \in Labels(db, m, r)
      BY <1>0, <1>2, <2>8, MergedFacts
    <3>3. CASE r \in DOMAIN m.labels
      BY <2>3, <3>2, <3>3, <3>5
    <3>4. CASE r \notin DOMAIN m.labels
      <4>1. \A k, l \in Labels(db, m, r) : k = l
        BY <1>2, <2>1, <3>4, OneLabel
      <4>2. None \notin Labels(db, m, r)
        BY DEF Labels
      <4> QED
        BY <2>3, <2>5, <3>2, <3>4, <3>5, <4>1, <4>2
    <3> QED
      BY <3>3, <3>4
  <2> QED
    BY <2>7, <2>8
<1>3. SUFFICES ASSUME ~up, NEW r \in Rooms, NEW p \in Emails, LabelsOf(db', r, p) # LabelsOf(db, r, p)
      PROVE  \E m \in MappingsOf(p) : /\ Migrate(m) /\ r \in DOMAIN m.labels
                                      /\ LabelsOf(db', r, p) = {m.labels[r]} \ {None}
  BY DEF LabelStep
<1>4. db' # db
  BY <1>3
<1>5. PICK e \in Emails : \E m \in MappingsOf(e) : Migrate(m)
  BY <1>1, <1>3, <1>4
<1>6. PICK m \in MappingsOf(e) : Migrate(m)
  BY <1>5
<1>7. p = e
  BY <1>2, <1>3, <1>6
<1> QED
  BY <1>2, <1>3, <1>6, <1>7

\* account-migration.ts: merging a person's ids leaves them the label they gave a room, unless
\* the reviewed mapping names that room: then it has the label resolved there, or none.
THEOREM LabelsAreKeptCorrect == ASSUME IsFiniteSet(Users) PROVE Spec => LabelsAreKept
<1>1. PicturesAreWhole /\ [Next]_vars => [LabelStep]_vars
  BY LabelsStep DEF PicturesAreWhole
<1> QED
  BY <1>1, InitPictures, PicturesInductive, PTL DEF Spec, LabelsAreKept
-----------------------------------------------------------------------------
(* The migration's scores.  There are finitely many ids, so that scores    *)
(* can be summed at all.                                                   *)

Scored(d) == d.placed \in [Rooms \X Users -> Nat \cup {NoPlayer}]

\* What the ids of a person have in a room.
Points(d, r, u) == IF d.placed[<<r, u>>] = NoPlayer THEN 0 ELSE d.placed[<<r, u>>]
Weights(d, r, e) == [u \in IdsOf(e) |-> Points(d, r, u)]

LEMMA ScoreIsSummed ==
  ASSUME NEW d, NEW r, NEW e, IsFiniteSet(IdsOf(e))
  PROVE  ScoreOf(d, r, e) = SumOf(Weights(d, r, e))
<1> DEFINE S == IdsOf(e)
           w == Weights(d, r, e)
           F(h) == [s \in SUBSET S |->
                      IF s = {} THEN 0
                      ELSE Points(d, r, Pick(s)) + h[s \ {Pick(s)}]]
           k == CHOOSE h : h = F(h)
<1>1. ASSUME NEW h PROVE Sums(w, S, h) <=> h = F(h)
  <2>1. \A s \in SUBSET S : s # {} => w[Pick(s)] = Points(d, r, Pick(s))
    BY PickIn DEF Weights
  <2> HIDE DEF S, w
  <2> QED
    BY <2>1 DEF Sums
<1>2. DOMAIN w = S
  BY DEF Weights
<1>3. ScoreOf(d, r, e) = k[S]
  BY DEF ScoreOf, MapThenSumSet, MapThenFoldSet, Points, Pick
<1> HIDE DEF w, S
<1>4. Sums(w, S, k)
  <2>1. PICK h : Sums(w, S, h)
    BY SumsExist DEF S
  <2> HIDE DEF F
  <2>2. h = F(h)
    BY Zenon, <1>1, <2>1
  <2>3. k = F(k)
    BY Zenon, <2>2
  <2> HIDE DEF k
  <2> QED
    BY Zenon, <1>1, <2>3
<1> HIDE DEF k
<1>5. PICK h : Sums(w, S, h) /\ SumOf(w) = h[S]
  BY <1>2, SumOfSums DEF S
<1>6. k[S] = h[S]
  BY <1>4, <1>5, SumsAgree DEF S
<1> QED
  BY <1>3, <1>5, <1>6 DEF w

\* The players a migration merges.
Played(d, m, r) == {u \in OldIds(m) : d.placed[<<r, u>>] # NoPlayer}
PlayedScores(d, m, r) == [u \in Played(d, m, r) |-> d.placed[<<r, u>>]]

LEMMA MergedIsSummed ==
  ASSUME NEW d, NEW m, NEW r, IsFiniteSet(Played(d, m, r))
  PROVE  MergedScore(d, m, r) = IF Played(d, m, r) = {} THEN NoPlayer ELSE SumOf(PlayedScores(d, m, r))
<1> DEFINE S == Played(d, m, r)
           w == PlayedScores(d, m, r)
           F(h) == [s \in SUBSET S |->
                      IF s = {} THEN 0
                      ELSE d.placed[<<r, Pick(s)>>] + h[s \ {Pick(s)}]]
           k == CHOOSE h : h = F(h)
<1>1. ASSUME NEW h PROVE Sums(w, S, h) <=> h = F(h)
  <2>1. \A s \in SUBSET S : s # {} => w[Pick(s)] = d.placed[<<r, Pick(s)>>]
    BY PickIn DEF PlayedScores
  <2> HIDE DEF S, w
  <2> QED
    BY <2>1 DEF Sums
<1>2. DOMAIN w = S
  BY DEF PlayedScores
<1>3. MergedScore(d, m, r) = IF S = {} THEN NoPlayer ELSE k[S]
  BY DEF MergedScore, MapThenSumSet, MapThenFoldSet, Played, Pick
<1> HIDE DEF w, S
<1>4. Sums(w, S, k)
  <2>1. PICK h : Sums(w, S, h)
    BY SumsExist DEF S
  <2> HIDE DEF F
  <2>2. h = F(h)
    BY Zenon, <1>1, <2>1
  <2>3. k = F(k)
    BY Zenon, <2>2
  <2> HIDE DEF k
  <2> QED
    BY Zenon, <1>1, <2>3
<1> HIDE DEF k
<1>5. PICK h : Sums(w, S, h) /\ SumOf(w) = h[S]
  BY <1>2, SumOfSums DEF S
<1>6. k[S] = h[S]
  BY <1>4, <1>5, SumsAgree DEF S
<1> QED
  BY <1>3, <1>5, <1>6 DEF w, S

\* What the migration does to the players of a room.
LEMMA MigratedPlayers ==
  ASSUME IsFiniteSet(Users), NEW d, Scored(d), NEW e \in Emails, NEW m \in MappingsOf(e)
  PROVE  /\ Scored(Migrated(d, m))
         /\ \A r \in Rooms, u \in Users :
              Migrated(d, m).placed[<<r, u>>] =
                IF u = m.user THEN MergedScore(d, m, r)
                ELSE IF u \in OldIds(m) THEN NoPlayer ELSE d.placed[<<r, u>>]
<1>1. OldIds(m) \subseteq Users
  BY MappingFacts DEF IdsOf
<1>2. \A r \in Rooms : MergedScore(d, m, r) \in Nat \cup {NoPlayer}
  <2> SUFFICES ASSUME NEW r \in Rooms, Played(d, m, r) # {}
               PROVE  SumOf(PlayedScores(d, m, r)) \in Nat
    <3>1. \A r \in Rooms : IsFiniteSet(Played(d, m, r))
      BY <1>1, FS_Subset DEF Played
    <3> QED
      BY <3>1, MergedIsSummed
  <2> DEFINE w == PlayedScores(d, m, r)
  <2>1. IsFiniteSet(DOMAIN w)
    BY <1>1, FS_Subset DEF Played, PlayedScores
  <2>2. \A u \in DOMAIN w : w[u] \in Nat
    BY <1>1 DEF Scored, Played, PlayedScores
  <2> HIDE DEF w
  <2>3. PICK h : Sums(w, DOMAIN w, h) /\ SumOf(w) = h[DOMAIN w]
    BY <2>1, SumOfSums
  <2>4. \A T \in SUBSET DOMAIN w : h[T] \in Nat
    BY <2>1, <2>2, <2>3, SumsType
  <2>5. SumOf(w) \in Nat
    BY <2>3, <2>4
  <2> QED
    BY <2>5 DEF w
<1> DEFINE placed == [ru \in Rooms \X Users |->
                       IF ru[2] = m.user THEN MergedScore(d, m, ru[1])
                       ELSE IF ru[2] \in OldIds(m) THEN NoPlayer ELSE d.placed[ru]]
<1>3. Migrated(d, m).placed = placed
  BY DEF Migrated
<1>4. placed \in [Rooms \X Users -> Nat \cup {NoPlayer}]
  BY <1>2 DEF Scored
<1>5. \A r \in Rooms, u \in Users :
        placed[<<r, u>>] = IF u = m.user THEN MergedScore(d, m, r)
                           ELSE IF u \in OldIds(m) THEN NoPlayer ELSE d.placed[<<r, u>>]
  OBVIOUS
<1> HIDE DEF placed
<1> QED
  BY <1>3, <1>4, <1>5 DEF Scored

LEMMA MigrationConserves ==
  ASSUME IsFiniteSet(Users), NEW d, Scored(d), NEW e \in Emails, NEW m \in MappingsOf(e),
         NEW r \in Rooms, NEW p \in Emails
  PROVE  ScoreOf(Migrated(d, m), r, p) = ScoreOf(d, r, p)
<1> DEFINE w == Weights(d, r, p)
           v == Weights(Migrated(d, m), r, p)
           q == PlayedScores(d, m, r)
           O == OldIds(m)
<1>1. /\ IsFiniteSet(IdsOf(p)) /\ IdsOf(p) \subseteq Users
      /\ m.user \in O /\ O \subseteq IdsOf(e) /\ m.user \in Users
  BY FS_Subset, MappingFacts DEF IdsOf, OldIds
<1>2. /\ Scored(Migrated(d, m))
      /\ \A u \in Users : Migrated(d, m).placed[<<r, u>>] =
                            IF u = m.user THEN MergedScore(d, m, r)
                            ELSE IF u \in O THEN NoPlayer ELSE d.placed[<<r, u>>]
  BY MigratedPlayers
<1>3. DOMAIN w = IdsOf(p) /\ DOMAIN v = IdsOf(p)
  BY DEF Weights
<1>4. \A u \in IdsOf(p) : w[u] \in Nat /\ v[u] \in Nat
  BY <1>1, <1>2 DEF Scored, Weights, Points
<1>5. \A u \in IdsOf(p) \ O : v[u] = w[u]
  BY <1>1, <1>2 DEF Weights, Points
<1>6. SumOf(v) = SumOf(w)
  <2>1. CASE p # e
    <3>1. IdsOf(p) \cap O = {}
      BY <1>1, <2>1 DEF IdsOf
    <3>2. v = w
      <4>1. v = [u \in IdsOf(p) |-> v[u]] /\ w = [u \in IdsOf(p) |-> w[u]]
        BY DEF Weights
      <4> HIDE DEF v, w
      <4> QED
        BY <1>5, <3>1, <4>1
    <3> QED
      BY <3>2
  <2>2. CASE p = e
    <3>1. \A u \in O \ {m.user} : v[u] = 0
      BY <1>1, <1>2, <2>2 DEF Weights, Points
    <3>2. DOMAIN q = Played(d, m, r) /\ DOMAIN q \subseteq O
      BY DEF PlayedScores, Played
    <3>3. \A u \in DOMAIN q : q[u] = w[u]
      BY <1>1, <2>2 DEF PlayedScores, Played, Weights, Points
    <3>4. \A u \in O \ DOMAIN q : w[u] = 0
      BY <1>1, <2>2 DEF PlayedScores, Played, Weights, Points
    <3>5. IsFiniteSet(DOMAIN q)
      BY <1>1, <2>2, <3>2, FS_Subset
    <3>6. MergedScore(d, m, r) = IF DOMAIN q = {} THEN NoPlayer ELSE SumOf(q)
      BY <3>2, <3>5, MergedIsSummed
    <3>7. v[m.user] = SumOf(q)
      <4>1. v[m.user] = IF MergedScore(d, m, r) = NoPlayer THEN 0 ELSE MergedScore(d, m, r)
        BY <1>1, <1>2, <2>2 DEF Weights, Points
      <4>2. SumOf(q) # NoPlayer
        <5>1. \A u \in DOMAIN q : q[u] \in Nat
          BY <1>1, <1>4, <2>2, <3>2, <3>3
        <5>2. PICK h : Sums(q, DOMAIN q, h) /\ SumOf(q) = h[DOMAIN q]
          BY <3>5, SumOfSums
        <5> HIDE DEF q
        <5>3. \A T \in SUBSET DOMAIN q : h[T] \in Nat
          BY <3>5, <5>1, <5>2, SumsType
        <5>4. SumOf(q) \in Nat
          BY <5>2, <5>3
        <5> QED
          BY <5>4 DEF NoPlayer
      <4>3. DOMAIN q = {} => SumOf(q) = 0
        BY SumOfEmpty
      <4> HIDE DEF q, v
      <4> QED
        BY <3>6, <4>1, <4>2, <4>3
    <3> HIDE DEF q, v, w, O
    <3>8. O \subseteq DOMAIN w /\ DOMAIN v = DOMAIN w /\ IsFiniteSet(DOMAIN w)
      BY <1>1, <1>3, <2>2
    <3>9. /\ \A u \in DOMAIN w : w[u] \in Nat /\ v[u] \in Nat
          /\ \A u \in DOMAIN w \ O : v[u] = w[u]
      BY <1>3, <1>4, <1>5
    <3> QED
      BY <1>1, <3>1, <3>2, <3>3, <3>4, <3>7, <3>8, <3>9, SumMerges
  <2> QED
    BY <2>1, <2>2
<1> QED
  BY <1>1, <1>6, ScoreIsSummed

\* Nothing but the migration touches a score.
LEMMA PlacedStep ==
  ASSUME ServiceTypeOK, RequestsAreSound, [Next]_vars
  PROVE  \/ db'.placed = db.placed
         \/ \E e \in Emails : \E m \in MappingsOf(e) : Migrate(m)
<1>0. Database(db)
  BY DatabaseType
<1>1. ASSUME NEW s \in Slots, Step(s) PROVE db'.placed = db.placed
  BY <1>0, <1>1 DEF Step, PutBytes, PutMeta, CreateRoom, EnsureName, RecordMember, MemberFails,
     RecordImage, RecordImageFails, Throws, Upserted, Database
<1>2. ASSUME NEW s \in Slots, NEW e \in Emails, Authenticate(s, e) PROVE db'.placed = db.placed
  BY <1>0, <1>2 DEF Authenticate, LoggedIn, Database
<1>3. ASSUME NEW s \in Slots, Routed(s) PROVE db'.placed = db.placed
  <2>1. ASSUME NEW u \in Users, NEW r \in Rooms, NEW label \in Tags \cup {None}, Rename(s, u, r, label)
        PROVE  db'.placed = db.placed
    BY <1>0, <2>1 DEF Rename, Labelled, Database
  <2>2. ASSUME NEW u \in Users, NEW i \in Images, DeleteImage(s, u, i) PROVE db'.placed = db.placed
    BY <1>0, <2>2 DEF DeleteImage, Database
  <2>3. ASSUME NEW u \in Users, NEW name \in Chosen, SetName(s, u, name) PROVE db'.placed = db.placed
    BY <1>0, <2>3 DEF SetName, Database
  <2>4. CASE \E i \in Images : Reuse(s, i)
    BY <2>4 DEF Reuse
  <2>5. CASE Upload(s) \/ LeavesNoTrace(s) \/ (\E u \in Users : Profile(s, u)) \/ \E r \in Rooms : Join(s, r)
    BY <2>5 DEF Upload, LeavesNoTrace, Profile, Join
  <2> QED
    BY <1>3, <2>1, <2>2, <2>3, <2>4, <2>5 DEF Routed
<1>4. CASE Stop \/ Start \/ UNCHANGED vars
  BY <1>4 DEF Stop, Start, vars, server
<1> QED
  BY <1>1, <1>2, <1>3, <1>4 DEF Next

LEMMA MergesStep ==
  ASSUME IsFiniteSet(Users), ServiceTypeOK, RequestsAreSound, Scored(db), [Next]_vars
  PROVE  Scored(db)' /\ MergeStep
<1>1. CASE db'.placed = db.placed
  <2>1. Scored(db)'
    BY <1>1 DEF Scored
  <2>2. ASSUME NEW r \in Rooms, NEW e \in Emails PROVE ScoreOf(db', r, e) = ScoreOf(db, r, e)
    <3>1. IsFiniteSet(IdsOf(e))
      BY FS_Subset DEF IdsOf
    <3>2. Weights(db', r, e) = Weights(db, r, e)
      BY <1>1 DEF Weights, Points
    <3> QED
      BY <3>1, <3>2, ScoreIsSummed
  <2> QED
    BY <2>1, <2>2 DEF Scored, MergeStep
<1>2. ASSUME NEW e \in Emails, NEW m \in MappingsOf(e), Migrate(m) PROVE Scored(db)' /\ MergeStep
  <2>1. db' = Migrated(db, m)
    BY <1>2 DEF Migrate
  <2>2. Scored(db')
    BY <2>1, MigratedPlayers
  <2>3. \A r \in Rooms, p \in Emails : ScoreOf(db', r, p) = ScoreOf(db, r, p)
    BY <2>1, MigrationConserves
  <2> QED
    BY <2>2, <2>3 DEF Scored, MergeStep
<1> QED
  BY <1>1, <1>2, PlacedStep

LEMMA InitScored == Init => Scored(db)
<1> SUFFICES ASSUME Init PROVE Scored(db)
  OBVIOUS
<1>1. PICK maker \in LegacyIds :
        db.placed = [ru \in Rooms \X Users |->
                      IF ru[1] = Old[1] /\ ru[2] \in LegacyIds THEN IF ru[2] = maker THEN 2 ELSE 1 ELSE NoPlayer]
  BY DEF Init
<1> QED
  BY <1>1 DEF Scored, NoPlayer

\* account-migration.ts: merging a person's players of a room changes nobody's score there; and
\* with what is proved above, no room and no made flag leaves anybody's history, and a migration
\* changes the label of a room only where its mapping resolves it.
THEOREM HistoryIsPreservedCorrect == ASSUME IsFiniteSet(Users) PROVE Spec => HistoryIsPreserved
<1> DEFINE Inv == PicturesAreWhole /\ Scored(db)
<1>1. Init => Inv
  BY InitPictures, InitScored
<1>2. Inv /\ [Next]_vars => Inv' /\ [MergeStep]_vars
  BY PicturesInductive, MergesStep DEF PicturesAreWhole
<1> HIDE DEF Inv
<1>3. Spec => [][MergeStep]_vars
  BY <1>1, <1>2, PTL DEF Spec
<1> QED
  BY <1>3, HistoryOnlyGrowsCorrect, LabelsAreKeptCorrect DEF HistoryIsPreserved, MergeKeepsAll
=============================================================================
