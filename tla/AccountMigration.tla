--------------------------- MODULE AccountMigration ---------------------------
(***************************************************************************)
(* What store/account-migration.ts does to an offline database: the rows   *)
(* of one person, kept under several browser ids, are merged under one     *)
(* account.  A database is a record                                        *)
(*   name     user id -> display name, None where the user has no row      *)
(*   email    user id -> email, None for a legacy profile                  *)
(*   members  <<room, user id>> -> [created, label], NoRow where absent    *)
(*   owner    image -> the user id its gallery row belongs to, or None     *)
(*   placed   <<room, user id>> -> the pieces credited to that player of   *)
(*            the room, NoPlayer where the user never played in it         *)
(* and a mapping one reviewed row [email, user, legacy, name, labels] of   *)
(* the input, labels giving the resolved room labels (None: the null that  *)
(* takes the label away).                                                  *)
(***************************************************************************)
EXTENDS Integers, FiniteSets, FiniteSetsExt

CONSTANTS Users, Rooms, Images, None

NoRow == [created |-> FALSE, label |-> "no row"]
NoPlayer == -1

OldIds(m) == {m.user} \cup m.legacy

\* The labels the merged memberships of one room disagree on.
Labels(db, m, r) ==
  {db.members[<<r, u>>].label : u \in {v \in OldIds(m) : db.members[<<r, v>>] # NoRow}} \ {None}

\* The mapping names users the database has, none of them another account's,
\* leaves no other account with this email, and resolves every label conflict.
Accepted(db, m) ==
  /\ \A u \in OldIds(m) : db.name[u] # None /\ db.email[u] \in {None, m.email}
  /\ \A u \in Users : db.email[u] = m.email => u \in OldIds(m)
  /\ \A r \in Rooms : Cardinality(Labels(db, m, r)) > 1 => r \in DOMAIN m.labels

\* Mutated form: only the account's own membership is kept.
CanonicalRow(db, m, r) == db.members[r, m.user]

\* The membership that replaces those of the old ids.
MergedRow(db, m, r) ==
  LET rows == {db.members[<<r, u>>] : u \in OldIds(m)} \ {NoRow}
  IN  IF rows = {} THEN NoRow
      ELSE [created |-> \E row \in rows : row.created,
            label   |-> IF r \in DOMAIN m.labels THEN m.labels[r]
                        ELSE IF Labels(db, m, r) = {} THEN None
                        ELSE CHOOSE l \in Labels(db, m, r) : TRUE]

\* The score of the one player that replaces those of the old ids.
MergedScore(db, m, r) ==
  LET played == {u \in OldIds(m) : db.placed[<<r, u>>] # NoPlayer}
  IN  IF played = {} THEN NoPlayer ELSE MapThenSumSet(LAMBDA u : db.placed[<<r, u>>], played)

\* The transaction of migrateAccounts, all of it or none.
Migrated(db, m) ==
  [name    |-> [u \in Users |-> IF u = m.user THEN m.name
                                ELSE IF u \in OldIds(m) THEN None ELSE db.name[u]],
   email   |-> [u \in Users |-> IF u = m.user THEN m.email
                                ELSE IF u \in OldIds(m) THEN None ELSE db.email[u]],
   members |-> [ru \in Rooms \X Users |->
                 IF ru[2] = m.user THEN MergedRow(db, m, ru[1])
                 ELSE IF ru[2] \in OldIds(m) THEN NoRow ELSE db.members[ru]],
   owner   |-> [i \in Images |-> IF db.owner[i] \in OldIds(m) THEN m.user ELSE db.owner[i]],
   placed  |-> [ru \in Rooms \X Users |->
                 IF ru[2] = m.user THEN MergedScore(db, m, ru[1])
                 ELSE IF ru[2] \in OldIds(m) THEN NoPlayer ELSE db.placed[ru]]]
=============================================================================
