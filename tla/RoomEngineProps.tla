--------------------------- MODULE RoomEngineProps ---------------------------
(***************************************************************************)
(* What the referee owes the players, stated over RoomEngine.              *)
(***************************************************************************)
EXTENDS RoomEngine

\* The pieces of one group, and where a piece lies on the table.
GroupOf(p) == CHOOSE id \in DOMAIN groups : p \in groups[id].pieces
Place(p) == WorldOrigin(p, groups[GroupOf(p)].pieces, groups[GroupOf(p)].position)
LockedPieces == UNION {groups[id].pieces : id \in {i \in DOMAIN groups : groups[i].locked}}

\* The groups always partition all pieces (room.ts counts on it to detect
\* completion), and a merged group keeps the id of one of its own pieces, which
\* is what lets a reload replace exactly the singletons a saved group covers.
GroupsPartition ==
  /\ UNION {groups[id].pieces : id \in DOMAIN groups} = Pieces
  /\ \A i, j \in DOMAIN groups : i # j => groups[i].pieces \cap groups[j].pieces = {}
  /\ \A id \in DOMAIN groups : id \in groups[id].pieces

\* A locked group is on its frame position exactly, though snapping only asks
\* for the tolerance and several groups may lock in one drop.
LockedOnFrame ==
  \A id \in DOMAIN groups :
    groups[id].locked => groups[id].position = Frame(Anchor(groups[id].pieces))

\* A hold is on a live, unlocked group and belongs to a connected guest: merges,
\* locks, disconnects and completion leave no hold behind.
HoldsAreLive ==
  \A id \in DOMAIN holds :
    id \in DOMAIN groups /\ ~groups[id].locked /\ holds[id].holder \in connected

\* The credited pieces are exactly those joined to another piece or to the frame.
CreditedAreJoined ==
  credited = UNION {groups[id].pieces :
                      id \in {i \in DOMAIN groups : groups[i].locked \/ groups[i].pieces # {i}}}

\* FR-21: per-player counts always sum to the room total.
ScoresSum ==
  MapThenSumSet(LAMBDA g : identities[g].placedCount, DOMAIN identities) = Cardinality(credited)

\* The room is completed exactly when every group is locked.
CompletedWhenAllLocked == status = "completed" <=> AllLocked(groups)

\* Solving time is what passed while somebody was connected to an active room,
\* however joins, second tabs, leaves and the completing drop interleave.
SolvingTimeExact ==
  solving = activeMs + (IF activeSince = NotActive THEN 0 ELSE now - activeSince)

\* Writing the deviation record and reading it back gives the same table.
RoundTrip == RestoredGroups(SerializedGroups) = groups

\* One identity per persistent user in a room, whichever credential it joins by.
OneIdentityPerUser ==
  \A g, h \in DOMAIN identities :
    identities[g].user = identities[h].user /\ identities[g].user # None => g = h

\* The running stretch and the guard that starts it agree: it runs exactly while
\* somebody is connected to an active room.
ClockAgrees ==
  /\ solving <= now
  /\ activeSince # NotActive <=> connected # {} /\ status = "active"

\* The inductive invariant the proofs use.
IInv ==
  /\ TypeOK /\ GroupsPartition /\ LockedOnFrame /\ HoldsAreLive /\ CreditedAreJoined
  /\ CompletedWhenAllLocked /\ SolvingTimeExact /\ OneIdentityPerUser /\ ClockAgrees

-----------------------------------------------------------------------------

\* FR-12, and merges are for ever: a locked piece stays locked where it is, and
\* two joined pieces stay joined.
ProgressStep ==
  /\ \A p \in LockedPieces : p \in LockedPieces' /\ Place(p)' = Place(p)
  /\ \A id \in DOMAIN groups :
       \E j \in DOMAIN groups' : groups[id].pieces \subseteq groups'[j].pieces
ProgressIsPermanent == [][ProgressStep]_vars

\* FR-9 and the drop's visibility rule: while a hold lasts nobody else takes the
\* group, merges into it or absorbs it; it is only let go in place.
HeldStep ==
  \A id \in DOMAIN holds :
    /\ id \in DOMAIN groups'
    /\ id \in DOMAIN holds' =>
         /\ holds'[id].holder = holds[id].holder
         /\ groups'[id].pieces = groups[id].pieces
HeldGroupIsExclusive == [][HeldStep]_vars

\* FR-25: nothing about a completed room changes but who is looking at it.
FrozenStep ==
  status = "completed" =>
    /\ UNCHANGED <<groups, holds, credited, status, activeMs, activeSince>>
    /\ \A g \in DOMAIN identities : g \in DOMAIN identities' /\ identities'[g] = identities[g]
CompletedIsFrozen == [][FrozenStep]_vars

\* FR-24, FR-21: an identity and its score are never lost, and a piece credited
\* once is not credited again.
ScoreStep ==
  /\ credited \subseteq credited'
  /\ \A g \in DOMAIN identities :
       /\ g \in DOMAIN identities'
       /\ identities'[g].placedCount >= identities[g].placedCount
       /\ identities'[g].user = identities[g].user
ScoresOnlyGrow == [][ScoreStep]_vars

\* The record of a room is never taken back, whoever joins, renames or plays on:
\* scores only grow, and a completed room is read-only (FR-21, FR-24, FR-25).
RecordIsFinal == CompletedIsFrozen /\ ScoresOnlyGrow

\* FR-15: a drop that joins nothing lands the group inside the play area,
\* wherever the client reports it, and a frame lock lands it on the frame.
LandingStep ==
  \A id \in DOMAIN holds \ DOMAIN holds' :
    groups'[id].pieces = groups[id].pieces /\ groups'[id] # groups[id]
      => InsideArea(groups'[id].pieces, groups'[id].position)
DropLandsInside == [][LandingStep]_vars

\* FR-15 as scatter.ts puts it ("Where pieces may live"): a group nobody holds
\* lies inside the play area.  The code does not keep it: leave and expireIdleHolds
\* release a group where the last, unclamped move put it (README, section 5).
RestInsideArea ==
  \A id \in DOMAIN groups \ DOMAIN holds : InsideArea(groups[id].pieces, groups[id].position)

\* snap.ts: "Adopt the largest existing chunk's frame ...; everyone else snaps
\* onto it (all are within tolerance by construction)": a drop moves no group
\* resting on the table by more than the tolerance.  The code does not keep it for
\* groups that were released in place (README, section 5).
MergeMovesWithinTol ==
  [][\A id \in DOMAIN groups \ DOMAIN holds : \A p \in groups[id].pieces :
       WithinTol(Minus(Place(p)', Place(p)))]_vars
=============================================================================
