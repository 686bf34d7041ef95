------------------------------ MODULE Playlists ------------------------------
(***************************************************************************)
(* Playlists, their items and the likes, under requests of their owners    *)
(* and under the deletion of tracks and of users.                          *)
(*                                                                         *)
(* A request is one transaction, a chain of statements; each is a step.    *)
(* On PostgreSQL (READ COMMITTED) a statement sees its own writes and what *)
(* is committed when it starts, waits for a row another transaction wrote, *)
(* and finds it in its newest version; several processes run transactions  *)
(* at once.  SQLite has one connection, which a transaction holds: there is *)
(* one request at a time.                                                  *)
(***************************************************************************)
EXTENDS Integers, FiniteSets, Sequences, SequencesExt

CONSTANTS
    Lists, Users,
    Musics,        \* ids of tracks, which break ties between positions
    Owner,         \* of lists and tracks
    Requests,
    MaxPlaylistItems,
    Ops,           \* the operations of this instance
    MaxRequests    \* bound of the model

PlaylistConstants ==
    /\ Musics \subseteq Nat /\ Owner \in [Lists \cup Musics -> Users]
    /\ MaxPlaylistItems \in Nat /\ MaxRequests \in Nat

VARIABLES
    users, musics, \* rows that exist
    revision,      \* of each playlist; 0 when there is no such row
    items,         \* position of each track in each playlist
    likes,
    tx,            \* the transactions in progress
    served         \* requests so far

vars == <<users, musics, revision, items, likes, tx, served>>

Absent == -1
Pairs == Lists \X Musics
Idle == [pc |-> "idle", op |-> "none", list |-> 0, music |-> 0, order |-> <<>>,
         own |-> <<>>, locks |-> {}, bumped |-> {}, unliked |-> {},
         doomed |-> {}, lists |-> {}, todo |-> <<>>, last |-> Absent]

-----------------------------------------------------------------------------
(* What a transaction sees, and the rows it waits for.                     *)

View(r) == [p \in Pairs |-> IF p \in DOMAIN tx[r].own THEN tx[r].own[p] ELSE items[p]]

In(view, l) == {m \in Musics : view[<<l, m>>] # Absent}

\* ORDER BY position, music_id.
Ordered(view, l) ==
    SetToSortSeq(In(view, l), LAMBDA a, b :
        \/ view[<<l, a>>] < view[<<l, b>>]
        \/ view[<<l, a>>] = view[<<l, b>>] /\ a < b)

Free(r, ps) == \A q \in Requests \ {r} : DOMAIN tx[q].own \cap ps = {}
ListFree(r, ls) == \A q \in Requests \ {r} : tx[q].locks \cap ls = {}

Runs(r, pc) == tx[r].pc = pc

Put(r, ps, f(_)) == [p \in DOMAIN tx[r].own \cup ps |->
                        IF p \in ps THEN f(p) ELSE tx[r].own[p]]

Goes(r, new) == tx' = [tx EXCEPT ![r] = new]
Stay == UNCHANGED <<users, musics, revision, items, likes, served>>
Rollback(r) == Goes(r, Idle) /\ Stay

\* Commits what r wrote, with the rows that foreign keys cascade to.
Commits(r, goneUsers, goneMusics, goneLists) ==
    LET cascade == goneLists \cup {l \in Lists : Owner[l] \in goneUsers} IN
    /\ users' = users \ goneUsers
    /\ musics' = musics \ goneMusics
    /\ items' = [p \in Pairs |-> IF p[1] \in cascade \/ p[2] \in goneMusics
                                 THEN Absent ELSE View(r)[p]]
    /\ revision' = [l \in Lists |->
                      IF l \in cascade \/ revision[l] = 0 THEN 0
                      ELSE IF l \in tx[r].bumped THEN revision[l] + 1 ELSE revision[l]]
    /\ likes' = likes \ tx[r].unliked
    /\ Goes(r, Idle) /\ UNCHANGED served

-----------------------------------------------------------------------------
(* Requests.  The body of a reorder holds the tracks the client last saw,  *)
(* in any order.                                                           *)

Begin(r, op, l, m) ==
    /\ tx[r].pc = "idle" /\ op \in Ops
    /\ served < MaxRequests /\ served' = served + 1
    /\ \E order \in IF op = "reorder" THEN SetToSeqs(In(items, l)) ELSE {<<>>} :
         Goes(r, [Idle EXCEPT !.op = op, !.list = l, !.music = m, !.order = order,
                  !.doomed = IF op = "music" THEN {m} ELSE {},
                  !.pc = CASE op = "music" -> "strip" [] op = "user" -> "user"
                           [] op = "like" -> "begin" [] OTHER -> "owned"])
    /\ UNCHANGED <<users, musics, revision, items, likes>>

Create(r, l) ==
    /\ tx[r].pc = "idle" /\ "create" \in Ops
    /\ served < MaxRequests /\ served' = served + 1
    /\ revision[l] = 0 /\ Owner[l] \in users
    /\ revision' = [revision EXCEPT ![l] = 1]
    /\ UNCHANGED <<users, musics, items, likes, tx>>

AfterOwned(op) == CASE op = "rename" -> "touch" [] OTHER -> op

\* ensureOwnedPlaylist
Owned(r) ==
    LET l == tx[r].list IN
    /\ Runs(r, "owned") /\ ListFree(r, {l})
    /\ IF revision[l] = 0 THEN Rollback(r)
       ELSE /\ Goes(r, [tx[r] EXCEPT !.pc = AfterOwned(tx[r].op), !.locks = {l}])
            /\ Stay

Delete(r) ==
    LET l == tx[r].list  ps == {p \in Pairs : p[1] = l} IN
    /\ Runs(r, "delete") /\ Free(r, ps)
    /\ Commits(r, {}, {}, {l})

-----------------------------------------------------------------------------
(* AddItem.                                                                *)

AddChecks(r) ==
    LET l == tx[r].list  m == tx[r].music IN
    /\ Runs(r, "add")
    /\ IF \/ m \notin musics
          \/ m \in In(View(r), l)
          \/ Cardinality(In(View(r), l)) >= MaxPlaylistItems
       THEN Rollback(r)
       ELSE Goes(r, [tx[r] EXCEPT !.pc = "last"]) /\ Stay

AddReadsLast(r) ==
    LET o == Ordered(View(r), tx[r].list) IN
    /\ Runs(r, "last")
    /\ Goes(r, [tx[r] EXCEPT !.pc = "insert",
                !.last = IF o = <<>> THEN Absent ELSE View(r)[<<tx[r].list, Last(o)>>]])
    /\ Stay

\* The foreign key refuses a track that is gone, the primary key a second item.
AddInserts(r) ==
    LET p == <<tx[r].list, tx[r].music>> IN
    /\ Runs(r, "insert") /\ Free(r, {p})
    /\ IF p[2] \notin musics \/ items[p] # Absent THEN Rollback(r)
       ELSE /\ Goes(r, [tx[r] EXCEPT !.pc = "touch",
                        !.own = Put(r, {p}, LAMBDA x : tx[r].last + 1)])
            /\ Stay

-----------------------------------------------------------------------------
(* RemoveItem, ReorderItems, and the writing of positions.                 *)

RemoveDeletes(r) ==
    LET p == <<tx[r].list, tx[r].music>> IN
    /\ Runs(r, "remove") /\ Free(r, {p})
    /\ IF items[p] = Absent THEN Rollback(r)
       ELSE /\ Goes(r, [tx[r] EXCEPT !.pc = "compact", !.lists = {p[1]},
                        !.own = Put(r, {p}, LAMBDA x : Absent)])
            /\ Stay

Numbered(l, order) == [i \in 1..Len(order) |-> <<<<l, order[i]>>, i - 1>>]

SameUniqueIDs(current, requested) ==
    Len(current) = Len(requested) /\ ToSet(current) = ToSet(requested)

Reorder(r) ==
    LET l == tx[r].list  current == Ordered(View(r), l)  order == tx[r].order IN
    /\ Runs(r, "reorder")
    /\ IF ~SameUniqueIDs(current, order) \/ order = current THEN Rollback(r)
       ELSE Goes(r, [tx[r] EXCEPT !.pc = "write", !.todo = Numbered(l, order)]) /\ Stay

\* Mutation: compaction leaves the positions as they are.
CompactNothing(r) ==
    /\ Runs(r, "compact")
    /\ \E l \in tx[r].lists :
         Goes(r, [tx[r] EXCEPT !.pc = "write", !.list = l, !.lists = @ \ {l}]) /\ Stay

\* Mutation: compaction numbers the items in the order of their tracks.
CompactByMusic(r) ==
    /\ Runs(r, "compact")
    /\ \E l \in tx[r].lists :
         /\ Goes(r, [tx[r] EXCEPT !.pc = "write", !.list = l, !.lists = @ \ {l},
                     !.todo = Numbered(l, SetToSortSeq(In(View(r), l), <))])
         /\ Stay

\* compactPlaylistPositions reads the items of a list.
Compact(r) ==
    /\ Runs(r, "compact")
    /\ \E l \in tx[r].lists :
         /\ Goes(r, [tx[r] EXCEPT !.pc = "write", !.list = l, !.lists = @ \ {l},
                     !.todo = SelectSeq(Numbered(l, Ordered(View(r), l)),
                                        LAMBDA w : View(r)[w[1]] # w[2])])
         /\ Stay

\* UPDATE of one position; a row deleted meanwhile is not there to update.
Write(r) ==
    LET w == Head(tx[r].todo) IN
    /\ Runs(r, "write") /\ tx[r].todo # <<>> /\ Free(r, {w[1]})
    /\ Goes(r, [tx[r] EXCEPT !.todo = Tail(@),
                !.own = IF View(r)[w[1]] = Absent THEN @
                        ELSE Put(r, {w[1]}, LAMBDA x : w[2])])
    /\ Stay

Written(r) ==
    /\ Runs(r, "write") /\ tx[r].todo = <<>>
    /\ Goes(r, [tx[r] EXCEPT !.pc = "touch"]) /\ Stay

AfterTouch(t) ==
    CASE t.op \notin {"music", "user"} -> "commit"
      [] t.op \in {"music", "user"} /\ t.lists # {} -> "compact"
      [] t.op = "music" /\ t.lists = {} -> "likes"
      [] t.op = "user" /\ t.lists = {} -> "rows"

\* touchPlaylist
Touch(r) ==
    LET l == tx[r].list IN
    /\ Runs(r, "touch") /\ ListFree(r, {l})
    /\ Goes(r, [tx[r] EXCEPT !.pc = AfterTouch(tx[r]),
                !.locks = @ \cup {l}, !.bumped = @ \cup {l}])
    /\ Stay

Commit(r) == Runs(r, "commit") /\ Commits(r, {}, {}, {})

-----------------------------------------------------------------------------
(* Deletion of a track, and of a user with all that is the user's.         *)

\* The tracks, the likes and the lists of the user.
UserReads(r) ==
    LET u == Owner[tx[r].music] IN
    /\ Runs(r, "user")
    /\ Goes(r, [tx[r] EXCEPT !.pc = "userlists",
                !.doomed = {m \in musics : Owner[m] = u},
                !.unliked = {k \in likes : k[1] = u},
                !.lists = {l \in Lists : revision[l] # 0 /\ Owner[l] = u}])
    /\ Stay

UserDeletesLists(r) ==
    LET ps == {p \in Pairs : p[1] \in tx[r].lists} IN
    /\ Runs(r, "userlists") /\ Free(r, ps) /\ ListFree(r, tx[r].lists)
    /\ Goes(r, [tx[r] EXCEPT !.own = Put(r, ps, LAMBDA p : Absent), !.lists = {},
                !.locks = tx[r].lists,
                !.pc = IF tx[r].doomed = {} THEN "rows" ELSE "likes"])
    /\ Stay

LikesGo(r) ==
    /\ Runs(r, "likes")
    /\ Goes(r, [tx[r] EXCEPT !.unliked = @ \cup {k \in likes : k[2] \in tx[r].doomed},
                !.pc = IF tx[r].op = "user" THEN "strip" ELSE "rows"])
    /\ Stay

\* removeMusicFromPlaylists reads the lists to compact, then deletes the items.
Strip(r) ==
    LET ls == {l \in Lists : In(View(r), l) \cap tx[r].doomed # {}} IN
    /\ Runs(r, "strip")
    /\ Goes(r, [tx[r] EXCEPT !.lists = ls,
                !.pc = CASE ls # {} -> "stripitems"
                         [] ls = {} /\ tx[r].op = "music" -> "likes"
                         [] ls = {} /\ tx[r].op = "user" -> "rows"])
    /\ Stay

StripItems(r) ==
    LET ps == {p \in Pairs : p[2] \in tx[r].doomed /\ View(r)[p] # Absent} IN
    /\ Runs(r, "stripitems") /\ Free(r, ps)
    /\ Goes(r, [tx[r] EXCEPT !.pc = "compact", !.own = Put(r, ps, LAMBDA p : Absent)])
    /\ Stay

\* The last statement deletes the row; it waits for items that refer to it.
RowsGo(r) ==
    LET t == tx[r]
        gone == IF t.op = "user" THEN {Owner[t.music]} ELSE {}
    IN
    /\ Runs(r, "rows")
    /\ \A q \in Requests \ {r} : \A p \in DOMAIN tx[q].own :
          tx[q].own[p] # Absent => p[2] \notin t.doomed /\ Owner[p[1]] \notin gone
    /\ IF gone \subseteq users /\ (t.op = "music" => t.doomed \subseteq musics)
       THEN Commits(r, gone, t.doomed, {})
       ELSE Rollback(r)

-----------------------------------------------------------------------------
(* Likes: two statements without a transaction.                            *)

LikeChecks(r) ==
    /\ Runs(r, "begin")
    /\ IF tx[r].music \in musics THEN Goes(r, [tx[r] EXCEPT !.pc = "like"])
       ELSE Goes(r, Idle)
    /\ Stay

LikeInserts(r) ==
    /\ Runs(r, "like")
    /\ \E u \in Users : likes' = likes \cup {<<u, tx[r].music>>}
    /\ Goes(r, Idle)
    /\ UNCHANGED <<users, musics, revision, items, served>>

Unlike(r) ==
    /\ "like" \in Ops /\ Runs(r, "idle")
    /\ \E k \in likes :
         /\ likes' = likes \ {k}
         /\ UNCHANGED <<users, musics, revision, items, tx, served>>

\* An error, a deadlock the database breaks, a caller that went away.
Abort(r) == tx[r].pc \notin {"idle", "begin"} /\ Rollback(r)

-----------------------------------------------------------------------------
Init ==
    /\ users = Users /\ musics = Musics /\ likes = {}
    /\ revision = [l \in Lists |-> 1]
    /\ items \in {[p \in Pairs |-> IF p[2] <= n THEN p[2] - 1 ELSE Absent] :
                    n \in (1..Cardinality(Musics)) \cap (0..MaxPlaylistItems)}
    /\ tx = [r \in Requests |-> Idle]
    /\ served = 0

ListStep(r) ==
    \/ Owned(r) \/ Delete(r) \/ AddChecks(r) \/ AddReadsLast(r) \/ AddInserts(r)
    \/ RemoveDeletes(r) \/ Reorder(r) \/ Compact(r) \/ Write(r) \/ Written(r)
    \/ Touch(r) \/ Commit(r)

DeletionStep(r) ==
    UserReads(r) \/ UserDeletesLists(r) \/ LikesGo(r) \/ Strip(r) \/ StripItems(r) \/ RowsGo(r)

LikeStep(r) == LikeChecks(r) \/ LikeInserts(r) \/ Unlike(r)

Next ==
    \E r \in Requests :
      \/ \E op \in Ops \ {"create"}, l \in Lists, m \in Musics : Begin(r, op, l, m)
      \/ \E l \in Lists : Create(r, l)
      \/ ListStep(r) \/ DeletionStep(r) \/ LikeStep(r) \/ Abort(r)

Spec == Init /\ [][Next]_vars

-----------------------------------------------------------------------------
\* Every variable has its type, and items belong to rows that exist.
TypeOK ==
    /\ users \subseteq Users /\ musics \subseteq Musics
    /\ likes \subseteq Users \X Musics
    /\ \A p \in Pairs : items[p] # Absent =>
          items[p] \in 0..Cardinality(Musics) * MaxRequests
          /\ p[2] \in musics /\ revision[p[1]] # 0

\* The positions of a list are 0 to n-1, without a gap or a duplicate
\* (compactPlaylistPositions, AddItem).
PositionsDense ==
    \A l \in Lists :
       {items[<<l, m>>] : m \in In(items, l)} = 0..Cardinality(In(items, l)) - 1

\* A list has at most MaxPlaylistItems items (ErrPlaylistFull).
ItemLimit == \A l \in Lists : Cardinality(In(items, l)) <= MaxPlaylistItems

\* Every like is of a track that exists (LikeMusic, and Delete of a track).
LikesExist == \A k \in likes : k[2] \in musics

\* Whoever sees the same revision twice sees the same items (touchPlaylist).
TellsRevision ==
    \A l \in Lists :
      (\E m \in Musics : items'[<<l, m>>] # items[<<l, m>>]) =>
        revision'[l] > revision[l] \/ revision'[l] = 0

\* Only a reorder of a list changes the order of the items that stay in it,
\* whatever other requests add, remove or delete meanwhile.
KeepsOrder ==
    \A l \in Lists :
         LET stay == In(items, l) \cap In(items', l)
             kept == SelectSeq(Ordered(items, l), LAMBDA m : m \in stay)
             new == SelectSeq(Ordered(items', l), LAMBDA m : m \in stay)
         IN kept = new \/ \E r \in Requests :
              tx[r].op = "reorder" /\ tx[r].pc = "commit" /\ tx'[r].pc = "idle"
              /\ tx[r].list = l
=============================================================================
