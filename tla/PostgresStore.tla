--------------------------- MODULE PostgresStore ---------------------------
(***************************************************************************)
(* backend/app/services/postgres_account_store.py over db/schema.sql: the  *)
(* four operations that write accounts and favourites, one action per SQL  *)
(* statement, run by Workers (request threads of one or several backend    *)
(* processes) under READ COMMITTED.  Every call owns one connection and    *)
(* one transaction; leaving the "with" block commits it, an exception      *)
(* rolls it back.  Sessions are in AccountApi.                             *)
(***************************************************************************)
EXTENDS Integers, Sequences, FiniteSets, SequencesExt

CONSTANTS Workers,        \* threads that call the store
          Ids,            \* uuid4 identifiers of accounts
          Names,          \* user names
          Movies,         \* movie identifiers
          Lists,          \* the lists a sign-up or a merge may carry
          MaxFavorites,   \* 20 in the code
          MaxCalls,       \* bound: how many calls a behaviour makes
          NoWorker, Unused, Dropped

ASSUME MaxFavoritesAssumption == MaxFavorites \in Nat \ {0}
ASSUME ListsAssumption == Lists \subseteq Seq(Movies)
ASSUME NoWorkerAssumption == NoWorker \notin Workers
ASSUME AccountAssumption == Unused \notin Names /\ Dropped \notin Names /\ Unused # Dropped
ASSUME MoviesAssumption == IsFiniteSet(Movies)
ASSUME NonEmptyAssumption == Ids # {} /\ Names # {}

VARIABLES
    \* committed rows
    account,       \* account[i]: its user name, Unused before INSERT, Dropped after DELETE
    position,      \* position[i][m]: favorites.position of the row (i, m), 0 without a row
    nextPosition,  \* next value of the identity column; a rollback does not give it back
    \* row locks
    lockedBy,      \* lockedBy[i]: the transaction that holds FOR UPDATE on the user row
    \* the calls
    pc, op, target, name,
    todo,          \* movies the loop has still to look at
    ids,           \* the Python list "ids"
    ins,           \* ins[w][m]: position of the row w inserted and has not committed, or 0
    del,           \* movies whose row w deleted and has not committed
    reply,         \* what the caller got
    calls          \* calls made so far, bounded by MaxCalls

stored == <<account, position, nextPosition>>
local  == <<op, target, name>>
vars   == <<account, position, nextPosition, lockedBy, pc, op, target, name,
            todo, ids, ins, del, reply, calls>>

NoRows == [m \in Movies |-> 0]
Present(rows) == {m \in Movies : rows[m] # 0}

\* What the statements of w see of the rows of its account: committed rows and its own writes.
Visible(w) ==
    [m \in Movies |-> IF ins[w][m] # 0 THEN ins[w][m]
                      ELSE IF m \in del[w] THEN 0 ELSE position[target[w]][m]]

\* s lists the given rows by position (ORDER BY position).
IsListing(s, rows) ==
    /\ ToSet(s) = Present(rows)
    /\ \A j, k \in 1..Len(s) : j < k => rows[s[j]] < rows[s[k]]

ListingsUnordered(rows) ==
    {s \in [1..Cardinality(Present(rows)) -> Present(rows)] : ToSet(s) = Present(rows)}
Listings(rows) ==
    {s \in [1..Cardinality(Present(rows)) -> Present(rows)] : IsListing(s, rows)}

Creating(w) == pc[w] = "rows" /\ op[w] = "create"

TypeOK ==
    /\ account \in [Ids -> Names \cup {Unused, Dropped}]
    /\ position \in [Ids -> [Movies -> Nat]]
    /\ nextPosition \in Nat \ {0}
    /\ lockedBy \in [Ids -> Workers \cup {NoWorker}]
    /\ pc \in [Workers -> {"idle", "begun", "locked", "deleted", "rows"}]
    /\ op \in [Workers -> {"create", "merge", "add", "remove"}]
    /\ target \in [Workers -> Ids]
    /\ name \in [Workers -> Names]
    /\ todo \in [Workers -> Seq(Movies)]
    /\ ids \in [Workers -> Seq(Movies)]
    /\ ins \in [Workers -> [Movies -> Nat]]
    /\ del \in [Workers -> SUBSET Movies]
    /\ reply \in [Workers -> {"none", "ok", "limit", "taken", "gone", "error"}]
    /\ calls \in Nat

\* Identity columns start at 1.
FirstPositionZero == 0
FirstPosition == 1

Init ==
    /\ account = [i \in Ids |-> Unused]
    /\ position = [i \in Ids |-> NoRows]
    /\ nextPosition = FirstPosition
    /\ lockedBy = [i \in Ids |-> NoWorker]
    /\ pc = [w \in Workers |-> "idle"]
    /\ op = [w \in Workers |-> "create"]
    /\ target = [w \in Workers |-> CHOOSE i \in Ids : TRUE]
    /\ name = [w \in Workers |-> CHOOSE n \in Names : TRUE]
    /\ todo = [w \in Workers |-> <<>>]
    /\ ids = [w \in Workers |-> <<>>]
    /\ ins = [w \in Workers |-> NoRows]
    /\ del = [w \in Workers |-> {}]
    /\ reply = [w \in Workers |-> "none"]
    /\ calls = 0

-----------------------------------------------------------------------------
\* A call enters the "with self._connect()" block.
Begin(w, o, i, n, s) ==
    /\ pc[w] = "idle" /\ calls < MaxCalls
    /\ calls' = calls + 1
    /\ pc' = [pc EXCEPT ![w] = "begun"]
    /\ op' = [op EXCEPT ![w] = o]
    /\ target' = [target EXCEPT ![w] = i]
    /\ name' = [name EXCEPT ![w] = n]
    /\ todo' = [todo EXCEPT ![w] = s]
    /\ ids' = [ids EXCEPT ![w] = <<>>]
    /\ ins' = [ins EXCEPT ![w] = NoRows]
    /\ del' = [del EXCEPT ![w] = {}]
    /\ reply' = [reply EXCEPT ![w] = "none"]
    /\ UNCHANGED <<stored, lockedBy>>

\* uuid4: an identifier nobody has or is about to have.
Fresh(i) ==
    /\ account[i] = Unused
    /\ \A u \in Workers : pc[u] # "idle" => target[u] # i

BeginCreate(w, i, n, s) ==
    /\ Fresh(i)
    /\ Cardinality(ToSet(s)) <= MaxFavorites
    /\ Begin(w, "create", i, n, s)

\* More than MaxFavorites distinct movies: ValueError before any connection is opened.
RefuseCreate(w, s) ==
    /\ pc[w] = "idle" /\ calls < MaxCalls
    /\ Cardinality(ToSet(s)) > MaxFavorites
    /\ calls' = calls + 1
    /\ op' = [op EXCEPT ![w] = "create"]
    /\ reply' = [reply EXCEPT ![w] = "limit"]
    /\ UNCHANGED <<stored, lockedBy, pc, target, name, todo, ids, ins, del>>

\* Callers know the identifier of an account from its session or from create_user.
BeginOn(w, o, i, s) ==
    /\ account[i] # Unused
    /\ Begin(w, o, i, name[w], s)

BeginMerge(w, i, s) == BeginOn(w, "merge", i, s)
BeginAdd(w, i, m) == BeginOn(w, "add", i, <<m>>)
BeginRemove(w, i, m) == BeginOn(w, "remove", i, <<m>>)

\* The transaction of w ends: its locks go, its uncommitted rows go with it.
Release(w) == [lockedBy EXCEPT ![target[w]] = IF @ = w THEN NoWorker ELSE @]

End(w, r) ==
    /\ pc' = [pc EXCEPT ![w] = "idle"]
    /\ reply' = [reply EXCEPT ![w] = r]
    /\ lockedBy' = Release(w)
    /\ todo' = [todo EXCEPT ![w] = <<>>]
    /\ ins' = [ins EXCEPT ![w] = NoRows]
    /\ del' = [del EXCEPT ![w] = {}]
    /\ UNCHANGED <<local, ids, calls>>

Fail(w, r) == End(w, r) /\ UNCHANGED stored

-----------------------------------------------------------------------------
\* SELECT ... FOR UPDATE waits for the holder of the row.
CanLockAnyway(w) == TRUE
CanLock(w) == lockedBy[target[w]] = NoWorker

AsksLock(w) == pc[w] = "begun" /\ op[w] # "create" /\ CanLock(w)

Lock(w) ==
    /\ AsksLock(w)
    /\ account[target[w]] \in Names
    /\ lockedBy' = [lockedBy EXCEPT ![target[w]] = w]
    /\ pc' = [pc EXCEPT ![w] = "locked"]
    /\ UNCHANGED <<stored, local, todo, ids, ins, del, reply, calls>>

LockMissing(w) ==
    /\ AsksLock(w)
    /\ account[target[w]] \notin Names
    /\ Fail(w, "gone")

\* WHERE user_id = ... AND movie_id = ...
WhereMovie(w) == ToSet(todo[w])

RemoveRow(w) ==
    /\ pc[w] = "locked" /\ op[w] = "remove"
    /\ del' = [del EXCEPT ![w] = WhereMovie(w)]
    /\ todo' = [todo EXCEPT ![w] = <<>>]
    /\ pc' = [pc EXCEPT ![w] = "deleted"]
    /\ UNCHANGED <<stored, lockedBy, local, ids, ins, reply, calls>>

\* _favorite_ids: before the inserts, after the delete.
Read(w) ==
    /\ \/ pc[w] = "locked" /\ op[w] # "remove"
       \/ pc[w] = "deleted"
    /\ \E s \in Listings(Visible(w)) : ids' = [ids EXCEPT ![w] = s]
    /\ pc' = [pc EXCEPT ![w] = "rows"]
    /\ UNCHANGED <<stored, lockedBy, local, todo, ins, del, reply, calls>>

\* The UNIQUE index makes a second INSERT of a name wait for the first transaction.
NamePendingUnseen(w) == FALSE
NamePending(w) == \E u \in Workers \ {w} : Creating(u) /\ name[u] = name[w]
NameTaken(n) == \E i \in Ids : account[i] = n

InsertUser(w) ==
    /\ pc[w] = "begun" /\ op[w] = "create"
    /\ ~NamePending(w)
    /\ ~NameTaken(name[w])
    /\ pc' = [pc EXCEPT ![w] = "rows"]
    /\ UNCHANGED <<stored, lockedBy, local, todo, ids, ins, del, reply, calls>>

UserTaken(w) ==
    /\ pc[w] = "begun" /\ op[w] = "create"
    /\ ~NamePending(w)
    /\ NameTaken(name[w])
    /\ Fail(w, "taken")

-----------------------------------------------------------------------------
\* One turn of the loop over the movies; create_user has dropped repeated movies before it.
HasRoomForOneMore(w) == op[w] = "create" \/ Len(ids[w]) <= MaxFavorites
HasRoomForOneLess(w) == op[w] = "create" \/ Len(ids[w]) < MaxFavorites - 1
HasRoom(w) == op[w] = "create" \/ Len(ids[w]) < MaxFavorites
Known(w) == Head(todo[w]) \in ToSet(ids[w])
AtMovie(w) == pc[w] = "rows" /\ todo[w] # <<>>

\* The primary key makes an INSERT wait for another transaction's INSERT of the same row, and
\* fails it if the row is there: InsertMeetsNoKey says that this never happens.
KeyPending(w) ==
    \E u \in Workers \ {w} : target[u] = target[w] /\ ins[u][Head(todo[w])] # 0

Insert(w) ==
    /\ AtMovie(w) /\ ~Known(w) /\ HasRoom(w) /\ ~KeyPending(w)
    /\ Visible(w)[Head(todo[w])] = 0
    /\ ins' = [ins EXCEPT ![w] = [@ EXCEPT ![Head(todo[w])] = nextPosition]]
    /\ nextPosition' = nextPosition + 1
    /\ ids' = [ids EXCEPT ![w] = Append(@, Head(todo[w]))]
    /\ todo' = [todo EXCEPT ![w] = Tail(@)]
    /\ UNCHANGED <<account, position, lockedBy, pc, local, del, reply, calls>>

Skip(w) ==
    /\ AtMovie(w)
    /\ Known(w) \/ (op[w] = "merge" /\ ~HasRoom(w))
    /\ todo' = [todo EXCEPT ![w] = Tail(@)]
    /\ UNCHANGED <<stored, lockedBy, pc, local, ids, ins, del, reply, calls>>

RefuseAdd(w) ==
    /\ AtMovie(w) /\ op[w] = "add"
    /\ ~Known(w) /\ ~HasRoom(w)
    /\ Fail(w, "limit")

\* Leaving the "with" block.  The caller may see an error although the commit took effect.
Commit(w, r) ==
    /\ pc[w] = "rows" /\ todo[w] = <<>>
    /\ position' = [position EXCEPT ![target[w]] = Visible(w)]
    /\ account' = [account EXCEPT ![target[w]] = IF op[w] = "create" THEN name[w] ELSE @]
    /\ End(w, r)
    /\ UNCHANGED nextPosition

\* lock_timeout, statement_timeout, a lost connection, the death of either process.
Abort(w) ==
    /\ pc[w] # "idle"
    /\ Fail(w, "error")

\* DELETE FROM users by an operator: waits for the row, cascades to the favourites.
DropAccount(i) ==
    /\ account[i] \in Names /\ lockedBy[i] = NoWorker
    /\ account' = [account EXCEPT ![i] = Dropped]
    /\ position' = [position EXCEPT ![i] = NoRows]
    /\ UNCHANGED <<nextPosition, lockedBy, pc, local, todo, ids, ins, del, reply, calls>>

-----------------------------------------------------------------------------
Start(w) ==
    \/ \E i \in Ids, n \in Names, s \in Lists : BeginCreate(w, i, n, s)
    \/ \E s \in Lists : RefuseCreate(w, s)
    \/ \E i \in Ids, s \in Lists : BeginMerge(w, i, s)
    \/ \E i \in Ids, m \in Movies : BeginAdd(w, i, m) \/ BeginRemove(w, i, m)

\* What w does by itself once it is called; every other step is somebody else's will.
Work(w) ==
    \/ Lock(w) \/ LockMissing(w) \/ RemoveRow(w) \/ Read(w)
    \/ InsertUser(w) \/ UserTaken(w)
    \/ Insert(w) \/ Skip(w) \/ RefuseAdd(w)
    \/ Commit(w, "ok")

Next ==
    \/ \E w \in Workers : Start(w) \/ Work(w) \/ Commit(w, "error") \/ Abort(w)
    \/ \E i \in Ids : DropAccount(i)

Spec == Init /\ [][Next]_vars

FairSpec == Spec /\ \A w \in Workers : WF_vars(Work(w))

-----------------------------------------------------------------------------
\* No account ever holds more than MaxFavorites committed favourites, whatever tabs and
\* backend processes add at the same time (comment of _lock_user; len(ids) is checked
\* on a list read earlier in the transaction).
WithinLimit == \A i \in Ids : Cardinality(Present(position[i])) <= MaxFavorites

\* Two accounts never share a user name (users.username UNIQUE against concurrent sign-ups),
\* and of two transactions past their INSERT at most one carries a given name.
UniqueNames ==
    /\ \A i, j \in Ids : account[i] \in Names /\ account[i] = account[j] => i = j
    /\ \A u, w \in Workers : Creating(u) /\ Creating(w) /\ name[u] = name[w] => u = w

\* merge_favorites and add_favorite decide from a list they read before: it never lags
\* behind the table, so no INSERT meets the primary key (an error nothing there catches).
InsertMeetsNoKey ==
    \A w \in Workers : AtMovie(w) /\ ~Known(w) => Visible(w)[Head(todo[w])] = 0

Returns(w, r) == pc[w] # "idle" /\ pc'[w] = "idle" /\ reply'[w] = r

\* The list a favourite operation returns, computed in Python and not read back, is the
\* committed list of the account, in its order, at the moment the call returns.
ReturnsTheList ==
    [][\A w \in Workers :
          Returns(w, "ok") /\ op[w] # "create" => IsListing(ids'[w], position'[target[w]])]_vars

\* add_favorite refuses only a movie that really does not fit: the account holds exactly
\* MaxFavorites others when the caller is told so.
RefusalJustified ==
    [][\A w \in Workers :
          Returns(w, "limit") =>
              /\ Cardinality(Present(position[target[w]])) = MaxFavorites
              /\ position[target[w]][Head(todo[w])] = 0]_vars

\* Each account's rows go through the steps of an ordered list of favourites: new movies
\* last in the order they were inserted, the others undisturbed (FavoriteLists).
PrecedesIn(rows) ==
    {p \in Movies \X Movies : rows[p[1]] # 0 /\ rows[p[2]] # 0 /\ rows[p[1]] < rows[p[2]]}

AbstractLists == INSTANCE FavoriteLists
                    WITH members <- [i \in Ids |-> Present(position[i])],
                         before <- [i \in Ids |-> PrecedesIn(position[i])],
                         gone <- {i \in Ids : account[i] = Dropped}

ImplementsLists == AbstractLists!Spec

\* Why the store is right, in one inductive invariant.  A transaction past FOR UPDATE owns
\* the user row ...
HoldsRow(w) == pc[w] \in {"locked", "deleted"} \/ (pc[w] = "rows" /\ op[w] # "create")
LockSound == \A w \in Workers :
    HoldsRow(w) => lockedBy[target[w]] = w /\ account[target[w]] \in Names

\* ... a sign-up is alone with its new identifier, and with its name once inserted ...
InCreate(w) == pc[w] # "idle" /\ op[w] = "create"
CreateSound == \A w \in Workers : InCreate(w) =>
    /\ account[target[w]] = Unused
    /\ pc[w] \in {"begun", "rows"}
    /\ pc[w] = "rows" => ~NameTaken(name[w])
    /\ \A u \in Workers \ {w} : pc[u] # "idle" => target[u] # target[w]

\* ... rows exist only for accounts, below the next position; writes start at the loop ...
RowsSound ==
    /\ \A i \in Ids : account[i] = Unused => position[i] = NoRows
    /\ \A i \in Ids, m \in Movies : position[i][m] < nextPosition
    /\ \A w \in Workers, m \in Movies : ins[w][m] < nextPosition
    /\ \A w \in Workers : pc[w] # "rows" => ins[w] = NoRows
    /\ \A w \in Workers : pc[w] = "begun" => ids[w] = <<>>
    /\ \A w \in Workers : del[w] # {} => op[w] = "remove" /\ pc[w] \in {"deleted", "rows"}

\* ... and the Python list is exactly what the transaction will commit, within the limit.
ListSound == \A w \in Workers : pc[w] = "rows" => IsListing(ids[w], Visible(w))
RoomSound == \A w \in Workers :
    /\ pc[w] = "rows" /\ op[w] # "create" => Len(ids[w]) <= MaxFavorites
    /\ InCreate(w) => Cardinality(ToSet(ids[w]) \cup ToSet(todo[w])) <= MaxFavorites

Consistent == /\ TypeOK /\ LockSound /\ CreateSound /\ RowsSound
              /\ ListSound /\ RoomSound /\ WithinLimit /\ UniqueNames

\* Its inserts come after every committed row of the account, a removal concerns one movie.
OrderSound == \A w \in Workers :
    /\ pc[w] \in {"begun", "locked"} /\ op[w] = "remove" => \E m \in Movies : todo[w] = <<m>>
    /\ pc[w] \in {"deleted", "rows"} /\ op[w] = "remove" =>
          /\ todo[w] = <<>> /\ ins[w] = NoRows
          /\ \E m \in Movies : del[w] = {m}
    /\ \A m \in Movies : ins[w][m] # 0 =>
          /\ position[target[w]][m] = 0
          /\ \A n \in Movies : position[target[w]][n] < ins[w][m]

\* Every call returns without the help of a timeout: transactions never wait for each
\* other in a circle, because each takes its only contended lock first.
EveryCallReturns == \A w \in Workers : pc[w] # "idle" ~> pc[w] = "idle"

=============================================================================
