------------------------ MODULE PostgresStoreProofs ------------------------
(* Proofs about PostgresStore, for any sets of workers, accounts and lists. *)
EXTENDS PostgresStore, ListFacts

-----------------------------------------------------------------------------
(* Type correctness. *)

\* The empty store has the types.
LEMMA InitTypeOK == ASSUME Init PROVE TypeOK
  BY NonEmptyAssumption, MaxFavoritesAssumption, NoWorkerAssumption DEF Init, TypeOK, NoRows, FirstPosition

\* What a transaction sees and lists is well typed.
LEMMA VisibleType ==
    ASSUME TypeOK, NEW w \in Workers
    PROVE  /\ Visible(w) \in [Movies -> Nat]
           /\ Listings(Visible(w)) \subseteq Seq(Movies)
           /\ \A s \in Listings(Visible(w)) : Len(s) = Cardinality(Present(Visible(w)))
<1>1. Visible(w) \in [Movies -> Nat]
  BY DEF TypeOK, Visible
<1>2. Present(Visible(w)) \subseteq Movies
  BY DEF Present
<1>3. Cardinality(Present(Visible(w))) \in Nat
  BY <1>2, MoviesAssumption, FS_Subset, FS_CardinalityType
<1> QED
  BY <1>1, <1>2, <1>3 DEF Listings

\* Every action keeps the types.
LEMMA TypeStep == ASSUME TypeOK, [Next]_vars PROVE TypeOK'
<1> USE DEF TypeOK, stored, local
<1>1. ASSUME NEW w \in Workers, Start(w) PROVE TypeOK'
  <2>1. ASSUME NEW o \in {"create", "merge", "add", "remove"}, NEW i \in Ids, NEW n \in Names,
               NEW s \in Seq(Movies), Begin(w, o, i, n, s)
        PROVE  TypeOK'
    BY <2>1 DEF Begin, NoRows
  <2>2. ASSUME NEW i \in Ids, NEW n \in Names, NEW s \in Lists, BeginCreate(w, i, n, s)
        PROVE  TypeOK'
    BY <2>1, <2>2, ListsAssumption DEF BeginCreate
  <2>3. ASSUME NEW s \in Lists, RefuseCreate(w, s) PROVE TypeOK'
    BY <2>3 DEF RefuseCreate
  <2>4. ASSUME NEW i \in Ids, NEW s \in Lists, BeginMerge(w, i, s) PROVE TypeOK'
    BY <2>1, <2>4, ListsAssumption DEF BeginMerge, BeginOn
  <2>5. ASSUME NEW i \in Ids, NEW m \in Movies, BeginAdd(w, i, m) \/ BeginRemove(w, i, m)
        PROVE  TypeOK'
    <3>1. <<m>> \in Seq(Movies)
      OBVIOUS
    <3> QED
      BY <2>1, <2>5, <3>1 DEF BeginAdd, BeginRemove, BeginOn
  <2> QED
    BY <1>1, <2>2, <2>3, <2>4, <2>5 DEF Start
<1>2. ASSUME NEW w \in Workers,
             NEW r \in {"none", "ok", "limit", "taken", "gone", "error"}, Fail(w, r)
      PROVE  TypeOK'
  BY <1>2 DEF Fail, End, Release, NoRows
<1>3. ASSUME NEW w \in Workers, Lock(w) PROVE TypeOK'
  BY <1>3 DEF Lock
<1>4. ASSUME NEW w \in Workers, LockMissing(w) \/ UserTaken(w) \/ RefuseAdd(w) \/ Abort(w)
      PROVE  TypeOK'
  BY <1>2, <1>4 DEF LockMissing, UserTaken, RefuseAdd, Abort
<1>5. ASSUME NEW w \in Workers, RemoveRow(w) PROVE TypeOK'
  BY <1>5, ElementsBound DEF RemoveRow, WhereMovie
<1>6. ASSUME NEW w \in Workers, Read(w) PROVE TypeOK'
  BY <1>6, VisibleType DEF Read
<1>7. ASSUME NEW w \in Workers, InsertUser(w) PROVE TypeOK'
  BY <1>7 DEF InsertUser
<1>8. ASSUME NEW w \in Workers, Insert(w) PROVE TypeOK'
  <2>1. Head(todo[w]) \in Movies /\ Tail(todo[w]) \in Seq(Movies)
    BY <1>8, ElementsTail DEF Insert, AtMovie
  <2>2. Append(ids[w], Head(todo[w])) \in Seq(Movies)
    BY <2>1
  <2> QED
    BY <1>8, <2>1, <2>2, SMTT(30) DEF Insert
<1>9. ASSUME NEW w \in Workers, Skip(w) PROVE TypeOK'
  <2>1. Tail(todo[w]) \in Seq(Movies)
    BY <1>9, ElementsTail DEF Skip, AtMovie
  <2> QED
    BY <1>9, <2>1 DEF Skip
<1>10. ASSUME NEW w \in Workers, NEW r \in {"ok", "error"}, Commit(w, r) PROVE TypeOK'
  BY <1>10, VisibleType DEF Commit, End, Release, NoRows
<1>11. ASSUME NEW i \in Ids, DropAccount(i) PROVE TypeOK'
  BY <1>11 DEF DropAccount, NoRows
<1>12. CASE UNCHANGED vars
  BY <1>12 DEF vars
<1>13. ASSUME NEW w \in Workers, Work(w) \/ Commit(w, "error") \/ Abort(w) PROVE TypeOK'
  BY ONLY <1>13, <1>3, <1>4, <1>5, <1>6, <1>7, <1>8, <1>9, <1>10 DEF Work
<1> QED
  BY ONLY [Next]_vars, <1>1, <1>11, <1>12, <1>13 DEF Next

\* Every variable keeps its type: positions are never negative, a lock names a worker, and a
\* call is always at one of the statements of its operation.
THEOREM TypeCorrect == Spec => []TypeOK
<1>1. Init => TypeOK
  BY InitTypeOK
<1>2. TypeOK /\ [Next]_vars => TypeOK'
  BY TypeStep
<1> QED
  BY <1>1, <1>2, PTL DEF Spec

-----------------------------------------------------------------------------
(* The inductive invariant, one lemma per kind of step. *)

\* The empty store is consistent: no transaction is open.
LEMMA InitConsistent == ASSUME Init PROVE Consistent
<1>1. TypeOK
  BY InitTypeOK
<1>2. Present(NoRows) = {} /\ Cardinality({}) = 0
  BY FS_EmptySet DEF Present, NoRows
<1>3. WithinLimit
  <2>1. \A i \in Ids : position[i] = NoRows
    BY DEF Init
  <2> QED
    BY <1>2, <2>1, MaxFavoritesAssumption DEF WithinLimit
<1>4. RowsSound
  BY DEF Init, RowsSound, NoRows, FirstPosition
<1> QED
  BY <1>1, <1>3, <1>4, AccountAssumption
  DEF Init, Consistent, LockSound, HoldsRow, CreateSound, InCreate, ListSound, RoomSound,
      UniqueNames, Creating

\* A transaction is the only one at work on the account it has locked or is creating.
LEMMA Alone ==
    ASSUME Consistent, NEW w \in Workers, HoldsRow(w) \/ InCreate(w),
           NEW u \in Workers \ {w}, HoldsRow(u) \/ InCreate(u)
    PROVE  target[u] # target[w]
  BY DEF Consistent, TypeOK, LockSound, CreateSound, HoldsRow, InCreate

\* The invariant speaks of a transaction through these values only.
LEMMA SameView ==
    ASSUME NEW u \in Workers, ins'[u] = ins[u], del'[u] = del[u], target'[u] = target[u],
           position'[target[u]] = position[target[u]]
    PROVE  Visible(u)' = Visible(u)
  BY DEF Visible

\* Once the rows of every worker are within the limit, RoomSound holds after the step.
LEMMA RoomStep ==
    ASSUME \A u \in Workers :
              /\ pc'[u] = "rows" /\ op'[u] # "create" => Len(ids'[u]) <= MaxFavorites
              /\ pc'[u] # "idle" /\ op'[u] = "create" =>
                    Cardinality(ToSet(ids'[u]) \cup ToSet(todo'[u])) <= MaxFavorites
    PROVE  RoomSound'
  BY DEF RoomSound, InCreate, ToSet

\* A transaction that begins holds no lock and has written nothing.
LEMMA BeginConsistent ==
    ASSUME Consistent, NEW w \in Workers, NEW o \in {"create", "merge", "add", "remove"},
           NEW i \in Ids, NEW n \in Names, NEW s \in Seq(Movies), Begin(w, o, i, n, s),
           IF o = "create" THEN Fresh(i) /\ Cardinality(ToSet(s)) <= MaxFavorites
                           ELSE account[i] # Unused
    PROVE  Consistent'
<1> USE DEF Begin, stored
<1>1. TypeOK /\ pc[w] = "idle"
  BY DEF Consistent
<1>2. TypeOK'
  BY <1>1 DEF TypeOK, NoRows
<1>3. LockSound'
  BY <1>1 DEF Consistent, TypeOK, LockSound, HoldsRow
<1>4. CreateSound'
  <2> SUFFICES ASSUME NEW u \in Workers, InCreate(u)'
               PROVE  /\ account[target'[u]] = Unused
                      /\ pc'[u] \in {"begun", "rows"}
                      /\ pc'[u] = "rows" => ~NameTaken(name'[u])
                      /\ \A v \in Workers \ {u} : pc'[v] # "idle" => target'[v] # target'[u]
    BY DEF CreateSound, NameTaken
  <2>1. CASE u = w
    BY <1>1, <2>1 DEF TypeOK, InCreate, Fresh
  <2>2. CASE u # w
    <3>1. InCreate(u)
      BY <1>1, <2>2 DEF TypeOK, InCreate
    <3>2. account[target[u]] = Unused /\ pc[u] # "idle"
      BY <3>1 DEF Consistent, CreateSound, InCreate
    <3>3. i # target[u]
      BY <3>2, <2>2 DEF Fresh
    <3> QED
      BY <1>1, <2>2, <3>1, <3>3 DEF Consistent, CreateSound, TypeOK
  <2> QED
    BY <2>1, <2>2
<1>5. RowsSound'
  BY <1>1 DEF Consistent, TypeOK, RowsSound, NoRows
<1>6. ListSound'
  <2> SUFFICES ASSUME NEW u \in Workers, pc'[u] = "rows" PROVE IsListing(ids'[u], Visible(u)')
    BY DEF ListSound, IsListing, Present
  <2>1. u # w /\ pc[u] = "rows" /\ ids'[u] = ids[u] /\ Visible(u)' = Visible(u)
    BY <1>1, SameView DEF TypeOK
  <2> QED
    BY <2>1 DEF Consistent, ListSound
<1>7. RoomSound'
  <2> SUFFICES ASSUME NEW u \in Workers
               PROVE  /\ pc'[u] = "rows" /\ op'[u] # "create" => Len(ids'[u]) <= MaxFavorites
                      /\ pc'[u] # "idle" /\ op'[u] = "create" =>
                            Cardinality(ToSet(ids'[u]) \cup ToSet(todo'[u])) <= MaxFavorites
    BY RoomStep
  <2>1. CASE u = w
    <3>1. pc'[u] = "begun" /\ op'[u] = o /\ ids'[u] = <<>> /\ todo'[u] = s
      BY <1>1, <2>1 DEF TypeOK
    <3>2. ToSet(<<>>) \cup ToSet(s) = ToSet(s)
      BY DEF ToSet
    <3> QED
      BY <3>1, <3>2 DEF InCreate
  <2>2. CASE u # w
    BY <1>1, <2>2 DEF TypeOK, Consistent, RoomSound, InCreate
  <2> QED
    BY <2>1, <2>2
<1>8. WithinLimit' /\ UniqueNames'
  BY <1>1 DEF Consistent, TypeOK, WithinLimit, UniqueNames, Creating, Present
<1> QED
  BY <1>2, <1>3, <1>4, <1>5, <1>6, <1>7, <1>8 DEF Consistent

\* A transaction that ends without effect leaves the others as they are.
LEMMA FailConsistent ==
    ASSUME Consistent, NEW w \in Workers, pc[w] # "idle",
           NEW r \in {"ok", "limit", "taken", "gone", "error"}, Fail(w, r)
    PROVE  Consistent'
<1> USE DEF Fail, End, Release, stored, local
<1>1. TypeOK
  BY DEF Consistent
<1>2. TypeOK'
  BY <1>1 DEF TypeOK, NoRows
<1>3. LockSound'
  BY <1>1, NoWorkerAssumption DEF Consistent, TypeOK, LockSound, HoldsRow
<1>4. CreateSound'
  BY <1>1 DEF Consistent, TypeOK, CreateSound, InCreate, NameTaken
<1>5. RowsSound'
  BY <1>1 DEF Consistent, TypeOK, RowsSound, NoRows
<1>6. ListSound'
  <2> SUFFICES ASSUME NEW u \in Workers, pc'[u] = "rows" PROVE IsListing(ids'[u], Visible(u)')
    BY DEF ListSound, IsListing, Present
  <2>1. u # w /\ pc[u] = "rows" /\ ids'[u] = ids[u] /\ Visible(u)' = Visible(u)
    BY <1>1, SameView DEF TypeOK
  <2> QED
    BY <2>1 DEF Consistent, ListSound
<1>7. RoomSound'
  BY <1>1, RoomStep DEF Consistent, TypeOK, RoomSound, InCreate
<1>8. WithinLimit' /\ UniqueNames'
  BY <1>1 DEF Consistent, TypeOK, WithinLimit, UniqueNames, Creating, Present
<1> QED
  BY <1>2, <1>3, <1>4, <1>5, <1>6, <1>7, <1>8 DEF Consistent

\* A refused sign-up and a stuttering step change nothing the invariant speaks of.
LEMMA StutterConsistent ==
    ASSUME Consistent, UNCHANGED <<stored, lockedBy, pc, target, name, todo, ids, ins, del>>,
           \A u \in Workers : op'[u] = op[u] \/ pc[u] = "idle", TypeOK'
    PROVE  Consistent'
<1> USE DEF stored
<1>1. LockSound' /\ CreateSound'
  BY DEF Consistent, TypeOK, LockSound, HoldsRow, CreateSound, InCreate, NameTaken
<1>2. RowsSound'
  BY DEF Consistent, TypeOK, RowsSound, NoRows
<1>3. ListSound'
  <2> SUFFICES ASSUME NEW u \in Workers, pc'[u] = "rows" PROVE IsListing(ids'[u], Visible(u)')
    BY DEF ListSound, IsListing, Present
  <2>1. Visible(u)' = Visible(u)
    BY SameView
  <2> QED
    BY <2>1 DEF Consistent, ListSound
<1>4. RoomSound'
  BY RoomStep DEF Consistent, RoomSound, InCreate
<1>5. WithinLimit' /\ UniqueNames'
  BY DEF Consistent, WithinLimit, UniqueNames, Creating, Present
<1> QED
  BY <1>1, <1>2, <1>3, <1>4, <1>5 DEF Consistent

\* FOR UPDATE on a free row makes its transaction the owner.
LEMMA LockConsistent ==
    ASSUME Consistent, NEW w \in Workers, Lock(w) PROVE Consistent'
<1> USE DEF Lock, AsksLock, CanLock, stored, local
<1>1. TypeOK
  BY DEF Consistent
<1>2. TypeOK'
  BY <1>1 DEF TypeOK
<1>3. LockSound'
  BY <1>1, NoWorkerAssumption DEF Consistent, TypeOK, LockSound, HoldsRow
<1>4. CreateSound'
  BY <1>1 DEF Consistent, TypeOK, CreateSound, InCreate, NameTaken
<1>5. RowsSound'
  BY <1>1 DEF Consistent, TypeOK, RowsSound
<1>6. ListSound'
  <2> SUFFICES ASSUME NEW u \in Workers, pc'[u] = "rows" PROVE IsListing(ids'[u], Visible(u)')
    BY DEF ListSound, IsListing, Present
  <2>1. pc[u] = "rows" /\ ids'[u] = ids[u] /\ Visible(u)' = Visible(u)
    BY <1>1, SameView DEF TypeOK
  <2> QED
    BY <2>1 DEF Consistent, ListSound
<1>7. RoomSound'
  BY <1>1, RoomStep DEF Consistent, TypeOK, RoomSound, InCreate
<1>8. WithinLimit' /\ UniqueNames'
  BY <1>1 DEF Consistent, TypeOK, WithinLimit, UniqueNames, Creating, Present
<1> QED
  BY <1>2, <1>3, <1>4, <1>5, <1>6, <1>7, <1>8 DEF Consistent

\* The DELETE of a withdrawal takes the movie from the rows and from the Python list alike.
LEMMA RemoveRowConsistent ==
    ASSUME Consistent, NEW w \in Workers, RemoveRow(w) PROVE Consistent'
<1> USE DEF RemoveRow, WhereMovie, stored, local
<1>1. TypeOK
  BY DEF Consistent
<1>2. TypeOK'
  BY <1>1, ElementsBound DEF TypeOK
<1>3. LockSound'
  BY <1>1 DEF Consistent, TypeOK, LockSound, HoldsRow
<1>4. CreateSound'
  BY <1>1 DEF Consistent, TypeOK, CreateSound, InCreate, NameTaken
<1>5. RowsSound'
  BY <1>1 DEF Consistent, TypeOK, RowsSound
<1>6. ListSound'
  <2> SUFFICES ASSUME NEW u \in Workers, pc'[u] = "rows" PROVE IsListing(ids'[u], Visible(u)')
    BY DEF ListSound, IsListing, Present
  <2>1. u # w /\ pc[u] = "rows" /\ ids'[u] = ids[u] /\ Visible(u)' = Visible(u)
    BY <1>1, SameView DEF TypeOK
  <2> QED
    BY <2>1 DEF Consistent, ListSound
<1>7. RoomSound'
  BY <1>1, RoomStep DEF Consistent, TypeOK, RoomSound, InCreate
<1>8. WithinLimit' /\ UniqueNames'
  BY <1>1 DEF Consistent, TypeOK, WithinLimit, UniqueNames, Creating, Present
<1> QED
  BY <1>2, <1>3, <1>4, <1>5, <1>6, <1>7, <1>8 DEF Consistent

\* The list read is the listing of what the transaction sees, which is at most what the
\* account has committed: the owner of the row has inserted nothing yet.
LEMMA ReadConsistent ==
    ASSUME Consistent, NEW w \in Workers, Read(w) PROVE Consistent'
<1> USE DEF Read, stored, local
<1>1. TypeOK /\ HoldsRow(w) /\ op[w] # "create"
  BY DEF Consistent, HoldsRow, TypeOK, CreateSound, InCreate
<1>2. TypeOK'
  BY <1>1, VisibleType DEF TypeOK
<1>3. LockSound'
  BY <1>1 DEF Consistent, TypeOK, LockSound, HoldsRow
<1>4. CreateSound'
  BY <1>1 DEF Consistent, TypeOK, CreateSound, InCreate, NameTaken
<1>5. RowsSound'
  BY <1>1 DEF Consistent, TypeOK, RowsSound
<1>6. PICK s \in Listings(Visible(w)) : ids' = [ids EXCEPT ![w] = s]
  OBVIOUS
<1>7. ListSound'
  <2> SUFFICES ASSUME NEW u \in Workers, pc'[u] = "rows" PROVE IsListing(ids'[u], Visible(u)')
    BY DEF ListSound, IsListing, Present
  <2>1. Visible(u)' = Visible(u)
    BY <1>1, SameView DEF TypeOK
  <2>2. CASE u = w
    BY <1>1, <1>6, <2>1, <2>2 DEF TypeOK, Listings
  <2>3. CASE u # w
    BY <1>1, <2>1, <2>3 DEF TypeOK, Consistent, ListSound
  <2> QED
    BY <2>2, <2>3
<1>8. Len(s) <= MaxFavorites
  <2>1. Len(s) = Cardinality(Present(Visible(w)))
    BY <1>1, VisibleType
  <2>2. ins[w] = NoRows
    BY DEF Consistent, RowsSound
  <2>3. Present(Visible(w)) \subseteq Present(position[target[w]])
    BY <2>2 DEF Present, Visible, NoRows
  <2>4. IsFiniteSet(Present(position[target[w]]))
    BY MoviesAssumption, FS_Subset DEF Present
  <2>5. /\ Cardinality(Present(Visible(w))) <= Cardinality(Present(position[target[w]]))
        /\ Cardinality(Present(Visible(w))) \in Nat
        /\ Cardinality(Present(position[target[w]])) \in Nat
    BY <2>3, <2>4, FS_Subset, FS_CardinalityType
  <2>6. Cardinality(Present(position[target[w]])) <= MaxFavorites
    BY <1>1 DEF Consistent, WithinLimit, TypeOK
  <2> QED
    BY <2>1, <2>5, <2>6, MaxFavoritesAssumption
<1>9. RoomSound'
  BY <1>1, <1>6, <1>8, RoomStep DEF Consistent, TypeOK, RoomSound, InCreate
<1>10. WithinLimit' /\ UniqueNames'
  BY <1>1 DEF Consistent, TypeOK, WithinLimit, UniqueNames, Creating, Present
<1> QED
  BY <1>2, <1>3, <1>4, <1>5, <1>7, <1>9, <1>10 DEF Consistent

\* The INSERT of an account goes on only when no transaction holds its name and no account has it.
LEMMA InsertUserConsistent ==
    ASSUME Consistent, NEW w \in Workers, InsertUser(w) PROVE Consistent'
<1> USE DEF InsertUser, stored, local
<1>1. TypeOK /\ InCreate(w) /\ ins[w] = NoRows /\ del[w] = {}
  BY DEF Consistent, InCreate, RowsSound
<1>2. TypeOK'
  BY <1>1 DEF TypeOK
<1>3. LockSound'
  BY <1>1 DEF Consistent, TypeOK, LockSound, HoldsRow
<1>4. CreateSound'
  BY <1>1 DEF Consistent, TypeOK, CreateSound, InCreate, NameTaken
<1>5. RowsSound'
  BY <1>1 DEF Consistent, TypeOK, RowsSound
<1>6. ListSound'
  <2> SUFFICES ASSUME NEW u \in Workers, pc'[u] = "rows" PROVE IsListing(ids'[u], Visible(u)')
    BY DEF ListSound, IsListing, Present
  <2>1. Visible(u)' = Visible(u) /\ ids'[u] = ids[u]
    BY <1>1, SameView DEF TypeOK
  <2>2. CASE u = w
    <3>1. ids[w] = <<>>
      BY <1>1 DEF Consistent, RowsSound
    <3>2. Visible(w) = NoRows
      BY <1>1 DEF Consistent, TypeOK, CreateSound, InCreate, RowsSound, Visible, NoRows
    <3>3. ToSet(<<>>) = {} /\ Present(NoRows) = {}
      BY DEF ToSet, Present, NoRows
    <3> QED
      BY <2>1, <2>2, <3>1, <3>2, <3>3 DEF IsListing
  <2>3. CASE u # w
    BY <1>1, <2>1, <2>3 DEF TypeOK, Consistent, ListSound
  <2> QED
    BY <2>2, <2>3
<1>7. RoomSound'
  BY <1>1, RoomStep DEF Consistent, TypeOK, RoomSound, InCreate
<1>8. WithinLimit'
  BY <1>1 DEF Consistent, WithinLimit, Present
<1>9. UniqueNames'
  BY <1>1 DEF Consistent, TypeOK, UniqueNames, Creating, NamePending
<1> QED
  BY <1>2, <1>3, <1>4, <1>5, <1>6, <1>7, <1>8, <1>9 DEF Consistent

\* A row inserted with the next position is last in the listing.
LEMMA ListingAppend ==
    ASSUME NEW rows \in [Movies -> Nat], NEW s \in Seq(Movies), IsListing(s, rows),
           NEW m \in Movies, rows[m] = 0, NEW p \in Nat \ {0}, \A x \in Movies : rows[x] < p
    PROVE  IsListing(Append(s, m), [rows EXCEPT ![m] = p])
<1> DEFINE t == Append(s, m)
           new == [rows EXCEPT ![m] = p]
<1>1. ToSet(t) = Present(new)
  <2>1. Present(new) = Present(rows) \cup {m}
    BY DEF Present
  <2>2. ToSet(t) = ToSet(s) \cup {m}
    BY ElementsAppend
  <2>3. ToSet(s) = Present(rows)
    BY DEF IsListing
  <2> HIDE DEF t, new
  <2> QED
    BY <2>1, <2>2, <2>3
<1>2. ASSUME NEW j \in 1..Len(t), NEW k \in 1..Len(t), j < k PROVE new[t[j]] < new[t[k]]
  <2>1. /\ Len(s) \in Nat /\ Len(t) = Len(s) + 1
        /\ t[Len(s) + 1] = m
        /\ \A x \in 1..Len(s) : t[x] = s[x] /\ s[x] \in Movies
    OBVIOUS
  <2>2. m \notin ToSet(s)
    BY DEF IsListing, Present
  <2>3. \A x \in 1..Len(s) : s[x] # m
    BY <2>2 DEF ToSet
  <2>4. j \in 1..Len(s)
    BY <1>2, <2>1
  <2>5. new[t[j]] = rows[s[j]]
    BY <2>1, <2>3, <2>4
  <2>6. CASE k = Len(s) + 1
    BY <2>1, <2>4, <2>5, <2>6
  <2>7. CASE k # Len(s) + 1
    <3>1. k \in 1..Len(s)
      BY <2>1, <2>7
    <3>2. new[t[k]] = rows[s[k]]
      BY <2>1, <2>3, <3>1
    <3> QED
      BY <1>2, <2>4, <2>5, <3>1, <3>2 DEF IsListing
  <2> QED
    BY <2>6, <2>7
<1> HIDE DEF t, new
<1>3. IsListing(t, new)
  BY <1>1, <1>2 DEF IsListing
<1> QED
  BY <1>3 DEF t, new

\* INSERT and ids.append keep the Python list equal to what will be committed.
LEMMA InsertConsistent ==
    ASSUME Consistent, NEW w \in Workers, Insert(w) PROVE Consistent'
<1> DEFINE m == Head(todo[w])
<1> USE DEF Insert, AtMovie, stored, local
<1>1. TypeOK /\ pc[w] = "rows" /\ todo[w] # <<>>
  BY DEF Consistent
<1>2. m \in Movies /\ Tail(todo[w]) \in Seq(Movies) /\ Append(ids[w], m) \in Seq(Movies)
      /\ ToSet(todo[w]) = ToSet(Tail(todo[w])) \cup {m}
      /\ ToSet(Append(ids[w], m)) = ToSet(ids[w]) \cup {m}
      /\ Len(Append(ids[w], m)) = Len(ids[w]) + 1
      /\ Len(ids[w]) \in Nat
  <2>1. m \in Movies /\ ids[w] \in Seq(Movies) /\ todo[w] \in Seq(Movies)
    BY <1>1, ElementsTail DEF TypeOK
  <2> QED
    BY <1>1, <2>1, ElementsTail, ElementsAppend
<1> HIDE DEF m
<1>3. /\ ids' = [ids EXCEPT ![w] = Append(ids[w], m)]
      /\ todo' = [todo EXCEPT ![w] = Tail(todo[w])]
      /\ ins' = [ins EXCEPT ![w] = [ins[w] EXCEPT ![m] = nextPosition]]
      /\ nextPosition' = nextPosition + 1 /\ nextPosition \in Nat \ {0}
      /\ UNCHANGED <<account, position, lockedBy, pc, op, target, name, del, reply, calls>>
      /\ m \notin ToSet(ids[w]) /\ Visible(w)[m] = 0
      /\ op[w] = "create" \/ Len(ids[w]) < MaxFavorites
  BY <1>1 DEF m, TypeOK, Known, HasRoom
<1> USE DEF Consistent
<1>4. TypeOK'
  BY ONLY <1>1, <1>2, <1>3 DEF TypeOK
<1>5. LockSound'
  BY ONLY Consistent, <1>3 DEF Consistent, LockSound, HoldsRow
<1>6. CreateSound'
  BY ONLY Consistent, <1>3 DEF Consistent, CreateSound, InCreate, NameTaken
<1>7. RowsSound'
  <2>1. RowsSound
    OBVIOUS
  <2>2. \A u \in Workers, x \in Movies :
           ins'[u][x] = IF u = w /\ x = m THEN nextPosition ELSE ins[u][x]
    BY ONLY <1>1, <1>2, <1>3 DEF TypeOK
  <2>3. \A u \in Workers, x \in Movies : ins[u][x] \in Nat
    BY ONLY <1>1 DEF TypeOK
  <2>4. \A u \in Workers, x \in Movies : ins'[u][x] < nextPosition'
    BY ONLY <1>3, <2>1, <2>2, <2>3 DEF RowsSound
  <2>5. \A i \in Ids, x \in Movies : position'[i][x] < nextPosition'
    BY ONLY <1>1, <1>3, <2>1 DEF TypeOK, RowsSound
  <2>6. \A u \in Workers : pc'[u] # "rows" => ins'[u] = NoRows
    BY ONLY <1>1, <1>3, <2>1 DEF TypeOK, RowsSound
  <2>7. \A u \in Workers : pc'[u] = "begun" => ids'[u] = <<>>
    BY ONLY <1>1, <1>3, <2>1 DEF TypeOK, RowsSound
  <2> QED
    BY ONLY <1>3, <2>1, <2>4, <2>5, <2>6, <2>7 DEF RowsSound, NoRows
<1>8. ListSound'
  <2> SUFFICES ASSUME NEW u \in Workers, pc'[u] = "rows" PROVE IsListing(ids'[u], Visible(u)')
    BY DEF ListSound, IsListing, Present
  <2>1. CASE u = w
    <3>1. Visible(w)' = [Visible(w) EXCEPT ![m] = nextPosition]
      <4>1. ins'[w] = [ins[w] EXCEPT ![m] = nextPosition] /\ ins[w] \in [Movies -> Nat]
        BY ONLY <1>1, <1>3 DEF TypeOK
      <4>2. target'[w] = target[w] /\ del' = del /\ position' = position /\ m \in Movies
            /\ nextPosition # 0
        BY ONLY <1>2, <1>3
      <4>3. ASSUME NEW x \in Movies
            PROVE  Visible(w)'[x] = IF x = m THEN nextPosition ELSE Visible(w)[x]
        <5>1. ins'[w][x] = IF x = m THEN nextPosition ELSE ins[w][x]
          BY ONLY <4>1, <4>2
        <5> QED
          BY ONLY <4>2, <5>1 DEF Visible
      <4>4. Visible(w)' = [x \in Movies |-> Visible(w)'[x]]
        BY ONLY TRUE DEF Visible
      <4>5. Visible(w) = [x \in Movies |-> Visible(w)[x]]
        BY ONLY TRUE DEF Visible
      <4> HIDE DEF Visible
      <4> QED
        BY ONLY <4>3, <4>4, <4>5
    <3>2. \A x \in Movies : Visible(w)[x] < nextPosition
      BY <1>1 DEF TypeOK, RowsSound, Visible
    <3>3. IsListing(ids[w], Visible(w)) /\ Visible(w) \in [Movies -> Nat] /\ ids[w] \in Seq(Movies)
      BY <1>1, VisibleType DEF ListSound, TypeOK
    <3>4. ids'[w] = Append(ids[w], m)
      BY ONLY <1>1, <1>3 DEF TypeOK
    <3>5. IsListing(Append(ids[w], m), [Visible(w) EXCEPT ![m] = nextPosition])
      BY ONLY <1>2, <1>3, <3>2, <3>3, ListingAppend
    <3> QED
      BY ONLY <2>1, <3>1, <3>4, <3>5
  <2>2. CASE u # w
    <3>1. Visible(u)' = Visible(u) /\ ids'[u] = ids[u]
      BY <1>1, <1>3, <2>2, SameView DEF TypeOK
    <3> QED
      BY <1>3, <3>1 DEF ListSound
  <2> QED
    BY <2>1, <2>2
<1>9. RoomSound'
  <2> SUFFICES ASSUME NEW u \in Workers
               PROVE  /\ pc'[u] = "rows" /\ op'[u] # "create" => Len(ids'[u]) <= MaxFavorites
                      /\ pc'[u] # "idle" /\ op'[u] = "create" =>
                            Cardinality(ToSet(ids'[u]) \cup ToSet(todo'[u])) <= MaxFavorites
    BY RoomStep
  <2>1. CASE u = w
    <3>1. ids'[w] = Append(ids[w], m) /\ todo'[w] = Tail(todo[w])
      BY ONLY <1>1, <1>3 DEF TypeOK
    <3>2. ToSet(ids'[w]) \cup ToSet(todo'[w]) = ToSet(ids[w]) \cup ToSet(todo[w])
      BY ONLY <1>2, <3>1
    <3>3. op'[w] # "create" => Len(ids'[w]) <= MaxFavorites
      BY ONLY <1>2, <1>3, <3>1, MaxFavoritesAssumption
    <3>4. op'[w] = "create" => Cardinality(ToSet(ids[w]) \cup ToSet(todo[w])) <= MaxFavorites
      BY ONLY Consistent, <1>1, <1>3 DEF Consistent, RoomSound, InCreate
    <3> QED
      BY ONLY <2>1, <3>2, <3>3, <3>4
  <2>2. CASE u # w
    BY <1>1, <1>3, <2>2 DEF TypeOK, RoomSound, InCreate
  <2> QED
    BY <2>1, <2>2
<1>10. WithinLimit' /\ UniqueNames'
  BY ONLY Consistent, <1>3 DEF Consistent, WithinLimit, UniqueNames, Creating, Present
<1> QED
  BY <1>4, <1>5, <1>6, <1>7, <1>8, <1>9, <1>10

\* A movie that is in the Python list already is left out: only the rest of the loop changes.
LEMMA SkipConsistent ==
    ASSUME Consistent, NEW w \in Workers, Skip(w) PROVE Consistent'
<1> USE DEF Skip, AtMovie, stored, local
<1>1. TypeOK /\ Tail(todo[w]) \in Seq(Movies)
      /\ ToSet(todo[w]) = ToSet(Tail(todo[w])) \cup {Head(todo[w])}
  BY ElementsTail DEF Consistent, TypeOK
<1>2. TypeOK'
  BY <1>1 DEF TypeOK
<1>3. LockSound'
  BY <1>1 DEF Consistent, TypeOK, LockSound, HoldsRow
<1>4. CreateSound'
  BY <1>1 DEF Consistent, TypeOK, CreateSound, InCreate, NameTaken
<1>5. RowsSound'
  BY <1>1 DEF Consistent, TypeOK, RowsSound
<1>6. ListSound'
  <2> SUFFICES ASSUME NEW u \in Workers, pc'[u] = "rows" PROVE IsListing(ids'[u], Visible(u)')
    BY DEF ListSound, IsListing, Present
  <2>1. pc[u] = "rows" /\ ids'[u] = ids[u] /\ Visible(u)' = Visible(u)
    BY <1>1, SameView DEF TypeOK
  <2> QED
    BY <2>1 DEF Consistent, ListSound
<1>7. op[w] = "create" =>
         ToSet(ids[w]) \cup ToSet(Tail(todo[w])) = ToSet(ids[w]) \cup ToSet(todo[w])
  BY <1>1 DEF Known
<1>8. RoomSound'
  BY <1>1, <1>7, RoomStep DEF Consistent, TypeOK, RoomSound, InCreate
<1>9. WithinLimit' /\ UniqueNames'
  BY <1>1 DEF Consistent, TypeOK, WithinLimit, UniqueNames, Creating, Present
<1> QED
  BY <1>2, <1>3, <1>4, <1>5, <1>6, <1>8, <1>9 DEF Consistent

\* A commit writes what the transaction saw, to the account it alone works on.
LEMMA CommitConsistent ==
    ASSUME Consistent, NEW w \in Workers, NEW r \in {"ok", "error"}, Commit(w, r)
    PROVE  Consistent'
<1> DEFINE a == target[w]
<1> USE DEF Commit, End, Release, local
<1>1. TypeOK /\ pc[w] = "rows" /\ a \in Ids /\ (HoldsRow(w) \/ InCreate(w))
  BY DEF Consistent, TypeOK, HoldsRow, InCreate
<1>2. /\ position' = [position EXCEPT ![a] = Visible(w)]
      /\ account' = [account EXCEPT ![a] = IF op[w] = "create" THEN name[w] ELSE account[a]]
      /\ pc' = [pc EXCEPT ![w] = "idle"]
      /\ lockedBy' = [lockedBy EXCEPT ![a] = IF lockedBy[a] = w THEN NoWorker ELSE lockedBy[a]]
      /\ ins' = [ins EXCEPT ![w] = NoRows] /\ del' = [del EXCEPT ![w] = {}]
      /\ todo' = [todo EXCEPT ![w] = <<>>]
      /\ UNCHANGED <<nextPosition, op, target, name, ids, calls>>
  BY <1>1 DEF TypeOK
<1>3. \A u \in Workers \ {w} : HoldsRow(u) \/ InCreate(u) => target[u] # a
  BY <1>1, Alone
<1>4. TypeOK'
  BY <1>1, VisibleType DEF TypeOK, NoRows
<1> HIDE DEF a, Commit
<1>5. LockSound'
  BY <1>1, <1>2, <1>3 DEF Consistent, TypeOK, LockSound, HoldsRow
<1>6. CreateSound'
  <2> SUFFICES ASSUME NEW u \in Workers, InCreate(u)'
               PROVE  /\ account'[target'[u]] = Unused
                      /\ pc'[u] \in {"begun", "rows"}
                      /\ pc'[u] = "rows" => \A i \in Ids : account'[i] # name'[u]
                      /\ \A v \in Workers \ {u} : pc'[v] # "idle" => target'[v] # target'[u]
    BY DEF CreateSound, NameTaken
  <2>1. u # w /\ InCreate(u) /\ target[u] # a /\ pc'[u] = pc[u]
    BY <1>1, <1>2, <1>3 DEF TypeOK, InCreate
  <2>2. account'[target'[u]] = Unused
    BY <1>1, <1>2, <2>1 DEF Consistent, TypeOK, CreateSound
  <2>3. ASSUME pc'[u] = "rows", NEW i \in Ids PROVE account'[i] # name'[u]
    <3>1. account[i] # name[u]
      BY <2>1, <2>3 DEF Consistent, CreateSound, NameTaken
    <3>2. op[w] = "create" => name[w] # name[u]
      BY <1>1, <2>1, <2>3 DEF Consistent, UniqueNames, Creating, InCreate
    <3> QED
      BY <1>1, <1>2, <3>1, <3>2 DEF TypeOK
  <2>4. \A v \in Workers \ {u} : pc'[v] # "idle" => target'[v] # target'[u]
    BY <1>1, <1>2, <2>1 DEF Consistent, TypeOK, CreateSound
  <2> QED
    BY <2>1, <2>2, <2>3, <2>4 DEF Consistent, CreateSound
<1>7. RowsSound'
  <2>1. \A x \in Movies : Visible(w)[x] < nextPosition
    BY <1>1 DEF Consistent, TypeOK, RowsSound, Visible, a
  <2>2. \A i \in Ids, x \in Movies : position'[i][x] < nextPosition'
    BY <1>1, <1>2, <2>1 DEF Consistent, TypeOK, RowsSound
  <2>3. ASSUME NEW i \in Ids, account'[i] = Unused PROVE position'[i] = NoRows
    <3>1. i # a
      BY <1>1, <1>2, <2>3, AccountAssumption
      DEF Consistent, TypeOK, LockSound, HoldsRow, a, InCreate
    <3> QED
      BY <1>1, <1>2, <2>3, <3>1 DEF Consistent, TypeOK, RowsSound
  <2>4. \A u \in Workers, x \in Movies : ins'[u][x] < nextPosition'
    BY <1>1, <1>2 DEF Consistent, TypeOK, RowsSound, NoRows
  <2>5. \A u \in Workers :
           /\ pc'[u] # "rows" => ins'[u] = NoRows
           /\ pc'[u] = "begun" => ids'[u] = <<>>
           /\ del'[u] # {} => op'[u] = "remove" /\ pc'[u] \in {"deleted", "rows"}
    BY <1>1, <1>2 DEF Consistent, TypeOK, RowsSound
  <2> QED
    BY <2>2, <2>3, <2>4, <2>5 DEF RowsSound, NoRows
<1>8. ListSound'
  <2> SUFFICES ASSUME NEW u \in Workers, pc'[u] = "rows" PROVE IsListing(ids'[u], Visible(u)')
    BY DEF ListSound, IsListing, Present
  <2>1. u # w /\ pc[u] = "rows" /\ ids'[u] = ids[u]
    BY <1>1, <1>2 DEF TypeOK
  <2>2. target[u] # a
    BY <1>3, <2>1 DEF HoldsRow, InCreate
  <2>3. Visible(u)' = Visible(u)
    BY <1>1, <1>2, <2>1, <2>2, SameView DEF TypeOK
  <2> QED
    BY <2>1, <2>3 DEF Consistent, ListSound
<1>9. RoomSound'
  BY <1>1, <1>2, RoomStep DEF Consistent, TypeOK, RoomSound, InCreate
<1>10. WithinLimit'
  <2>1. Present(Visible(w)) = ToSet(ids[w]) /\ ids[w] \in Seq(Movies) /\ todo[w] \in Seq(Movies)
    BY <1>1 DEF Consistent, TypeOK, ListSound, IsListing
  <2>2. /\ IsFiniteSet(ToSet(ids[w])) /\ Cardinality(ToSet(ids[w])) <= Len(ids[w])
        /\ Cardinality(ToSet(ids[w])) \in Nat /\ Len(ids[w]) \in Nat
    BY <2>1, ElementsBound, FS_CardinalityType
  <2>3. ASSUME op[w] # "create" PROVE Cardinality(ToSet(ids[w])) <= MaxFavorites
    <3>1. Len(ids[w]) <= MaxFavorites
      BY ONLY Consistent, <1>1, <2>3 DEF Consistent, RoomSound
    <3> QED
      BY ONLY <2>2, <3>1, MaxFavoritesAssumption
  <2>4. ASSUME op[w] = "create" PROVE Cardinality(ToSet(ids[w])) <= MaxFavorites
    <3>1. ToSet(ids[w]) \cup ToSet(todo[w]) \subseteq Movies
      BY <2>1, ElementsBound
    <3>2. IsFiniteSet(ToSet(ids[w]) \cup ToSet(todo[w]))
      BY <3>1, MoviesAssumption, FS_Subset
    <3>3. /\ Cardinality(ToSet(ids[w])) <= Cardinality(ToSet(ids[w]) \cup ToSet(todo[w]))
          /\ Cardinality(ToSet(ids[w]) \cup ToSet(todo[w])) \in Nat
      BY <3>2, FS_Subset, FS_CardinalityType
    <3>4. Cardinality(ToSet(ids[w]) \cup ToSet(todo[w])) <= MaxFavorites
      BY <1>1, <2>4 DEF Consistent, RoomSound, InCreate
    <3> QED
      BY <2>2, <3>3, <3>4, MaxFavoritesAssumption
  <2>5. Cardinality(Present(Visible(w))) <= MaxFavorites
    BY <2>1, <2>3, <2>4
  <2>6. \A i \in Ids : position'[i] = IF i = a THEN Visible(w) ELSE position[i]
    BY <1>1, <1>2 DEF TypeOK
  <2>7. \A i \in Ids : Cardinality(Present(position'[i])) <= MaxFavorites
    BY <2>5, <2>6 DEF Consistent, WithinLimit
  <2> QED
    BY <2>7 DEF WithinLimit, Present
<1>11. UniqueNames'
  <2>1. \A u, v \in Workers : Creating(u)' /\ Creating(v)' /\ name'[u] = name'[v] => u = v
    BY <1>1, <1>2 DEF Consistent, TypeOK, UniqueNames, Creating
  <2>2. op[w] = "create" => \A i \in Ids : account[i] # name[w]
    BY <1>1 DEF Consistent, CreateSound, InCreate, NameTaken
  <2>3. \A i, j \in Ids : account'[i] \in Names /\ account'[i] = account'[j] => i = j
    BY <1>1, <1>2, <2>2 DEF Consistent, TypeOK, UniqueNames
  <2> QED
    BY <2>1, <2>3 DEF UniqueNames, Creating
<1> QED
  BY <1>4, <1>5, <1>6, <1>7, <1>8, <1>9, <1>10, <1>11 DEF Consistent

\* An operator deletes only an account that no transaction has locked.
LEMMA DropConsistent ==
    ASSUME Consistent, NEW i \in Ids, DropAccount(i) PROVE Consistent'
<1> USE DEF DropAccount, local
<1>1. TypeOK
  BY DEF Consistent
<1>2. TypeOK'
  BY <1>1 DEF TypeOK, NoRows
<1>3. \A u \in Workers : HoldsRow(u) \/ InCreate(u) => target[u] # i
  BY <1>1, NoWorkerAssumption, AccountAssumption DEF Consistent, LockSound, CreateSound
<1>4. LockSound'
  BY <1>1, <1>3 DEF Consistent, TypeOK, LockSound, HoldsRow
<1>5. CreateSound'
  BY <1>1, <1>3, AccountAssumption DEF Consistent, TypeOK, CreateSound, InCreate, NameTaken
<1>6. RowsSound'
  BY <1>1, AccountAssumption DEF Consistent, TypeOK, RowsSound, NoRows
<1>7. ListSound'
  <2> SUFFICES ASSUME NEW u \in Workers, pc'[u] = "rows" PROVE IsListing(ids'[u], Visible(u)')
    BY DEF ListSound, IsListing, Present
  <2>1. pc[u] = "rows" /\ ids'[u] = ids[u]
    BY <1>1 DEF TypeOK
  <2>2. target[u] # i
    BY <1>3, <2>1 DEF HoldsRow, InCreate
  <2>3. Visible(u)' = Visible(u)
    BY <1>1, <2>1, <2>2, SameView DEF TypeOK
  <2> QED
    BY <2>1, <2>3 DEF Consistent, ListSound
<1>8. RoomSound'
  BY <1>1, RoomStep DEF Consistent, TypeOK, RoomSound, InCreate
<1>9. WithinLimit'
  <2>1. Present(NoRows) = {} /\ Cardinality({}) = 0
    BY FS_EmptySet DEF Present, NoRows
  <2>2. \A j \in Ids : position'[j] = IF j = i THEN NoRows ELSE position[j]
    BY <1>1 DEF TypeOK
  <2>3. \A j \in Ids : Cardinality(Present(position'[j])) <= MaxFavorites
    BY <2>1, <2>2, MaxFavoritesAssumption DEF Consistent, WithinLimit
  <2> QED
    BY <2>3 DEF WithinLimit, Present
<1>10. UniqueNames'
  BY <1>1, AccountAssumption DEF Consistent, TypeOK, UniqueNames, Creating
<1> QED
  BY <1>2, <1>4, <1>5, <1>6, <1>7, <1>8, <1>9, <1>10 DEF Consistent

\* Every step keeps the invariant.
LEMMA ConsistentStep == ASSUME Consistent, [Next]_vars PROVE Consistent'
<1>1. ASSUME NEW w \in Workers, Start(w) PROVE Consistent'
  <2>1. ASSUME NEW i \in Ids, NEW n \in Names, NEW s \in Lists, BeginCreate(w, i, n, s)
        PROVE  Consistent'
    BY <2>1, BeginConsistent, ListsAssumption DEF BeginCreate
  <2>2. ASSUME NEW s \in Lists, RefuseCreate(w, s) PROVE Consistent'
    <3>1. TypeOK' /\ \A u \in Workers : op'[u] = op[u] \/ pc[u] = "idle"
      BY <2>2 DEF Consistent, TypeOK, RefuseCreate, stored
    <3> QED
      BY <2>2, <3>1, StutterConsistent DEF RefuseCreate
  <2>3. ASSUME NEW i \in Ids, NEW s \in Seq(Movies), NEW o \in {"merge", "add", "remove"},
               BeginOn(w, o, i, s)
        PROVE  Consistent'
    <3>1. name[w] \in Names /\ o # "create"
      BY DEF Consistent, TypeOK
    <3>2. Begin(w, o, i, name[w], s) /\ account[i] # Unused
      BY <2>3 DEF BeginOn
    <3> QED
      BY ONLY Consistent, <3>1, <3>2, BeginConsistent
  <2>4. ASSUME NEW m \in Movies PROVE <<m>> \in Seq(Movies)
    OBVIOUS
  <2> QED
    BY <1>1, <2>1, <2>2, <2>3, <2>4, ListsAssumption DEF Start, BeginMerge, BeginAdd, BeginRemove
<1>2. ASSUME NEW w \in Workers, LockMissing(w) \/ UserTaken(w) \/ RefuseAdd(w) \/ Abort(w)
      PROVE  Consistent'
  <2>1. /\ pc[w] # "idle"
        /\ \E r \in {"ok", "limit", "taken", "gone", "error"} : Fail(w, r)
    BY <1>2 DEF LockMissing, AsksLock, UserTaken, RefuseAdd, AtMovie, Abort
  <2> QED
    BY <2>1, FailConsistent
<1>3. ASSUME NEW w \in Workers, Work(w) \/ Commit(w, "error") \/ Abort(w) PROVE Consistent'
  BY ONLY Consistent, <1>2, <1>3, LockConsistent, RemoveRowConsistent, ReadConsistent,
          InsertUserConsistent, InsertConsistent, SkipConsistent, CommitConsistent DEF Work
<1>4. ASSUME NEW i \in Ids, DropAccount(i) PROVE Consistent'
  BY <1>4, DropConsistent
<1>5. CASE UNCHANGED vars
  <2>1. TypeOK' /\ \A u \in Workers : op'[u] = op[u]
    BY <1>5 DEF Consistent, TypeOK, vars
  <2> QED
    BY <1>5, <2>1, StutterConsistent DEF vars, stored
<1> QED
  BY ONLY [Next]_vars, <1>1, <1>3, <1>4, <1>5 DEF Next

\* The inductive invariant: every transaction's view is what it will commit.
THEOREM StoreConsistent == Spec => []Consistent
<1>1. Init => Consistent
  BY InitConsistent
<1>2. Consistent /\ [Next]_vars => Consistent'
  BY ConsistentStep
<1> QED
  BY <1>1, <1>2, PTL DEF Spec

\* However many tabs and backend processes write at once, no account ever holds more than
\* MaxFavorites favourites.
THEOREM LimitHolds == Spec => []WithinLimit
<1>1. Consistent => WithinLimit
  BY DEF Consistent
<1> QED
  BY <1>1, StoreConsistent, PTL

\* Concurrent sign-ups never give one name to two accounts.
THEOREM NamesStayUnique == Spec => []UniqueNames
<1>1. Consistent => UniqueNames
  BY DEF Consistent
<1> QED
  BY <1>1, StoreConsistent, PTL

\* An INSERT of merge_favorites or add_favorite never meets the primary key: the list they
\* read under the lock is complete until they commit.
THEOREM InsertsNeverMeetAKey == Spec => []InsertMeetsNoKey
<1>1. Consistent => InsertMeetsNoKey
  <2> SUFFICES ASSUME Consistent, NEW w \in Workers, AtMovie(w), ~Known(w)
               PROVE  Visible(w)[Head(todo[w])] = 0
    BY DEF InsertMeetsNoKey
  <2>1. Head(todo[w]) \in Movies
    BY ElementsTail DEF Consistent, TypeOK, AtMovie
  <2>2. ToSet(ids[w]) = Present(Visible(w))
    BY DEF Consistent, ListSound, IsListing, AtMovie
  <2> QED
    BY <2>1, <2>2 DEF Known, Present
<1> QED
  BY <1>1, StoreConsistent, PTL

\* Only the commit of its own transaction gives a worker the answer "ok".
LEMMA OnlyCommitReturns ==
    ASSUME TypeOK, [Next]_vars, NEW w \in Workers, Returns(w, "ok")
    PROVE  Commit(w, "ok")
<1> USE DEF Returns
<1>1. ASSUME NEW u \in Workers, Start(u) PROVE FALSE
  BY <1>1 DEF TypeOK, Start, BeginCreate, RefuseCreate, BeginMerge, BeginAdd, BeginRemove,
              BeginOn, Begin
<1>2. ASSUME NEW u \in Workers, NEW r \in {"limit", "taken", "gone", "error"}, End(u, r)
      PROVE  FALSE
  BY <1>2 DEF TypeOK, End
<1>3. ASSUME NEW u \in Workers,
             \/ LockMissing(u) \/ UserTaken(u) \/ RefuseAdd(u) \/ Abort(u) \/ Commit(u, "error")
      PROVE  FALSE
  BY <1>2, <1>3 DEF LockMissing, UserTaken, RefuseAdd, Abort, Commit, Fail
<1>4. ASSUME NEW u \in Workers,
             \/ Lock(u) \/ RemoveRow(u) \/ Read(u) \/ InsertUser(u) \/ Insert(u) \/ Skip(u)
      PROVE  FALSE
  BY <1>4 DEF TypeOK, Lock, RemoveRow, Read, InsertUser, Insert, Skip
<1>5. ASSUME NEW u \in Workers, Commit(u, "ok") PROVE Commit(w, "ok")
  <2>1. u = w
    BY <1>5 DEF TypeOK, Commit, End
  <2> QED
    BY <1>5, <2>1
<1>6. ASSUME NEW i \in Ids, DropAccount(i) PROVE FALSE
  BY <1>6 DEF DropAccount
<1>7. CASE UNCHANGED vars
  BY <1>7 DEF vars
<1>8. ASSUME NEW u \in Workers, Work(u) \/ Commit(u, "error") \/ Abort(u)
      PROVE  Commit(w, "ok")
  BY ONLY <1>3, <1>4, <1>5, <1>8 DEF Work
<1> QED
  BY ONLY [Next]_vars, <1>1, <1>6, <1>7, <1>8 DEF Next

\* merge_favorites, add_favorite and remove_favorite return the committed list of the account.
THEOREM TheListIsReturned == Spec => ReturnsTheList
<1>1. ASSUME Consistent, [Next]_vars, NEW w \in Workers, Returns(w, "ok") /\ op[w] # "create"
      PROVE  IsListing(ids'[w], position'[target[w]])
  <2>1. Commit(w, "ok") /\ TypeOK
    BY <1>1, OnlyCommitReturns DEF Consistent
  <2>2. ids'[w] = ids[w] /\ position'[target[w]] = Visible(w)
    BY <2>1 DEF Commit, End, TypeOK
  <2>3. IsListing(ids[w], Visible(w))
    BY <1>1, <2>1 DEF Consistent, ListSound, Commit
  <2> QED
    BY <2>2, <2>3
<1>2. Consistent /\ [Next]_vars =>
        [\A w \in Workers : Returns(w, "ok") /\ op[w] # "create" =>
                               IsListing(ids'[w], position'[target[w]])]_vars
  BY <1>1
<1> QED
  BY <1>2, StoreConsistent, PTL DEF Spec, ReturnsTheList

-----------------------------------------------------------------------------
(* Refusals *)

\* Until the loop has looked at the only movie of an addition, nothing is inserted.
OnlyMovie(u) ==
    pc[u] # "idle" /\ op[u] = "add" /\ todo[u] # <<>> => Len(todo[u]) = 1 /\ ins[u] = NoRows
AddSound == \A u \in Workers : OnlyMovie(u)

\* An addition has inserted nothing while it still has its movie to look at.
LEMMA AddStep == ASSUME Consistent, AddSound, [Next]_vars PROVE AddSound'
<1> DEFINE Same(u) == pc'[u] = pc[u] /\ op'[u] = op[u] /\ todo'[u] = todo[u] /\ ins'[u] = ins[u]
           Kept(u) == pc'[u] # "idle" /\ op'[u] = "add" /\ todo'[u] # <<>> =>
                          Len(todo'[u]) = 1 /\ ins'[u] = NoRows
           Steps(w) == Kept(w) /\ \A u \in Workers \ {w} : Same(u)
<1>1. TypeOK
  BY DEF Consistent
<1>2. ASSUME NEW u \in Workers, Same(u) PROVE Kept(u)
  BY <1>2 DEF AddSound, OnlyMovie
<1>3. ASSUME NEW w \in Workers, Steps(w) PROVE \A u \in Workers : Kept(u)
  BY <1>2, <1>3
<1>4. ASSUME NEW w \in Workers, Start(w) PROVE Steps(w)
  <2>1. \A u \in Workers \ {w} : Same(u)
    BY <1>1, <1>4 DEF TypeOK, Start, BeginCreate, RefuseCreate, BeginMerge, BeginAdd, BeginRemove,
                      BeginOn, Begin
  <2>2. ASSUME NEW s \in Lists, RefuseCreate(w, s) PROVE Kept(w)
    BY <1>1, <2>2 DEF TypeOK, RefuseCreate
  <2>3. ASSUME NEW i \in Ids, NEW o \in {"create", "merge", "remove"}, NEW n, NEW s, Begin(w, o, i, n, s)
        PROVE  Kept(w)
    BY <1>1, <2>3 DEF TypeOK, Begin
  <2>4. ASSUME NEW i \in Ids, NEW n, NEW m \in Movies, Begin(w, "add", i, n, <<m>>) PROVE Kept(w)
    <3>1. Len(<<m>>) = 1 /\ todo'[w] = <<m>> /\ ins'[w] = NoRows
      BY <1>1, <2>4 DEF TypeOK, Begin
    <3> QED
      BY <3>1
  <2>5. Kept(w)
    BY <1>4, <2>2, <2>3, <2>4 DEF Start, BeginCreate, BeginMerge, BeginAdd, BeginRemove, BeginOn
  <2> QED
    BY <2>1, <2>5
<1>5. ASSUME NEW w \in Workers, Lock(w) \/ RemoveRow(w) \/ Read(w) \/ InsertUser(w) PROVE Steps(w)
  BY <1>1, <1>5 DEF TypeOK, AddSound, OnlyMovie, Lock, AsksLock, RemoveRow, Read, InsertUser, local
<1>6. ASSUME NEW w \in Workers, Insert(w) \/ Skip(w) PROVE Steps(w)
  <2>1. /\ pc[w] = "rows" /\ todo[w] # <<>> /\ todo'[w] = Tail(todo[w])
        /\ UNCHANGED <<pc, op>> /\ \A u \in Workers \ {w} : Same(u)
    BY <1>1, <1>6 DEF TypeOK, Insert, Skip, AtMovie, local
  <2>2. todo[w] \in Seq(Movies)
    BY <1>1 DEF TypeOK
  <2>3. op[w] = "add" => Tail(todo[w]) = <<>>
    <3>1. op[w] = "add" => Len(todo[w]) = 1
      BY <2>1 DEF AddSound, OnlyMovie
    <3>2. Len(Tail(todo[w])) = Len(todo[w]) - 1 /\ Tail(todo[w]) \in Seq(Movies)
      BY <2>1, <2>2, HeadTailProperties
    <3> DEFINE rest == Tail(todo[w])
    <3>3. op[w] = "add" => Len(rest) = 0
      BY <3>1, <3>2
    <3>4. rest \in Seq(Movies)
      BY <3>2
    <3> HIDE DEF rest
    <3>5. op[w] = "add" => rest = <<>>
      BY ONLY <3>3, <3>4, EmptySeq
    <3> QED
      BY <3>5 DEF rest
  <2> QED
    BY <2>1, <2>3
<1>7. ASSUME NEW w \in Workers, NEW r, End(w, r) PROVE Steps(w)
  BY <1>1, <1>7 DEF TypeOK, End, local
<1>8. ASSUME NEW w \in Workers, Work(w) \/ Commit(w, "error") \/ Abort(w) PROVE Steps(w)
  BY ONLY <1>5, <1>6, <1>7, <1>8 DEF Work, LockMissing, UserTaken, RefuseAdd, Commit, Abort, Fail
<1>9. (\E i \in Ids : DropAccount(i)) \/ UNCHANGED vars => \A u \in Workers : Same(u)
  BY DEF DropAccount, vars, local
<1>10. \A u \in Workers : Kept(u)
  BY ONLY [Next]_vars, <1>2, <1>3, <1>4, <1>8, <1>9 DEF Next
<1> QED
  BY <1>10 DEF AddSound, OnlyMovie, NoRows

\* The answer "limit" is given by an addition that finds no room.
LEMMA OnlyAddIsRefused ==
    ASSUME TypeOK, [Next]_vars, NEW w \in Workers, Returns(w, "limit")
    PROVE  RefuseAdd(w)
<1> USE DEF Returns
<1>1. ASSUME NEW u \in Workers, Start(u) PROVE FALSE
  BY <1>1 DEF TypeOK, Start, BeginCreate, RefuseCreate, BeginMerge, BeginAdd, BeginRemove,
              BeginOn, Begin
<1>2. ASSUME NEW u \in Workers, NEW r \in {"ok", "taken", "gone", "error"}, End(u, r)
      PROVE  FALSE
  BY <1>2 DEF TypeOK, End
<1>3. ASSUME NEW u \in Workers,
             \/ LockMissing(u) \/ UserTaken(u) \/ Abort(u) \/ Commit(u, "ok") \/ Commit(u, "error")
      PROVE  FALSE
  BY <1>2, <1>3 DEF LockMissing, UserTaken, Abort, Commit, Fail
<1>4. ASSUME NEW u \in Workers,
             \/ Lock(u) \/ RemoveRow(u) \/ Read(u) \/ InsertUser(u) \/ Insert(u) \/ Skip(u)
      PROVE  FALSE
  BY <1>4 DEF TypeOK, Lock, RemoveRow, Read, InsertUser, Insert, Skip
<1>5. ASSUME NEW u \in Workers, RefuseAdd(u) PROVE RefuseAdd(w)
  <2>1. u = w
    BY <1>5 DEF TypeOK, RefuseAdd, Fail, End
  <2> QED
    BY <1>5, <2>1
<1>6. (\E i \in Ids : DropAccount(i)) \/ UNCHANGED vars => FALSE
  BY DEF DropAccount, vars
<1>7. ASSUME NEW u \in Workers, Work(u) \/ Commit(u, "error") \/ Abort(u) PROVE RefuseAdd(w)
  BY ONLY <1>3, <1>4, <1>5, <1>7 DEF Work
<1> QED
  BY ONLY [Next]_vars, <1>1, <1>6, <1>7 DEF Next

\* A listing has one place for each row.
LEMMA ListingCounts ==
    ASSUME NEW rows \in [Movies -> Nat], NEW s \in Seq(Movies), IsListing(s, rows)
    PROVE  Len(s) <= Cardinality(Present(rows))
<1>1. Len(s) \in Nat /\ s \in [1..Len(s) -> ToSet(s)] /\ s \in [1..Len(s) -> Movies]
  BY DEF ToSet
<1>2. ASSUME NEW j \in 1..Len(s), NEW k \in 1..Len(s), s[j] = s[k] PROVE j = k
  BY <1>1, <1>2 DEF IsListing
<1>3. s \in Injection(1..Len(s), ToSet(s))
  BY <1>1, <1>2 DEF Injection, IsInjective
<1>4. IsFiniteSet(ToSet(s)) /\ Cardinality(1..Len(s)) = Len(s)
  <2>1. IsFiniteSet(ToSet(s))
    BY ElementsBound
  <2>2. Cardinality(1..Len(s)) = Len(s)
    <3>1. Len(s) \in Nat
      BY <1>1
    <3> QED
      BY ONLY <3>1, FS_Interval
  <2> QED
    BY <2>1, <2>2
<1>5. Cardinality(1..Len(s)) <= Cardinality(ToSet(s))
  <2> DEFINE Places == 1..Len(s)
             Elements == ToSet(s)
  <2>1. s \in Injection(Places, Elements) /\ IsFiniteSet(Elements)
    BY <1>3, <1>4
  <2> HIDE DEF Places, Elements
  <2>2. Cardinality(Places) <= Cardinality(Elements)
    BY ONLY <2>1, FS_Injection
  <2> QED
    BY <2>2 DEF Places, Elements
<1> QED
  BY <1>4, <1>5 DEF IsListing

\* A movie is refused only by an account that holds MaxFavorites others when its caller is told so.
THEOREM RefusalsAreJustified == Spec => RefusalJustified
<1> DEFINE Justified(w) ==
               Returns(w, "limit") =>
                   /\ Cardinality(Present(position[target[w]])) = MaxFavorites
                   /\ position[target[w]][Head(todo[w])] = 0
<1>1. ASSUME Consistent, AddSound, [Next]_vars, NEW w \in Workers PROVE Justified(w)
  <2> SUFFICES ASSUME Returns(w, "limit")
               PROVE  /\ Cardinality(Present(position[target[w]])) = MaxFavorites
                      /\ position[target[w]][Head(todo[w])] = 0
    OBVIOUS
  <2>1. TypeOK /\ RefuseAdd(w)
    BY <1>1, OnlyAddIsRefused DEF Consistent
  <2>2. /\ target[w] \in Ids /\ position[target[w]] \in [Movies -> Nat]
        /\ ids[w] \in Seq(Movies) /\ todo[w] \in Seq(Movies)
    BY <2>1 DEF TypeOK
  <2>3. /\ pc[w] = "rows" /\ op[w] = "add" /\ todo[w] # <<>>
        /\ Head(todo[w]) \notin ToSet(ids[w]) /\ ~(Len(ids[w]) < MaxFavorites)
    BY <2>1 DEF RefuseAdd, AtMovie, Known, HasRoom
  <2>4. Head(todo[w]) \in Movies
    BY <2>2, <2>3
  <2>5. ins[w] = NoRows /\ del[w] = {}
    BY <1>1, <2>3 DEF AddSound, OnlyMovie, Consistent, RowsSound
  <2>6. Visible(w) = position[target[w]]
    BY <2>2, <2>5 DEF Visible, NoRows
  <2>7. IsListing(ids[w], position[target[w]])
    BY <1>1, <2>3, <2>6 DEF Consistent, ListSound
  <2>8. position[target[w]][Head(todo[w])] = 0
    BY <2>2, <2>3, <2>4, <2>7 DEF IsListing, Present
  <2>9. Len(ids[w]) <= Cardinality(Present(position[target[w]]))
    BY <2>2, <2>7, ListingCounts
  <2>10. Cardinality(Present(position[target[w]])) <= MaxFavorites
    BY <1>1, <2>2 DEF Consistent, WithinLimit
  <2>11. Cardinality(Present(position[target[w]])) \in Nat /\ Len(ids[w]) \in Nat
    <3>1. IsFiniteSet(Present(position[target[w]]))
      BY MoviesAssumption, FS_Subset DEF Present
    <3> QED
      BY <2>2, <3>1, FS_CardinalityType
  <2> QED
    BY ONLY <2>3, <2>8, <2>9, <2>10, <2>11, MaxFavoritesAssumption
<1>2. Consistent /\ AddSound /\ [Next]_vars => [\A w \in Workers : Justified(w)]_vars
  BY <1>1
<1>3. Init => AddSound
  BY DEF Init, AddSound, OnlyMovie
<1>4. Consistent /\ AddSound /\ [Next]_vars => AddSound'
  BY AddStep
<1>5. Spec => []AddSound
  BY <1>3, <1>4, StoreConsistent, PTL DEF Spec
<1>6. []Consistent /\ []AddSound /\ [][Next]_vars => [][\A w \in Workers : Justified(w)]_vars
  BY <1>2, PTL
<1> QED
  BY <1>5, <1>6, StoreConsistent, PTL DEF Spec, RefusalJustified

-----------------------------------------------------------------------------
(* The rows implement FavoriteLists. *)

\* OrderSound for one worker, by the values it speaks of.
OrderOf(p, o, t, d, n, rows) ==
    /\ p \in {"begun", "locked"} /\ o = "remove" => \E m \in Movies : t = <<m>>
    /\ p \in {"deleted", "rows"} /\ o = "remove" =>
          t = <<>> /\ n = NoRows /\ \E m \in Movies : d = {m}
    /\ \A m \in Movies : n[m] # 0 => rows[m] = 0 /\ \A x \in Movies : rows[x] < n[m]

OrderNow(u) == OrderOf(pc[u], op[u], todo[u], del[u], ins[u], position[target[u]])
OrderNext(u) == OrderOf(pc'[u], op'[u], todo'[u], del'[u], ins'[u], position'[target'[u]])

\* OrderSound, one worker at a time.
LEMMA OrderSplit == OrderSound <=> \A u \in Workers : OrderNow(u)
  BY DEF OrderSound, OrderNow, OrderOf

\* If a step leaves every worker in order, it keeps OrderSound.
LEMMA OrderStep == ASSUME \A u \in Workers : OrderNext(u) PROVE OrderSound'
  BY DEF OrderSound, OrderNext, OrderOf, NoRows

\* A worker whose variables stay, and whose account's rows stay while it inserts, keeps its part.
LEMMA OrderFrame ==
    ASSUME OrderSound, NEW u \in Workers,
           pc'[u] = pc[u], op'[u] = op[u], target'[u] = target[u], todo'[u] = todo[u],
           ins'[u] = ins[u], del'[u] = del[u],
           ins[u] # NoRows => position'[target[u]] = position[target[u]]
    PROVE  OrderNext(u)
  BY DEF OrderSound, OrderNext, OrderOf, NoRows

\* So does one that has inserted nothing and neither runs nor ends a removal.
LEMMA OrderIdle ==
    ASSUME NEW u \in Workers, ins'[u] = NoRows,
           op'[u] # "remove" \/ pc'[u] = "idle" \/
               (pc'[u] \in {"begun", "locked"} /\ \E m \in Movies : todo'[u] = <<m>>)
    PROVE  OrderNext(u)
  BY DEF OrderNext, OrderOf, NoRows

\* No worker has rows at the start.
LEMMA InitOrder == ASSUME Init PROVE OrderSound
  BY DEF Init, OrderSound, NoRows

\* Every step inserts after all the rows of the account, committed or its own.
LEMMA OrderInvariant == ASSUME Consistent, OrderSound, [Next]_vars PROVE OrderSound'
<1> DEFINE Others(w) == \A u \in Workers \ {w} : OrderNext(u)
<1> USE DEF stored, local
<1>1. TypeOK
  BY DEF Consistent
<1>2. ASSUME NEW w \in Workers, Start(w) PROVE OrderSound'
  <2>1. pc[w] = "idle" /\ ins[w] = NoRows /\ ins'[w] = NoRows /\ UNCHANGED position
    BY <1>1, <1>2 DEF TypeOK, Consistent, RowsSound, Start, BeginCreate, RefuseCreate, BeginMerge,
                      BeginAdd, BeginRemove, BeginOn, Begin
  <2>2. \A u \in Workers \ {w} : /\ pc'[u] = pc[u] /\ op'[u] = op[u] /\ target'[u] = target[u]
                                 /\ todo'[u] = todo[u] /\ ins'[u] = ins[u] /\ del'[u] = del[u]
    BY <1>1, <1>2 DEF TypeOK, Start, BeginCreate, RefuseCreate, BeginMerge,
                      BeginAdd, BeginRemove, BeginOn, Begin
  <2>3. Others(w)
    BY <2>1, <2>2, OrderFrame
  <2>4. op'[w] # "remove" \/ (pc'[w] = "begun" /\ \E m \in Movies : todo'[w] = <<m>>)
    BY <1>1, <1>2 DEF TypeOK, Start, BeginCreate, RefuseCreate, BeginMerge,
                      BeginAdd, BeginRemove, BeginOn, Begin
  <2> QED
    BY <2>1, <2>3, <2>4, OrderIdle, OrderStep
<1>3. ASSUME NEW w \in Workers,
             \/ Lock(w) \/ RemoveRow(w) \/ Read(w) \/ InsertUser(w) \/ Insert(w) \/ Skip(w)
             \/ \E r \in {"limit", "taken", "gone", "error"} : Fail(w, r)
      PROVE  UNCHANGED position /\ Others(w)
  <2>1. UNCHANGED position
    BY <1>3 DEF Lock, RemoveRow, Read, InsertUser, Insert, Skip, Fail
  <2>2. \A u \in Workers \ {w} : /\ pc'[u] = pc[u] /\ op'[u] = op[u] /\ target'[u] = target[u]
                                 /\ todo'[u] = todo[u] /\ ins'[u] = ins[u] /\ del'[u] = del[u]
    BY <1>1, <1>3 DEF TypeOK, Lock, RemoveRow, Read, InsertUser, Insert, Skip, Fail, End
  <2> QED
    BY <2>1, <2>2, OrderFrame
<1>4. ASSUME NEW w \in Workers,
             Lock(w) \/ RemoveRow(w) \/ Read(w) \/ InsertUser(w) \/ Skip(w)
      PROVE  OrderSound'
  <2>1. OrderNow(w) /\ ins'[w] = ins[w] /\ UNCHANGED <<op, target, position>>
    BY <1>4, OrderSplit DEF Lock, RemoveRow, Read, InsertUser, Skip
  <2>2. pc'[w] \in {"begun", "locked"} /\ op[w] = "remove" => \E m \in Movies : todo'[w] = <<m>>
    BY <1>1, <1>4, <2>1 DEF OrderNow, OrderOf, TypeOK, Lock, RemoveRow, Read, InsertUser, Skip, AsksLock, AtMovie
  <2>3. ASSUME pc'[w] \in {"deleted", "rows"}, op[w] = "remove"
        PROVE  todo'[w] = <<>> /\ ins'[w] = NoRows /\ \E m \in Movies : del'[w] = {m}
    <3>1. CASE RemoveRow(w)
      <4>1. PICK m \in Movies : todo[w] = <<m>>
        BY <3>1, <2>1 DEF OrderNow, OrderOf, RemoveRow
      <4>2. ToSet(todo[w]) = {m}
        BY <4>1 DEF ToSet
      <4>3. ins[w] = NoRows
        BY <3>1 DEF Consistent, RowsSound, RemoveRow
      <4> QED
        BY <1>1, <2>1, <3>1, <4>2, <4>3 DEF TypeOK, RemoveRow, WhereMovie
    <3>2. CASE Read(w)
      BY <1>1, <2>1, <2>3, <3>2 DEF TypeOK, OrderNow, OrderOf, Read
    <3>3. CASE Skip(w)
      BY <1>1, <2>1, <2>3, <3>3 DEF TypeOK, OrderNow, OrderOf, Skip, AtMovie
    <3>4. CASE Lock(w) \/ InsertUser(w)
      BY <1>1, <2>3, <3>4 DEF TypeOK, Lock, InsertUser
    <3> QED
      BY <1>4, <3>1, <3>2, <3>3, <3>4
  <2>4. OrderNext(w)
    BY <2>1, <2>2, <2>3 DEF OrderNow, OrderNext, OrderOf
  <2> QED
    BY <1>3, <1>4, <2>4, OrderStep
<1>5. ASSUME NEW w \in Workers, NEW r \in {"limit", "taken", "gone", "error"}, Fail(w, r)
      PROVE  OrderSound'
  <2>1. ins'[w] = NoRows /\ pc'[w] = "idle"
    BY <1>1, <1>5 DEF TypeOK, Fail, End
  <2> QED
    BY <1>3, <1>5, <2>1, OrderIdle, OrderStep
<1>6. ASSUME NEW w \in Workers, Insert(w) PROVE OrderSound'
  <2> DEFINE m == Head(todo[w])
  <2>1. m \in Movies /\ pc[w] = "rows" /\ todo[w] # <<>> /\ Visible(w)[m] = 0
    BY <1>1, <1>6, ElementsTail DEF TypeOK, Insert, AtMovie
  <2>2. OrderNow(w) /\ op[w] # "remove"
    BY <2>1, OrderSplit DEF OrderNow, OrderOf
  <2>3. del[w] = {}
    BY <2>2 DEF Consistent, RowsSound
  <2> HIDE DEF m
  <2>4. position[target[w]][m] = 0 /\ ins[w][m] = 0
    BY <1>1, <2>1, <2>3 DEF TypeOK, Visible
  <2>5. \A x \in Movies : position[target[w]][x] < nextPosition
    BY <1>1 DEF TypeOK, Consistent, RowsSound
  <2>6. /\ ins'[w] = [ins[w] EXCEPT ![m] = nextPosition] /\ ins[w] \in [Movies -> Nat]
        /\ op'[w] = op[w] /\ target'[w] = target[w] /\ UNCHANGED position
    BY <1>1, <1>6 DEF TypeOK, Insert, m
  <2>7. OrderNext(w)
    BY ONLY <2>1, <2>2, <2>4, <2>5, <2>6 DEF OrderNow, OrderNext, OrderOf
  <2> QED
    BY <1>3, <1>6, <2>7, OrderStep
<1>7. ASSUME NEW w \in Workers, NEW r \in {"ok", "error"}, Commit(w, r) PROVE OrderSound'
  <2>1. ins'[w] = NoRows /\ pc'[w] = "idle"
    BY <1>1, <1>7 DEF TypeOK, Commit, End
  <2>2. HoldsRow(w) \/ InCreate(w)
    BY <1>1, <1>7 DEF HoldsRow, InCreate, Commit, TypeOK
  <2>3. \A u \in Workers \ {w} : ins[u] # NoRows => target[u] # target[w]
    BY <2>2, Alone DEF Consistent, RowsSound, HoldsRow, InCreate
  <2>4. \A u \in Workers \ {w} : ins[u] # NoRows => position'[target[u]] = position[target[u]]
    BY <1>1, <1>7, <2>3 DEF TypeOK, Commit
  <2>5. \A u \in Workers \ {w} : /\ pc'[u] = pc[u] /\ op'[u] = op[u] /\ target'[u] = target[u]
                                 /\ todo'[u] = todo[u] /\ ins'[u] = ins[u] /\ del'[u] = del[u]
    BY <1>1, <1>7 DEF TypeOK, Commit, End
  <2> QED
    BY <2>1, <2>4, <2>5, OrderFrame, OrderIdle, OrderStep
<1>8. ASSUME NEW i \in Ids, DropAccount(i) PROVE OrderSound'
  <2>1. \A u \in Workers : ins[u] # NoRows => target[u] # i
    BY <1>8, NoWorkerAssumption, AccountAssumption
    DEF DropAccount, Consistent, RowsSound, LockSound, HoldsRow, CreateSound, InCreate
  <2>2. \A u \in Workers : ins[u] # NoRows => position'[target[u]] = position[target[u]]
    BY <1>1, <1>8, <2>1 DEF TypeOK, DropAccount
  <2>3. UNCHANGED <<pc, op, target, todo, ins, del>>
    BY <1>8 DEF DropAccount
  <2> QED
    BY <2>2, <2>3, OrderFrame, OrderStep
<1>9. CASE UNCHANGED vars
  BY <1>9, OrderFrame, OrderStep DEF vars
<1>10. ASSUME NEW w \in Workers, Work(w) \/ Commit(w, "error") \/ Abort(w) PROVE OrderSound'
  <2>1. CASE LockMissing(w) \/ UserTaken(w) \/ RefuseAdd(w) \/ Abort(w)
    BY <1>5, <2>1 DEF LockMissing, UserTaken, RefuseAdd, Abort
  <2> QED
    BY ONLY <1>4, <1>6, <1>7, <1>10, <2>1 DEF Work
<1> QED
  BY ONLY [Next]_vars, <1>2, <1>8, <1>9, <1>10 DEF Next

\* The instance brings its own name for Cardinality.
LEMMA SameCardinality == \A S : AbstractLists!Cardinality(S) = Cardinality(S)
  BY DEF Cardinality, AbstractLists!Cardinality

\* The first state of the rows is the first state of the lists.
LEMMA InitImplements == ASSUME Init PROVE AbstractLists!Init
<1>1. Present(NoRows) = {} /\ PrecedesIn(NoRows) = {}
  BY DEF Present, PrecedesIn, NoRows
<1>2. \A i \in Ids : position[i] = NoRows
  BY DEF Init
<1>3. AbstractLists!Orders({}, {}) /\ AbstractLists!Cardinality({}) <= MaxFavorites
  <2>1. AbstractLists!Cardinality({}) = 0
    BY FS_EmptySet, SameCardinality
  <2> QED
    BY <2>1, MaxFavoritesAssumption DEF AbstractLists!Orders
<1>4. /\ [i \in Ids |-> Present(position[i])] \in [Ids -> SUBSET Movies]
      /\ [i \in Ids |-> PrecedesIn(position[i])] \in [Ids -> SUBSET (Movies \X Movies)]
      /\ {i \in Ids : account[i] = Dropped} \in SUBSET Ids
  BY <1>1, <1>2
<1> QED
  BY <1>1, <1>2, <1>3, <1>4 DEF AbstractLists!Init

\* The new rows keep the old ones and come after them, each at a position of its own.
Grows(old, new) ==
    /\ \A m \in Movies : old[m] # 0 => new[m] = old[m]
    /\ \A m, n \in Movies : old[m] = 0 /\ new[m] # 0 => old[n] < new[m]
    /\ \A m, n \in Movies : new[m] # 0 /\ new[m] = new[n] => m = n

\* The movies N in the order o are appended to the list of the old rows.
Appends(old, new, N, o) ==
    /\ AbstractLists!Orders(o, N)
    /\ Present(new) = Present(old) \cup N
    /\ PrecedesIn(new) = PrecedesIn(old) \cup o \cup (Present(old) \X N)

\* Rows that join an account after all its rows, in distinct places, extend its list.
LEMMA RowsExtend ==
    ASSUME NEW old \in [Movies -> Nat], NEW new \in [Movies -> Nat],
           Grows(old, new),
           NEW N, N = Present(new) \ Present(old),
           NEW o, o = PrecedesIn(new) \cap (N \X N)
    PROVE  Appends(old, new, N, o)
<1> USE DEF Grows
<1>1. \A m \in N : m \in Movies /\ new[m] # 0 /\ old[m] = 0
  BY DEF Present
<1>2. AbstractLists!Orders(o, N)
  <2>1. \A m, n \in N : <<m, n>> \in o <=> new[m] < new[n]
    BY <1>1 DEF PrecedesIn
  <2>2. \A m \in N : new[m] \in Nat
    BY <1>1
  <2>3. \A m, n \in N : new[m] = new[n] => m = n
    BY <1>1
  <2>4. o \subseteq N \X N
    OBVIOUS
  <2> QED
    BY <2>1, <2>2, <2>3, <2>4 DEF AbstractLists!Orders
<1>3. Present(new) = Present(old) \cup N
  BY DEF Present
<1>4. ASSUME NEW m \in Movies, NEW n \in Movies
      PROVE  <<m, n>> \in PrecedesIn(new) <=>
               <<m, n>> \in PrecedesIn(old) \cup o \cup (Present(old) \X N)
  <2>1. <<m, n>> \in PrecedesIn(new) <=> new[m] # 0 /\ new[n] # 0 /\ new[m] < new[n]
    BY DEF PrecedesIn
  <2>2. <<m, n>> \in PrecedesIn(old) <=> old[m] # 0 /\ old[n] # 0 /\ old[m] < old[n]
    BY DEF PrecedesIn
  <2>3. <<m, n>> \in o <=> m \in N /\ n \in N /\ <<m, n>> \in PrecedesIn(new)
    OBVIOUS
  <2>4. /\ m \in N <=> new[m] # 0 /\ old[m] = 0
        /\ n \in N <=> new[n] # 0 /\ old[n] = 0
        /\ m \in Present(old) <=> old[m] # 0
    BY DEF Present
  <2>5. <<m, n>> \in Present(old) \X N <=> m \in Present(old) /\ n \in N
    OBVIOUS
  <2>6. /\ old[m] \in Nat /\ old[n] \in Nat /\ new[m] \in Nat /\ new[n] \in Nat
        /\ old[m] # 0 => new[m] = old[m]
        /\ old[n] # 0 => new[n] = old[n]
        /\ old[n] = 0 /\ new[n] # 0 => old[m] < new[n]
        /\ old[m] = 0 /\ new[m] # 0 => old[n] < new[m]
    OBVIOUS
  <2> QED
    BY ONLY <2>1, <2>2, <2>3, <2>4, <2>5, <2>6
<1>5. /\ PrecedesIn(new) \subseteq Movies \X Movies
      /\ PrecedesIn(old) \cup o \cup (Present(old) \X N) \subseteq Movies \X Movies
  BY DEF PrecedesIn, Present
<1>6. PrecedesIn(new) = PrecedesIn(old) \cup o \cup (Present(old) \X N)
  <2> QED
    BY <1>4, <1>5
<1> QED
  BY <1>2, <1>3, <1>6 DEF Appends

\* Taking the row of m away takes m out of the list and leaves the rest in order.
LEMMA RowsWithdraw ==
    ASSUME NEW old \in [Movies -> Nat], NEW m \in Movies
    PROVE  LET new == [x \in Movies |-> IF x = m THEN 0 ELSE old[x]]
           IN  /\ Present(new) = Present(old) \ {m}
               /\ PrecedesIn(new) = {p \in PrecedesIn(old) : p[1] # m /\ p[2] # m}
<1> DEFINE new == [x \in Movies |-> IF x = m THEN 0 ELSE old[x]]
<1>1. Present(new) = Present(old) \ {m}
  BY DEF Present
<1>2. ASSUME NEW p \in Movies \X Movies
      PROVE  p \in PrecedesIn(new) <=> p \in PrecedesIn(old) /\ p[1] # m /\ p[2] # m
  BY DEF PrecedesIn
<1>3. PrecedesIn(new) \subseteq Movies \X Movies /\ PrecedesIn(old) \subseteq Movies \X Movies
  BY DEF PrecedesIn
<1> HIDE DEF new
<1>4. PrecedesIn(new) = {p \in PrecedesIn(old) : p[1] # m /\ p[2] # m}
  BY <1>2, <1>3
<1> QED
  BY <1>1, <1>4 DEF new

\* The list of each account in the refinement.
listMembers == [i \in Ids |-> Present(position[i])]
listBefore == [i \in Ids |-> PrecedesIn(position[i])]
listGone == {i \in Ids : account[i] = Dropped}

\* What a change of one account's rows does to the lists.
LEMMA ListsFollowRows ==
    ASSUME NEW a \in Ids, NEW rows, position \in [Ids -> [Movies -> Nat]],
           position' = [position EXCEPT ![a] = rows]
    PROVE  /\ listMembers' = [listMembers EXCEPT ![a] = Present(rows)]
           /\ listBefore' = [listBefore EXCEPT ![a] = PrecedesIn(rows)]
<1>1. \A i \in Ids : position'[i] = IF i = a THEN rows ELSE position[i]
  OBVIOUS
<1>2. listMembers' = [i \in Ids |-> Present(position'[i])]
  BY DEF listMembers, Present
<1>3. listBefore' = [i \in Ids |-> PrecedesIn(position'[i])]
  BY DEF listBefore, PrecedesIn
<1> QED
  BY <1>1, <1>2, <1>3 DEF listMembers, listBefore

\* A commit is one step of the account's list: its end grows, or one movie leaves.
LEMMA CommitImplements ==
    ASSUME Consistent, OrderSound, Consistent', NEW w \in Workers, NEW r \in {"ok", "error"},
           Commit(w, r)
    PROVE  AbstractLists!Next
<1> DEFINE a == target[w]
           old == position[a]
           rows == Visible(w)
           N == Present(rows) \ Present(old)
           o == PrecedesIn(rows) \cap (N \X N)
<1>1. a \in Ids /\ old \in [Movies -> Nat] /\ rows \in [Movies -> Nat] /\ pc[w] = "rows"
      /\ position \in [Ids -> [Movies -> Nat]] /\ ids[w] \in Seq(Movies)
  BY VisibleType DEF Consistent, TypeOK, Commit
<1>2. position' = [position EXCEPT ![a] = rows]
  BY DEF Commit
<1>3. /\ listMembers' = [listMembers EXCEPT ![a] = Present(rows)]
      /\ listBefore' = [listBefore EXCEPT ![a] = PrecedesIn(rows)]
      /\ listMembers[a] = Present(old) /\ listBefore[a] = PrecedesIn(old)
  BY <1>1, <1>2, ListsFollowRows DEF listMembers, listBefore
<1>4. a \notin listGone /\ UNCHANGED listGone
  <2>1. account \in [Ids -> Names \cup {Unused, Dropped}] /\ account[a] # Dropped
    BY <1>1, AccountAssumption DEF Consistent, TypeOK, LockSound, HoldsRow, CreateSound, InCreate
  <2>2. account' = [account EXCEPT ![a] = IF op[w] = "create" THEN name[w] ELSE account[a]]
    BY DEF Commit
  <2>3. op[w] = "create" => name[w] # Dropped
    BY <1>1, AccountAssumption DEF Consistent, TypeOK, CreateSound, InCreate
  <2>4. \A i \in Ids : account'[i] = Dropped <=> account[i] = Dropped
    BY <1>1, <2>1, <2>2, <2>3
  <2> QED
    BY <2>1, <2>4 DEF listGone
<1>5. ASSUME op[w] # "remove" PROVE AbstractLists!Extend(a)
  <2>1. del[w] = {}
    BY <1>5 DEF Consistent, RowsSound
  <2>2. \A m \in Movies : rows[m] = IF ins[w][m] # 0 THEN ins[w][m] ELSE old[m]
    BY <2>1 DEF Visible
  <2>3. \A m \in Movies : ins[w][m] # 0 => old[m] = 0 /\ \A n \in Movies : old[n] < ins[w][m]
    BY DEF OrderSound
  <2>4. \A m \in Movies : old[m] # 0 => rows[m] = old[m]
    BY <2>2, <2>3
  <2>5. \A m, n \in Movies : old[m] = 0 /\ rows[m] # 0 => old[n] < rows[m]
    BY <2>2, <2>3
  <2>6. ASSUME NEW m \in Movies, NEW n \in Movies, rows[m] # 0, rows[m] = rows[n] PROVE m = n
    <3>1. IsListing(ids[w], rows) /\ Len(ids[w]) \in Nat
      BY <1>1 DEF Consistent, ListSound
    <3>2. m \in ToSet(ids[w]) /\ n \in ToSet(ids[w])
      BY <2>6, <3>1 DEF IsListing, Present
    <3>3. PICK j \in 1..Len(ids[w]), k \in 1..Len(ids[w]) : ids[w][j] = m /\ ids[w][k] = n
      BY <3>2 DEF ToSet
    <3>4. /\ j < k => rows[m] < rows[n]
          /\ k < j => rows[n] < rows[m]
      <4> HIDE DEF rows
      <4> QED
        BY ONLY <3>1, <3>3 DEF IsListing
    <3>5. j = k
      BY <1>1, <2>6, <3>1, <3>3, <3>4
    <3> QED
      BY <3>3, <3>5
  <2> HIDE DEF a, old, rows
  <2>7. N = Present(rows) \ Present(old) /\ o = PrecedesIn(rows) \cap (N \X N)
    OBVIOUS
  <2> HIDE DEF N, o
  <2>8. /\ AbstractLists!Orders(o, N)
        /\ Present(rows) = Present(old) \cup N
        /\ PrecedesIn(rows) = PrecedesIn(old) \cup o \cup (Present(old) \X N)
    <3>1. old \in [Movies -> Nat] /\ rows \in [Movies -> Nat]
      BY <1>1
    <3>2. Grows(old, rows)
      BY ONLY <2>4, <2>5, <2>6 DEF Grows
    <3>3. Appends(old, rows, N, o)
      BY ONLY <3>1, <3>2, <2>7, RowsExtend
    <3> QED
      BY ONLY <3>3 DEF Appends
  <2>9. N \in SUBSET (Movies \ listMembers[a]) /\ o \in SUBSET (N \X N)
    <3>1. Present(rows) \subseteq Movies
      BY DEF Present
    <3> QED
      BY <1>3, <2>7, <3>1
  <2>10. Cardinality(Present(rows)) <= MaxFavorites
    <3>1. Cardinality(Present(position'[a])) <= MaxFavorites
      BY <1>1 DEF Consistent, WithinLimit, Present
    <3> QED
      BY <1>1, <1>2, <3>1
  <2>11. /\ Cardinality(listMembers[a] \cup N) <= MaxFavorites
         /\ listMembers' = [listMembers EXCEPT ![a] = listMembers[a] \cup N]
         /\ listBefore' = [listBefore EXCEPT ![a] = listBefore[a] \cup o \cup (listMembers[a] \X N)]
    BY <1>3, <2>8, <2>10
  <2>12. \E N1 \in SUBSET (Movies \ listMembers[a]) : \E o1 \in SUBSET (N1 \X N1) :
            /\ AbstractLists!Orders(o1, N1)
            /\ AbstractLists!Cardinality(listMembers[a] \cup N1) <= MaxFavorites
            /\ listMembers' = [listMembers EXCEPT ![a] = listMembers[a] \cup N1]
            /\ listBefore' = [listBefore EXCEPT ![a] =
                                  listBefore[a] \cup o1 \cup (listMembers[a] \X N1)]
    <3> USE <2>9
    <3> WITNESS N \in SUBSET (Movies \ listMembers[a])
    <3> WITNESS o \in SUBSET (N \X N)
    <3> QED
      BY <2>8, <2>11, SameCardinality
  <2> QED
    BY ONLY <1>4, <2>12 DEF AbstractLists!Extend, listMembers, listBefore, listGone
<1>6. ASSUME op[w] = "remove" PROVE \E m \in Movies : AbstractLists!Withdraw(a, m)
  <2>1. PICK m \in Movies : del[w] = {m} /\ ins[w] = NoRows
    BY <1>1, <1>6 DEF OrderSound
  <2>2. rows = [x \in Movies |-> IF x = m THEN 0 ELSE old[x]]
    BY <2>1 DEF Visible, NoRows
  <2> HIDE DEF a, old, rows
  <2>3. /\ Present(rows) = Present(old) \ {m}
        /\ PrecedesIn(rows) = {p \in PrecedesIn(old) : p[1] # m /\ p[2] # m}
    BY <1>1, <2>2, RowsWithdraw
  <2>4. /\ listMembers' = [listMembers EXCEPT ![a] = listMembers[a] \ {m}]
        /\ listBefore' = [listBefore EXCEPT ![a] =
                              {p \in listBefore[a] : p[1] # m /\ p[2] # m}]
    BY <1>3, <2>3
  <2> QED
    BY <1>4, <2>4 DEF AbstractLists!Withdraw, listMembers, listBefore, listGone
<1> QED
  BY <1>1, <1>5, <1>6 DEF AbstractLists!Next

\* Every other step leaves the lists alone, except the deletion of an account.
LEMMA StepImplements ==
    ASSUME Consistent, OrderSound, Consistent', [Next]_vars
    PROVE  [AbstractLists!Next]_AbstractLists!listVars
<1>1. ASSUME UNCHANGED <<position, account>> PROVE UNCHANGED AbstractLists!listVars
  BY <1>1 DEF AbstractLists!listVars, Present, PrecedesIn
<1>2. ASSUME NEW w \in Workers, Start(w) PROVE UNCHANGED <<position, account>>
  BY <1>2 DEF Start, BeginCreate, RefuseCreate, BeginMerge, BeginAdd, BeginRemove, BeginOn,
              Begin, stored
<1>3. ASSUME NEW w \in Workers, Work(w) \/ Commit(w, "error") \/ Abort(w)
      PROVE  UNCHANGED <<position, account>> \/ \E r \in {"ok", "error"} : Commit(w, r)
  BY <1>3 DEF Work, Lock, LockMissing, RemoveRow, Read, InsertUser, UserTaken, Insert, Skip,
              RefuseAdd, Abort, Fail, stored
<1>4. ASSUME NEW i \in Ids, DropAccount(i) PROVE AbstractLists!Next
  <2>1. Present(NoRows) = {} /\ PrecedesIn(NoRows) = {}
    BY DEF Present, PrecedesIn, NoRows
  <2>2. position \in [Ids -> [Movies -> Nat]] /\ position' = [position EXCEPT ![i] = NoRows]
    BY <1>4 DEF Consistent, TypeOK, DropAccount
  <2>3. /\ listMembers' = [listMembers EXCEPT ![i] = {}]
        /\ listBefore' = [listBefore EXCEPT ![i] = {}]
    <3>1. /\ listMembers' = [listMembers EXCEPT ![i] = Present(NoRows)]
          /\ listBefore' = [listBefore EXCEPT ![i] = PrecedesIn(NoRows)]
      BY ONLY <2>2, i \in Ids, ListsFollowRows
    <3> QED
      BY ONLY <2>1, <3>1
  <2>4. listGone' = listGone \cup {i}
    <3>1. account \in [Ids -> Names \cup {Unused, Dropped}] /\ account' = [account EXCEPT ![i] = Dropped]
      BY <1>4 DEF Consistent, TypeOK, DropAccount
    <3> QED
      BY <3>1 DEF listGone
  <2>5. AbstractLists!Clear(i)
    BY <2>3, <2>4 DEF AbstractLists!Clear, listMembers, listBefore, listGone
  <2> QED
    BY <2>5 DEF AbstractLists!Next
<1>5. CASE UNCHANGED vars
  BY <1>1, <1>5 DEF vars
<1> QED
  BY <1>1, <1>2, <1>3, <1>4, <1>5, CommitImplements DEF Next

\* The statement-level store implements the abstract lists: whatever the interleaving, the
\* aborts and the lost answers, a committed list changes only by growing at its end, losing
\* one movie, or disappearing with its account, and never exceeds the limit.
THEOREM StoreImplementsLists == Spec => ImplementsLists
<1>1. Init => OrderSound /\ AbstractLists!Init
  BY InitOrder, InitImplements
<1>2. Consistent /\ OrderSound /\ [Next]_vars => OrderSound'
  BY OrderInvariant
<1>3. Consistent /\ OrderSound /\ Consistent' /\ [Next]_vars =>
        [AbstractLists!Next]_AbstractLists!listVars
  BY StepImplements
<1> QED
  BY <1>1, <1>2, <1>3, StoreConsistent, PTL DEF Spec, ImplementsLists, AbstractLists!Spec

=============================================================================
