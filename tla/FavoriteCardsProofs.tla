------------------------ MODULE FavoriteCardsProofs ------------------------
(***************************************************************************)
(* What the view of favourites shows while cards are looked up, for any    *)
(* set of movies and any number of events.                                 *)
(***************************************************************************)
EXTENDS FavoriteCards, TLAPS

\* The effect of App.jsx and the state it leaves, and types: each keeps the other in the steps that
\* compute a flag from others.
Sound == TypeOK /\ LoadingIsReal

\* What LoadingIsReal reads.
shownVars == <<view, ready, ids, cards, error, changed, lookup, dismissed>>

\* A step that changes nothing LoadingIsReal reads keeps it.
LEMMA NothingShown == ASSUME LoadingIsReal, UNCHANGED shownVars PROVE LoadingIsReal'
  BY DEF shownVars, LoadingIsReal, Loading, Wanted, MissingCards

\* While the effect has to run, no promise is made.
LEMMA ToBeRendered == ASSUME changed' = TRUE PROVE LoadingIsReal'
  BY DEF LoadingIsReal

\* Nor while an error is shown.
LEMMA ErrorShown == ASSUME error' = TRUE PROVE LoadingIsReal'
  BY DEF LoadingIsReal, Loading

\* An error that is cleared where nothing else changes is the exception; without an error nothing changes.
LEMMA ClearedOnly ==
    ASSUME Sound, ClearError, UNCHANGED <<ready, ids, cards, lookup>>,
           view' = view /\ changed' = changed
    PROVE  LoadingIsReal'
<1>1. error \in BOOLEAN /\ dismissed \in BOOLEAN /\ error' = FALSE /\ dismissed' = (dismissed \/ error)
  BY DEF Sound, TypeOK, ClearError
<1>2. CASE error
  BY <1>1, <1>2 DEF LoadingIsReal
<1>3. CASE ~error
  BY <1>1, <1>3 DEF Sound, LoadingIsReal, Loading, Wanted, MissingCards
<1> QED
  BY <1>2, <1>3

\* The count of events stays within its bound.
LEMMA EventCounts == ASSUME events \in 0..MaxEvents, Event PROVE events' \in 0..MaxEvents
  BY MaxEventsAssumption DEF Event

\* What the user does: a tab, a heart, a retry, the welcome page.
LEMMA UserStep == ASSUME Sound, User PROVE Sound'
<1>1. /\ TypeOK /\ LoadingIsReal
      /\ \A f \in {ready, member, refreshing, error, changed, dismissed} : f \in BOOLEAN
  BY DEF Sound, TypeOK
<1>2. CASE RetrySelection \/ Continue
  <2>1. TypeOK'
    BY <1>1, <1>2, EventCounts
    DEF TypeOK, RetrySelection, Continue, accountVars, toggleVars, requestVars
  <2>2. LoadingIsReal'
    BY <1>1, <1>2, NothingShown, ToBeRendered
    DEF RetrySelection, Continue, accountVars, requestVars, shownVars
  <2> QED
    BY <2>1, <2>2 DEF Sound
<1>3. CASE ShowFavorites
  <2>1. TypeOK'
    BY <1>1, <1>3, EventCounts DEF TypeOK, ShowFavorites, ClearError, AskRefresh, toggleVars, requestVars
  <2>2. CASE view = "favorites"
    <3>1. changed' = changed
      BY <1>1, <1>3, <2>2 DEF ShowFavorites
    <3> QED
      BY <1>1, <1>3, <2>1, <2>2, <3>1, ClearedOnly DEF Sound, ShowFavorites, requestVars
  <2>3. CASE view # "favorites"
    <3>1. changed' = TRUE
      BY <1>1, <1>3, <2>3 DEF ShowFavorites
    <3> QED
      BY <2>1, <3>1, ToBeRendered DEF Sound
  <2> QED
    BY <2>1, <2>2, <2>3 DEF Sound
<1>4. CASE LeaveFavorites \/ Retry
  <2>1. TypeOK'
    BY <1>1, <1>4, EventCounts
    DEF TypeOK, LeaveFavorites, Retry, RetryNoticed, accountVars, toggleVars, requestVars
  <2>2. LoadingIsReal'
    BY <1>4, ToBeRendered DEF LeaveFavorites, Retry, RetryNoticed
  <2> QED
    BY <2>1, <2>2 DEF Sound
<1>5. ASSUME NEW m \in Movies, ToggleFavorite(m) PROVE Sound'
  <2>1. CASE member
    <3>1. TypeOK'
      BY <1>1, <1>5, <2>1, EventCounts, NoMovieAssumption
      DEF TypeOK, ToggleFavorite, OnSite, ClearError, toggleVars, requestVars
    <3>2. LoadingIsReal'
      BY <1>5, <2>1, ClearedOnly DEF ToggleFavorite, requestVars
    <3> QED
      BY <3>1, <3>2 DEF Sound
  <2>2. CASE ~member
    <3>1. TypeOK'
      BY <1>1, <1>5, <2>2, EventCounts, NoMovieAssumption
      DEF TypeOK, ToggleFavorite, OnSite, Flipped, ClearError, toggleVars, requestVars
    <3>2. LoadingIsReal'
      BY <1>5, <2>2, ToBeRendered DEF ToggleFavorite
    <3> QED
      BY <3>1, <3>2 DEF Sound
  <2> QED
    BY <2>1, <2>2
<1> QED
  BY <1>2, <1>3, <1>4, <1>5 DEF User

\* What the account hook does: replies to hearts and refreshes, the focus, another user.
LEMMA AccountStep == ASSUME Sound, Account PROVE Sound'
<1>1. /\ TypeOK /\ LoadingIsReal
      /\ \A f \in {ready, member, refreshing, error, changed, dismissed} : f \in BOOLEAN
  BY DEF Sound, TypeOK
<1>2. CASE ToggleSucceeds
  <2>1. TypeOK'
    BY <1>1, <1>2 DEF TypeOK, ToggleSucceeds, Acting, IdleHeart, requestVars
  <2>2. LoadingIsReal'
    BY <1>2, ToBeRendered DEF ToggleSucceeds
  <2> QED
    BY <2>1, <2>2 DEF Sound
<1>3. CASE KeepCard
  <2>1. TypeOK'
    BY <1>1, <1>3 DEF TypeOK, KeepCard, IdleHeart, accountVars, requestVars
  <2>2. LoadingIsReal'
    BY <1>3, ToBeRendered DEF KeepCard
  <2> QED
    BY <2>1, <2>2 DEF Sound
<1>4. CASE ToggleFails
  <2>1. TypeOK'
    BY <1>1, <1>4 DEF TypeOK, ToggleFails, IdleHeart, requestVars
  <2>2. LoadingIsReal'
    BY <1>1, <1>4, NothingShown DEF ToggleFails, requestVars, shownVars
  <2> QED
    BY <2>1, <2>2 DEF Sound
<1>5. CASE Focus \/ ActionFails
  <2>1. TypeOK'
    BY <1>1, <1>5, EventCounts DEF TypeOK, Focus, ActionFails, AskRefresh, toggleVars, requestVars
  <2>2. LoadingIsReal'
    BY <1>1, <1>5, NothingShown DEF Focus, ActionFails, requestVars, shownVars
  <2> QED
    BY <2>1, <2>2 DEF Sound
<1>6. CASE RefreshReplies
  <2>1. PICK list \in SUBSET Movies : ApplyAccount(list)
    BY <1>6 DEF RefreshReplies
  <2>2. TypeOK'
    BY <1>1, <1>6, <2>1 DEF TypeOK, RefreshReplies, ApplyAccount, toggleVars, requestVars
  <2>3. CASE member \/ ~ready
    <3>1. changed' = TRUE
      BY <1>1, <2>1, <2>3 DEF ApplyAccount
    <3> QED
      BY <2>2, <3>1, ToBeRendered DEF Sound
  <2>4. CASE ~member /\ ready
    <3>1. changed' = changed /\ ready' = ready /\ ids' = ids
      BY <1>1, <2>1, <2>4 DEF ApplyAccount
    <3> QED
      BY <1>1, <1>6, <2>2, <3>1, NothingShown DEF Sound, RefreshReplies, requestVars, shownVars
  <2> QED
    BY <2>2, <2>3, <2>4 DEF Sound
<1>7. CASE RefreshFails
  <2>1. TypeOK'
    BY <1>1, <1>7 DEF TypeOK, RefreshFails, toggleVars, requestVars
  <2>2. LoadingIsReal'
    BY <1>7 DEF RefreshFails, LoadingIsReal, Loading, Wanted
  <2> QED
    BY <2>1, <2>2 DEF Sound
<1>8. CASE SwitchAccount
  <2>1. TypeOK'
    BY <1>1, <1>8, EventCounts DEF TypeOK, SwitchAccount, IdleHeart, NoLookup
  <2>2. LoadingIsReal'
    BY <1>8, ToBeRendered DEF SwitchAccount
  <2> QED
    BY <2>1, <2>2 DEF Sound
<1> QED
  BY <1>2, <1>3, <1>4, <1>5, <1>6, <1>7, <1>8 DEF Account

\* What the effect and its answers do.
LEMMA CardsStep == ASSUME Sound, Cards PROVE Sound'
<1>1. /\ TypeOK /\ LoadingIsReal
      /\ \A f \in {ready, member, refreshing, error, changed, dismissed} : f \in BOOLEAN
  BY DEF Sound, TypeOK
<1>2. CASE SelectionAnswered
  <2>1. TypeOK'
    BY <1>1, <1>2 DEF TypeOK, SelectionAnswered, accountVars, toggleVars, requestVars
  <2>2. LoadingIsReal'
    BY <1>1, <1>2, NothingShown DEF SelectionAnswered, accountVars, requestVars, shownVars
  <2> QED
    BY <2>1, <2>2 DEF Sound
<1>3. CASE Render
  <2>1. TypeOK'
    <3>1. Abort \subseteq SUBSET Movies
      BY <1>1 DEF TypeOK, Abort
    <3>2. (IF Wanted THEN MissingCards ELSE NoLookup) \subseteq Movies
      BY <1>1 DEF TypeOK, MissingCards, NoLookup
    <3>3. /\ aborted' = Abort /\ lookup' = IF Wanted THEN MissingCards ELSE NoLookup
          /\ changed' = FALSE /\ dismissed' = FALSE
          /\ UNCHANGED <<selection, view, ready, member, ids, refreshing, heart, toggled, cards, error, events>>
      BY <1>3 DEF Render, accountVars, toggleVars
    <3> QED
      BY <1>1, <3>1, <3>2, <3>3 DEF TypeOK
  <2>2. LoadingIsReal'
    BY <1>3 DEF Render, LoadingIsReal, Loading, Wanted, MissingCards, NoLookup, accountVars
  <2> QED
    BY <2>1, <2>2 DEF Sound
<1>4. CASE LookupAnswered
  <2>1. PICK movies \in SUBSET Movies : Receive(lookup, movies)
    BY <1>4 DEF LookupAnswered
  <2>2. TypeOK'
    BY <1>1, <1>4, <2>1 DEF TypeOK, LookupAnswered, Receive, NoLookup, accountVars, toggleVars
  <2>3. LoadingIsReal'
    BY <2>1, ToBeRendered, ErrorShown DEF Receive
  <2> QED
    BY <2>2, <2>3 DEF Sound
<1>5. CASE LookupFails
  <2>1. TypeOK'
    BY <1>1, <1>5 DEF TypeOK, LookupFails, NoLookup, accountVars, toggleVars
  <2>2. LoadingIsReal'
    BY <1>5, ErrorShown DEF LookupFails
  <2> QED
    BY <2>1, <2>2 DEF Sound
<1>6. ASSUME NEW asked \in aborted, AbortedAnswered(asked) PROVE Sound'
  <2>1. TypeOK'
    BY <1>1, <1>6 DEF TypeOK, AbortedAnswered, LateError, accountVars, toggleVars
  <2>2. LoadingIsReal'
    BY <1>1, <1>6, NothingShown DEF AbortedAnswered, LateError, accountVars, shownVars
  <2> QED
    BY <2>1, <2>2 DEF Sound
<1> QED
  BY <1>2, <1>3, <1>4, <1>5, <1>6 DEF Cards

\* The page stays sound whatever the user, the account hook and the backend do.
THEOREM CardsStaySound == Spec => []Sound
<1>1. ASSUME Init PROVE Sound
  <2>1. TypeOK
    <3>1. {ready, member, refreshing, error, changed, dismissed} \subseteq BOOLEAN
      BY <1>1 DEF Init
    <3>2. events \in 0..MaxEvents
      BY <1>1, MaxEventsAssumption DEF Init
    <3> QED
      BY <1>1, <3>1, <3>2 DEF Init, TypeOK, NoLookup
  <2>2. LoadingIsReal
    BY <1>1 DEF Init, LoadingIsReal
  <2> QED
    BY <2>1, <2>2 DEF Sound
<1>2. ASSUME Sound, UNCHANGED vars PROVE Sound'
  <2>1. LoadingIsReal'
    BY <1>2, NothingShown DEF Sound, vars, accountVars, requestVars, shownVars
  <2>2. TypeOK'
    BY <1>2 DEF Sound, TypeOK, vars, accountVars, toggleVars, requestVars
  <2> QED
    BY <2>1, <2>2 DEF Sound
<1>3. Sound /\ [Next]_vars => Sound'
  BY <1>2, UserStep, AccountStep, CardsStep DEF Next
<1> QED
  BY <1>1, <1>3, PTL DEF Spec

\* The state of App.jsx keeps its types; a movie waits for its card exactly while its heart is under way.
THEOREM CardsTypesHold == Spec => []TypeOK
<1>1. Sound => TypeOK
  BY DEF Sound
<1> QED
  BY <1>1, CardsStaySound, PTL

\* "Chargement des fiches…" is shown only while a lookup runs for all the missing cards, but for an
\* error that was cleared without a change of what the effect depends on.
THEOREM LoadingStaysReal == Spec => []LoadingIsReal
<1>1. Sound => LoadingIsReal
  BY DEF Sound
<1> QED
  BY <1>1, CardsStaySound, PTL

\* controller.signal.aborted: only the answer to the lookup under way brings an error.
THEOREM ErrorsStayCurrent == Spec => ErrorsAreCurrent
<1> DEFINE Current == ~error /\ error' => lookup # NoLookup /\ lookup' = NoLookup
<1>1. ASSUME Next PROVE Current
  <2>1. CASE User
    BY <2>1 DEF User, RetrySelection, Continue, ShowFavorites, LeaveFavorites, Retry, ToggleFavorite, ClearError
  <2>2. CASE Account
    BY <2>2 DEF Account, ToggleSucceeds, KeepCard, ToggleFails, Focus, RefreshReplies, RefreshFails,
       ActionFails, SwitchAccount
  <2>3. CASE Cards
    BY <2>3 DEF Cards, SelectionAnswered, Render, LookupAnswered, LookupFails, AbortedAnswered, LateError
  <2> QED
    BY <1>1, <2>1, <2>2, <2>3 DEF Next
<1>2. [Next]_vars => [Current]_vars
  BY <1>1
<1>3. ErrorsAreCurrent <=> [][Current]_vars
  BY DEF ErrorsAreCurrent
<1> HIDE DEF Current
<1> QED
  BY <1>2, <1>3, PTL DEF Spec

=============================================================================
