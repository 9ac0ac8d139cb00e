--------------------------- MODULE FavoriteCards ---------------------------
(***************************************************************************)
(* What the page shows of movies: the welcome selection, and the view of   *)
(* favourites of App.jsx with the cards of the listed movies, the effect   *)
(* that looks up the missing ones and aborts the lookup before, the error  *)
(* and its retry, under everything the account hook may do to the list     *)
(* meanwhile.  Setting a state and running the effect of the render that   *)
(* follows are two steps: an answer may come in between.                   *)
(***************************************************************************)
EXTENDS Naturals

CONSTANTS Movies, NoMovie,
          MaxEvents    \* bound: what the user and the account hook do in a behaviour

NoLookup == {}         \* a lookup is the set of movies it asks for, never empty

ASSUME NoMovieAssumption == NoMovie \notin Movies
ASSUME MaxEventsAssumption == MaxEvents \in Nat

VARIABLES selection,    \* WelcomeSelection: "loading", "shown", "error", "closed" once it is left
          view,         \* "favorites", or "other" for the two other views
          ready,        \* account.ready
          member,       \* whether account.user is an account or a visitor
          ids,          \* account.favoriteIds
          refreshing,   \* whether a reply to /auth/me is awaited that would be applied
          heart,        \* the call of account.toggleFavorite: "idle", "sent" to the server by a card of
                        \* MovieApp or "sentByWelcome", "accepted" when MovieApp has still to keep the card
          toggled,      \* the movie of that call, or NoMovie
          cards,        \* the movies favoriteMovies has a card for
          error,        \* whether favoritesError is shown
          changed,      \* whether a dependency of the effect changed since it ran
          lookup,       \* the lookup of the effect's last run, until its answer
          aborted,      \* lookups aborted before their answer
          dismissed,    \* history: an error was cleared and no dependency has changed since
          events        \* counts towards MaxEvents

accountVars == <<ready, member, ids, refreshing>>
toggleVars == <<heart, toggled>>
requestVars == <<lookup, aborted>>
vars == <<selection, view, accountVars, toggleVars, cards, error, changed, requestVars, dismissed, events>>

TypeOK ==
    /\ selection \in {"loading", "shown", "error", "closed"}
    /\ view \in {"favorites", "other"}
    /\ {ready, member, refreshing, error, changed, dismissed} \subseteq BOOLEAN
    /\ ids \subseteq Movies /\ cards \subseteq Movies /\ lookup \subseteq Movies
    /\ heart \in {"idle", "sent", "sentByWelcome", "accepted"} /\ toggled \in Movies \cup {NoMovie}
    /\ heart = "idle" <=> toggled = NoMovie
    /\ aborted \subseteq SUBSET Movies
    /\ events \in 0..MaxEvents

\* The page is loaded: the visitor's list and the dismissal of the welcome selection come from
\* the session storage.
Init ==
    /\ selection \in {"loading", "closed"}
    /\ view = "other" /\ ready = FALSE /\ member = FALSE
    /\ ids \in SUBSET Movies
    /\ refreshing = TRUE
    /\ heart = "idle" /\ toggled = NoMovie
    /\ cards = {} /\ error = FALSE
    /\ changed = TRUE /\ lookup = NoLookup /\ aborted = {}
    /\ dismissed = FALSE /\ events = 0

Event == events < MaxEvents /\ events' = events + 1

MissingCards == ids \ cards
OnSite == selection = "closed"
Wanted == view = "favorites" /\ ready /\ MissingCards # {}

\* busyRef: only the action of an account waits for a reply.
Acting == heart \in {"sent", "sentByWelcome"}
IdleHeart == heart' = "idle" /\ toggled' = NoMovie

-----------------------------------------------------------------------------
\* The cleanup of the effect's last run.
Abort == IF lookup = NoLookup THEN aborted ELSE aborted \cup {lookup}

\* The effect runs after a render in which one of its dependencies changed.
Render ==
    /\ changed /\ changed' = FALSE
    /\ aborted' = Abort
    /\ lookup' = IF Wanted THEN MissingCards ELSE NoLookup
    /\ dismissed' = FALSE
    /\ UNCHANGED <<selection, view, accountVars, toggleVars, cards, error, events>>

\* The answer must hold exactly the cards that were asked for.
AnyAnswer(asked, movies) == TRUE
Complete(asked, movies) == movies = asked

Receive(asked, movies) ==
    IF Complete(asked, movies)
    THEN cards' = cards \cup movies /\ changed' = TRUE /\ error' = FALSE
    ELSE error' = TRUE /\ UNCHANGED <<cards, changed>>

\* The backend answers the lookup of the effect's last run: lookup_movies returns the cards that
\* tmdb-mcp gives for the identifiers, or fails as a whole.
LookupAnswered ==
    /\ lookup # NoLookup /\ lookup' = NoLookup
    /\ \E movies \in SUBSET Movies : Receive(lookup, movies)
    /\ UNCHANGED <<selection, view, accountVars, toggleVars, aborted, dismissed, events>>

LookupFails ==
    /\ lookup # NoLookup /\ lookup' = NoLookup
    /\ error' = TRUE
    /\ UNCHANGED <<selection, view, accountVars, toggleVars, cards, changed, aborted, dismissed, events>>

\* "if (controller.signal.aborted) return", and the same for an error.
LateErrorShown == TRUE
LateError == error

AbortedAnswered(asked) ==
    /\ asked \in aborted /\ aborted' = aborted \ {asked}
    /\ error' = LateError
    /\ UNCHANGED <<selection, view, accountVars, toggleVars, cards, changed, lookup, dismissed, events>>

-----------------------------------------------------------------------------
\* setFavoritesError('') by something else than an answer.
ClearError == error' = FALSE /\ dismissed' = (dismissed \/ error)

\* refresh() does nothing while an action is pending.
AskRefresh == refreshing' = (refreshing \/ ~Acting)

ShowFavorites ==
    /\ Event /\ OnSite
    /\ ClearError
    /\ view' = "favorites" /\ changed' = (changed \/ view # "favorites")
    /\ AskRefresh
    /\ UNCHANGED <<selection, ready, member, ids, toggleVars, cards, requestVars>>

LeaveFavorites ==
    /\ Event /\ view = "favorites"
    /\ view' = "other" /\ changed' = TRUE
    /\ UNCHANGED <<selection, accountVars, toggleVars, cards, error, requestVars, dismissed>>

\* "Réessayer", shown beside the error.
RetryUnnoticed == changed
RetryNoticed == TRUE

Retry ==
    /\ Event /\ view = "favorites" /\ error /\ ids # {}
    /\ error' = FALSE /\ changed' = RetryNoticed
    /\ UNCHANGED <<selection, view, accountVars, toggleVars, cards, requestVars, dismissed>>

\* A heart is clicked: on the card of a favourite, on a search result in the other view, or on a
\* movie of the welcome selection.  A visitor's list changes at once; an account's action makes
\* earlier refreshes void.
Flipped(m) == IF m \in ids THEN ids \ {m} ELSE ids \cup {m}

ToggleFavorite(m) ==
    /\ Event
    /\ ready /\ heart = "idle"
    /\ OnSite \/ selection = "shown"
    /\ view = "favorites" => m \in ids \cap cards
    /\ ClearError
    /\ IF member
       THEN /\ heart' = IF OnSite THEN "sent" ELSE "sentByWelcome"
            /\ toggled' = m
            /\ refreshing' = FALSE
            /\ UNCHANGED <<ids, changed>>
       ELSE /\ IF OnSite THEN heart' = "accepted" /\ toggled' = m ELSE UNCHANGED toggleVars
            /\ ids' = Flipped(m) /\ changed' = TRUE
            /\ UNCHANGED refreshing
    /\ UNCHANGED <<selection, view, ready, member, cards, requestVars>>

\* The reply holds the list of the account, which other tabs may have changed.
ToggleSucceeds ==
    /\ Acting
    /\ IF heart = "sent" THEN heart' = "accepted" /\ UNCHANGED toggled ELSE IdleHeart
    /\ ids' \in SUBSET Movies /\ changed' = TRUE
    /\ UNCHANGED <<selection, view, ready, member, refreshing, cards, error, requestVars, dismissed, events>>

\* toggleFavorite of App.jsx goes on.  (The welcome selection only has summaries and keeps none.)
KeepCard ==
    /\ heart = "accepted" /\ IdleHeart
    /\ cards' = cards \cup {toggled} /\ changed' = TRUE
    /\ UNCHANGED <<selection, view, accountVars, error, requestVars, dismissed, events>>

\* After a 401 the account is verified again.
ToggleFails ==
    /\ Acting
    /\ IdleHeart
    /\ \E expired \in BOOLEAN : refreshing' = (refreshing \/ expired)
    /\ UNCHANGED <<selection, view, ready, member, ids, cards, error, changed, requestVars, dismissed, events>>

-----------------------------------------------------------------------------
\* The window gets the focus.
Focus == Event /\ AskRefresh /\ UNCHANGED <<selection, view, ready, member, ids, toggleVars, cards, error, changed, requestVars, dismissed>>

\* applyAccount with the same user: an account's list is a new array, a visitor's is the one
\* he has, so that React sees no change in it.
ApplyAccount(list) ==
    /\ ready' = TRUE
    /\ ids' = IF member THEN list ELSE ids
    /\ changed' = (changed \/ member \/ ~ready)

RefreshReplies ==
    /\ refreshing /\ refreshing' = FALSE
    /\ \E list \in SUBSET Movies : ApplyAccount(list)
    /\ UNCHANGED <<selection, view, member, toggleVars, cards, error, requestVars, dismissed, events>>

RefreshFails ==
    /\ refreshing /\ refreshing' = FALSE
    /\ ready' = FALSE /\ changed' = (changed \/ ready)
    /\ UNCHANGED <<selection, view, member, ids, toggleVars, cards, error, requestVars, dismissed, events>>

\* A log-in or log-out that fails: a refresh asked before or during it brings no answer.
ActionFails ==
    /\ Event /\ ready /\ ~Acting /\ refreshing
    /\ refreshing' = FALSE
    /\ UNCHANGED <<selection, view, ready, member, ids, toggleVars, cards, error, changed, requestVars, dismissed>>

\* A log-in, log-out or refresh brings another user: MovieApp, whose key is the user, starts
\* anew, and what the old one still receives is lost.  (One account stands for all.)
SwitchAccount ==
    /\ Event /\ ~Acting /\ (ready \/ refreshing)
    /\ member' \in BOOLEAN /\ (member \/ member') /\ ids' \in SUBSET Movies
    /\ ready' = TRUE /\ refreshing' = FALSE
    /\ view' = "other" /\ cards' = {} /\ error' = FALSE
    /\ IdleHeart
    /\ changed' = TRUE /\ lookup' = NoLookup /\ aborted' = {} /\ dismissed' = FALSE
    /\ UNCHANGED selection

-----------------------------------------------------------------------------
\* The answer to /movies/random: five distinct movies, or an error.
SelectionAnswered ==
    /\ selection = "loading" /\ selection' \in {"shown", "error"}
    /\ UNCHANGED <<view, accountVars, toggleVars, cards, error, changed, requestVars, dismissed, events>>

RetrySelection ==
    /\ Event /\ selection = "error" /\ selection' = "loading"
    /\ UNCHANGED <<view, accountVars, toggleVars, cards, error, changed, requestVars, dismissed>>

\* continueToSite: the request of the selection is aborted, MovieApp is mounted.
Continue ==
    /\ Event /\ ~OnSite /\ selection' = "closed"
    /\ changed' = TRUE
    /\ UNCHANGED <<view, accountVars, toggleVars, cards, error, requestVars, dismissed>>

User == RetrySelection \/ Continue \/ ShowFavorites \/ LeaveFavorites \/ Retry \/ \E m \in Movies : ToggleFavorite(m)
Account == ToggleSucceeds \/ KeepCard \/ ToggleFails \/ Focus \/ RefreshReplies \/ RefreshFails \/ ActionFails \/ SwitchAccount
Cards == SelectionAnswered \/ Render \/ LookupAnswered \/ LookupFails \/ \E asked \in aborted : AbortedAnswered(asked)

Next == User \/ Account \/ Cards

\* React renders what changed; every request is answered, by the backend or by the proxy, which
\* gives up after 90 seconds (frontend/nginx.conf).
Spec ==
    /\ Init /\ [][Next]_vars
    /\ WF_vars(Render) /\ WF_vars(LookupAnswered \/ LookupFails)
    /\ WF_vars(ToggleSucceeds \/ ToggleFails) /\ WF_vars(KeepCard) /\ WF_vars(RefreshReplies \/ RefreshFails)

-----------------------------------------------------------------------------
\* favoritesLoading: the view says "Chargement des fiches…".
Loading == Wanted /\ ~error

\* When the view says that cards are loading and has rendered what changed, a lookup runs that asks
\* for all that are missing.  The only exception is an error that a heart or the tab "Favoris"
\* cleared without changing what the effect depends on.
LoadingIsReal ==
    Loading /\ ~changed /\ ~dismissed => lookup # NoLookup /\ MissingCards \subseteq lookup

\* An answer that comes after its lookup was aborted never shows as an error over the list of
\* today (App.jsx:133 and 145).
ErrorsAreCurrent == [][~error /\ error' => lookup # NoLookup /\ lookup' = NoLookup]_vars

\* The view does not load for ever, nor ask again and again for cards that the backend does not give,
\* also for favourites chosen on the welcome page: it shows all cards, or an error.
CardsArrive == Loading ~> ~Loading \/ dismissed

\* The same without the exception, as README.md:182-185 says: the view "récupère les fiches".
LoadingEnds == Loading ~> ~Loading

=============================================================================
