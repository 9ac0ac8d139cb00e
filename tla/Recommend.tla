------------------------------ MODULE Recommend ------------------------------
(***************************************************************************)
(* MovieRecommendationService.recommend (services/movie_service.py): one   *)
(* recommendation, from the names of the intent to the list of movies.     *)
(* Each action is one call of an MCP tool with what the code does with its *)
(* answer up to the next call.  What the tools answer is arbitrary; a call *)
(* may also fail.                                                          *)
(***************************************************************************)
EXTENDS RangeBounds, Sequences, SequencesExt, FiniteSets, TLC

CONSTANTS Movies,
          NoId,            \* an item of an answer without an integer id
          Year,            \* the release year TMDB gives each movie, or None
          Ratings,         \* the IMDb ratings
          Answers,         \* bound: the lists of movies a tool may answer
          Requests,        \* bound: the intents asked for
          CandidateLimit,       \* settings.movie_candidate_limit
          MaxResults,           \* settings.max_recommendations
          MaxSimilarFavorites   \* MAX_SIMILAR_FAVORITES, 10 in the code

\* How many names, titles and favourites there are is all that counts: the
\* tools may answer anything to each of them.
Request ==
    [names : Nat,            \* required names to look up: people, genres, keywords, ...
     similar_to : Nat,       \* required.similar_to
     titles : Nat,           \* required.titles
     preferred : BOOLEAN,    \* preferred.similar_to is not empty
     crosscheck : BOOLEAN,   \* a keyword, company or provider is required
     year : IntRange,        \* required.year
     imdb : IntRange,        \* required.imdb_rating
     prefersImdb : BOOLEAN,  \* preferred.imdb_rating has bounds
     byImdb : BOOLEAN,       \* sort_preference is imdb_rating
     favorites : Nat,        \* favourites of the visitor or the account
     omdb : BOOLEAN]         \* settings.omdb_api_key is set

\* What get_movie and get_movie_credits say: whether genres, runtime, TMDB
\* rating, actors and director are those required, and the IMDb rating.
Details == [meets : BOOLEAN, imdb : Ratings \cup {None}]

ASSUME RecommendAssumption ==
    /\ NoId \notin Movies
    /\ Year \in [Movies -> Int \cup {None}]
    /\ Ratings \subseteq Nat \ {0}
    /\ None \notin Details
    /\ Answers \subseteq Seq(Movies \cup {NoId})
    /\ Requests \subseteq Request
    /\ \A r \in Requests : r.crosscheck => r.names > 0
    /\ CandidateLimit \in Nat \ {0}
    /\ MaxResults \in Nat \ {0}
    /\ MaxSimilarFavorites \in Nat \ {0}

VARIABLES
    request,      \* the intent, the favourites and the settings
    stage,        \* the part of recommend() in hand
    left,         \* names, titles or favourites still to be asked about
    unresolved,   \* resolved.unresolved_required is not empty
    groups,       \* the lists of _find_candidates
    discovered,   \* discover_movies was called
    offered,      \* history: movies every source listed, before the year was looked at
    candidates,   \* the candidates, in order
    found,        \* history: the candidates before rating and ranking
    ratings,      \* batch_ratings
    similar,      \* similar_ids
    details,      \* history: what was loaded of each movie, None before
    movies        \* the result

vars == <<request, stage, left, unresolved, groups, discovered, offered,
          candidates, found, ratings, similar, details, movies>>

Stages == {"start", "resolve", "find", "crosscheck", "rate", "favorites",
           "load", "enrich", "done", "failed"}

TypeOK ==
    /\ request \in Requests
    /\ stage \in Stages
    /\ left \in Nat
    /\ unresolved \in BOOLEAN /\ discovered \in BOOLEAN
    /\ groups \in Seq(Seq(Movies \cup {NoId}))
    /\ offered \subseteq Movies
    /\ candidates \in Seq(Movies \cup {NoId})
    /\ found \in Seq(Movies) /\ Len(found) <= CandidateLimit
    /\ ratings \in [Movies -> Ratings \cup {None}]
    /\ similar \subseteq Movies
    /\ details \in [Movies -> Details \cup {None}]
    /\ movies \in Seq(Movies) /\ Len(movies) <= MaxResults

Init ==
    /\ request \in Requests
    /\ stage = "start" /\ left = 0
    /\ unresolved = FALSE /\ discovered = FALSE
    /\ groups = <<>> /\ candidates = <<>> /\ found = <<>> /\ movies = <<>>
    /\ offered = {} /\ similar = {}
    /\ ratings = [m \in Movies |-> None]
    /\ details = [m \in Movies |-> None]

Ids(s) == ToSet(s) \ {NoId}

ChosenOnes == <<candidates, found, ratings, similar, details, movies>>

-----------------------------------------------------------------------------
\* Lists.  An order is a set of pairs of positions, not an operator.

\* the elements of s at the positions in P, in the strict order R
Arrange(s, P, R) ==
    LET place(i) == Cardinality({j \in P : <<j, i>> \in R}) + 1
    IN  [k \in 1..Cardinality(P) |-> s[CHOOSE i \in P : place(i) = k]]

Keep(s, P) == Arrange(s, P, {p \in P \X P : p[1] < p[2]})

\* the elements of s that are in S, in the order they have
Filter(s, S) == Keep(s, {i \in DOMAIN s : s[i] \in S})

Deduplicate(s) ==
    Keep(s, {i \in DOMAIN s : s[i] # NoId /\ \A j \in DOMAIN s : s[j] = s[i] => i <= j})

SortUnstable(s, key) ==
    Arrange(s, DOMAIN s, {p \in (DOMAIN s) \X (DOMAIN s) :
                            \/ key[s[p[1]]] > key[s[p[2]]]
                            \/ key[s[p[1]]] = key[s[p[2]]] /\ p[1] > p[2]})

\* list.sort(key, reverse=True): the larger key first, equal keys in the order they had
SortDescending(s, key) ==
    Arrange(s, DOMAIN s, {p \in (DOMAIN s) \X (DOMAIN s) :
                            \/ key[s[p[1]]] > key[s[p[2]]]
                            \/ key[s[p[1]]] = key[s[p[2]]] /\ p[1] < p[2]})

-----------------------------------------------------------------------------
\* Resolution of the required names.

Start ==
    /\ stage = "start"
    /\ IF HasBounds(request.imdb) /\ ~request.omdb
       THEN stage' = "failed" /\ UNCHANGED left
       ELSE stage' = "resolve" /\ left' = request.names
    /\ UNCHANGED <<request, unresolved, groups, discovered, offered, ChosenOnes>>

\* every name is looked up, even after one was not found
ResolveName ==
    /\ stage = "resolve" /\ left > 0
    /\ left' = left - 1
    /\ \E known \in BOOLEAN : unresolved' = (unresolved \/ ~known)
    /\ UNCHANGED <<request, stage, groups, discovered, offered, ChosenOnes>>

Resolved ==
    /\ stage = "resolve" /\ left = 0
    /\ stage' = IF unresolved THEN "done" ELSE "find"
    /\ left' = IF request.similar_to > 0 THEN request.similar_to ELSE request.titles
    /\ UNCHANGED <<request, unresolved, groups, discovered, offered, ChosenOnes>>
-----------------------------------------------------------------------------
\* Candidates.

\* An unknown title gives no movie.  get_similar is asked when the
\* recommendations are fewer than the candidates wanted.
SimilarLists ==
    {<<>>} \cup
    {IF Len(recommended) < CandidateLimit THEN recommended \o alike ELSE recommended :
        recommended \in Answers, alike \in Answers}

\* the page discover_movies answers, out of the one it would answer for any year
Discovered(page) ==
    Filter(page, {NoId} \cup {m \in Movies : Between(IntegerLowerBound(request.year),
                                                    IntegerUpperBound(request.year), Year[m])})

IntersectCandidates(lists) ==
    Filter(lists[1], {m \in Movies : \A i \in DOMAIN lists : m \in ToSet(lists[i])})

NeedsRatings == HasBounds(request.imdb) \/ request.prefersImdb \/ request.byImdb

ToFavorites ==
    /\ stage' = IF request.favorites > 0 THEN "favorites" ELSE "load"
    /\ left' = IF request.favorites > MaxSimilarFavorites
               THEN MaxSimilarFavorites ELSE request.favorites

\* duplicates go, the limit is applied, and nothing left ends the request
Shortlist(list) ==
    LET unique == Deduplicate(list)
        kept == SubSeq(unique, 1, IF Len(unique) < CandidateLimit
                                  THEN Len(unique) ELSE CandidateLimit)
    IN  /\ candidates' = kept /\ found' = kept
        /\ IF kept = <<>> THEN stage' = "done" /\ left' = 0
           ELSE IF NeedsRatings THEN stage' = "rate" /\ left' = 0
           ELSE ToFavorites
        /\ UNCHANGED <<request, unresolved, ratings, similar, details, movies>>

Gather(list) ==
    /\ candidates' = list
    /\ stage' = "crosscheck" /\ left' = 0
    /\ UNCHANGED <<request, unresolved, discovered, offered, found, ratings, similar, details, movies>>

\* one required title to be similar to; the lists are intersected after the last
FindSimilar ==
    /\ stage = "find" /\ request.similar_to > 0
    /\ \E list \in SimilarLists :
        LET lists == Append(groups, list) IN
        IF left > 1
        THEN /\ groups' = lists /\ left' = left - 1
             /\ UNCHANGED <<request, stage, unresolved, discovered, offered, ChosenOnes>>
        ELSE Gather(IntersectCandidates(lists)) /\ groups' = <<>>

\* one required title; a title without an exact match is dropped
FindTitle ==
    /\ stage = "find" /\ request.similar_to = 0 /\ request.titles > 0
    /\ \E match \in {<<>>} \cup {<<m>> : m \in Movies} :
        IF left > 1
        THEN /\ candidates' = candidates \o match /\ left' = left - 1
             /\ UNCHANGED <<request, stage, unresolved, discovered, offered, found,
                            ratings, similar, details, movies>>
        ELSE Gather(candidates \o match)
    /\ UNCHANGED groups

OnlyPreferences == request.similar_to = 0 /\ request.titles = 0

FindPreferred ==
    /\ stage = "find" /\ OnlyPreferences /\ request.preferred
    /\ \E list \in SimilarLists : Gather(list)
    /\ UNCHANGED groups

Discover ==
    /\ stage = "find" /\ OnlyPreferences /\ ~request.preferred
    /\ \E page \in Answers :
        /\ offered' = Ids(page)
        /\ Shortlist(Discovered(page))
    /\ discovered' = TRUE
    /\ UNCHANGED groups

CrossCheck ==
    /\ stage = "crosscheck"
    /\ IF request.crosscheck
       THEN \E page \in Answers :
                /\ discovered' = TRUE
                /\ offered' = Ids(candidates) \cap Ids(page)
                /\ Shortlist(Filter(candidates, Ids(Discovered(page))))
       ELSE /\ offered' = Ids(candidates)
            /\ Shortlist(candidates)
            /\ UNCHANGED discovered
    /\ UNCHANGED groups
-----------------------------------------------------------------------------
\* Rating and ranking.

RatingKeysNoneFirst(batch) == [m \in Movies |-> IF batch[m] = None THEN 11 ELSE batch[m]]
RatingKeys(batch) == [m \in Movies |-> IF batch[m] = None THEN -1 ELSE batch[m]]
SimilarKeys(ids) == [m \in Movies |-> IF m \in ids THEN 1 ELSE 0]

\* An outage of OMDb in the whole batch is raised: see ToolFails.
RateCandidates ==
    /\ stage = "rate"
    /\ \E batch \in [Ids(candidates) -> IF request.omdb THEN Ratings \cup {None} ELSE {None}] :
        LET known == [m \in Movies |-> IF m \in DOMAIN batch THEN batch[m] ELSE None]
            inRange == Filter(candidates, {m \in Movies : RangeContains(request.imdb, known[m])})
        IN  /\ ratings' = known
            /\ candidates' = IF request.byImdb THEN SortDescending(inRange, RatingKeys(known))
                             ELSE inRange
    /\ ToFavorites
    /\ UNCHANGED <<request, unresolved, groups, discovered, offered, found, similar, details, movies>>

\* get_similar for one favourite; a failure is skipped
AskFavorite ==
    /\ stage = "favorites"
    /\ \E answer \in Answers \cup {<<>>} :
        /\ similar' = similar \cup Ids(answer)
        /\ IF left > 1
           THEN left' = left - 1 /\ UNCHANGED <<stage, candidates>>
           ELSE /\ left' = 0 /\ stage' = "load"
                /\ candidates' = SortDescending(candidates, SimilarKeys(similar'))
    /\ UNCHANGED <<request, unresolved, groups, discovered, offered, found, ratings, details, movies>>
-----------------------------------------------------------------------------
\* Loading, the last check, and the optional information.

\* the rating of the movie, or the one of the batch
ImdbRating(m, loaded) == IF loaded.imdb # None THEN loaded.imdb ELSE ratings[m]

MatchesTrustBatch(m, loaded) == loaded.meets /\ RangeContains(request.year, Year[m])
MatchesRequired(m, loaded) ==
    /\ loaded.meets
    /\ RangeContains(request.year, Year[m])
    /\ RangeContains(request.imdb, ImdbRating(m, loaded))

Full == Len(movies) >= MaxResults

LoadMovie ==
    /\ stage = "load" /\ candidates # <<>> /\ ~Full
    /\ LET m == Head(candidates) IN
       \E loaded \in [meets : BOOLEAN, imdb : IF request.omdb THEN Ratings \cup {None} ELSE {None}] :
        /\ details' = [details EXCEPT ![m] = loaded]
        /\ movies' = IF MatchesRequired(m, loaded) THEN Append(movies, m) ELSE movies
    /\ candidates' = Tail(candidates)
    /\ UNCHANGED <<request, stage, left, unresolved, groups, discovered, offered, found, ratings, similar>>

Loaded ==
    /\ stage = "load" /\ (candidates = <<>> \/ Full)
    /\ stage' = "enrich" /\ left' = Len(movies)
    /\ UNCHANGED <<request, unresolved, groups, discovered, offered, ChosenOnes>>

\* get_watch_providers and get_videos for one movie; failures leave the fields empty
EnrichMovie ==
    /\ stage = "enrich" /\ left > 0
    /\ left' = left - 1
    /\ UNCHANGED <<request, stage, unresolved, groups, discovered, offered, ChosenOnes>>

Respond ==
    /\ stage = "enrich" /\ left = 0
    /\ stage' = "done"
    /\ UNCHANGED <<request, left, unresolved, groups, discovered, offered, ChosenOnes>>
-----------------------------------------------------------------------------
\* The calls whose failure fails the recommendation.
RequiredCall ==
    \/ stage = "resolve" /\ left > 0
    \/ stage = "find"
    \/ stage = "crosscheck" /\ request.crosscheck
    \/ stage = "rate"
    \/ stage = "load" /\ candidates # <<>> /\ ~Full

ToolFails ==
    /\ RequiredCall
    /\ stage' = "failed"
    /\ UNCHANGED <<request, left, unresolved, groups, discovered, offered, ChosenOnes>>

Next ==
    \/ Start \/ ResolveName \/ Resolved
    \/ FindSimilar \/ FindTitle \/ FindPreferred \/ Discover \/ CrossCheck
    \/ RateCandidates \/ AskFavorite
    \/ LoadMovie \/ Loaded \/ EnrichMovie \/ Respond
    \/ ToolFails

Spec == Init /\ [][Next]_vars
-----------------------------------------------------------------------------
\* Properties.

Fits(m) ==
    /\ details[m] # None
    /\ details[m].meets
    /\ RangeContains(request.year, Year[m])
    /\ RangeContains(request.imdb, ImdbRating(m, details[m]))

\* Required genres, people, runtime, years and ratings hold of every movie
\* returned, whether its IMDb rating came with the batch, with the movie or
\* not at all.  Keywords, companies and providers are not in what is loaded of
\* a movie: when one is required, discover_movies listed the movie.  Nothing
\* is returned when a required name is unknown (README: "Aucun résultat
\* approximatif n'est ajouté").  Required titles play no part beside a required
\* similar_to: the code does not look at them then (_find_candidates).
MeetsRequired ==
    \A m \in ToSet(movies) :
        /\ Fits(m)
        /\ m \in ToSet(found) /\ m \in offered
        /\ request.crosscheck => discovered
        /\ ~unresolved

Position(m) == CHOOSE i \in DOMAIN found : found[i] = m

\* by IMDb rating if that sort was asked for, then as TMDB listed them
RanksBefore(c, m) ==
    IF request.byImdb /\ ratings[c] # ratings[m]
    THEN ratings[m] = None \/ (ratings[c] # None /\ ratings[c] > ratings[m])
    ELSE Position(c) < Position(m)

\* The order the code means: close to a favourite first.
Precedes(c, m) ==
    \/ c \in similar /\ m \notin similar
    \/ (c \in similar <=> m \in similar) /\ RanksBefore(c, m)

\* The two sorts, one after the other, and the loop that stops when it has
\* enough give the results in that order, each once.
ResultOrder ==
    \A i, j \in DOMAIN movies : i < j => Precedes(movies[i], movies[j])

\* The limit on results never prefers a movie to one that comes before it: a
\* candidate before a returned one was out of the IMDb range, was refused
\* when it was loaded, or is returned too.
NothingBetterSkipped ==
    \A m \in ToSet(movies), c \in ToSet(found) :
        Precedes(c, m) /\ RangeContains(request.imdb, ratings[c])
            => c \in ToSet(movies) \/ (details[c] # None /\ ~Fits(c))

\* With fewer results than the limit nothing fitting was lost on the way:
\* the bounds sent to discover_movies hide no year that the required range
\* admits, every candidate was loaded, and a refused one does not fit.
NoneMissed ==
    stage = "done" /\ Len(movies) < MaxResults =>
        /\ Len(found) < CandidateLimit =>
            \A m \in offered : RangeContains(request.year, Year[m]) => m \in ToSet(found)
        /\ \A m \in ToSet(found) :
            \/ ~RangeContains(request.imdb, ratings[m])
            \/ m \in ToSet(movies)
            \/ details[m] # None /\ ~Fits(m)

\* Preferences never become silent exclusions (src/README.md:252-253): when
\* nothing is required of the sources, "no exact match" is answered only
\* after discover_movies was asked without the preference.
PreferencesNeverExclude ==
    stage = "done" /\ movies = <<>> /\ ~unresolved /\ OnlyPreferences => discovered
=============================================================================
