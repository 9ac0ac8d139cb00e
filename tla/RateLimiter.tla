---------------------------- MODULE RateLimiter ----------------------------
(***************************************************************************)
(* AuthService.limit_attempts (backend/app/services/auth_service.py): the  *)
(* limit on log-in and sign-up attempts.  It is called from the request    *)
(* threads of one process; a thread reads the clock before it takes the    *)
(* lock, so it may enter with a reading that others have overtaken.        *)
(***************************************************************************)
EXTENDS Integers, Sequences

CONSTANTS Threads, Clients,
          Window,        \* 60 s in the code
          MaxAttempts,   \* 10 in the code
          MaxDelay,      \* longest time from the clock reading to the end of the locked block
          MaxTime        \* bound: the clock of a behaviour stops here

ASSUME LimitsAssumption ==
    /\ Window \in Nat \ {0} /\ MaxAttempts \in Nat \ {0}
    /\ MaxDelay \in Nat /\ MaxTime \in Nat

VARIABLES
    now,        \* time.monotonic()
    running,    \* calls between the clock reading and the end of the locked block
    attempts,   \* self._attempts; <<>> for a client without an entry
    log         \* history: for every accepted attempt, the reading and the time it was counted

vars == <<now, running, attempts, log>>

TypeOK ==
    /\ now \in Nat
    /\ running \subseteq [thread : Threads, client : Clients, clock : Nat]
    /\ attempts \in [Clients -> Seq(Nat)]
    /\ log \in [Clients -> Seq([clock : Nat, at : Nat])]

Init ==
    /\ now = 0
    /\ running = {}
    /\ attempts = [c \in Clients |-> <<>>]
    /\ log = [c \in Clients |-> <<>>]

-----------------------------------------------------------------------------
\* Time passes, but no thread waits longer than MaxDelay for the lock.
Tick ==
    /\ now < MaxTime
    /\ \A r \in running : now - r.clock < MaxDelay
    /\ now' = now + 1
    /\ UNCHANGED <<running, attempts, log>>

ReadClock(t, c) ==
    /\ \A r \in running : r.thread # t
    /\ running' = running \cup {[thread |-> t, client |-> c, clock |-> now]}
    /\ UNCHANGED <<now, attempts, log>>

NeverExpired(hit, n) == FALSE
ExpiredEarly(hit, n) == hit <= n - Window + 1
Expired(hit, n) == hit <= n - Window

\* The dictionary comprehension: clients whose last attempt is old lose their entry.
Pruned(n) ==
    [c \in Clients |-> IF attempts[c] # <<>> /\ ~Expired(attempts[c][Len(attempts[c])], n)
                       THEN attempts[c] ELSE <<>>]

\* The popleft loop stops at the first attempt that has not expired: it drops the first k.
Drops(s, n, k) ==
    /\ k \in 0..Len(s)
    /\ \A j \in 1..k : Expired(s[j], n)
    /\ k < Len(s) => ~Expired(s[k + 1], n)
Kept(s, k) == SubSeq(s, k + 1, Len(s))

FullAboveLimit(s) == Len(s) > MaxAttempts
Full(s) == Len(s) >= MaxAttempts

StampCutoff(n) == n - Window
Stamp(n) == n

\* The locked block, to its "append" or to its "raise": the pruned table stays either way.
Accept(r) ==
    LET mine == Pruned(r.clock)[r.client]
    IN  \E k \in 0..Len(mine) :
            /\ Drops(mine, r.clock, k) /\ ~Full(Kept(mine, k))
            /\ attempts' = [Pruned(r.clock) EXCEPT ![r.client] = Append(Kept(mine, k), Stamp(r.clock))]
            /\ log' = [log EXCEPT ![r.client] = Append(@, [clock |-> r.clock, at |-> now])]
            /\ running' = running \ {r}
            /\ UNCHANGED now

Refuse(r) ==
    LET mine == Pruned(r.clock)[r.client]
    IN  \E k \in 0..Len(mine) :
            /\ Drops(mine, r.clock, k) /\ Full(Kept(mine, k))
            /\ attempts' = [Pruned(r.clock) EXCEPT ![r.client] = Kept(mine, k)]
            /\ running' = running \ {r}
            /\ UNCHANGED <<now, log>>

Next ==
    \/ Tick
    \/ \E t \in Threads, c \in Clients : ReadClock(t, c)
    \/ \E r \in running : Accept(r) \/ Refuse(r)

Spec == Init /\ [][Next]_vars

-----------------------------------------------------------------------------
\* Of MaxAttempts + 1 attempts counted in a row for a client, the last comes at least
\* Window - MaxDelay after the first: the limit holds in every span shorter than that,
\* although a thread that was overtaken leaves the list out of order.
Age == Window - MaxDelay
Spaced(l) == \A k \in 1..(Len(l) - MaxAttempts) : l[k + MaxAttempts].at - l[k].at >= Age
RollingLimit == \A c \in Clients : Spaced(log[c])

\* A refused client really had MaxAttempts attempts counted less than Window + MaxDelay ago:
\* nobody is refused because of old attempts or because of another client.
RefusalJustified ==
    [][\A r \in running \ running' :
          UNCHANGED log =>
              LET mine == log[r.client]
              IN  /\ Len(mine) >= MaxAttempts
                  /\ mine[Len(mine) - MaxAttempts + 1].at > now - Window - MaxDelay]_vars

\* Why: the list s of a client is the end of its history l, never longer than the limit,
\* and at time t what was dropped from it was counted at least Age ago.
EndOf(s, l, t) ==
    LET old == Len(l) - Len(s)
    IN  /\ Len(s) <= MaxAttempts /\ old >= 0
        /\ \A j \in 1..Len(s) : s[j] = l[old + j].clock
        /\ \A j \in 1..old : l[j].at <= t - Age

\* History is in the order of counting, and no reading is older than MaxDelay when counted.
Dated(l, t) ==
    /\ \A j \in 1..Len(l) : l[j].at <= t /\ l[j].clock <= l[j].at /\ l[j].at <= l[j].clock + MaxDelay
    /\ \A j, k \in 1..Len(l) : j < k => l[j].at <= l[k].at

Remembers ==
    /\ TypeOK /\ RollingLimit
    /\ \A c \in Clients : EndOf(attempts[c], log[c], now) /\ Dated(log[c], now)
    /\ \A r \in running : r.clock <= now /\ now <= r.clock + MaxDelay

=============================================================================
