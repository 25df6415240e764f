------------------------------ MODULE Sessions ------------------------------
(***************************************************************************)
(* Sign-in, refresh and sign-out: internal/auth/session.go,                *)
(* internal/server/handle_auth.go and issueTokenPairAt in                  *)
(* internal/server/response.go, with the identity stores they ask.         *)
(*                                                                         *)
(* A login yields a chain of refresh tokens: every refresh takes the       *)
(* current one out of an in-memory map (Rotate), asks who the user is, and *)
(* stores a successor.  A failed refresh may put the token back (Restore). *)
(* Handlers run concurrently, and so do logout and the cleanup goroutine.  *)
(* Local users are looked up in the database, LDAP users are revalidated   *)
(* against the directory with a grace window for its outages, OIDC users   *)
(* are taken from the session.                                             *)
(*                                                                         *)
(* A tick of the clock stands for minutes, a request for seconds: only a   *)
(* request that waits for the directory may see the clock advance.         *)
(* Left out: passwords, rate limits, roles, cookies' attributes, audit.    *)
(***************************************************************************)
EXTENDS Integers, FiniteSets

CONSTANTS
    Users,        \* accounts of the identity stores
    Placements,   \* which store may hold each user: "local", "ldap" or "oidc"
    Logins,       \* sign-ins that may happen, each once
    Owner,        \* the user of each login
    Handlers,     \* concurrent requests to /auth/login and /auth/refresh
    NoSession,    \* a handler that holds no rotated session
    Never,        \* the user has not been removed
    Grace,        \* ldapGracePeriod (5 min)
    AccessTTL,    \* AccessTokenLifetime (15 min)
    RefreshTTL,   \* RefreshLifetimeFor (1 h for LDAP and OIDC, 7 days)
    MaxTokens,    \* bound on the refresh tokens of a login
    MaxTime       \* bound on the clock

Providers == {"local", "ldap", "oidc"}

ASSUME ConstantsOK ==
    /\ Placements \subseteq [Users -> Providers]
    /\ Owner \in [Logins -> Users]
    /\ Grace \in Nat
    /\ AccessTTL \in Nat
    /\ RefreshTTL \in [Providers -> Nat]
    /\ MaxTokens \in Nat
    /\ MaxTime \in Nat
    /\ Never \notin Nat

VARIABLES
    clock,
    provider,    \* the store that holds each user; never changes
    present,     \* users that exist in their identity store
    sessions,    \* SessionStore.sessions: the refresh tokens that are live
    handler,     \* what each handler is doing and the session it rotated out
    issued,      \* how many refresh tokens a login was given
    \* history, read by the properties only
    access,      \* when the login's latest access token expires, 0 if none
    removedAt,   \* when the user was removed from its store, or Never
    live,        \* logins that nothing has ended yet
    revoked,     \* refresh tokens that were logged out
    rejected,    \* logins whose user the directory has reported gone
    unanswered   \* logins for whose lookup the database gave no answer

world == <<clock, provider, present, removedAt>>
tokens == <<issued, access>>
ends == <<live, revoked, rejected, unanswered>>

vars == <<world, sessions, handler, tokens, ends>>

Time == 0..MaxTime

\* RefreshSession; <<login, n>> is the token.
Session == [login : Logins, n : 1..MaxTokens, expires : Nat, revalidated : Time]

Idle == [step |-> "idle", login |-> NoSession, session |-> NoSession, stamp |-> 0]

\* What a handler does, for which login, with which session rotated out, and
\* the LastRevalidated of the tokens it will issue.
Handler == [step : {"idle", "resolve", "mint"}, login : Logins \cup {NoSession},
            session : Session \cup {NoSession}, stamp : Time]

ASSUME NoSessionOK == NoSession \notin Session /\ NoSession \notin Logins

ProviderOf(l) == provider[Owner[l]]
Expired(s) == clock > s.expires
Of(l, S) == {s \in S : s.login = l}

----------------------------------------------------------------------------

Init ==
    /\ clock = 0
    /\ provider \in Placements
    /\ present = Users
    /\ sessions = {}
    /\ handler = [h \in Handlers |-> Idle]
    /\ issued = [l \in Logins |-> 0]
    /\ access = [l \in Logins |-> 0]
    /\ removedAt = [u \in Users |-> Never]
    /\ live = {}
    /\ revoked = {}
    /\ rejected = {}
    /\ unanswered = {}

\* handleLogin, the OIDC callback and the mobile exchange, up to the token
\* issue: the identity store has confirmed the user.
Login(h, l) ==
    /\ handler[h] = Idle
    /\ issued[l] = 0
    /\ \A g \in Handlers : handler[g].login # l
    /\ Owner[l] \in present
    /\ handler' = [handler EXCEPT ![h] =
           [step |-> "mint", login |-> l, session |-> NoSession, stamp |-> clock]]
    /\ UNCHANGED <<world, sessions, tokens, ends>>

\* MUTANT: the token is only peeked at, as before the atomic Rotate.
RotatePeeks(h, s) ==
    /\ handler[h] = Idle
    /\ ~Expired(s)
    /\ handler' = [handler EXCEPT ![h] =
           [step |-> "resolve", login |-> s.login, session |-> s, stamp |-> clock]]
    /\ UNCHANGED <<world, sessions, tokens, ends>>

\* handleRefresh: Rotate removes the token, and reports it when still valid.
\* A token that is not in the map is answered 401 and changes nothing.
Rotate(h, s) ==
    /\ handler[h] = Idle
    /\ sessions' = sessions \ {s}
    /\ \/ /\ ~Expired(s)
          /\ handler' = [handler EXCEPT ![h] =
                 [step |-> "resolve", login |-> s.login, session |-> s, stamp |-> clock]]
          /\ live' = live
       \/ /\ Expired(s)
          /\ handler' = handler
          /\ live' = live \ {s.login}
    /\ UNCHANGED <<world, tokens, revoked, rejected, unanswered>>

\* The refresh goes on with the user it found.
Accept(h, stamp) ==
    /\ handler' = [handler EXCEPT ![h] = [step |-> "mint", login |-> handler[h].login,
                                          session |-> handler[h].session, stamp |-> stamp]]
    /\ UNCHANGED <<world, sessions, tokens, ends>>

\* The refresh fails and the token is gone for good.
Reject(h) ==
    /\ handler' = [handler EXCEPT ![h] = Idle]
    /\ UNCHANGED <<world, sessions, tokens, revoked>>

\* MUTANT: Restore without its test for a nil session.
RestoreUnchecked(h) ==
    /\ handler' = [handler EXCEPT ![h] = Idle]
    /\ sessions' = sessions \cup {handler[h].session}
    /\ UNCHANGED <<world, tokens, ends>>

\* Restore: the refresh fails and the token is put back; a nil session is not.
Restore(h) ==
    /\ handler' = [handler EXCEPT ![h] = Idle]
    /\ sessions' = sessions \cup ({handler[h].session} \ {NoSession})
    /\ UNCHANGED <<world, tokens, ends>>

Resolving(h, p) == handler[h].step = "resolve" /\ ProviderOf(handler[h].login) = p

\* GetUserByID answers "not found" also when the query failed.
ResolveLocal(h) ==
    /\ Resolving(h, "local")
    /\ LET l == handler[h].login IN
       \/ Owner[l] \in present /\ Accept(h, handler[h].stamp)
       \/ Owner[l] \notin present /\ Reject(h) /\ live' = live \ {l} /\ UNCHANGED <<rejected, unanswered>>
       \/ Reject(h) /\ unanswered' = unanswered \cup {l} /\ UNCHANGED <<live, rejected>>

ResolveOidc(h) ==
    /\ Resolving(h, "oidc")
    /\ Accept(h, handler[h].stamp)

\* revalidateLDAPSession: the directory confirms the user ...
LdapConfirmed(h) ==
    /\ Resolving(h, "ldap")
    /\ Owner[handler[h].login] \in present
    /\ Accept(h, clock)

\* MUTANT: every failed revalidation restores the session.
LdapRejectedRestores(h) ==
    /\ Resolving(h, "ldap")
    /\ Owner[handler[h].login] \notin present
    /\ handler' = [handler EXCEPT ![h] = Idle]
    /\ sessions' = sessions \cup {handler[h].session}
    /\ rejected' = rejected \cup {handler[h].login}
    /\ UNCHANGED <<world, tokens, live, revoked, unanswered>>

\* ... or knows no such entry ...
LdapRejected(h) ==
    /\ Resolving(h, "ldap")
    /\ Owner[handler[h].login] \notin present
    /\ Reject(h)
    /\ UNCHANGED unanswered
    /\ live' = live \ {handler[h].login}
    /\ rejected' = rejected \cup {handler[h].login}

WithinGrace(s) == clock - s.revalidated <= Grace

\* MUTANT: a fallback starts the grace window anew.
LdapGraceRestarts(h) ==
    /\ Resolving(h, "ldap")
    /\ WithinGrace(handler[h].session)
    /\ Accept(h, clock)

\* ... or cannot be asked: the cached identity serves for a while, under the
\* time of the last revalidation ...
LdapGrace(h) ==
    /\ Resolving(h, "ldap")
    /\ WithinGrace(handler[h].session)
    /\ Accept(h, handler[h].session.revalidated)

\* ... and after that the client has to come back with the same token.
LdapUnavailable(h) ==
    /\ Resolving(h, "ldap")
    /\ ~WithinGrace(handler[h].session)
    /\ Restore(h)

\* issueTokenPairAt: an access token, and a refresh token with a new lifetime.
Mint(h) ==
    /\ handler[h].step = "mint"
    /\ LET l == handler[h].login IN
       /\ issued[l] < MaxTokens
       /\ issued' = [issued EXCEPT ![l] = @ + 1]
       /\ sessions' = sessions \cup
              {[login |-> l, n |-> issued[l] + 1, revalidated |-> handler[h].stamp,
                expires |-> clock + RefreshTTL[ProviderOf(l)]]}
       /\ access' = [access EXCEPT ![l] = clock + AccessTTL]
       /\ live' = live \cup {l}
    /\ handler' = [handler EXCEPT ![h] = Idle]
    /\ UNCHANGED <<world, revoked, rejected, unanswered>>

\* MUTANT: the failure of a refresh does not restore the session.
MintFailsForgets(h) ==
    /\ handler[h].step = "mint"
    /\ Reject(h)
    /\ UNCHANGED <<live, rejected, unanswered>>

\* issueTokenPairAt fails: a login answers 500, a refresh restores first.
MintFails(h) ==
    /\ handler[h].step = "mint"
    /\ Restore(h)

\* handleLogout with the cookie <<l, n>>, the current token or an older one.
Logout(l, n) ==
    LET ended == {s \in sessions : s.login = l /\ s.n = n} IN
    /\ sessions' = sessions \ ended
    /\ live' = IF ended = {} THEN live ELSE live \ {l}
    /\ revoked' = revoked \cup {<<l, n>>}
    /\ UNCHANGED <<world, handler, tokens, rejected, unanswered>>

\* StartCleanup evicts an expired session.
Cleanup(s) ==
    /\ Expired(s)
    /\ sessions' = sessions \ {s}
    /\ live' = live \ {s.login}
    /\ UNCHANGED <<world, handler, tokens, revoked, rejected, unanswered>>

\* The account is deleted: handleDeleteUser, or an administrator of the
\* directory or of the identity provider.
RemoveUser(u) ==
    /\ u \in present
    /\ present' = present \ {u}
    /\ removedAt' = [removedAt EXCEPT ![u] = clock]
    /\ UNCHANGED <<clock, provider, sessions, handler, tokens, ends>>

\* The process restarts: the map was only in memory.
Restart ==
    /\ sessions' = {}
    /\ handler' = [h \in Handlers |-> Idle]
    /\ live' = {}
    /\ UNCHANGED <<world, tokens, revoked, rejected, unanswered>>

\* Everything but a call to the directory ends within the tick.
Prompt(h) == handler[h].step = "mint" \/ Resolving(h, "local") \/ Resolving(h, "oidc")

Tick ==
    /\ clock < MaxTime
    /\ \A h \in Handlers : ~Prompt(h)
    /\ clock' = clock + 1
    /\ UNCHANGED <<provider, present, sessions, handler, tokens, removedAt, ends>>

Refresh(h) ==
    \/ \E s \in sessions : Rotate(h, s)
    \/ ResolveLocal(h)
    \/ ResolveOidc(h)
    \/ LdapConfirmed(h)
    \/ LdapRejected(h)
    \/ LdapGrace(h)
    \/ LdapUnavailable(h)
    \/ Mint(h)
    \/ MintFails(h)

Next ==
    \/ \E h \in Handlers : Refresh(h) \/ \E l \in Logins : Login(h, l)
    \/ \E l \in Logins : \E n \in 1..issued[l] : Logout(l, n)
    \/ \E s \in sessions : Cleanup(s)
    \/ \E u \in Users : RemoveUser(u)
    \/ Restart
    \/ Tick

Spec == Init /\ [][Next]_vars

----------------------------------------------------------------------------

TypeOK ==
    /\ clock \in Time
    /\ provider \in Placements
    /\ present \subseteq Users
    /\ sessions \subseteq Session
    /\ handler \in [Handlers -> Handler]
    /\ issued \in [Logins -> 0..MaxTokens]
    /\ access \in [Logins -> Nat]
    /\ removedAt \in [Users -> Time \cup {Never}]
    /\ live \subseteq Logins
    /\ revoked \subseteq Logins \X (1..MaxTokens)
    /\ rejected \subseteq Logins
    /\ unanswered \subseteq Logins

Holds(h, l) == handler[h].login = l

\* However refreshes, failures and logouts interleave, a login has at most one
\* refresh token: a live one, or one that a single handler has rotated out
\* (session.go Rotate: "two concurrent Rotate calls for the same token
\* therefore can never both succeed").
OneToken ==
    \A l \in Logins :
        /\ \A s, t \in Of(l, sessions) : s = t
        /\ \A g, h \in Handlers : Holds(g, l) /\ Holds(h, l) => g = h
        /\ \A h \in Handlers : Holds(h, l) => Of(l, sessions) = {}

HasToken(l) == Of(l, sessions) # {} \/ \E h \in Handlers : Holds(h, l)

\* A login that was not logged out, has not expired and whose user was not
\* found missing still has its token, after any refresh whose token issue or
\* directory lookup failed (issueTokenPairAt, revalidateLDAPSession, Restore).
SessionNotLost == \A l \in live \ unanswered : HasToken(l)

\* The same after any failure (handleRefresh: "If post-rotate work
\* (issueTokenPair, user lookup) fails for the winner, we Restore the session
\* so the client can retry").  Not so: a failed query is taken for a user that
\* does not exist.
FailedRefreshRestores == \A l \in live : HasToken(l)

\* A user removed from the database or the directory keeps access for at most
\* one access token, and in LDAP's case the grace window before it
\* (issueTokenPairAt keeps the old revalidation time, so that an outage cannot
\* extend the window).
RemovedLosesAccess ==
    \A l \in Logins : LET u == Owner[l] IN
        removedAt[u] # Never =>
            /\ provider[u] = "local" => access[l] <= removedAt[u] + AccessTTL
            /\ provider[u] = "ldap" => access[l] <= removedAt[u] + Grace + AccessTTL

\* A login the directory has rejected never gets a token again, through no
\* other handler and no restore (revalidateLDAPSession: "NO Restore").
RejectedStaysOut ==
    \A l \in rejected : Of(l, sessions) = {} /\ \A h \in Handlers : ~Holds(h, l)

\* The hour of an OIDC refresh token is the time within which a removal at the
\* identity provider takes effect (jwt.go OIDCRefreshTokenLifetime: "takes
\* effect within the hour").  Not so: every refresh starts a new hour.
RemovalPropagates ==
    \A l \in Logins : LET u == Owner[l] IN
        provider[u] = "oidc" /\ removedAt[u] # Never =>
            access[l] <= removedAt[u] + RefreshTTL["oidc"] + AccessTTL

\* A refresh token that was logged out is gone (session_test.go: "Whatever
\* happened, the token must be gone afterward").  Not so: a refresh in flight
\* at the logout may restore it.
RevokedStaysDead ==
    \A s \in sessions : <<s.login, s.n>> \notin revoked
=============================================================================
