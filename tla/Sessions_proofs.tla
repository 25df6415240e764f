--------------------------- MODULE Sessions_proofs ---------------------------
(***************************************************************************)
(* What holds of sign-in, refresh and sign-out for any number of users,    *)
(* logins and concurrent handlers, and any lifetimes.                      *)
(*                                                                         *)
(* A handler that holds a session holds it alone, because Rotate removes   *)
(* it from the map and only Restore or Mint of that handler put one back;  *)
(* a login starts only when its login has no token yet.  Hence a token     *)
(* that is rejected was the only one (Ours).  The time a removed user      *)
(* keeps access follows from what a session knows of its last              *)
(* revalidation, and from the clock standing still between a handler's     *)
(* decision and its tokens (Dated).                                        *)
(***************************************************************************)
EXTENDS Sessions, TLAPS

\* Tokens are numbered from 1, and a handler works for the login whose session
\* it holds.
Ours ==
    /\ \A s \in sessions : s.n <= issued[s.login]
    /\ \A h \in Handlers : handler[h].session # NoSession =>
           /\ handler[h].session.login = handler[h].login
           /\ handler[h].session.n <= issued[handler[h].login]
    /\ \A h \in Handlers :
           /\ handler[h].step = "idle" => handler[h] = Idle
           /\ handler[h].step # "idle" => handler[h].login \in Logins
           /\ handler[h].step = "resolve" => handler[h].session # NoSession
    /\ \A h \in Handlers : handler[h].step # "idle" /\ handler[h].session = NoSession =>
           issued[handler[h].login] = 0
    /\ \A l \in rejected \cup live : issued[l] > 0

\* A revalidation of user u at time t: not later than now, nor than u's removal.
Dates(u, t) == t <= clock /\ (removedAt[u] # Never => t <= removedAt[u])

\* What a handler about to mint for user u knows.
MayMint(u, stamp) ==
    /\ provider[u] = "local" => (removedAt[u] # Never => removedAt[u] = clock)
    /\ provider[u] = "ldap" => Dates(u, stamp) /\ clock - stamp <= Grace

Dated ==
    /\ \A u \in Users : u \in present <=> removedAt[u] = Never
    /\ \A u \in Users : removedAt[u] # Never => removedAt[u] <= clock
    /\ \A l \in Logins : access[l] <= clock + AccessTTL
    /\ \A s \in sessions : ProviderOf(s.login) = "ldap" => Dates(Owner[s.login], s.revalidated)
    /\ \A h \in Handlers :
           /\ handler[h].session # NoSession /\ ProviderOf(handler[h].login) = "ldap" =>
                  Dates(Owner[handler[h].login], handler[h].session.revalidated)
           /\ handler[h].step = "mint" =>
                  MayMint(Owner[handler[h].login], handler[h].stamp)

IInv == TypeOK /\ Ours /\ OneToken /\ RejectedStaysOut /\ SessionNotLost
        /\ Dated /\ RemovedLosesAccess

USE ConstantsOK, NoSessionOK

\* What Init sets up satisfies the invariant.
LEMMA InitInvariant == Init => IInv
  <1> SUFFICES ASSUME Init PROVE IInv
    OBVIOUS
  <1>1. TypeOK
    BY DEF Init, TypeOK, Time, Handler, Idle
  <1>2. Ours
    BY DEF Init, Ours, Idle
  <1>3. OneToken
    BY DEF Init, OneToken, Of, Holds, Idle
  <1>4. RejectedStaysOut
    BY DEF Init, RejectedStaysOut
  <1>5. Dated
    BY DEF Init, Dated, Idle
  <1>7. SessionNotLost
    BY DEF Init, SessionNotLost
  <1>6. RemovedLosesAccess
    BY DEF Init, RemovedLosesAccess
  <1> QED
    BY <1>1, <1>2, <1>3, <1>4, <1>5, <1>6, <1>7 DEF IInv

\* How a lookup ends: with tokens to be issued, without the session, or with
\* the session put back.
Accepted(h, stamp) ==
    /\ handler[h].step = "resolve"
    /\ MayMint(Owner[handler[h].login], stamp)
    /\ Accept(h, stamp)

Rejected(h) ==
    /\ handler[h].step = "resolve"
    /\ Reject(h)
    /\ live' \subseteq live
    /\ rejected' \subseteq rejected \cup {handler[h].login}
    /\ unanswered \subseteq unanswered'
    /\ unanswered' \subseteq unanswered \cup {handler[h].login}
    /\ handler[h].login \notin live' \ unanswered'

Restored(h) == handler[h].step # "idle" /\ Restore(h)

\* The shapes of a step.
Steps ==
    \/ \E h \in Handlers, l \in Logins : Login(h, l)
    \/ \E h \in Handlers, s \in sessions : Rotate(h, s)
    \/ \E h \in Handlers, t \in Time : Accepted(h, t)
    \/ \E h \in Handlers : Rejected(h)
    \/ \E h \in Handlers : Restored(h)
    \/ \E h \in Handlers : Mint(h)
    \/ \E l \in Logins, n \in 1..MaxTokens : Logout(l, n)
    \/ \E s \in sessions : Cleanup(s)
    \/ \E u \in Users : RemoveUser(u)
    \/ Restart
    \/ Tick

\* Every step has one of these shapes; a lookup that succeeds may mint.
LEMMA StepShapes == IInv /\ Next => Steps
  <1> SUFFICES ASSUME IInv, Next PROVE Steps
    OBVIOUS
  <1> USE DEF IInv
  <1>t. ASSUME NEW h \in Handlers
        PROVE  handler[h] \in Handler /\ handler[h].stamp \in Time
    BY DEF TypeOK, Handler
  <1>r. ASSUME NEW h \in Handlers, handler[h].step = "resolve"
        PROVE  /\ handler[h].session \in Session
               /\ handler[h].session.revalidated \in Time
               /\ handler[h].login \in Logins
               /\ Owner[handler[h].login] \in Users
               /\ ProviderOf(handler[h].login) = provider[Owner[handler[h].login]]
    BY <1>t, <1>r DEF Ours, Handler, Session, ProviderOf
  <1>1. ASSUME NEW h \in Handlers, ResolveLocal(h) PROVE Steps
    <2>0. handler[h].step = "resolve" /\ provider[Owner[handler[h].login]] = "local"
      BY <1>1, <1>r DEF ResolveLocal, Resolving
    <2>1. CASE Owner[handler[h].login] \in present /\ Accept(h, handler[h].stamp)
      <3>1. removedAt[Owner[handler[h].login]] = Never
        BY <2>1, <2>0, <1>r DEF Dated
      <3> QED
        BY <3>1, <2>0, <2>1, <1>t DEF Steps, Accepted, MayMint
    <2>2. CASE Reject(h) /\ live' = live \ {handler[h].login} /\ UNCHANGED <<rejected, unanswered>>
      BY <2>0, <2>2 DEF Steps, Rejected
    <2>3. CASE /\ Reject(h)
               /\ unanswered' = unanswered \cup {handler[h].login}
               /\ UNCHANGED <<live, rejected>>
      BY <2>0, <2>3 DEF Steps, Rejected
    <2> QED
      BY <1>1, <2>1, <2>2, <2>3 DEF ResolveLocal
  <1>2. ASSUME NEW h \in Handlers, ResolveOidc(h) PROVE Steps
    <2>1. handler[h].step = "resolve" /\ provider[Owner[handler[h].login]] = "oidc"
      BY <1>2, <1>r DEF ResolveOidc, Resolving
    <2> QED
      BY <1>2, <2>1, <1>t DEF ResolveOidc, Steps, Accepted, MayMint
  <1>3. ASSUME NEW h \in Handlers, LdapConfirmed(h) PROVE Steps
    <2>1. handler[h].step = "resolve" /\ provider[Owner[handler[h].login]] = "ldap"
      BY <1>3, <1>r DEF LdapConfirmed, Resolving
    <2>2. removedAt[Owner[handler[h].login]] = Never /\ clock \in Time
      BY <1>3, <1>r, <2>1 DEF LdapConfirmed, Dated, TypeOK
    <2>3. MayMint(Owner[handler[h].login], clock)
      BY <2>1, <2>2 DEF MayMint, Dates, Time
    <2> QED
      BY <1>3, <2>1, <2>2, <2>3 DEF LdapConfirmed, Steps, Accepted
  <1>4. ASSUME NEW h \in Handlers, LdapRejected(h) PROVE Steps
    BY <1>4 DEF LdapRejected, Resolving, Steps, Rejected
  <1>5. ASSUME NEW h \in Handlers, LdapGrace(h) PROVE Steps
    <2>1. handler[h].step = "resolve" /\ provider[Owner[handler[h].login]] = "ldap"
      BY <1>5, <1>r DEF LdapGrace, Resolving
    <2>2. handler[h].session # NoSession
      BY <2>1 DEF Ours
    <2>3. MayMint(Owner[handler[h].login], handler[h].session.revalidated)
      BY <1>5, <1>r, <2>1, <2>2 DEF LdapGrace, WithinGrace, Dated, MayMint
    <2> QED
      BY <1>5, <1>r, <2>1, <2>3 DEF LdapGrace, Steps, Accepted
  <1>6. ASSUME NEW h \in Handlers, LdapUnavailable(h) PROVE Steps
    BY <1>6 DEF LdapUnavailable, Resolving, Steps, Restored
  <1>7. ASSUME NEW h \in Handlers, MintFails(h) PROVE Steps
    BY <1>7 DEF MintFails, Steps, Restored
  <1>8. ASSUME NEW l \in Logins, NEW n \in 1..issued[l], Logout(l, n) PROVE Steps
    <2>1. n \in 1..MaxTokens
      BY DEF TypeOK
    <2> QED
      BY <1>8, <2>1 DEF Steps
  <1> QED
    BY <1>1, <1>2, <1>3, <1>4, <1>5, <1>6, <1>7, <1>8 DEF Next, Refresh, Steps

\* Every action keeps every variable in its type.
LEMMA TypeStep == IInv /\ Steps => TypeOK'
  <1> SUFFICES ASSUME IInv, Steps PROVE TypeOK'
    OBVIOUS
  <1> USE DEF IInv, TypeOK, Time, world, tokens, ends
  <1>i. Idle \in Handler
    BY DEF Handler, Idle
  <1>1. ASSUME NEW h \in Handlers, NEW l \in Logins, Login(h, l) PROVE TypeOK'
    BY <1>1 DEF Login, Handler
  <1>2. ASSUME NEW h \in Handlers, NEW s \in sessions, Rotate(h, s) PROVE TypeOK'
    BY <1>2 DEF Rotate, Handler, Session
  <1>3. ASSUME NEW h \in Handlers, NEW t \in Time, Accepted(h, t) PROVE TypeOK'
    BY <1>3 DEF Accepted, Accept, Handler
  <1>4. ASSUME NEW h \in Handlers, Rejected(h) PROVE TypeOK'
    BY <1>4, <1>i DEF Rejected, Reject, Ours
  <1>5. ASSUME NEW h \in Handlers, Restored(h) PROVE TypeOK'
    BY <1>5, <1>i DEF Restored, Restore, Handler
  <1>6. ASSUME NEW h \in Handlers, Mint(h) PROVE TypeOK'
    BY <1>6, <1>i DEF Mint, Handler, Session, Ours, ProviderOf, Providers
  <1>7. ASSUME NEW l \in Logins, NEW n \in 1..MaxTokens, Logout(l, n) PROVE TypeOK'
    BY <1>7 DEF Logout
  <1>8. ASSUME NEW s \in sessions, Cleanup(s) PROVE TypeOK'
    BY <1>8 DEF Cleanup
  <1>9. ASSUME NEW u \in Users, RemoveUser(u) PROVE TypeOK'
    BY <1>9 DEF RemoveUser
  <1>10. ASSUME Restart PROVE TypeOK'
    BY <1>10, <1>i DEF Restart
  <1>11. ASSUME Tick PROVE TypeOK'
    BY <1>11 DEF Tick
  <1> QED
    BY <1>1, <1>2, <1>3, <1>4, <1>5, <1>6, <1>7, <1>8, <1>9, <1>10, <1>11 DEF Steps

\* A session in the map or in a handler stays numbered and with its login.
LEMMA OursStep == IInv /\ Steps => Ours'
  <1> SUFFICES ASSUME IInv, Steps PROVE Ours'
    OBVIOUS
  <1> USE DEF IInv, TypeOK, Time, world, tokens, ends, Handler, Session, Idle, Ours, OneToken, Of, Holds
  <1>1. ASSUME NEW h \in Handlers, NEW l \in Logins, Login(h, l) PROVE Ours'
    BY <1>1 DEF Login
  <1>2. ASSUME NEW h \in Handlers, NEW s \in sessions, Rotate(h, s) PROVE Ours'
    <2>1. s \in Session /\ s.login \in Logins /\ s.n <= issued[s.login] /\ s # NoSession
      OBVIOUS
    <2>2. \A g \in Handlers : handler'[g] = handler[g] \/
              handler'[g] = [step |-> "resolve", login |-> s.login, session |-> s, stamp |-> clock]
      BY <1>2 DEF Rotate
    <2>3. sessions' \subseteq sessions /\ issued' = issued /\ rejected' = rejected /\ live' \subseteq live
      BY <1>2 DEF Rotate
    <2> QED
      BY <2>1, <2>2, <2>3, SMTT(30)
  <1>3. ASSUME NEW h \in Handlers, NEW t \in Time, Accepted(h, t) PROVE Ours'
    BY <1>3 DEF Accepted, Accept
  <1>4. ASSUME NEW h \in Handlers, Rejected(h) PROVE Ours'
    BY <1>4 DEF Rejected, Reject
  <1>5. ASSUME NEW h \in Handlers, Restored(h) PROVE Ours'
    BY <1>5 DEF Restored, Restore
  <1>6. ASSUME NEW h \in Handlers, Mint(h) PROVE Ours'
    BY <1>6 DEF Mint
  <1>7. ASSUME NEW l \in Logins, NEW n \in 1..MaxTokens, Logout(l, n) PROVE Ours'
    BY <1>7 DEF Logout
  <1>8. ASSUME NEW s \in sessions, Cleanup(s) PROVE Ours'
    BY <1>8 DEF Cleanup
  <1>9. ASSUME NEW u \in Users, RemoveUser(u) PROVE Ours'
    BY <1>9 DEF RemoveUser
  <1>10. ASSUME Restart PROVE Ours'
    BY <1>10 DEF Restart
  <1>11. ASSUME Tick PROVE Ours'
    BY <1>11 DEF Tick, Prompt, Resolving
  <1> QED
    BY <1>1, <1>2, <1>3, <1>4, <1>5, <1>6, <1>7, <1>8, <1>9, <1>10, <1>11 DEF Steps

\* A token is taken out by one handler, and put back or succeeded by that one.
LEMMA OneTokenStep == IInv /\ Steps => OneToken'
  <1> SUFFICES ASSUME IInv, Steps PROVE OneToken'
    OBVIOUS
  <1> USE DEF IInv, TypeOK, Time, world, tokens, ends, Handler, Session, Idle, Ours, OneToken, Of, Holds
  <1>1. ASSUME NEW h \in Handlers, NEW l \in Logins, Login(h, l) PROVE OneToken'
    BY <1>1 DEF Login
  <1>2. ASSUME NEW h \in Handlers, NEW s \in sessions, Rotate(h, s) PROVE OneToken'
    <2>1. s.login \in Logins /\ (\A g \in Handlers : handler[g].login # s.login)
      BY DEF OneToken, Of, Holds
    <2>2. \A t \in sessions : t.login = s.login => t = s
      BY DEF OneToken, Of
    <2>3. sessions' = sessions \ {s} /\ rejected' = rejected /\ unanswered' = unanswered
      BY <1>2 DEF Rotate
    <2>4. \/ /\ handler' = [handler EXCEPT ![h] =
                   [step |-> "resolve", login |-> s.login, session |-> s, stamp |-> clock]]
             /\ live' = live
          \/ handler' = handler /\ live' = live \ {s.login}
      BY <1>2 DEF Rotate
    <2>5. \A g \in Handlers : handler'[g] = handler[g] \/ (g = h /\ handler'[g].login = s.login)
      BY <2>4
    <2> QED
      BY <2>1, <2>2, <2>3, <2>5
  <1>3. ASSUME NEW h \in Handlers, NEW t \in Time, Accepted(h, t) PROVE OneToken'
    BY <1>3 DEF Accepted, Accept
  <1>4. ASSUME NEW h \in Handlers, Rejected(h) PROVE OneToken'
    BY <1>4 DEF Rejected, Reject
  <1>5. ASSUME NEW h \in Handlers, Restored(h) PROVE OneToken'
    BY <1>5 DEF Restored, Restore
  <1>6. ASSUME NEW h \in Handlers, Mint(h) PROVE OneToken'
    BY <1>6 DEF Mint
  <1>7. ASSUME NEW l \in Logins, NEW n \in 1..MaxTokens, Logout(l, n) PROVE OneToken'
    BY <1>7 DEF Logout
  <1>8. ASSUME NEW s \in sessions, Cleanup(s) PROVE OneToken'
    BY <1>8 DEF Cleanup
  <1>9. ASSUME NEW u \in Users, RemoveUser(u) PROVE OneToken'
    BY <1>9 DEF RemoveUser
  <1>10. ASSUME Restart PROVE OneToken'
    BY <1>10 DEF Restart
  <1>11. ASSUME Tick PROVE OneToken'
    BY <1>11 DEF Tick, Prompt, Resolving
  <1> QED
    BY <1>1, <1>2, <1>3, <1>4, <1>5, <1>6, <1>7, <1>8, <1>9, <1>10, <1>11 DEF Steps

\* The rejected token was the login's only one.
LEMMA RejectedStep == IInv /\ Steps => RejectedStaysOut'
  <1> SUFFICES ASSUME IInv, Steps PROVE RejectedStaysOut'
    OBVIOUS
  <1> USE DEF IInv, TypeOK, Time, world, tokens, ends, Handler, Session, Idle, Ours, OneToken, RejectedStaysOut, Of, Holds
  <1>1. ASSUME NEW h \in Handlers, NEW l \in Logins, Login(h, l) PROVE RejectedStaysOut'
    BY <1>1 DEF Login
  <1>2. ASSUME NEW h \in Handlers, NEW s \in sessions, Rotate(h, s) PROVE RejectedStaysOut'
    <2>1. s.login \notin rejected
      OBVIOUS
    <2>2. \A g \in Handlers : handler'[g] = handler[g] \/ handler'[g].login = s.login
      BY <1>2 DEF Rotate
    <2>3. sessions' \subseteq sessions /\ rejected' = rejected
      BY <1>2 DEF Rotate
    <2> QED
      BY <2>1, <2>2, <2>3
  <1>3. ASSUME NEW h \in Handlers, NEW t \in Time, Accepted(h, t) PROVE RejectedStaysOut'
    BY <1>3 DEF Accepted, Accept
  <1>4. ASSUME NEW h \in Handlers, Rejected(h) PROVE RejectedStaysOut'
    BY <1>4 DEF Rejected, Reject
  <1>5. ASSUME NEW h \in Handlers, Restored(h) PROVE RejectedStaysOut'
    BY <1>5 DEF Restored, Restore
  <1>6. ASSUME NEW h \in Handlers, Mint(h) PROVE RejectedStaysOut'
    BY <1>6 DEF Mint
  <1>7. ASSUME NEW l \in Logins, NEW n \in 1..MaxTokens, Logout(l, n) PROVE RejectedStaysOut'
    BY <1>7 DEF Logout
  <1>8. ASSUME NEW s \in sessions, Cleanup(s) PROVE RejectedStaysOut'
    BY <1>8 DEF Cleanup
  <1>9. ASSUME NEW u \in Users, RemoveUser(u) PROVE RejectedStaysOut'
    BY <1>9 DEF RemoveUser
  <1>10. ASSUME Restart PROVE RejectedStaysOut'
    BY <1>10 DEF Restart
  <1>11. ASSUME Tick PROVE RejectedStaysOut'
    BY <1>11 DEF Tick, Prompt, Resolving
  <1> QED
    BY <1>1, <1>2, <1>3, <1>4, <1>5, <1>6, <1>7, <1>8, <1>9, <1>10, <1>11 DEF Steps

\* A session that leaves the map is in a handler, and comes back unless something
\* ended its login.
LEMMA NotLostStep == IInv /\ Steps => SessionNotLost'
  <1> SUFFICES ASSUME IInv, Steps PROVE SessionNotLost'
    OBVIOUS
  <1> USE DEF IInv, TypeOK, Time, world, tokens, ends, Handler, Session, Idle, Ours, OneToken, SessionNotLost, HasToken, Of, Holds
  <1>1. ASSUME NEW h \in Handlers, NEW l \in Logins, Login(h, l) PROVE SessionNotLost'
    BY <1>1 DEF Login
  <1>2. ASSUME NEW h \in Handlers, NEW s \in sessions, Rotate(h, s) PROVE SessionNotLost'
    <2>1. s.login \in Logins /\ (\A g \in Handlers : handler[g].login # s.login)
      BY DEF OneToken, Of, Holds
    <2>2. \A t \in sessions : t.login = s.login => t = s
      BY DEF OneToken, Of
    <2>3. sessions' = sessions \ {s} /\ rejected' = rejected /\ unanswered' = unanswered
      BY <1>2 DEF Rotate
    <2>4. \/ /\ handler' = [handler EXCEPT ![h] =
                   [step |-> "resolve", login |-> s.login, session |-> s, stamp |-> clock]]
             /\ live' = live
          \/ handler' = handler /\ live' = live \ {s.login}
      BY <1>2 DEF Rotate
    <2> QED
      BY <2>1, <2>2, <2>3, <2>4, <1>2 DEF Rotate
  <1>3. ASSUME NEW h \in Handlers, NEW t \in Time, Accepted(h, t) PROVE SessionNotLost'
    BY <1>3 DEF Accepted, Accept
  <1>4. ASSUME NEW h \in Handlers, Rejected(h) PROVE SessionNotLost'
    BY <1>4 DEF Rejected, Reject
  <1>5. ASSUME NEW h \in Handlers, Restored(h) PROVE SessionNotLost'
    BY <1>5 DEF Restored, Restore
  <1>6. ASSUME NEW h \in Handlers, Mint(h) PROVE SessionNotLost'
    <2> DEFINE l == handler[h].login
               new == [login |-> l, n |-> issued[l] + 1, revalidated |-> handler[h].stamp,
                       expires |-> clock + RefreshTTL[ProviderOf(l)]]
    <2>1. sessions' = sessions \cup {new} /\ new.login = l
      BY <1>6 DEF Mint
    <2>2. \A g \in Handlers : g # h => handler'[g] = handler[g]
      BY <1>6 DEF Mint
    <2>3. live' = live \cup {l} /\ unanswered' = unanswered
      BY <1>6 DEF Mint
    <2>4. ASSUME NEW k \in live' \ unanswered' PROVE HasToken(k)'
      <3>1. CASE k = l
        BY <3>1, <2>1
      <3>2. CASE k # l
        <4>1. k \in live \ unanswered
          BY <3>2, <2>3
        <4>2. CASE Of(k, sessions) # {}
          BY <4>2, <2>1
        <4>3. ASSUME NEW g \in Handlers, Holds(g, k) PROVE HasToken(k)'
          BY <4>3, <3>2, <2>2
        <4> QED
          BY <4>1, <4>2, <4>3
      <3> QED
        BY <3>1, <3>2
    <2> QED
      BY <2>4
  <1>7. ASSUME NEW l \in Logins, NEW n \in 1..MaxTokens, Logout(l, n) PROVE SessionNotLost'
    BY <1>7 DEF Logout
  <1>8. ASSUME NEW s \in sessions, Cleanup(s) PROVE SessionNotLost'
    BY <1>8 DEF Cleanup
  <1>9. ASSUME NEW u \in Users, RemoveUser(u) PROVE SessionNotLost'
    BY <1>9 DEF RemoveUser
  <1>10. ASSUME Restart PROVE SessionNotLost'
    BY <1>10 DEF Restart
  <1>11. ASSUME Tick PROVE SessionNotLost'
    BY <1>11 DEF Tick, Prompt, Resolving
  <1> QED
    BY <1>1, <1>2, <1>3, <1>4, <1>5, <1>6, <1>7, <1>8, <1>9, <1>10, <1>11 DEF Steps

\* No session claims a revalidation that the store could not have given.
LEMMA DatedStep == IInv /\ Steps => Dated'
  <1> SUFFICES ASSUME IInv, Steps PROVE Dated'
    OBVIOUS
  <1> USE DEF IInv, TypeOK, Time, world, tokens, ends, Handler, Session, Idle, Ours, Dated, Dates, MayMint, ProviderOf, Providers
  <1>1. ASSUME NEW h \in Handlers, NEW l \in Logins, Login(h, l) PROVE Dated'
    <2>1. /\ handler' = [handler EXCEPT ![h] =
                 [step |-> "mint", login |-> l, session |-> NoSession, stamp |-> clock]]
          /\ Owner[l] \in present
          /\ UNCHANGED <<clock, provider, present, removedAt, sessions, access>>
      BY <1>1 DEF Login
    <2>2. Dates(Owner[l], clock) /\ MayMint(Owner[l], clock)
      BY <2>1, ConstantsOK DEF ConstantsOK
    <2>3. \A g \in Handlers : handler'[g] = handler[g] \/
              handler'[g] = [step |-> "mint", login |-> l, session |-> NoSession, stamp |-> clock]
      BY <2>1
    <2> QED
      BY <2>1, <2>2, <2>3
  <1>2. ASSUME NEW h \in Handlers, NEW s \in sessions, Rotate(h, s) PROVE Dated'
    BY <1>2, SMTT(30) DEF Rotate
  <1>3. ASSUME NEW h \in Handlers, NEW t \in Time, Accepted(h, t) PROVE Dated'
    BY <1>3 DEF Accepted, Accept
  <1>4. ASSUME NEW h \in Handlers, Rejected(h) PROVE Dated'
    BY <1>4 DEF Rejected, Reject
  <1>5. ASSUME NEW h \in Handlers, Restored(h) PROVE Dated'
    BY <1>5 DEF Restored, Restore
  <1>6. ASSUME NEW h \in Handlers, Mint(h) PROVE Dated'
    BY <1>6, SMTT(30) DEF Mint
  <1>7. ASSUME NEW l \in Logins, NEW n \in 1..MaxTokens, Logout(l, n) PROVE Dated'
    BY <1>7 DEF Logout
  <1>8. ASSUME NEW s \in sessions, Cleanup(s) PROVE Dated'
    BY <1>8 DEF Cleanup
  <1>9. ASSUME NEW u \in Users, RemoveUser(u) PROVE Dated'
    BY <1>9 DEF RemoveUser
  <1>10. ASSUME Restart PROVE Dated'
    BY <1>10 DEF Restart
  <1>11. ASSUME Tick PROVE Dated'
    BY <1>11 DEF Tick, Prompt, Resolving
  <1> QED
    BY <1>1, <1>2, <1>3, <1>4, <1>5, <1>6, <1>7, <1>8, <1>9, <1>10, <1>11 DEF Steps

\* An access token is issued only under a date that bounds it.
LEMMA AccessStep == IInv /\ Steps => RemovedLosesAccess'
  <1> SUFFICES ASSUME IInv, Steps PROVE RemovedLosesAccess'
    OBVIOUS
  <1> USE DEF IInv, TypeOK, Time, world, tokens, ends, Handler, Session, Idle, Ours, Dated, Dates, MayMint, ProviderOf, Providers, RemovedLosesAccess
  <1>1. ASSUME NEW h \in Handlers, NEW l \in Logins, Login(h, l) PROVE RemovedLosesAccess'
    BY <1>1 DEF Login
  <1>2. ASSUME NEW h \in Handlers, NEW s \in sessions, Rotate(h, s) PROVE RemovedLosesAccess'
    BY <1>2 DEF Rotate
  <1>3. ASSUME NEW h \in Handlers, NEW t \in Time, Accepted(h, t) PROVE RemovedLosesAccess'
    BY <1>3 DEF Accepted, Accept
  <1>4. ASSUME NEW h \in Handlers, Rejected(h) PROVE RemovedLosesAccess'
    BY <1>4 DEF Rejected, Reject
  <1>5. ASSUME NEW h \in Handlers, Restored(h) PROVE RemovedLosesAccess'
    BY <1>5 DEF Restored, Restore
  <1>6. ASSUME NEW h \in Handlers, Mint(h) PROVE RemovedLosesAccess'
    BY <1>6 DEF Mint
  <1>7. ASSUME NEW l \in Logins, NEW n \in 1..MaxTokens, Logout(l, n) PROVE RemovedLosesAccess'
    BY <1>7 DEF Logout
  <1>8. ASSUME NEW s \in sessions, Cleanup(s) PROVE RemovedLosesAccess'
    BY <1>8 DEF Cleanup
  <1>9. ASSUME NEW u \in Users, RemoveUser(u) PROVE RemovedLosesAccess'
    BY <1>9 DEF RemoveUser
  <1>10. ASSUME Restart PROVE RemovedLosesAccess'
    BY <1>10 DEF Restart
  <1>11. ASSUME Tick PROVE RemovedLosesAccess'
    BY <1>11 DEF Tick, Prompt, Resolving
  <1> QED
    BY <1>1, <1>2, <1>3, <1>4, <1>5, <1>6, <1>7, <1>8, <1>9, <1>10, <1>11 DEF Steps

\* The invariant is inductive, also for a step that changes nothing.
LEMMA Inductive == IInv /\ [Next]_vars => IInv'
  <1>1. ASSUME IInv, Next PROVE IInv'
    BY <1>1, StepShapes, TypeStep, OursStep, OneTokenStep, RejectedStep, NotLostStep,
       DatedStep, AccessStep DEF IInv
  <1>2. ASSUME IInv, UNCHANGED vars PROVE IInv'
    <2> USE <1>2 DEF vars, world, tokens, ends
    <2>1. TypeOK' /\ OneToken' /\ RejectedStaysOut' /\ SessionNotLost'
      BY DEF IInv, TypeOK, OneToken, RejectedStaysOut, SessionNotLost, HasToken, Of, Holds
    <2>2. Ours'
      BY DEF IInv, Ours
    <2>3. Dated'
      BY DEF IInv, Dated, Dates, MayMint, ProviderOf
    <2>4. RemovedLosesAccess'
      BY DEF IInv, RemovedLosesAccess
    <2> QED
      BY <2>1, <2>2, <2>3, <2>4 DEF IInv
  <1> QED
    BY <1>1, <1>2

\* Hence it holds in every reachable state.
LEMMA Invariance == Spec => []IInv
  BY InitInvariant, Inductive, PTL DEF Spec

\* Every variable keeps its type.
THEOREM TypeCorrect == Spec => []TypeOK
  <1>1. IInv => TypeOK
    BY DEF IInv
  <1> QED
    BY <1>1, Invariance, PTL

\* Whatever refreshes, failures, logouts and evictions interleave, a login has
\* at most one refresh token (session.go Rotate, Restore).
THEOREM AtMostOneToken == Spec => []OneToken
  <1>1. IInv => OneToken
    BY DEF IInv
  <1> QED
    BY <1>1, Invariance, PTL

\* A login the directory rejected gets no token again (revalidateLDAPSession).
THEOREM RejectionIsFinal == Spec => []RejectedStaysOut
  <1>1. IInv => RejectedStaysOut
    BY DEF IInv
  <1> QED
    BY <1>1, Invariance, PTL

\* A removed local or LDAP user loses access in bounded time, whatever outages
\* and refreshes follow (handleRefresh, issueTokenPairAt).
THEOREM AccessIsBounded == Spec => []RemovedLosesAccess
  <1>1. IInv => RemovedLosesAccess
    BY DEF IInv
  <1> QED
    BY <1>1, Invariance, PTL

\* A login that nothing ended keeps its token through failed token issues and
\* directory outages (Restore).
THEOREM FailuresLoseNoSession == Spec => []SessionNotLost
  <1>1. IInv => SessionNotLost
    BY DEF IInv
  <1> QED
    BY <1>1, Invariance, PTL
=============================================================================
