----------------------------- MODULE GithubApp -----------------------------
(***************************************************************************)
(* The GitHub client's two caches: the app's installation of each account  *)
(* and an access token of each installation. Requests look both up and     *)
(* fill them concurrently, each scan for queued jobs lists the             *)
(* installations again, and the app is installed, removed and installed    *)
(* anew (with another id) meanwhile.                                       *)
(***************************************************************************)
EXTENDS Integers, FiniteSets

CONSTANTS
  AppAccounts, \* organizations and users
  AppRequests, \* requests under way at once
  TokenLife,   \* how long GitHub's tokens live
  TokenBuffer, \* how long before its end a token is no longer used
  MaxInstalls, \* bound: installations, of all accounts
  MaxAppTime   \* bound: time

ASSUME GithubAppAssumption ==
  /\ {TokenBuffer, MaxInstalls, MaxAppTime} \subseteq Nat /\ TokenLife \in Nat
  /\ TokenBuffer < TokenLife /\ IsFiniteSet(AppAccounts)

InstallIds == 1 .. MaxInstalls

VARIABLES
  installId, \* GitHub's installation of each account, 0 for none
  installs,  \* the last id given out
  appTime,   \* the clock
  ids,       \* installation_ids, 0 for an account it doesn't have
  appTokens, \* cached_tokens: when the token of an installation ends, 0 for none
  asking,    \* the requests
  absent     \* the requests that found their account missing from a listing since they began

appVars == <<installId, installs, appTime, ids, appTokens, asking, absent>>

NoRequest == [at |-> "none"]

\* validate: the server starts with what it lists, and of these accounts there may be none yet.
AppInit ==
  /\ \E some \in SUBSET AppAccounts :
       /\ Cardinality(some) <= MaxInstalls /\ installs = Cardinality(some)
       /\ installId \in {f \in [AppAccounts -> 0 .. installs] :
            /\ \A a \in AppAccounts : a \in some <=> f[a] # 0
            /\ \A a, b \in some : f[a] = f[b] => a = b}
  /\ ids = installId /\ appTokens = [i \in InstallIds |-> 0] /\ appTime = 1
  /\ asking = [q \in AppRequests |-> NoRequest] /\ absent = {}

GitHub == <<installId, installs>>
Caches == <<ids, appTokens>>

InstallApp ==
  /\ installs < MaxInstalls /\ installs' = installs + 1
  /\ \E a \in AppAccounts : installId[a] = 0 /\ installId' = [installId EXCEPT ![a] = installs']
  /\ UNCHANGED <<appTime, Caches, asking, absent>>

Uninstall ==
  /\ \E a \in AppAccounts : installId[a] # 0 /\ installId' = [installId EXCEPT ![a] = 0]
  /\ UNCHANGED <<installs, appTime, Caches, asking, absent>>

\* A request is over within the buffer of having got its token.
AppTick ==
  /\ appTime < MaxAppTime /\ appTime' = appTime + 1
  /\ \A q \in AppRequests :
       asking[q].at \in {"minted", "use"} => appTime - asking[q].since < TokenBuffer
  /\ UNCHANGED <<GitHub, Caches, asking, absent>>

CallGoes(q, r) == asking' = [asking EXCEPT ![q] = r]
CallAt(q, step) == asking[q].at = step
\* A request that fails says why.
Fails(q, why) == CallGoes(q, [at |-> "failed", account |-> asking[q].account, why |-> why])

Begin(q) ==
  /\ asking[q] = NoRequest
  /\ \/ \E a \in AppAccounts : CallGoes(q, [at |-> "lookup", account |-> a])
     \/ \E a \in AppAccounts : CallGoes(q, [at |-> "scan", account |-> a])
  /\ absent' = absent \ {q}
  /\ UNCHANGED <<GitHub, appTime, Caches>>

\* get_installation_id: the cache first.
LookUpId(q) ==
  /\ CallAt(q, "lookup")
  /\ LET a == asking[q].account IN
     IF ids[a] # 0 THEN CallGoes(q, [at |-> "token", account |-> a, id |-> ids[a]])
     ELSE CallGoes(q, [at |-> "list", account |-> a])
  /\ UNCHANGED <<GitHub, appTime, Caches, absent>>

\* discover_installations: every page of them or an error; a scan always asks.
List(q) ==
  /\ CallAt(q, "list") \/ CallAt(q, "scan")
  /\ LET a == asking[q].account IN
     \/ /\ CallGoes(q, [at |-> IF CallAt(q, "scan") THEN "merge" ELSE "store", account |-> a,
                        listed |-> installId])
        /\ absent' = IF installId[a] = 0 THEN absent \cup {q} ELSE absent \ {q}
     \/ Fails(q, "GitHub") /\ UNCHANGED absent
  /\ UNCHANGED <<GitHub, appTime, Caches>>

\* What was listed goes in, and nothing goes out.
Merged(q) ==
  [a \in AppAccounts |-> IF asking[q].listed[a] # 0 THEN asking[q].listed[a] ELSE ids[a]]
StoreIds(q) ==
  /\ CallAt(q, "store") \/ CallAt(q, "merge")
  /\ ids' = Merged(q)
  /\ LET a == asking[q].account IN
     IF CallAt(q, "store") THEN CallGoes(q, [at |-> "again", account |-> a])
      ELSE CallGoes(q, NoRequest)
  /\ UNCHANGED <<GitHub, appTime, appTokens, absent>>

LookAgain(q) ==
  /\ CallAt(q, "again")
  /\ LET a == asking[q].account IN
     IF ids[a] # 0 THEN CallGoes(q, [at |-> "token", account |-> a, id |-> ids[a]])
     ELSE Fails(q, "not_installed")
  /\ UNCHANGED <<GitHub, appTime, Caches, absent>>

\* Mutant of IsValid: until its last moment.
NotEnded(i) == appTokens[i] > appTime

\* CachedToken::is_valid
IsValid(i) == appTokens[i] > appTime + TokenBuffer

Uses(q, i, ends, since) ==
  CallGoes(q, [at |-> "use", account |-> asking[q].account, id |-> i,
                ends |-> ends, since |-> since])

\* get_access_token: the cached one.
CachedToken(q) ==
  /\ CallAt(q, "token")
  /\ LET i == asking[q].id IN IsValid(i) /\ Uses(q, i, appTokens[i], appTime)
  /\ UNCHANGED <<GitHub, appTime, Caches, absent>>

\* Or a new one, of an installation that GitHub still has.
MintToken(q) ==
  /\ CallAt(q, "token")
  /\ LET r == asking[q] IN
     /\ ~IsValid(r.id)
     /\ \/ /\ \E a \in AppAccounts : installId[a] = r.id
           /\ CallGoes(q, [at |-> "minted", account |-> r.account, id |-> r.id,
                           ends |-> appTime + TokenLife, since |-> appTime])
        \/ Fails(q, "GitHub")
  /\ UNCHANGED <<GitHub, appTime, Caches, absent>>

\* It replaces one that another request cached meanwhile.
CacheToken(q) ==
  /\ CallAt(q, "minted")
  /\ LET r == asking[q] IN
     appTokens' = [appTokens EXCEPT ![r.id] = r.ends] /\ Uses(q, r.id, r.ends, r.since)
  /\ UNCHANGED <<GitHub, appTime, ids, absent>>

\* get_registration_token, generate_jitconfig, find_runner...: GitHub's answer, whatever it is.
UseToken(q) ==
  /\ CallAt(q, "use") \/ CallAt(q, "failed")
  /\ CallGoes(q, NoRequest)
  /\ UNCHANGED <<GitHub, appTime, Caches, absent>>

AppNext ==
  \/ InstallApp \/ Uninstall \/ AppTick
  \/ \E q \in AppRequests :
       \/ Begin(q) \/ LookUpId(q) \/ List(q) \/ StoreIds(q) \/ LookAgain(q)
       \/ CachedToken(q) \/ MintToken(q) \/ CacheToken(q) \/ UseToken(q)

AppSpec == AppInit /\ [][AppNext]_appVars

-----------------------------------------------------------------------------

\* A token outlives the request it is used for, whoever cached it and however long it took.
TokenOutlives == \A q \in AppRequests : CallAt(q, "use") => asking[q].ends > appTime

\* A request is refused for want of an installation only if GitHub, asked for it, listed none.
RefusedOnEvidence ==
  \A q \in AppRequests : CallAt(q, "failed") /\ asking[q].why = "not_installed" => q \in absent

\* Both hold of the GitHub client however its requests, the scans and the installs interleave.
AppSound == TokenOutlives /\ RefusedOnEvidence
=============================================================================
