----------------------------- MODULE ForgeProofs ----------------------------
(***************************************************************************)
(* Proofs about what the coordinator asks of a forge, and what it makes of *)
(* the answers, for any jobs, scopes, accounts and mappings.               *)
(*                                                                         *)
(* A scan drops a job only when it is no longer queued (ScanInv: whatever  *)
(* a listing has passed over was seen, or is not wanted). A GitHub App's   *)
(* token is given out only while it lasts, and an account is taken for one *)
(* without an installation only after a whole listing (ListingKept). Both  *)
(* forges and the agent agree on the label set of a job (FirstThere,       *)
(* FirstOnly).                                                             *)
(***************************************************************************)
EXTENDS ForgeScan, GithubApp, Labels, SequenceTheorems, FiniteSetTheorems,
        NaturalsInduction, WellFoundedInduction, TLAPS

-----------------------------------------------------------------------------
(* ForgeScan *)

\* Jobs that their forge lists while they are queued.
Listable(js) ==
  js \subseteq {j \in ScanJobs : j \in GitHubJobs \/ \E i \in DOMAIN SCOPES : j \in SCOPES[i]}

ScanFields == {"at", "st", "page", "runs", "todo", "found", "forges", "missed"}

\* The scan is at a scope there is, and what it found and queued is listed by its forge.
ScanInv ==
  /\ Listable(rows) /\ Listable(scan.found)
  /\ scan.st \in Nat \ {0}
  /\ scan.at = "forgejo" => scan.st \in DOMAIN SCOPES
  /\ DOMAIN scan = ScanFields

\* No step takes a job that is queued at its forge out of the queue, but a nameless one.
Keeps == \A j \in rows \ rows' : jobIs[j] # "queued" \/ j \in norepo

\* There is a first scope.
LEMMA ScopesThere ==
  1 \in DOMAIN SCOPES /\ DOMAIN SCOPES = 1 .. Len(SCOPES) /\ Len(SCOPES) \in Nat
  BY ForgeScanAssumption, LenProperties, EmptySeq

\* No scan has begun.
LEMMA ScanInitInv == ScanInit => ScanInv
  BY DEF ScanInit, ScanInv, Listable, NoScan, ScanFields

\* A job whose row is checked is dropped only when the forge says it is over.
LEMMA VerifyKeeps ==
  ASSUME ScanInv, NEW j \in ScanJobs, VerifyRow(j)
  PROVE  Keeps
<1> SUFFICES ASSUME j \in rows, j \notin rows', jobIs[j] = "queued", j \notin norepo
             PROVE  FALSE
  BY DEF VerifyRow, Keeps, CallFails
<1>1. NotQueued(j)
  BY DEF VerifyRow, CallFails
<1>2. CASE j \in GitHubJobs
  BY <1>1, <1>2 DEF NotQueued, GitHubStatus
<1>3. CASE j \notin GitHubJobs
  <2>1. PICK i \in DOMAIN SCOPES : j \in SCOPES[i]
    BY <1>3 DEF ScanInv, Listable
  <2>2. j \in ScopeLists(i)
    BY <2>1 DEF ScopeLists
  <2>q. QED
    BY <1>1, <1>3, <2>2 DEF NotQueued, ForgejoStatus
<1>q. QED
  BY <1>2, <1>3

\* The next scope, or the next status, keeps what was found.
LEMMA ForgejoNextThere ==
  ASSUME NEW s, DOMAIN s = ScanFields
  PROVE  /\ DOMAIN ForgejoNext(s) = ScanFields
         /\ ForgejoNext(s).found = s.found
         /\ ForgejoNext(s).st = 1
  BY DEF ForgejoNext, ScanFields

\* A step of the scan to s, which queues nothing.
LEMMA GoesKeeps ==
  ASSUME ScanInv, NEW s, DOMAIN s = ScanFields, s.found = scan.found,
         s.st \in Nat \ {0}, s.at = "forgejo" => s.st \in DOMAIN SCOPES,
         ScanGoes(s), UNCHANGED rows
  PROVE  ScanInv' /\ Keeps
  BY DEF ScanInv, Listable, ScanGoes, scanForgeVars, Keeps

\* So does the next status.
LEMMA NextStatusThere ==
  ASSUME NEW s, DOMAIN s = ScanFields, s.st \in Nat \ {0}
  PROVE  /\ DOMAIN NextStatus(s) = ScanFields
         /\ NextStatus(s).found = s.found
         /\ NextStatus(s).st \in Nat \ {0}
         /\ NextStatus(s).at = "forgejo" => NextStatus(s).st = 1
  BY DEF NextStatus, ForgejoNext, ScanFields

\* A step of the scan that queues what it found, and only looks at the forges.
LEMMA ScanStepKeeps ==
  ASSUME ScanInv, ScanStep
  PROVE  ScanInv' /\ Keeps
<1> USE ScopesThere DEF ScanGoes, scanForgeVars, Done, CallFails, ScanInv, Listable
<1>1. CASE StartScan
  BY <1>1 DEF StartScan, NoScan, Keeps, ScanFields
<1>l. ASSUME NEW at \in {"token", "repos", "runs"}, ScanGoes([scan EXCEPT !.at = at]),
              UNCHANGED rows
      PROVE  ScanInv' /\ Keeps
  BY <1>l DEF Keeps, ScanFields
<1>f. ASSUME NEW s \in {scan, [scan EXCEPT !.forges = @ \cup {"github"}]},
             ScanGoes(ForgejoNext(s)), UNCHANGED rows
      PROVE  ScanInv' /\ Keeps
  <2>1. DOMAIN s = ScanFields /\ s.found = scan.found
    BY DEF ScanFields
  <2>q. QED
    BY <1>f, <2>1, ForgejoNextThere, GoesKeeps
<1>2. CASE Discover
  BY <1>2, <1>l, <1>f DEF Discover
<1>3. CASE GetToken
  BY <1>3, <1>l, <1>f DEF GetToken, GitHubListed
<1>4. CASE ListRepos
  BY <1>4, <1>l, <1>f DEF ListRepos, GitHubListed
<1>5. CASE RunsPage
  <2>1. CASE ScanGoes(NextStatus(scan)) /\ UNCHANGED rows
    BY <2>1, NextStatusThere DEF Keeps
  <2>2. ASSUME NEW n, NEW all, ScanGoes([scan EXCEPT !.page = n, !.runs = all]),
               UNCHANGED rows, scan.at = "runs"
        PROVE  ScanInv' /\ Keeps
    BY <2>2 DEF Keeps, ScanFields
  <2>3. ASSUME NEW all, UNCHANGED rows,
               ScanGoes([scan EXCEPT !.at = "jobs", !.runs = {}, !.todo = all, !.page = 1])
        PROVE  ScanInv' /\ Keeps
    BY <2>3 DEF Keeps, ScanFields
  <2>q. QED
    BY <1>5, <2>1, <2>2, <2>3 DEF RunsPage
<1>6. CASE ScopeJobs
  <2> DEFINE waiting == {j \in ScopeLists(scan.st) : jobIs[j] = "queued"}
             listed == [scan EXCEPT !.found = @ \cup waiting]
             missed == [scan EXCEPT !.missed = @ + 1]
             over(s) == [s EXCEPT !.at = "add",
                          !.forges = IF s.missed = Len(SCOPES) THEN @ ELSE @ \cup {"forgejo"}]
  <2>1. PICK s \in {listed, missed} :
               scan' = IF s.st < Len(SCOPES) THEN [s EXCEPT !.st = @ + 1] ELSE over(s)
    BY <1>6 DEF ScopeJobs
  <2>2. UNCHANGED <<rows, jobIs>> /\ scan.st \in DOMAIN SCOPES
    BY <1>6 DEF ScopeJobs, Nameless
  <2>3. Listable(scan.found \cup waiting)
    <3>1. SCOPES[scan.st] \in SUBSET ForgejoJobs
      BY <2>2, ForgeScanAssumption, ElementOfSeq
    <3>q. QED
      BY <2>2, <3>1 DEF ScopeLists, ScanJobs
  <2> HIDE DEF waiting
  <2>4. DOMAIN s = ScanFields /\ s.st = scan.st /\ Listable(s.found) /\ s.at = scan.at
    BY <2>3 DEF ScanFields
  <2> HIDE DEF listed, missed
  <2>5. CASE s.st < Len(SCOPES)
    BY <2>1, <2>2, <2>4, <2>5 DEF ScanFields, Keeps
  <2>6. CASE ~(s.st < Len(SCOPES))
    BY <2>1, <2>2, <2>4, <2>6 DEF ScanFields, Keeps
  <2>q. QED
    BY <2>5, <2>6
<1>7. CASE AddFound
  BY <1>7 DEF AddFound, AddJobs, NoScan, Keeps, ScanFields
<1>8. CASE Verified
  BY <1>8 DEF Verified, NoScan, Keeps, ScanFields
<1>9. ASSUME NEW j \in GitHubJobs, RunJobs(j) PROVE ScanInv' /\ Keeps
  <2> DEFINE rest == [scan EXCEPT !.todo = @ \ {j}]
             more == [rest EXCEPT !.found = @ \cup {j}]
  <2>1. \A s \in {rest, more} :
          /\ DOMAIN s = ScanFields /\ s.st = scan.st /\ s.at = scan.at
          /\ s.found \subseteq scan.found \cup {j}
    BY DEF ScanFields
  <2>2. \E s \in {rest, more} : scan' \in {s, NextStatus(s)}
    BY <1>9 DEF RunJobs
  <2>3. UNCHANGED <<jobIs, rows>> /\ scan.at = "jobs"
    BY <1>9 DEF RunJobs
  <2> HIDE DEF rest, more
  <2>q. QED
    BY <2>1, <2>2, <2>3, NextStatusThere DEF Keeps, ScanJobs
<1>10. ASSUME NEW j \in ScanJobs, VerifyRow(j) PROVE ScanInv' /\ Keeps
  BY <1>10, VerifyKeeps DEF VerifyRow
<1>q. QED
  BY <1>1, <1>2, <1>3, <1>4, <1>5, <1>6, <1>7, <1>8, <1>9, <1>10 DEF ScanStep

\* Every step keeps the invariant, and spares the jobs that are queued.
LEMMA ScanNextKeeps ==
  ASSUME ScanInv, [ScanNext]_scanVars
  PROVE  ScanInv' /\ Keeps
<1> USE DEF scanForgeVars, ScanInv, Listable, Keeps
<1>1. CASE ScanStep
  BY <1>1, ScanStepKeeps
<1>2. ASSUME NEW j \in ScanJobs,
             Queue(j) \/ RunMoves(j) \/ StartJob(j) \/ EndJob(j) \/ GoesQuiet(j)
      PROVE  ScanInv' /\ Keeps
  BY <1>2 DEF Queue, RunMoves, StartJob, EndJob, GoesQuiet
<1>3. ASSUME NEW j \in ScanJobs, WebhookQueued(j) PROVE ScanInv' /\ Keeps
  BY <1>3 DEF WebhookQueued, AddJobs, ScanJobs
<1>4. ASSUME NEW j \in ScanJobs, WebhookCompleted(j) PROVE ScanInv' /\ Keeps
  BY <1>4 DEF WebhookCompleted
<1>5. CASE UNCHANGED scanVars
  BY <1>5 DEF scanVars
<1>q. QED
  BY <1>1, <1>2, <1>3, <1>4, <1>5 DEF ScanNext

\* ScanSpares: however pages shift under a scan and whatever fails, a scan drops no job that is
\* queued (reconcile, list_queued_jobs).
THEOREM ScansSpare == ScanSpec => ScanSpares
<1>1. ScanInv /\ [ScanNext]_scanVars => ScanInv'
  BY ScanNextKeeps
<1>2. ScanInv /\ [ScanNext]_scanVars =>
        [\A j \in rows \ rows' : ScanStep => jobIs[j] # "queued" \/ j \in norepo]_scanVars
  BY ScanNextKeeps DEF Keeps
<1>q. QED
  BY ScanInitInv, <1>1, <1>2, PTL DEF ScanSpec, ScanSpares

-----------------------------------------------------------------------------
(* GithubApp *)

Installs == 0 .. MaxInstalls

\* The requests by what they know at each step.
RequestsTyped ==
  /\ DOMAIN asking = AppRequests
  /\ \A q \in AppRequests :
       LET r == asking[q] IN
       /\ r.at # "none" => r.account \in AppAccounts
       /\ r.at \in {"store", "merge"} => r.listed \in [AppAccounts -> Installs]
       /\ r.at \in {"token", "minted", "use"} => r.id \in InstallIds
       /\ r.at \in {"minted", "use"} => r.ends \in Nat /\ r.since \in Nat

AppTypeOK ==
  /\ installs \in 0 .. MaxInstalls /\ installId \in [AppAccounts -> Installs]
  /\ appTime \in Nat /\ ids \in [AppAccounts -> Installs]
  /\ appTokens \in [InstallIds -> Nat] /\ absent \subseteq AppRequests

\* A token in use had the buffer left when it was read or made, and no more has gone by since.
TokensFresh ==
  \A q \in AppRequests :
    asking[q].at \in {"minted", "use"} =>
      /\ asking[q].since <= appTime /\ appTime <= asking[q].since + TokenBuffer
      /\ asking[q].since + TokenBuffer < asking[q].ends

\* What a request listed is still what it goes by: an account is in the cache, or it was absent.
ListingKept ==
  \A q \in AppRequests :
    /\ asking[q].at = "store" /\ asking[q].listed[asking[q].account] = 0 => q \in absent
    /\ asking[q].at = "again" => ids[asking[q].account] # 0 \/ q \in absent
    /\ asking[q].at = "failed" /\ asking[q].why = "not_installed" => q \in absent

AppInv == AppTypeOK /\ RequestsTyped /\ TokensFresh /\ ListingKept

\* No request has begun.
LEMMA AppInitInv == AppInit => AppInv
<1> SUFFICES ASSUME AppInit PROVE AppInv
  OBVIOUS
<1>1. AppTypeOK
  <2>1. installs \in 0 .. MaxInstalls
    BY GithubAppAssumption, FS_CardinalityType, FS_Subset DEF AppInit
  <2>q. QED
    BY <2>1, GithubAppAssumption DEF AppInit, AppTypeOK, Installs
<1>q. QED
  BY <1>1 DEF AppInit, AppInv, RequestsTyped, TokensFresh, ListingKept, NoRequest

\* A step of one request.
LEMMA RequestStepKeeps ==
  ASSUME AppInv, NEW q \in AppRequests,
         \/ Begin(q) \/ LookUpId(q) \/ List(q) \/ StoreIds(q) \/ LookAgain(q)
         \/ CachedToken(q) \/ MintToken(q) \/ CacheToken(q) \/ UseToken(q)
  PROVE  AppInv'
<1> USE DEF AppInv, TokensFresh, ListingKept, CallAt, CallGoes, Caches, GitHub,
            NoRequest, AppTypeOK, RequestsTyped
<1>1. CASE Begin(q)
  BY <1>1 DEF Begin
<1>2. CASE LookUpId(q)
  <2>1. asking[q].account \in AppAccounts
    BY <1>2 DEF LookUpId
  <2>2. ids[asking[q].account] # 0 => ids[asking[q].account] \in InstallIds
    BY <2>1, GithubAppAssumption DEF Installs, InstallIds
  <2>q. QED
    BY <1>2, <2>1, <2>2 DEF LookUpId
<1>3. CASE List(q)
  BY <1>3 DEF List, Fails
<1>4. CASE StoreIds(q)
  BY <1>4 DEF StoreIds, Merged
<1>5. CASE LookAgain(q)
  <2>1. asking[q].account \in AppAccounts
    BY <1>5 DEF LookAgain
  <2>2. ids[asking[q].account] # 0 => ids[asking[q].account] \in InstallIds
    BY <2>1, GithubAppAssumption DEF Installs, InstallIds
  <2>q. QED
    BY <1>5, <2>1, <2>2 DEF LookAgain, Fails
<1>6. CASE CachedToken(q)
  BY <1>6, GithubAppAssumption DEF CachedToken, IsValid, Uses
<1>7. CASE MintToken(q)
  BY <1>7, GithubAppAssumption DEF MintToken, IsValid, Fails
<1>8. CASE CacheToken(q)
  BY <1>8 DEF CacheToken, Uses
<1>9. CASE UseToken(q)
  BY <1>9 DEF UseToken
<1>q. QED
  BY <1>1, <1>2, <1>3, <1>4, <1>5, <1>6, <1>7, <1>8, <1>9

\* The invariant is inductive.
LEMMA AppNextKeeps == AppInv /\ [AppNext]_appVars => AppInv'
<1> SUFFICES ASSUME AppInv, [AppNext]_appVars PROVE AppInv'
  OBVIOUS
<1> USE DEF AppInv, TokensFresh, ListingKept, CallAt, Caches, GitHub,
            RequestsTyped, AppTypeOK
<1>1. CASE InstallApp
  BY <1>1, GithubAppAssumption DEF InstallApp, Installs
<1>2. CASE Uninstall
  BY <1>2, GithubAppAssumption DEF Uninstall, Installs
<1>3. CASE AppTick
  BY <1>3, GithubAppAssumption DEF AppTick
<1>4. ASSUME NEW q \in AppRequests,
             \/ Begin(q) \/ LookUpId(q) \/ List(q) \/ StoreIds(q) \/ LookAgain(q)
             \/ CachedToken(q) \/ MintToken(q) \/ CacheToken(q) \/ UseToken(q)
      PROVE  AppInv'
  BY <1>4, RequestStepKeeps
<1>5. CASE UNCHANGED appVars
  BY <1>5 DEF appVars
<1>q. QED
  BY <1>1, <1>2, <1>3, <1>4, <1>5 DEF AppNext

\* AppSound: whatever requests share the caches, no token is used past its end, and no account is
\* taken for one without an installation but on the evidence of a whole listing.
THEOREM AppStaysSound == AppSpec => []AppSound
<1>1. AppInv => AppSound
  BY GithubAppAssumption
  DEF AppInv, AppSound, RefusedOnEvidence, ListingKept, TokenOutlives, TokensFresh,
      CallAt, AppTypeOK, RequestsTyped
<1>q. QED
  BY AppInitInv, AppNextKeeps, <1>1, PTL DEF AppSpec

-----------------------------------------------------------------------------
(* Labels *)

MappingsThere == mappings \in Seq(Mappings)

\* Min is the least element of a set of numbers that is not empty.
LEMMA MinThere ==
  ASSUME NEW S \in SUBSET Nat, S # {}
  PROVE  Min(S) \in S /\ \A n \in S : Min(S) <= n
<1>1. \E m \in S : \A n \in S : m <= n
  <2>1. PICK m \in S : \A n \in S : ~(<<n, m>> \in OpToRel(<, Nat))
    BY NatLessThanWellFounded, WFMin
  <2>2. \A n \in S : ~(n < m)
    BY <2>1 DEF OpToRel
  <2>q. QED
    BY <2>2
<1>q. QED
  BY <1>1 DEF Min

\* First is 0 if there is none, or the least of them.
LEMMA FirstThere ==
  ASSUME NEW S \in SUBSET (Nat \ {0})
  PROVE  /\ S = {} => First(S) = 0
         /\ S # {} => First(S) \in S /\ First(S) # 0 /\ \A n \in S : First(S) <= n
  BY MinThere DEF First

\* And nothing else is.
LEMMA FirstOnly ==
  ASSUME NEW S \in SUBSET (Nat \ {0}), NEW m \in S, \A n \in S : m <= n
  PROVE  First(S) = m
<1>1. First(S) \in S /\ \A n \in S : First(S) <= n
  BY FirstThere
<1>2. First(S) <= m /\ m <= First(S)
  BY <1>1
<1>3. First(S) \in Nat /\ m \in Nat
  BY <1>1
<1>q. QED
  BY <1>2, <1>3

\* The capabilities: those of the mappings in their order, then the base labels'.
LEMMA CapabilitiesThere ==
  ASSUME MappingsThere
  PROVE  LET n == Len(mappings)
         IN  /\ n \in Nat /\ DOMAIN mappings = 1 .. n
             /\ Len(Capabilities) = n + 1 /\ DOMAIN Capabilities = 1 .. n + 1
             /\ \A i \in 1 .. n : /\ Capabilities[i].labels = base \cup mappings[i].labels
                                  /\ Capabilities[i].id = mappings[i].id
             /\ Capabilities[n + 1].labels = base /\ Capabilities[n + 1].id = baseId
<1> DEFINE n == Len(mappings)
           caps == [i \in DOMAIN mappings |->
                      [labels |-> base \cup mappings[i].labels, id |-> mappings[i].id]]
           last == [labels |-> base, id |-> baseId]
           Caps == {caps[i] : i \in 1 .. n} \cup {last}
<1>1. n \in Nat /\ DOMAIN mappings = 1 .. n
  BY DEF MappingsThere
<1>2. caps \in [1 .. n -> Caps]
  BY <1>1
<1>6. caps \in Seq(Caps) /\ Len(caps) = n
  <2> HIDE DEF caps, n, Caps
  <2>1. caps \in Seq(Caps)
    BY <1>1, <1>2
  <2>q. QED
    BY <1>1, <1>2, <2>1
<1>3. ASSUME NEW i \in 1 .. n
      PROVE  caps[i].labels = base \cup mappings[i].labels /\ caps[i].id = mappings[i].id
  BY <1>1
<1>7. last \in Caps
  OBVIOUS
<1> HIDE DEF caps, n, Caps
<1>4. Capabilities = Append(caps, last)
  BY DEF Capabilities, caps
<1> HIDE DEF last
<1>5. /\ Len(Append(caps, last)) = n + 1 /\ DOMAIN Append(caps, last) = 1 .. n + 1
      /\ \A i \in 1 .. n : Append(caps, last)[i] = caps[i]
      /\ Append(caps, last)[n + 1] = last
  BY <1>1, <1>2, <1>6, <1>7
<1>8. \A i \in 1 .. n : /\ Capabilities[i].labels = base \cup mappings[i].labels
                       /\ Capabilities[i].id = mappings[i].id
  <2>1. \A i \in 1 .. n : Capabilities[i] = caps[i]
    BY <1>4, <1>5
  <2>q. QED
    BY <1>3, <2>1, Zenon
<1>9. Capabilities[n + 1].labels = base /\ Capabilities[n + 1].id = baseId
  BY <1>4, <1>5 DEF last
<1>10. Len(Capabilities) = n + 1 /\ DOMAIN Capabilities = 1 .. n + 1
  BY <1>4, <1>5
<1>q. QED
  BY <1>1, <1>8, <1>9, <1>10 DEF n

\* Whatever the set, the mapping the coordinator resolves its id with is the one the agent does.
LEMMA AgreedThere ==
  ASSUME MappingsThere
  PROVE  SetAgreed
<1> DEFINE n == Len(mappings)
           C == Capabilities
           named == {i \in DOMAIN mappings : mappings[i].id = setId}
           namedSets == {i \in DOMAIN C : C[i].id = setId}
           asked == {i \in DOMAIN mappings : /\ (wanted \ base) \cap mappings[i].labels # {}
                                            /\ wanted \subseteq base \cup mappings[i].labels}
           sets == [i \in DOMAIN C |-> C[i].labels]
           extra == {i \in 1 .. Len(C) - 1 : AsksForExtra(sets[i]) /\ Covers(sets[i])}
<1>1. /\ n \in Nat /\ DOMAIN mappings = 1 .. n /\ Len(C) = n + 1 /\ DOMAIN C = 1 .. n + 1
      /\ \A i \in 1 .. n : C[i].labels = base \cup mappings[i].labels /\ C[i].id = mappings[i].id
      /\ C[n + 1].labels = base /\ C[n + 1].id = baseId
  BY CapabilitiesThere
<1> HIDE DEF n, C
<1>2. extra = asked
  <2>1. Len(C) - 1 = n /\ 1 .. n \subseteq DOMAIN C
    BY <1>1
  <2>2. ASSUME NEW i \in 1 .. n
        PROVE  AsksForExtra(sets[i]) /\ Covers(sets[i])
                 <=> /\ (wanted \ base) \cap mappings[i].labels # {}
                     /\ wanted \subseteq base \cup mappings[i].labels
    <3>1. sets[i] = base \cup mappings[i].labels
      BY <1>1, <2>1
    <3>2. (sets[i] \ base) \cap wanted = (wanted \ base) \cap mappings[i].labels
      BY <3>1
    <3>q. QED
      BY <3>1, <3>2 DEF AsksForExtra, Covers
  <2> HIDE DEF sets
  <2>q. QED
    BY <1>1, <2>1, <2>2
<1>3. /\ SelectedSet = IF First(namedSets) # 0 THEN First(namedSets)
                       ELSE IF First(asked) # 0 THEN First(asked)
                       ELSE IF Covers(base) THEN n + 1 ELSE 0
      /\ MappingFor = IF First(named) # 0 THEN First(named)
                      ELSE IF setId = baseId THEN 0 ELSE First(asked)
  <2>1. sets[n + 1] = base
    BY <1>1
  <2> HIDE DEF sets
  <2>q. QED
    BY <1>1, <1>2, <2>1, Zenon DEF SelectedSet, MappingFor, SelectMapping, C, sets
<1>4. {named, namedSets, asked} \subseteq SUBSET (Nat \ {0})
  BY <1>1
<1> SUFFICES ASSUME MatchesLabels PROVE SelectedSet # 0 /\ C[SelectedSet].id = SelectImage
  BY DEF SetAgreed, C
<1>5. CASE named # {}
  <2>1. First(named) \in named /\ First(named) # 0 /\ \A i \in named : First(named) <= i
    BY <1>4, <1>5, FirstThere
  <2>2. First(named) \in namedSets /\ \A i \in namedSets : First(named) <= i
    <3>1. First(named) \in 1 .. n /\ mappings[First(named)].id = setId
      BY <1>1, <2>1
    <3>2. \A i \in namedSets : i \in named \/ i = n + 1
      BY <1>1
    <3>3. First(named) \in namedSets
      BY <1>1, <3>1
    <3>4. First(named) <= n + 1
      BY <1>1, <3>1
    <3> HIDE DEF named
    <3>q. QED
      BY <2>1, <3>2, <3>3, <3>4
  <2>3. First(namedSets) = First(named)
    BY <1>4, <2>2, FirstOnly
  <2> HIDE DEF named, namedSets
  <2>q. QED
    BY <1>1, <1>3, <2>1, <2>3 DEF SelectImage, named
<1>6. CASE named = {} /\ setId = baseId
  <2>1. namedSets = {n + 1}
    BY <1>1, <1>6
  <2>2. First(namedSets) = n + 1 /\ First(named) = 0
    BY <1>1, <1>4, <1>6, <2>1, FirstOnly, FirstThere
  <2>q. QED
    BY <1>1, <1>3, <1>6, <2>2 DEF SelectImage
<1>7. CASE named = {} /\ setId # baseId
  <2>1. namedSets = {}
    BY <1>1, <1>7
  <2>2. First(namedSets) = 0 /\ First(named) = 0
    BY <1>4, <1>7, <2>1, FirstThere
  <2>3. CASE asked # {}
    <3>1. First(asked) \in asked /\ First(asked) # 0
      BY <1>4, <2>3, FirstThere
    <3>q. QED
      BY <1>1, <1>3, <1>7, <2>2, <3>1 DEF SelectImage
  <2>4. CASE asked = {}
    <3>1. First(asked) = 0
      BY <1>4, <2>4, FirstThere
    <3>2. Covers(base)
      <4>1. PICK i \in 1 .. n + 1 : Covers(C[i].labels)
        BY <1>1 DEF MatchesLabels, ToSet, C
      <4>2. CASE i = n + 1
        BY <1>1, <4>1, <4>2
      <4>3. CASE i \in 1 .. n
        <5>1. i \notin asked /\ wanted \subseteq base \cup mappings[i].labels
          BY <1>1, <2>4, <4>1, <4>3 DEF Covers
        <5>2. (wanted \ base) \cap mappings[i].labels = {}
          BY <1>1, <4>3, <5>1
        <5>q. QED
          BY <5>1, <5>2 DEF Covers
      <4>q. QED
        BY <1>1, <4>1, <4>2, <4>3
    <3>q. QED
      BY <1>1, <1>3, <1>7, <2>2, <3>1, <3>2 DEF SelectImage
  <2>q. QED
    BY <2>3, <2>4
<1>q. QED
  BY <1>5, <1>6, <1>7

\* SetAgreed: a runner's image is the one the agent told of for the label set it was asked for by.
THEOREM SetsAgree == LabelsSpec => []SetAgreed
<1>1. LabelsInit => MappingsThere
  <2>1. <<>> \in Seq(Mappings)
    OBVIOUS
  <2>q. QED
    BY <2>1 DEF LabelsInit, MappingsThere
<1>2. MappingsThere /\ [LabelsNext]_labelVars => MappingsThere'
  <2>1. ASSUME MappingsThere, NEW m \in Mappings PROVE Append(mappings, m) \in Seq(Mappings)
    BY <2>1 DEF MappingsThere
  <2>q. QED
    BY <2>1 DEF MappingsThere, LabelsNext, AddMapping, labelVars
<1>q. QED
  BY <1>1, <1>2, AgreedThere, PTL DEF LabelsSpec
=============================================================================
