-------------------------- MODULE ConnectionProofs --------------------------
(***************************************************************************)
(* Proofs about an agent's connection: how it enrolls, how it registers,   *)
(* and how commands go back and forth, for any hosts, tokens and           *)
(* connections, any commands and any capacity of the channels.             *)
(*                                                                         *)
(* A token is exchanged once, and a revoked agent stays out: that it is    *)
(* not exchanged a second time follows from its row, which an exchange     *)
(* deletes for good (Spent). A reconnect keeps the admin's setting and the *)
(* new connection's runners: a runner of a later connection has a later    *)
(* number than the disconnect that is claimed (Numbered), and a            *)
(* set_unavailable that is alone writes to the entry what it wrote to the  *)
(* set (Settings). A command task and the agent's command loop wait on     *)
(* each other only when more commands are under way than a channel holds:  *)
(* a command is at one place at a time on its way (Once), so a full        *)
(* channel and whoever awaits room in it are more commands than the        *)
(* channel has slots. Acks and events keep their order on the way back,    *)
(* across reconnects: each is at one place at a time (OnePlace).           *)
(***************************************************************************)
EXTENDS Session, Registration, Enroll, FiniteSetTheorems, TLAPS

-----------------------------------------------------------------------------
(* Enroll *)

-----------------------------------------------------------------------------
(* The inductive invariant *)

EnrollTypeOK ==
  /\ token \in [Tokens -> {"none", "live", "expired", "gone"}]
  /\ record \in [Ids -> {"none", "valid", "revoked", "gone"}] /\ lapsed \subseteq Ids
  /\ call \in [Hosts -> {"none", "called", "consumed", "stored"}]
  /\ using \in [Hosts -> Tokens \cup {CHOOSE t \in Tokens : TRUE}]
  /\ issued \in [Hosts -> Ids \cup {0}]
  /\ cert \in [Hosts -> Ids \cup {0}] /\ key \in [Hosts -> Ids \cup {0}]
  /\ at \in [Hosts -> {"off", "waits", "saving", "checked", "read", "streaming"}]
  /\ copy \in [Hosts -> {"none", "valid", "revoked", "gone"}]
  /\ spent \in [Tokens -> Nat]

\* A call under way has a token.
Uses == \A h \in Hosts : call[h] # "none" => using[h] \in Tokens

\* A stream is admitted with the certificate the agent has.
Admitted == \A h \in Hosts : at[h] = "checked" => cert[h] # 0

\* A token that was exchanged has no row any more, and never again.
Spent == \A t \in Tokens : spent[t] = 0 \/ (spent[t] = 1 /\ token[t] = "gone")

EnrollInv == EnrollTypeOK /\ Uses /\ Admitted /\ Spent

-----------------------------------------------------------------------------
(* The invariant holds *)

LEMMA EnrollInitInv == EnrollInit => EnrollInv
  BY EnrollAssumption DEF EnrollInit, EnrollInv, EnrollTypeOK, Uses, Admitted, Spent, Ids

\* A step of a host's register call or stream keeps the invariant.
LEMMA HostStepKeeps ==
  ASSUME EnrollInv, NEW h \in Hosts,
         \/ ConsumeToken(h) \/ RefuseToken(h) \/ StoreAgent(h) \/ SaveCert(h) \/ SaveKey(h)
         \/ Interrupted(h) \/ OpenStream(h) \/ ReadAgent(h) \/ UpdateAndRegister(h)
         \/ \E t \in Tokens : CallRegister(h, t)
  PROVE  EnrollInv'
<1> USE DEF EnrollInv, EnrollTypeOK, Uses, Admitted, Spent
<1>1. CASE ConsumeToken(h)
  BY <1>1 DEF ConsumeToken, Consumed
<1>2. CASE RefuseToken(h)
  BY <1>2 DEF RefuseToken
<1>3. CASE StoreAgent(h)
  BY <1>3 DEF StoreAgent, Stored
<1>4. CASE SaveCert(h)
  BY <1>4 DEF SaveCert
<1>5. CASE SaveKey(h)
  BY <1>5 DEF SaveKey
<1>6. CASE Interrupted(h)
  BY <1>6 DEF Interrupted
<1>7. CASE OpenStream(h)
  BY <1>7 DEF OpenStream, HasCertificates
<1>8. CASE ReadAgent(h)
  BY <1>8 DEF ReadAgent
<1>9. CASE UpdateAndRegister(h)
  BY <1>9 DEF UpdateAndRegister, MetadataUpdated
<1>10. CASE \E t \in Tokens : CallRegister(h, t)
  BY <1>10 DEF CallRegister
<1> QED
  BY <1>1, <1>2, <1>3, <1>4, <1>5, <1>6, <1>7, <1>8, <1>9, <1>10

\* So does a step of a token's or a record's life.
LEMMA AdminStepKeeps ==
  ASSUME EnrollInv,
         \/ \E t \in Tokens : CreateToken(t) \/ TokenExpires(t) \/ DeleteToken(t)
         \/ \E i \in Ids : Lapse(i) \/ RevokeAgent(i) \/ PurgeRevoked(i)
  PROVE  EnrollInv'
<1> USE DEF EnrollInv, EnrollTypeOK, Uses, Admitted, Spent
<1>1. ASSUME NEW t \in Tokens, CreateToken(t) \/ TokenExpires(t) \/ DeleteToken(t)
      PROVE  EnrollInv'
  BY <1>1 DEF CreateToken, TokenExpires, DeleteToken
<1>2. ASSUME NEW i \in Ids, Lapse(i) \/ RevokeAgent(i) \/ PurgeRevoked(i)
      PROVE  EnrollInv'
  BY <1>2 DEF Lapse, RevokeAgent, PurgeRevoked
<1> QED
  BY <1>1, <1>2

\* The invariant is inductive.
LEMMA EnrollNextInv == EnrollInv /\ [EnrollNext]_enrollVars => EnrollInv'
<1> SUFFICES ASSUME EnrollInv, [EnrollNext]_enrollVars PROVE EnrollInv'
  OBVIOUS
<1>1. CASE EnrollNext
  BY <1>1, HostStepKeeps, AdminStepKeeps DEF EnrollNext
<1>2. CASE UNCHANGED enrollVars
  BY <1>2 DEF enrollVars, EnrollInv, EnrollTypeOK, Uses, Admitted, Spent
<1> QED
  BY <1>1, <1>2

LEMMA EnrollInvariant == EnrollSpec => []EnrollInv
<1> QED
  BY EnrollInitInv, EnrollNextInv, PTL DEF EnrollSpec

-----------------------------------------------------------------------------
(* The theorems *)

\* What the coordinator and the agents keep has its type, whatever is cut off.
THEOREM EnrollTypeCorrect == EnrollSpec => []EnrollTypeOK
<1>1. EnrollInv => EnrollTypeOK
  BY DEF EnrollInv
<1> QED
  BY EnrollInvariant, <1>1, PTL

\* However calls of several agents, retries and the admin's deletion interleave, a token is
\* exchanged once.
LEMMA SingleUse == EnrollSpec => []TokenSingleUse
<1>1. EnrollInv => TokenSingleUse
  BY DEF EnrollInv, Spent, TokenSingleUse
<1> QED
  BY EnrollInvariant, <1>1, PTL

\* Only an id that is new gets a record, and the stream that is admitted leaves it as it is.
LEMMA StepKeepsRevoked == EnrollInv /\ [EnrollNext]_enrollVars => [RevokedKept]_enrollVars
<1> SUFFICES ASSUME EnrollInv, EnrollNext PROVE RevokedKept
  OBVIOUS
<1>1. ASSUME NEW h \in Hosts, StoreAgent(h) PROVE RevokedKept
  BY <1>1 DEF StoreAgent, Stored, RevokedKept, EnrollInv, EnrollTypeOK
<1>2. ASSUME NEW i \in Ids, RevokeAgent(i) \/ PurgeRevoked(i) PROVE RevokedKept
  BY <1>2 DEF RevokeAgent, PurgeRevoked, RevokedKept, EnrollInv, EnrollTypeOK
<1>3. CASE UNCHANGED record
  BY <1>3 DEF RevokedKept
<1>4. \/ \E h \in Hosts : StoreAgent(h)
      \/ \E i \in Ids : RevokeAgent(i) \/ PurgeRevoked(i)
      \/ UNCHANGED record
  BY DEF EnrollNext, ConsumeToken, RefuseToken, SaveCert, SaveKey, Interrupted, OpenStream,
         ReadAgent, UpdateAndRegister, MetadataUpdated, CallRegister, CreateToken, TokenExpires,
         DeleteToken, Lapse
<1> QED
  BY <1>1, <1>2, <1>3, <1>4

\* An agent gets in by a token that nobody else gets in by, and is out once it is revoked.
THEOREM EnrolledOnce == EnrollSpec => EnrollSound
<1>1. EnrollSpec => [][RevokedKept]_enrollVars
  BY EnrollInvariant, StepKeepsRevoked, PTL DEF EnrollSpec
<1> QED
  BY <1>1, SingleUse DEF EnrollSound

-----------------------------------------------------------------------------
(* Registration *)

-----------------------------------------------------------------------------
(* The inductive invariant *)

RegistrationTypeOK ==
  /\ entry \in 0 .. MaxConns /\ cur \in 0 .. MaxConns
  /\ stream \in [Conns -> {"none", "opening", "loop", "over", "gone"}]
  /\ stamps \in 0 .. MaxStamps /\ stamp \in 0 .. MaxStamps
  /\ holder \in [Calls -> 0 .. MaxConns]
  /\ timer \in [1 .. MaxStamps -> {"off", "sleeping", "snapshot"}]
  /\ orphans \in [1 .. MaxStamps -> SUBSET Runners]
  /\ born \in [Runners -> Nat]
  /\ flag \in [Conns -> BOOLEAN] /\ setter \in [Calls -> {"idle", "set", "clear"}]
  /\ attached \in BOOLEAN /\ stale \in BOOLEAN /\ marked \in BOOLEAN
  /\ overlapped \in BOOLEAN

\* An offline agent's disconnect is the last one, and its runners were made before it.
Numbered ==
  /\ stamp \in {0, stamps}
  /\ \A r \in Runners : born[r] <= stamps + 1 /\ (entry = 0 => born[r] <= stamps)

\* A call under way is the only one, and has put its value into the set; with none under way, the
\* entry has the set's value.
Settings ==
  ~overlapped =>
    /\ \A k, l \in Setting : k = l
    /\ \A k \in Setting : marked <=> setter[k] = "set"
    /\ entry # 0 /\ Setting = {} => (flag[entry] <=> marked)

RegistrationInv == RegistrationTypeOK /\ Numbered /\ Settings

-----------------------------------------------------------------------------
(* The invariant holds *)

LEMMA RegistrationInitInv == RegistrationInit => RegistrationInv
<1> SUFFICES ASSUME RegistrationInit PROVE RegistrationInv
  OBVIOUS
<1>1. RegistrationTypeOK
  <2>1. 0 \in 0 .. MaxConns /\ 0 \in 0 .. MaxStamps
    BY RegistrationAssumption
  <2>2. /\ stream \in [Conns -> {"none", "opening", "loop", "over", "gone"}]
        /\ timer \in [1 .. MaxStamps -> {"off", "sleeping", "snapshot"}]
        /\ setter \in [Calls -> {"idle", "set", "clear"}]
    BY DEF RegistrationInit
  <2>3. holder \in [Calls -> 0 .. MaxConns] /\ born \in [Runners -> Nat]
    BY <2>1 DEF RegistrationInit
  <2>4. flag \in [Conns -> BOOLEAN] /\ orphans \in [1 .. MaxStamps -> SUBSET Runners]
    BY DEF RegistrationInit
  <2> QED
    BY <2>1, <2>2, <2>3, <2>4 DEF RegistrationInit, RegistrationTypeOK
<1>2. Numbered
  BY DEF RegistrationInit, Numbered
<1>3. Settings
  BY DEF RegistrationInit, Settings, Setting
<1> QED
  BY <1>1, <1>2, <1>3 DEF RegistrationInv

\* What a step does that leaves the flags, the set and its callers alone, and registers nobody.
LEMMA SettingsStay ==
  ASSUME Settings, UNCHANGED <<marked, flag, setter, overlapped>>, entry' \in {0, entry}
  PROVE  Settings'
  BY DEF Settings, Setting

\* A stream's step keeps the invariant.
LEMMA StreamKeeps ==
  ASSUME RegistrationInv, NEW c \in Conns, Register(c) \/ LeaveLoop(c) \/ EndStream(c)
  PROVE  RegistrationInv'
<1> USE RegistrationAssumption DEF RegistrationInv, Conns
<1>1. CASE Register(c)
  <2>1. RegistrationTypeOK' /\ Numbered'
    BY <1>1 DEF Register, Registered, RegistrationTypeOK, Numbered
  <2>2. entry' = c /\ flag'[c] = marked' /\ Setting' = {}
    BY <1>1 DEF Register, Registered, RegistrationTypeOK, Setting
  <2> QED
    BY <2>1, <2>2 DEF Settings
<1>2. CASE LeaveLoop(c)
  BY <1>2, SettingsStay DEF LeaveLoop, RegistrationTypeOK, Numbered
<1>3. CASE EndStream(c)
  <2>1. RegistrationTypeOK' /\ Numbered'
    BY <1>3 DEF EndStream, Unregister, RegistrationTypeOK, Numbered
  <2> QED
    BY <1>3, <2>1, SettingsStay DEF EndStream, Unregister
<1> QED
  BY <1>1, <1>2, <1>3

\* A call's.
LEMMA CallKeeps ==
  ASSUME RegistrationInv, NEW k \in Calls,
         SendCommand(k) \/ CommandOver(k) \/ Flag(k) \/ \E to \in BOOLEAN : Mark(k, to)
  PROVE  RegistrationInv'
<1> USE RegistrationAssumption DEF RegistrationInv, Conns
<1>1. CASE SendCommand(k)
  BY <1>1, SettingsStay DEF SendCommand, RegistrationTypeOK, Numbered
<1>2. CASE CommandOver(k)
  BY <1>2, SettingsStay DEF CommandOver, RegistrationTypeOK, Numbered
<1>3. CASE Flag(k)
  <2>1. RegistrationTypeOK' /\ Numbered'
    BY <1>3 DEF Flag, RegistrationTypeOK, Numbered
  <2>2. Setting' = Setting \ {k} /\ k \in Setting
    BY <1>3 DEF Flag, Setting, RegistrationTypeOK
  <2>3. entry # 0 => flag'[entry] = (setter[k] = "set")
    <3>1. entry # 0 => entry \in Conns
      BY DEF RegistrationTypeOK
    <3>2. flag' = [c \in Conns |-> IF c = entry THEN setter[k] = "set" ELSE flag[c]]
      BY <1>3 DEF Flag
    <3> QED
      BY <3>1, <3>2, Zenon
  <2>4. entry' = entry /\ marked' = marked /\ overlapped' = overlapped
    BY <1>3 DEF Flag
  <2>5. ~overlapped => Setting' = {} /\ (marked <=> setter[k] = "set")
    BY <2>2 DEF Settings
  <2> QED
    BY <2>1, <2>3, <2>4, <2>5 DEF Settings
<1>4. ASSUME NEW to \in BOOLEAN, Mark(k, to) PROVE RegistrationInv'
  <2>1. RegistrationTypeOK' /\ Numbered'
    BY <1>4 DEF Mark, RegistrationTypeOK, Numbered
  <2>2. Setting' = Setting \cup {k} /\ (to <=> setter'[k] = "set")
    BY <1>4 DEF Mark, Setting, RegistrationTypeOK
  <2>3. overlapped' \/ Setting = {}
    BY <1>4 DEF Mark
  <2> QED
    BY <1>4, <2>1, <2>2, <2>3 DEF Mark, Settings
<1> QED
  BY <1>1, <1>2, <1>3, <1>4

\* The rest: connecting, the stale agents' removal, runners and the grace timers.
LEMMA OtherKeeps ==
  ASSUME RegistrationInv,
         \/ OpenConn \/ CloseConn \/ ListStale \/ RemoveStale
         \/ \E r \in Runners : MakeRunner(r)
         \/ \E s \in 1 .. MaxStamps : GraceOver(s) \/ ClaimFailover(s)
  PROVE  RegistrationInv'
<1> USE RegistrationAssumption DEF RegistrationInv, Conns
<1>1. CASE OpenConn
  BY <1>1, SettingsStay DEF OpenConn, RegistrationTypeOK, Numbered
<1>2. CASE CloseConn
  BY <1>2, SettingsStay DEF CloseConn, RegistrationTypeOK, Numbered
<1>3. CASE ListStale
  BY <1>3, SettingsStay DEF ListStale, RegistrationTypeOK, Numbered
<1>4. CASE RemoveStale
  <2>1. RegistrationTypeOK'
    <3>1. holder' \in [Calls -> 0 .. MaxConns]
      BY <1>4 DEF RemoveStale, Unregister, RegistrationTypeOK
    <3>2. stamps' \in 0 .. MaxStamps /\ stamp' \in 0 .. MaxStamps /\ entry' \in 0 .. MaxConns
      BY <1>4 DEF RemoveStale, Unregister, RegistrationTypeOK
    <3> QED
      BY <1>4, <3>1, <3>2 DEF RemoveStale, RegistrationTypeOK
  <2>2. Numbered'
    BY <1>4 DEF RemoveStale, Unregister, RegistrationTypeOK, Numbered
  <2>3. Settings'
    BY <1>4, SettingsStay DEF RemoveStale, Unregister
  <2> QED
    BY <2>1, <2>2, <2>3
<1>5. ASSUME NEW r \in Runners, MakeRunner(r) PROVE RegistrationInv'
  <2>1. RegistrationTypeOK'
    BY <1>5 DEF MakeRunner, RegistrationTypeOK
  <2>2. Numbered'
    BY <1>5 DEF MakeRunner, RegistrationTypeOK, Numbered
  <2>3. Settings'
    BY <1>5, SettingsStay DEF MakeRunner
  <2> QED
    BY <2>1, <2>2, <2>3
<1>6. ASSUME NEW s \in 1 .. MaxStamps, GraceOver(s) PROVE RegistrationInv'
  <2>1. RegistrationTypeOK'
    <3>1. {r \in Runners : born[r] # 0} \in SUBSET Runners
      OBVIOUS
    <3>2. orphans' \in [1 .. MaxStamps -> SUBSET Runners]
      BY <1>6, <3>1 DEF GraceOver, RegistrationTypeOK
    <3>3. timer' \in [1 .. MaxStamps -> {"off", "sleeping", "snapshot"}]
      BY <1>6 DEF GraceOver, RegistrationTypeOK
    <3> QED
      BY <1>6, <3>2, <3>3 DEF GraceOver, RegistrationTypeOK
  <2>2. Numbered'
    BY <1>6 DEF GraceOver, Numbered
  <2>3. Settings'
    BY <1>6, SettingsStay DEF GraceOver
  <2> QED
    BY <2>1, <2>2, <2>3
<1>7. ASSUME NEW s \in 1 .. MaxStamps, ClaimFailover(s) PROVE RegistrationInv'
  <2>1. stamp' \in {0, stamp} /\ \A r \in Runners : born'[r] \in {0, born[r]}
    BY <1>7 DEF ClaimFailover, RegistrationTypeOK
  <2>2. RegistrationTypeOK'
    <3>1. born' \in [Runners -> Nat] /\ stamp' \in 0 .. MaxStamps
      <4>1. CASE UNCHANGED <<stamp, born>>
        BY <4>1 DEF RegistrationTypeOK
      <4>2. CASE /\ stamp' = 0
                 /\ born' = [r \in Runners |-> IF r \in orphans[s] THEN 0 ELSE born[r]]
        <5>1. \A r \in Runners : (IF r \in orphans[s] THEN 0 ELSE born[r]) \in Nat
          BY DEF RegistrationTypeOK
        <5> QED
          BY <4>2, <5>1
      <4> QED
        BY <1>7, <4>1, <4>2 DEF ClaimFailover
    <3>2. timer' \in [1 .. MaxStamps -> {"off", "sleeping", "snapshot"}]
      BY <1>7 DEF ClaimFailover, RegistrationTypeOK
    <3> QED
      BY <1>7, <3>1, <3>2 DEF ClaimFailover, RegistrationTypeOK
  <2>3. Numbered'
    <3>1. entry' = entry /\ stamps' = stamps /\ stamps \in Nat
      BY <1>7 DEF ClaimFailover, RegistrationTypeOK
    <3> QED
      BY <2>1, <3>1 DEF Numbered
  <2>4. Settings'
    BY <1>7, SettingsStay DEF ClaimFailover
  <2> QED
    BY <2>2, <2>3, <2>4
<1> QED
  BY <1>1, <1>2, <1>3, <1>4, <1>5, <1>6, <1>7

\* The invariant is inductive.
LEMMA RegistrationNextInv ==
  RegistrationInv /\ [RegistrationNext]_registrationVars => RegistrationInv'
<1>1. RegistrationInv /\ UNCHANGED registrationVars => RegistrationInv'
  BY DEF registrationVars, RegistrationInv, RegistrationTypeOK, Numbered, Settings, Setting
<1> QED
  BY <1>1, StreamKeeps, CallKeeps, OtherKeeps DEF RegistrationNext

LEMMA RegistrationInvariant == RegistrationSpec => []RegistrationInv
  BY RegistrationInitInv, RegistrationNextInv, PTL DEF RegistrationSpec

-----------------------------------------------------------------------------
(* The theorems *)

\* The registry's entry, the streams, timers and calls have their types.
THEOREM RegistrationTypeCorrect == RegistrationSpec => []RegistrationTypeOK
<1>1. RegistrationInv => RegistrationTypeOK
  BY DEF RegistrationInv
<1> QED
  BY RegistrationInvariant, <1>1, PTL

\* Whoever claims a disconnect claims the last one, and nobody was made since.
LEMMA ClaimSpares == RegistrationInv /\ [RegistrationNext]_registrationVars
                       => [FailoverSpares]_registrationVars
  BY RegistrationAssumption
  DEF FailoverSpares, ClaimFailover, Claims, RegistrationInv, RegistrationTypeOK, Numbered

\* A reconnect takes neither the admin's setting nor the new connection's runners away.
THEOREM ReconnectKeeps == RegistrationSpec => ReconnectSound
<1>1. RegistrationInv => AvailabilityKept
  <2> SUFFICES ASSUME RegistrationInv, entry # 0, Setting = {}, ~overlapped
               PROVE  flag[entry] = marked
    BY DEF AvailabilityKept
  <2>1. entry \in Conns /\ flag \in [Conns -> BOOLEAN] /\ marked \in BOOLEAN
    BY RegistrationAssumption DEF RegistrationInv, RegistrationTypeOK, Conns
  <2>2. flag[entry] <=> marked
    BY DEF RegistrationInv, Settings
  <2>3. flag[entry] \in BOOLEAN
    BY <2>1
  <2> QED
    BY <2>1, <2>2, <2>3, Zenon
<1>2. RegistrationSpec => []AvailabilityKept
  BY RegistrationInvariant, <1>1, PTL
<1>3. RegistrationSpec => [][FailoverSpares]_registrationVars
  BY RegistrationInvariant, ClaimSpares, PTL DEF RegistrationSpec
<1> QED
  BY <1>2, <1>3 DEF ReconnectSound

-----------------------------------------------------------------------------
(* Session *)

-----------------------------------------------------------------------------
(* The inductive invariant *)

Create(k) == <<"create", k>>

\* Who awaits room has a message of that direction.
HandsOK ==
  /\ task = "push" => taskMsg \in Down
  /\ loop = "out" => loopMsg \in Up
  /\ loop = "command" => \E k \in Cmds : loopMsg = Create(k)

Below(k) == loopMsg # Create(k) /\ k \notin agentLane
InDown(k) == \E i \in 1 .. Len(down) : down[i] = Create(k)

\* Each place a command can be at excludes those after it, down to the agent's command channel.
Once ==
  \A k \in Cmds :
    /\ sender[k] # "over" => k \notin lane /\ taskMsg # Create(k) /\ ~InDown(k) /\ Below(k)
    /\ k \in lane => taskMsg # Create(k) /\ ~InDown(k) /\ Below(k)
    /\ taskMsg = Create(k) => ~InDown(k) /\ Below(k)
    /\ InDown(k) => Below(k)
    /\ loopMsg = Create(k) => k \notin agentLane
    /\ \A i, j \in 1 .. Len(down) : down[i] = Create(k) /\ down[j] = Create(k) => i = j

SessionInv == SessionTypeOK /\ HandsOK /\ Once

-----------------------------------------------------------------------------
(* Messages and sequences *)

LEMMA Messages ==
  /\ <<"ping">> \in Down /\ <<"status">> \in Up /\ Note \subseteq Up
  /\ \A k \in Cmds : Create(k) \in Down /\ <<"ping">> # Create(k) /\ Create(k)[2] = k
  /\ \A k, l \in Cmds : Create(k) = Create(l) => k = l
  /\ \A m \in Down : m = <<"ping">> \/ \E k \in Cmds : m = Create(k)
  /\ \A m \in Down : m[1] = "ping" <=> m = <<"ping">>
  /\ \A m \in Up, k \in Cmds : m # Create(k)
  BY DEF Down, Up, Note, Ack, EventOf, Create

\* What a step does that takes commands out of places, but puts none into another.
LEMMA OnceLess ==
  ASSUME Once, lane' \subseteq lane, agentLane' \subseteq agentLane,
         taskMsg' = taskMsg \/ \A k \in Cmds : taskMsg' # Create(k),
         loopMsg' = loopMsg \/ \A k \in Cmds : loopMsg' # Create(k),
         Len(down) \in Nat, Len(down') \in 0 .. Len(down),
         \A i \in 1 .. Len(down') : down'[i] = down[i],
         \A k \in Cmds : sender'[k] # "over" => sender[k] # "over"
  PROVE  Once'
<1>1. \A k \in Cmds : InDown(k)' => InDown(k)
  BY DEF InDown
<1>2. \A k \in Cmds : Below(k) => Below(k)'
  BY DEF Below
<1>3. \A k \in Cmds, i, j \in 1 .. Len(down') :
        down'[i] = Create(k) /\ down'[j] = Create(k) => i = j
  BY DEF Once
<1> QED
  BY <1>1, <1>2, <1>3 DEF Once, Below

-----------------------------------------------------------------------------
(* The invariant holds *)

LEMMA SessionInitInv == SessionInit => SessionInv
<1> SUFFICES ASSUME SessionInit PROVE SessionInv
  OBVIOUS
<1>1. SessionTypeOK
  BY SessionAssumption, Messages DEF SessionInit, SessionTypeOK, Note, Ack, EventOf
<1>2. HandsOK
  BY DEF SessionInit, HandsOK
<1>3. Once
  BY Messages DEF SessionInit, Once, InDown, Below
<1> QED
  BY <1>1, <1>2, <1>3 DEF SessionInv

\* The command tasks.
LEMMA SenderKeeps ==
  ASSUME SessionInv, NEW k \in Cmds, SenderStart(k) \/ SenderPush(k)
  PROVE  SessionInv'
<1> USE DEF SessionInv
<1>1. CASE SenderStart(k)
  <2>1. SessionTypeOK' /\ HandsOK'
    BY <1>1 DEF SenderStart, SessionTypeOK, HandsOK
  <2>2. Once'
    <3>1. \A l \in Cmds : sender'[l] # "over" => sender[l] # "over"
      BY <1>1 DEF SenderStart, SessionTypeOK
    <3> QED
      BY <1>1, <3>1, OnceLess DEF SenderStart, SessionTypeOK
  <2> QED
    BY <2>1, <2>2
<1>2. CASE SenderPush(k)
  <2>1. SessionTypeOK' /\ HandsOK'
    BY <1>2 DEF SenderPush, AfterSend, SessionTypeOK, HandsOK
  <2>2. Once'
    <3>1. sender' = [sender EXCEPT ![k] = "over"] /\ sender[k] = "push" /\ lane' = lane \cup {k}
      BY <1>2 DEF SenderPush, AfterSend
    <3>2. UNCHANGED <<taskMsg, down, loopMsg, agentLane>>
      BY <1>2 DEF SenderPush
    <3> QED
      BY <3>1, <3>2 DEF SessionTypeOK, Once, InDown, Below
  <2> QED
    BY <2>1, <2>2
<1> QED
  BY <1>1, <1>2

\* The server task.
LEMMA TaskKeeps ==
  ASSUME SessionInv,
         TaskReads \/ TaskWrites \/ TaskCommand \/ TaskPing \/ TaskPush \/ TaskLoses
  PROVE  SessionInv'
<1> USE DEF SessionInv
<1>1. CASE TaskReads
  <2>0. up' \in Seq(Up) /\ Len(up') <= Cap
    BY <1>1, SessionAssumption DEF TaskReads, SessionTypeOK
  <2>1. SessionTypeOK' /\ HandsOK'
    BY <1>1, <2>0 DEF TaskReads, SessionTypeOK, HandsOK
  <2>2. Once'
    BY <1>1, OnceLess DEF TaskReads, SessionTypeOK
  <2> QED
    BY <2>1, <2>2
<1>2. CASE TaskWrites
  <2>1. SessionTypeOK' /\ HandsOK'
    BY <1>2 DEF TaskWrites, SessionTypeOK, HandsOK
  <2>2. Once'
    BY <1>2, OnceLess DEF TaskWrites, SessionTypeOK
  <2> QED
    BY <2>1, <2>2
<1>3. CASE TaskCommand
  <2>0. PICK k \in lane : lane' = lane \ {k} /\ taskMsg' = Create(k)
    BY <1>3 DEF TaskCommand, Create
  <2>1. SessionTypeOK' /\ HandsOK'
    BY <1>3, <2>0, Messages DEF TaskCommand, SessionTypeOK, HandsOK
  <2>2. Once'
    <3>1. UNCHANGED <<sender, down, loopMsg, agentLane>>
      BY <1>3 DEF TaskCommand
    <3> QED
      BY <2>0, <3>1, Messages DEF SessionTypeOK, Once, InDown, Below
  <2> QED
    BY <2>1, <2>2
<1>4. CASE TaskPing
  <2>1. SessionTypeOK' /\ HandsOK'
    BY <1>4, Messages DEF TaskPing, SessionTypeOK, HandsOK
  <2>2. Once'
    BY <1>4, OnceLess, Messages DEF TaskPing, SessionTypeOK
  <2> QED
    BY <2>1, <2>2
<1>5. CASE TaskPush
  <2>0. taskMsg \in Down /\ down \in Seq(Down) /\ Len(down) < Cap
    BY <1>5 DEF TaskPush, HasRoom, HandsOK, SessionTypeOK
  <2>1. SessionTypeOK' /\ HandsOK'
    BY <1>5, <2>0, Messages, SessionAssumption DEF TaskPush, SessionTypeOK, HandsOK
  <2>2. Once'
    <3>1. UNCHANGED <<sender, lane, loopMsg, agentLane>> /\ taskMsg' = <<"ping">>
      BY <1>5 DEF TaskPush
    <3>2. /\ Len(down') = Len(down) + 1 /\ down'[Len(down) + 1] = taskMsg
          /\ \A i \in 1 .. Len(down) : down'[i] = down[i]
      BY <1>5, <2>0 DEF TaskPush
    <3>3. \A k \in Cmds : InDown(k)' <=> InDown(k) \/ taskMsg = Create(k)
      BY <2>0, <3>2 DEF InDown
    <3>4. ASSUME NEW k \in Cmds, NEW i \in 1 .. Len(down'), NEW j \in 1 .. Len(down'),
                 down'[i] = Create(k), down'[j] = Create(k)
          PROVE  i = j
      <4>1. CASE taskMsg = Create(k)
        <5>1. ~InDown(k)
          BY <4>1 DEF Once
        <5> QED
          BY <2>0, <3>2, <3>4, <5>1 DEF InDown
      <4>2. CASE taskMsg # Create(k)
        <5>1. i \in 1 .. Len(down) /\ j \in 1 .. Len(down)
          BY <2>0, <3>2, <3>4, <4>2
        <5> QED
          BY <3>2, <3>4, <5>1 DEF Once
      <4> QED
        BY <4>1, <4>2
    <3>5. \A k \in Cmds : Below(k)' <=> Below(k)
      BY <3>1 DEF Below
    <3> QED
      BY <3>1, <3>3, <3>4, <3>5, Messages DEF Once
  <2> QED
    BY <2>1, <2>2
<1>6. CASE TaskLoses
  <2>1. SessionTypeOK' /\ HandsOK'
    BY <1>6, Messages, SessionAssumption DEF TaskLoses, SessionTypeOK, HandsOK, Pushing
  <2>2. Once'
    <3>1. \A k \in Cmds : sender'[k] # "over" => sender[k] # "over"
      BY <1>6 DEF TaskLoses
    <3> QED
      BY <1>6, <3>1, OnceLess, Messages DEF TaskLoses, SessionTypeOK
  <2> QED
    BY <2>1, <2>2
<1> QED
  BY <1>1, <1>2, <1>3, <1>4, <1>5, <1>6

\* The stream itself.
LEMMA LinkKeeps ==
  ASSUME SessionInv, Connect \/ Break
  PROVE  SessionInv'
<1> USE DEF SessionInv
<1>1. CASE Connect
  <2>1. SessionTypeOK' /\ HandsOK'
    BY <1>1, Messages, SessionAssumption DEF Connect, SessionTypeOK, HandsOK
  <2>2. Once'
    BY <1>1, OnceLess DEF Connect, SessionTypeOK
  <2> QED
    BY <2>1, <2>2
<1>2. CASE Break
  <2>1. PICK i \in 0 .. Len(up) : up' = SubSeq(up, 1, i)
    BY <1>2 DEF Break
  <2>2. PICK j \in 0 .. Len(down) : down' = SubSeq(down, 1, j)
    BY <1>2 DEF Break
  <2>3. up' \in Seq(Up) /\ Len(up') <= Cap
    BY <2>1, SessionAssumption DEF SessionTypeOK
  <2>4. down' \in Seq(Down) /\ Len(down') <= Cap /\ Len(down') \in 0 .. Len(down)
        /\ \A n \in 1 .. Len(down') : down'[n] = down[n]
    BY <2>2, SessionAssumption DEF SessionTypeOK
  <2>5. SessionTypeOK' /\ HandsOK'
    BY <1>2, <2>3, <2>4 DEF Break, SessionTypeOK, HandsOK
  <2>6. Once'
    BY <1>2, <2>4, OnceLess DEF Break, SessionTypeOK
  <2> QED
    BY <2>5, <2>6
<1> QED
  BY <1>1, <1>2

\* The session loop.
LEMMA LoopKeeps ==
  ASSUME SessionInv, LoopReads \/ LoopEvent \/ LoopOut \/ LoopCommand \/ LoopLoses
  PROVE  SessionInv'
<1> USE DEF SessionInv
<1>1. CASE LoopReads
  <2>0. /\ down \in Seq(Down) /\ down # <<>> /\ Head(down) = down[1] /\ down[1] \in Down
        /\ down' \in Seq(Down) /\ Len(down') = Len(down) - 1 /\ Len(down) \in Nat \ {0}
        /\ \A i \in 1 .. Len(down') : down'[i] = down[i + 1]
    BY <1>1 DEF LoopReads, SessionTypeOK
  <2>1. \/ down[1] = <<"ping">> /\ loop' = "out" /\ loopMsg' = <<"status">>
        \/ \E k \in Cmds : down[1] = Create(k) /\ loop' = "command" /\ loopMsg' = Create(k)
    BY <1>1, <2>0, Messages DEF LoopReads
  <2>2. SessionTypeOK' /\ HandsOK'
    <3>1. HandsOK' /\ loopMsg' \in Up \cup Down /\ loop' \in {"out", "command"}
      BY <1>1, <2>1, Messages DEF LoopReads, HandsOK
    <3>2. down' \in Seq(Down) /\ Len(down') <= Cap
      BY <2>0, SessionAssumption DEF SessionTypeOK
    <3> QED
      BY <1>1, <3>1, <3>2 DEF LoopReads, SessionTypeOK
  <2>3. Once'
    <3>1. UNCHANGED <<sender, lane, taskMsg, agentLane>>
      BY <1>1 DEF LoopReads
    <3>2. \A k \in Cmds : loopMsg' = Create(k) => down[1] = Create(k)
      BY <2>1, Messages
    <3>3. \A k \in Cmds : InDown(k)' => InDown(k)
      BY <2>0 DEF InDown
    <3>4. \A k \in Cmds : loopMsg' = Create(k) => InDown(k) /\ ~InDown(k)'
      BY <2>0, <3>2 DEF InDown, Once
    <3>5. \A k \in Cmds, i, j \in 1 .. Len(down') :
            down'[i] = Create(k) /\ down'[j] = Create(k) => i = j
      BY <2>0 DEF Once
    <3> QED
      BY <3>1, <3>3, <3>4, <3>5 DEF Once, Below
  <2> QED
    BY <2>2, <2>3
<1>2. CASE LoopEvent
  <2>0. Head(eventLane) \in Note /\ Tail(eventLane) \in Seq(Note)
        /\ Len(Tail(eventLane)) <= Cap
    BY <1>2, SessionAssumption DEF LoopEvent, SessionTypeOK
  <2>1. SessionTypeOK' /\ HandsOK'
    BY <1>2, <2>0, Messages DEF LoopEvent, SessionTypeOK, HandsOK
  <2>2. Once'
    BY <1>2, <2>0, OnceLess, Messages DEF LoopEvent, SessionTypeOK
  <2> QED
    BY <2>1, <2>2
<1>3. CASE LoopOut
  <2>0. up' \in Seq(Up) /\ Len(up') <= Cap
    BY <1>3, SessionAssumption DEF LoopOut, HasRoom, SessionTypeOK, HandsOK
  <2>1. SessionTypeOK' /\ HandsOK'
    BY <1>3, <2>0, Messages DEF LoopOut, SessionTypeOK, HandsOK
  <2>2. Once'
    BY <1>3, OnceLess, Messages DEF LoopOut, SessionTypeOK
  <2> QED
    BY <2>1, <2>2
<1>4. CASE LoopCommand
  <2>0. PICK k \in Cmds : loopMsg = Create(k) /\ agentLane' = agentLane \cup {k}
    BY <1>4, Messages DEF LoopCommand, HandsOK
  <2>1. SessionTypeOK' /\ HandsOK'
    BY <1>4, <2>0, Messages DEF LoopCommand, SessionTypeOK, HandsOK
  <2>2. Once'
    <3>1. UNCHANGED <<sender, lane, taskMsg, down>> /\ loopMsg' = <<"ping">>
      BY <1>4 DEF LoopCommand
    <3> QED
      BY <2>0, <3>1, Messages DEF Once, InDown, Below
  <2> QED
    BY <2>1, <2>2
<1>5. CASE LoopLoses
  <2>1. SessionTypeOK' /\ HandsOK'
    BY <1>5, Messages, SessionAssumption
    DEF LoopLoses, KeepsEvents, SessionTypeOK, HandsOK
  <2>2. Once'
    BY <1>5, OnceLess, Messages DEF LoopLoses, SessionTypeOK
  <2> QED
    BY <2>1, <2>2
<1> QED
  BY <1>1, <1>2, <1>3, <1>4, <1>5

\* The agent's command loop and its lifecycles.
LEMMA AgentKeeps ==
  ASSUME SessionInv, Serve \/ \E n \in Note : PutNote(n)
  PROVE  SessionInv'
<1> USE DEF SessionInv
<1>1. CASE Serve
  <2>0. PICK k \in agentLane : agentLane' = agentLane \ {k} /\ serving' = serving \cup {Ack(k)}
    BY <1>1 DEF Serve
  <2>1. SessionTypeOK' /\ HandsOK'
    BY <1>1, <2>0 DEF Serve, SessionTypeOK, HandsOK, Note
  <2>2. Once'
    BY <1>1, <2>0, OnceLess DEF Serve, SessionTypeOK
  <2> QED
    BY <2>1, <2>2
<1>2. ASSUME NEW n \in Note, PutNote(n) PROVE SessionInv'
  <2>0. eventLane' \in Seq(Note) /\ Len(eventLane') <= Cap
    BY <1>2, SessionAssumption DEF PutNote, HasRoom, SessionTypeOK
  <2>1. SessionTypeOK' /\ HandsOK'
    BY <1>2, <2>0 DEF PutNote, SessionTypeOK, HandsOK
  <2>2. Once'
    BY <1>2, OnceLess DEF PutNote, SessionTypeOK
  <2> QED
    BY <2>1, <2>2
<1> QED
  BY <1>1, <1>2

\* The invariant is inductive.
LEMMA SessionNextInv == SessionInv /\ [SessionNext]_sessionVars => SessionInv'
<1>1. ASSUME SessionInv, UNCHANGED sessionVars PROVE SessionInv'
  <2>1. SessionTypeOK' /\ HandsOK'
    BY <1>1 DEF sessionVars, SessionInv, SessionTypeOK, HandsOK
  <2>2. Once'
    BY <1>1 DEF sessionVars, SessionInv, Once, InDown, Below
  <2> QED
    BY <2>1, <2>2 DEF SessionInv
<1> QED
  BY <1>1, SenderKeeps, TaskKeeps, LinkKeeps, LoopKeeps, AgentKeeps DEF SessionNext

LEMMA SessionInvariant == SessionSpec => []SessionInv
  BY SessionInitInv, SessionNextInv, PTL DEF SessionSpec

-----------------------------------------------------------------------------
(* The theorems *)

\* The stream's channels hold messages of their direction, and no more than their capacity.
THEOREM SessionTypeCorrect == SessionSpec => []SessionTypeOK
<1>1. SessionInv => SessionTypeOK
  BY DEF SessionInv
<1> QED
  BY SessionInvariant, <1>1, PTL

\* A full channel and one more command are more than Cap commands.
LEMMA OneMore ==
  ASSUME NEW S, IsFiniteSet(S), NEW C \in SUBSET S, Cardinality(C) = Cap, NEW k \in S \ C
  PROVE  Cardinality(S) > Cap
<1>1. IsFiniteSet(C)
  BY FS_Subset
<1>2. Cardinality(C \cup {k}) = Cap + 1
  BY <1>1, FS_AddElement
<1>3. Cardinality(C \cup {k}) <= Cardinality(S)
  BY FS_Subset
<1> QED
  BY <1>2, <1>3, SessionAssumption, FS_CardinalityType

\* Commands are few enough to count.
LEMMA OutstandingFinite == SessionTypeOK => IsFiniteSet(Outstanding)
<1> SUFFICES ASSUME SessionTypeOK PROVE IsFiniteSet(Outstanding)
  OBVIOUS
<1>1. Outstanding \subseteq Cmds \cup Earlier
  BY DEF Outstanding, Pushing, InHand, SessionTypeOK
<1>2. IsFiniteSet(Cmds \cup Earlier)
  BY SessionAssumption, FS_Union
<1> QED
  BY <1>1, <1>2, FS_Subset

\* send_command awaits room with the agent's lock held: whatever the channels' capacity, that can
\* only end in a deadlock with the server task, or the session loop's in one with the agent's
\* command loop, when more commands are under way at once than a channel has room for.
THEOREM NoCycleWithinCap == SessionSpec => []RoomForAll
<1>1. ASSUME SessionInv, Cardinality(Outstanding) <= Cap, LockCycle PROVE FALSE
  <2>1. PICK k \in Pushing : k \notin lane
    BY <1>1 DEF LockCycle, Pushing, SessionInv, Once
  <2>2. lane \in SUBSET Outstanding /\ k \in Outstanding \ lane
    BY <2>1 DEF Outstanding
  <2>3. Cardinality(Outstanding) > Cap
    BY <1>1, <2>2, OneMore, OutstandingFinite DEF LockCycle, SessionInv
  <2> QED
    BY <1>1, <2>2, <2>3, OutstandingFinite, FS_CardinalityType, SessionAssumption DEF SessionInv
<1>2. ASSUME SessionInv, Cardinality(Outstanding) <= Cap, AgentCycle PROVE FALSE
  <2>1. PICK k \in Cmds : loopMsg = Create(k) /\ k \notin agentLane
    BY <1>2 DEF AgentCycle, SessionInv, HandsOK, Once
  <2>2. agentLane \in SUBSET Outstanding /\ k \in Outstanding \ agentLane
    BY <2>1 DEF Outstanding, InHand, Create
  <2>3. Cardinality(Outstanding) > Cap
    BY <1>2, <2>2, OneMore, OutstandingFinite DEF AgentCycle, SessionInv
  <2> QED
    BY <1>2, <2>2, <2>3, OutstandingFinite, FS_CardinalityType, SessionAssumption DEF SessionInv
<1>3. SessionInv => RoomForAll
  BY <1>1, <1>2 DEF RoomForAll
<1> QED
  BY SessionInvariant, <1>3, PTL

-----------------------------------------------------------------------------
(* Acks and events keep their order *)

\* Between messages the loop has none in hand, and a stream that is over has nothing to read.
IdleOK ==
  /\ loop \in {"off", "select"} => loopMsg = <<"ping">>
  /\ task = "off" => link = "down" /\ up = <<>>

InUp(n) == \E i \in 1 .. Len(up) : up[i] = n
InEvents(n) == \E i \in 1 .. Len(eventLane) : eventLane[i] = n

\* An ack or event is at one place at a time.
OnePlace ==
  \A n \in Note :
    /\ n \in serving => ~InEvents(n) /\ n # loopMsg /\ ~InUp(n)
    /\ InEvents(n) => n # loopMsg /\ ~InUp(n)
    /\ n = loopMsg => ~InUp(n)
    /\ \A i, j \in 1 .. Len(eventLane) : eventLane[i] = n /\ eventLane[j] = n => i = j
    /\ \A i, j \in 1 .. Len(up) : up[i] = n /\ up[j] = n => i = j

\* A command that serve has not received has no ack.
Unserved(k) == sender[k] # "over" \/ k \in lane \/ taskMsg = Create(k) \/ InDown(k) \/ ~Below(k)
Unacked(k) == Ack(k) \notin serving /\ ~InEvents(Ack(k)) /\ Ack(k) # loopMsg /\ ~InUp(Ack(k))
AckLater == \A k \in Cmds : Unserved(k) => Unacked(k)

NotesInv == IdleOK /\ OnePlace /\ AckLater

\* An ack or event is no ping, status or command, and a command has one ack.
LEMMA NoteNames ==
  /\ \A n \in Note : n # <<"ping">> /\ n # <<"status">> /\ \A k \in Cmds : n # Create(k)
  /\ \A k \in Cmds \cup Earlier : Ack(k) \in Note
  /\ \A k, l \in Cmds \cup Earlier : Ack(k) = Ack(l) => k = l
  BY DEF Note, Ack, EventOf, Create

\* It holds when the coordinator starts.
LEMMA NotesInitInv == SessionInit => NotesInv
<1> SUFFICES ASSUME SessionInit PROVE NotesInv
  OBVIOUS
<1>1. IdleOK /\ OnePlace
  BY NoteNames DEF SessionInit, IdleOK, OnePlace, InUp, InEvents
<1>2. \A k \in Cmds : Ack(k) \notin serving
  BY SessionAssumption, NoteNames DEF SessionInit, Ack, EventOf
<1> QED
  BY <1>1, <1>2, NoteNames DEF SessionInit, NotesInv, AckLater, Unacked, InUp, InEvents

\* A step that puts no ack and no event anywhere; one that is gone is gone with the stream.
Fewer ==
  /\ serving' = serving /\ eventLane' = eventLane
  /\ loopMsg' = loopMsg \/ (loopMsg' \notin Note /\ (loopMsg \notin Note \/ link' = "down"))
  /\ \A i \in 1 .. Len(up') : up'[i] \in Note => i \in 1 .. Len(up) /\ up'[i] = up[i]
  /\ link' = "down" \/ \A n \in Note : InUp(n) => InUp(n)'

\* Such a step keeps each ack and event at one place.
LEMMA NotesFewer ==
  ASSUME NotesInv, Fewer, \A k \in Cmds : Unserved(k)' => Unserved(k)
  PROVE  OnePlace' /\ AckLater'
<1>1. \A n \in Note : /\ InUp(n)' => InUp(n)
                      /\ InEvents(n)' <=> InEvents(n)
                      /\ n = loopMsg' => n = loopMsg
  BY DEF Fewer, InUp, InEvents
<1>2. OnePlace'
  <2>1. \A n \in Note : \A i, j \in 1 .. Len(up') : up'[i] = n /\ up'[j] = n => i = j
    BY DEF Fewer, NotesInv, OnePlace
  <2> QED
    BY <1>1, <2>1 DEF Fewer, NotesInv, OnePlace
<1>3. AckLater'
  BY <1>1, NoteNames DEF Fewer, NotesInv, AckLater, Unacked
<1> QED
  BY <1>2, <1>3

\* A command goes down its way and does not come back.
LEMMA UnservedFalls ==
  ASSUME SessionInv, SessionNext
  PROVE  \A k \in Cmds : Unserved(k)' => Unserved(k)
<1> USE DEF SessionInv
<1>1. ASSUME NEW l \in Cmds, SenderStart(l) \/ SenderPush(l)
      PROVE  \A k \in Cmds : Unserved(k)' => Unserved(k)
  BY <1>1 DEF SenderStart, SenderPush, AfterSend, SessionTypeOK, Unserved, InDown, Below
<1>2. CASE TaskReads \/ TaskWrites
  BY <1>2 DEF TaskReads, TaskWrites, Unserved, InDown, Below
<1>3. CASE TaskCommand
  <2>1. PICK l \in lane : lane' = lane \ {l} /\ taskMsg' = Create(l)
    BY <1>3 DEF TaskCommand, Create
  <2>2. \A k \in Cmds : taskMsg' = Create(k) => k \in lane
    BY <2>1, Messages DEF SessionTypeOK
  <2> QED
    BY <1>3, <2>1, <2>2 DEF TaskCommand, Unserved, InDown, Below
<1>4. CASE TaskPing \/ TaskLoses
  <2>1. \A k \in Cmds : sender'[k] # "over" => sender[k] # "over"
    BY <1>4 DEF TaskPing, TaskLoses, SessionTypeOK
  <2>2. \A k \in Cmds : taskMsg' # Create(k)
    BY <1>4, Messages DEF TaskPing, TaskLoses
  <2>3. lane' \subseteq lane /\ UNCHANGED <<down, loopMsg, agentLane>>
    BY <1>4 DEF TaskPing, TaskLoses
  <2> QED
    BY <2>1, <2>2, <2>3 DEF Unserved, InDown, Below
<1>5. CASE TaskPush
  <2>1. down' = Append(down, taskMsg) /\ down \in Seq(Down) /\ taskMsg \in Down
    BY <1>5 DEF TaskPush, SessionTypeOK, HandsOK
  <2>2. \A k \in Cmds : InDown(k)' => InDown(k) \/ taskMsg = Create(k)
    BY <2>1 DEF InDown
  <2>3. \A k \in Cmds : taskMsg' # Create(k)
    BY <1>5, Messages DEF TaskPush
  <2> QED
    BY <1>5, <2>2, <2>3 DEF TaskPush, Unserved, Below
<1>6. CASE Connect
  BY <1>6 DEF Connect, Unserved, InDown, Below
<1>7. CASE Break
  <2>1. PICK j \in 0 .. Len(down) : down' = SubSeq(down, 1, j)
    BY <1>7 DEF Break
  <2>2. \A k \in Cmds : InDown(k)' => InDown(k)
    BY <2>1 DEF SessionTypeOK, InDown
  <2> QED
    BY <1>7, <2>2 DEF Break, Unserved, Below
<1>8. CASE LoopReads
  <2>1. /\ Head(down) = down[1] /\ Len(down) \in Nat \ {0} /\ Len(down') = Len(down) - 1
        /\ \A i \in 1 .. Len(down') : down'[i] = down[i + 1]
    BY <1>8 DEF LoopReads, SessionTypeOK
  <2>2. \A k \in Cmds : loopMsg' = Create(k) => down[1] = Create(k)
    BY <1>8, <2>1, Messages DEF LoopReads
  <2>3. \A k \in Cmds : InDown(k)' => InDown(k)
    BY <2>1 DEF InDown
  <2>4. \A k \in Cmds : loopMsg' = Create(k) => InDown(k)
    BY <2>1, <2>2 DEF InDown
  <2> QED
    BY <1>8, <2>3, <2>4 DEF LoopReads, Unserved, Below
<1>9. CASE LoopEvent
  <2>1. loopMsg' \in Note
    BY <1>9 DEF LoopEvent, SessionTypeOK
  <2> QED
    BY <1>9, <2>1, NoteNames DEF LoopEvent, Unserved, InDown, Below
<1>10. CASE LoopOut \/ LoopLoses
  BY <1>10, Messages DEF LoopOut, LoopLoses, Unserved, InDown, Below
<1>11. CASE LoopCommand
  <2>1. PICK l \in Cmds : loopMsg = Create(l) /\ agentLane' = agentLane \cup {l}
    BY <1>11, Messages DEF LoopCommand, HandsOK
  <2> QED
    BY <1>11, <2>1, Messages DEF LoopCommand, Unserved, InDown, Below
<1>12. CASE Serve
  BY <1>12 DEF Serve, Unserved, InDown, Below
<1>13. ASSUME NEW n \in Note, PutNote(n) PROVE \A k \in Cmds : Unserved(k)' => Unserved(k)
  BY <1>13 DEF PutNote, Unserved, InDown, Below
<1> QED
  BY <1>1, <1>2, <1>3, <1>4, <1>5, <1>6, <1>7, <1>8, <1>9, <1>10, <1>11, <1>12, <1>13
  DEF SessionNext

\* The steps that move no ack and no event, or lose some.
LEMMA NotesStay ==
  ASSUME SessionInv, SessionInv', NotesInv,
         \/ \E k \in Cmds : SenderStart(k) \/ SenderPush(k)
         \/ TaskWrites \/ TaskCommand \/ TaskPing \/ TaskPush \/ TaskLoses
         \/ Connect \/ Break \/ LoopReads \/ LoopCommand \/ LoopLoses
  PROVE  IdleOK' /\ Fewer
<1> USE DEF SessionInv, NotesInv
<1>1. ASSUME NEW k \in Cmds, SenderStart(k) \/ SenderPush(k) PROVE IdleOK' /\ Fewer
  BY <1>1 DEF SenderStart, SenderPush, IdleOK, Fewer, InUp
<1>2. CASE TaskWrites \/ TaskCommand \/ TaskPing \/ TaskPush
  BY <1>2 DEF TaskWrites, TaskCommand, TaskPing, TaskPush, IdleOK, Fewer, InUp
<1>3. CASE TaskLoses
  BY <1>3 DEF TaskLoses, IdleOK, Fewer
<1>4. CASE Connect
  <2>1. /\ serving' = serving /\ eventLane' = eventLane /\ loopMsg' = loopMsg
        /\ up = <<>> /\ up' = <<<<"status">>>> /\ task' = "select" /\ loop' = "select"
        /\ loopMsg = <<"ping">>
    BY <1>4 DEF Connect, IdleOK
  <2> QED
    BY <2>1, NoteNames DEF IdleOK, Fewer, InUp
<1>5. CASE Break
  <2>1. PICK i \in 0 .. Len(up) : up' = SubSeq(up, 1, i)
    BY <1>5 DEF Break
  <2>2. up \in Seq(Up) /\ Len(up') = i /\ \A j \in 1 .. i : up'[j] = up[j]
    BY <2>1 DEF SessionTypeOK
  <2>3. task = "off" => up' = <<>>
    BY <2>1, <2>2 DEF IdleOK
  <2> QED
    BY <1>5, <2>2, <2>3 DEF Break, IdleOK, Fewer, SessionTypeOK
<1>6. CASE LoopReads \/ LoopCommand
  <2>1. loopMsg \notin Note
    BY <1>6, NoteNames DEF LoopReads, LoopCommand, IdleOK, HandsOK
  <2>2. loopMsg' \notin Note
    <3>1. CASE LoopReads
      <4>1. Head(down) \in Down
        BY <3>1 DEF LoopReads, SessionTypeOK
      <4> QED
        BY <3>1, <4>1, NoteNames, Messages DEF LoopReads
    <3> QED
      BY <1>6, <3>1, NoteNames DEF LoopCommand
  <2> QED
    BY <1>6, <2>1, <2>2 DEF LoopReads, LoopCommand, IdleOK, Fewer, InUp
<1>7. CASE LoopLoses
  <2>1. loop' = "off" /\ loopMsg' = <<"ping">> /\ link' = "down"
    BY <1>7 DEF LoopLoses
  <2>2. UNCHANGED <<task, up, serving, eventLane>> /\ link' = link
    BY <1>7 DEF LoopLoses, KeepsEvents
  <2> QED
    BY <2>1, <2>2, NoteNames DEF IdleOK, Fewer, InUp
<1> QED
  BY <1>1, <1>2, <1>3, <1>4, <1>5, <1>6, <1>7

\* What is ahead of another is not behind it.
LEMMA AheadOnce ==
  ASSUME SessionTypeOK, OnePlace, NEW m \in Note, NEW n \in Note, Ahead(m, n)
  PROVE  ~Ahead(n, m)
<1>1. /\ \A x \in Note : x \in Range(up) <=> InUp(x)
      /\ \A x \in Note : x \in Range(eventLane) <=> InEvents(x)
  BY DEF Range, InUp, InEvents, SessionTypeOK
<1>2. DOMAIN up = 1 .. Len(up) /\ DOMAIN eventLane = 1 .. Len(eventLane)
  BY DEF SessionTypeOK
<1>3. /\ Amid(m, n, up) => InUp(m) /\ InUp(n) /\ ~Amid(n, m, up)
      /\ Amid(n, m, up) => InUp(m) /\ InUp(n)
  BY <1>2 DEF Amid, OnePlace, InUp
<1>4. /\ Amid(m, n, eventLane) => InEvents(m) /\ InEvents(n) /\ ~Amid(n, m, eventLane)
      /\ Amid(n, m, eventLane) => InEvents(m) /\ InEvents(n)
  BY <1>2 DEF Amid, OnePlace, InEvents
<1> QED
  BY <1>1, <1>3, <1>4 DEF Ahead, OnePlace

\* A step that puts nothing ahead of what it was behind.
LEMMA OrderStays ==
  ASSUME SessionTypeOK, OnePlace,
         \A m, n \in Note : Ahead(m, n)' => Ahead(m, n),
         OnTheWay' \subseteq OnTheWay,
         \A n \in OnTheWay \ OnTheWay' : link' = "down" \/ n = up[1]
  PROVE  NotesInOrder
  BY AheadOnce DEF NotesInOrder

\* One ahead of another at the same place.
AmidUp(m, n) == \E i, j \in 1 .. Len(up) : i < j /\ up[i] = m /\ up[j] = n
AmidEvents(m, n) ==
  \E i, j \in 1 .. Len(eventLane) : i < j /\ eventLane[i] = m /\ eventLane[j] = n

\* What is on its way and what is ahead of what, place by place.
PlaceByPlace ==
  /\ \A x : x \in OnTheWay <=> x \in Note /\ (InUp(x) \/ x = loopMsg \/ InEvents(x))
  /\ \A m, n \in Note : Ahead(m, n) <=>
       \/ AmidUp(m, n) \/ AmidEvents(m, n)
       \/ InUp(m) /\ (n = loopMsg \/ InEvents(n))
       \/ m = loopMsg /\ InEvents(n)

\* So it is, for channels of messages.
LEMMA Places == SessionTypeOK => PlaceByPlace
<1> SUFFICES ASSUME SessionTypeOK PROVE PlaceByPlace
  OBVIOUS
<1>1. DOMAIN up = 1 .. Len(up) /\ DOMAIN eventLane = 1 .. Len(eventLane)
  BY DEF SessionTypeOK
<1>2. \A x : (x \in Range(up) <=> InUp(x)) /\ (x \in Range(eventLane) <=> InEvents(x))
  BY <1>1 DEF Range, InUp, InEvents
<1>3. \A x : x \in OnTheWay <=> x \in Note /\ (InUp(x) \/ x = loopMsg \/ InEvents(x))
  BY <1>2 DEF OnTheWay
<1>4. \A m, n \in Note :
        (Amid(m, n, up) <=> AmidUp(m, n)) /\ (Amid(m, n, eventLane) <=> AmidEvents(m, n))
  BY <1>1 DEF Amid, AmidUp, AmidEvents
<1> QED
  BY <1>2, <1>3, <1>4 DEF Ahead, PlaceByPlace

\* A step that puts no ack and no event anywhere keeps their order.
LEMMA FewerInOrder ==
  ASSUME SessionTypeOK, SessionTypeOK', NotesInv, Fewer
  PROVE  NotesInOrder
<1>1. \A n \in Note : /\ InUp(n)' => InUp(n)
                      /\ InEvents(n)' <=> InEvents(n)
                      /\ n = loopMsg' => n = loopMsg
                      /\ link' # "down" /\ n = loopMsg => n = loopMsg'
                      /\ link' # "down" /\ InUp(n) => InUp(n)'
  BY DEF Fewer, InUp, InEvents
<1>p. PlaceByPlace /\ PlaceByPlace'
  BY Places, PTL
<1>2. \A m, n \in Note : Ahead(m, n)' => Ahead(m, n)
  <2>1. \A m, n \in Note : /\ AmidUp(m, n)' => AmidUp(m, n)
                           /\ AmidEvents(m, n)' => AmidEvents(m, n)
    BY DEF Fewer, AmidUp, AmidEvents
  <2> QED
    BY <1>1, <1>p, <2>1 DEF PlaceByPlace
<1>3. /\ OnTheWay' \subseteq OnTheWay
      /\ \A n \in OnTheWay \ OnTheWay' : link' = "down"
  BY <1>1, <1>p DEF PlaceByPlace
<1> QED
  BY <1>2, <1>3, OrderStays DEF NotesInv

\* The steps that move an ack or an event to its next place.
LEMMA NotesMove ==
  ASSUME SessionInv, SessionInv', NotesInv, \A k \in Cmds : Unserved(k)' => Unserved(k),
         TaskReads \/ LoopEvent \/ LoopOut
  PROVE  NotesInv' /\ NotesInOrder
<1> USE DEF SessionInv
<1>p. PlaceByPlace /\ PlaceByPlace'
  <2>1. SessionTypeOK /\ SessionTypeOK'
    OBVIOUS
  <2> QED
    BY <2>1, Places, PTL
<1>s. SUFFICES /\ IdleOK' /\ OnePlace'
               /\ \A n \in Note :
                    InUp(n)' \/ n = loopMsg' \/ InEvents(n)' =>
                      InUp(n) \/ n = loopMsg \/ InEvents(n)
               /\ \A m, n \in Note : Ahead(m, n)' => Ahead(m, n)
               /\ \A n \in OnTheWay \ OnTheWay' : n = up[1]
  <2>1. AckLater'
    BY <1>s, NoteNames DEF NotesInv, AckLater, Unacked, TaskReads, LoopEvent, LoopOut
  <2>2. OnTheWay' \subseteq OnTheWay
    BY <1>s, <1>p DEF PlaceByPlace
  <2> QED
    BY <1>s, <2>1, <2>2, OrderStays DEF NotesInv
<1>1. CASE TaskReads
  <2>1. /\ Len(up) \in Nat \ {0} /\ Len(up') = Len(up) - 1
        /\ \A i \in 1 .. Len(up') : up'[i] = up[i + 1]
        /\ UNCHANGED <<link, serving, loop, loopMsg, eventLane>>
        /\ task = "select" /\ task' # "off"
    BY <1>1 DEF TaskReads, SessionTypeOK
  <2>2. \A n \in Note : /\ InUp(n)' => InUp(n)
                        /\ InUp(n) => InUp(n)' \/ n = up[1]
                        /\ InEvents(n)' <=> InEvents(n)
    <3>1. \A n \in Note, i \in 1 .. Len(up) : up[i] = n => n = up[1] \/ up'[i - 1] = n
      BY <2>1
    <3> QED
      BY <2>1, <3>1 DEF InUp, InEvents
  <2>3. IdleOK' /\ OnePlace'
    <3>1. \A n \in Note : \A i, j \in 1 .. Len(up') : up'[i] = n /\ up'[j] = n => i = j
      BY <2>1 DEF NotesInv, OnePlace
    <3>2. OnePlace'
      BY <2>1, <2>2, <3>1 DEF NotesInv, OnePlace
    <3> QED
      BY <2>1, <3>2 DEF NotesInv, IdleOK
  <2>4. \A m, n \in Note : Ahead(m, n)' => Ahead(m, n)
    <3>1. \A m, n \in Note, i, j \in 1 .. Len(up') :
            i < j /\ up'[i] = m /\ up'[j] = n =>
              i + 1 < j + 1 /\ up[i + 1] = m /\ up[j + 1] = n
      BY <2>1
    <3>2. \A i \in 1 .. Len(up') : i + 1 \in 1 .. Len(up)
      BY <2>1
    <3>3. \A m, n \in Note : AmidUp(m, n)' => AmidUp(m, n)
      BY <3>1, <3>2 DEF AmidUp
    <3>4. \A m, n \in Note : AmidEvents(m, n)' => AmidEvents(m, n)
      BY <2>1 DEF AmidEvents
    <3> QED
      BY <1>p, <2>1, <2>2, <3>3, <3>4 DEF PlaceByPlace
  <2>5. \A n \in OnTheWay \ OnTheWay' : n = up[1]
    BY <1>p, <2>1, <2>2 DEF PlaceByPlace
  <2> QED
    BY <2>1, <2>2, <2>3, <2>4, <2>5
<1>2. CASE LoopEvent
  <2>1. /\ Len(eventLane) \in Nat \ {0} /\ Len(eventLane') = Len(eventLane) - 1
        /\ \A i \in 1 .. Len(eventLane') : eventLane'[i] = eventLane[i + 1]
        /\ loopMsg' = eventLane[1] /\ loopMsg = <<"ping">>
        /\ UNCHANGED <<link, serving, task, up>> /\ loop' = "out"
    BY <1>2 DEF LoopEvent, NotesInv, IdleOK, SessionTypeOK
  <2>2. \A n \in Note : /\ InEvents(n)' => InEvents(n)
                        /\ InEvents(n) => InEvents(n)' \/ n = loopMsg'
                        /\ n = loopMsg' => InEvents(n) /\ ~InEvents(n)'
                        /\ n # loopMsg
                        /\ InUp(n)' <=> InUp(n)
    <3>1. \A n \in Note, i \in 1 .. Len(eventLane) :
            eventLane[i] = n => n = eventLane[1] \/ eventLane'[i - 1] = n
      BY <2>1
    <3>2. \A n \in Note, i \in 1 .. Len(eventLane') :
            eventLane'[i] = n => n # eventLane[1]
      BY <2>1 DEF NotesInv, OnePlace
    <3> QED
      BY <2>1, <3>1, <3>2, NoteNames DEF InUp, InEvents
  <2>3. IdleOK' /\ OnePlace'
    <3>1. \A n \in Note : \A i, j \in 1 .. Len(eventLane') :
            eventLane'[i] = n /\ eventLane'[j] = n => i = j
      BY <2>1 DEF NotesInv, OnePlace
    <3>2. OnePlace'
      BY <2>1, <2>2, <3>1 DEF NotesInv, OnePlace
    <3> QED
      BY <2>1, <3>2 DEF NotesInv, IdleOK
  <2>4. \A m, n \in Note : Ahead(m, n)' => Ahead(m, n)
    <3>1. \A m, n \in Note, i, j \in 1 .. Len(eventLane') :
            i < j /\ eventLane'[i] = m /\ eventLane'[j] = n =>
              i + 1 < j + 1 /\ eventLane[i + 1] = m /\ eventLane[j + 1] = n
      BY <2>1
    <3>2. \A i \in 1 .. Len(eventLane') : i + 1 \in 1 .. Len(eventLane)
      BY <2>1
    <3>3. \A m, n \in Note : AmidUp(m, n)' => AmidUp(m, n)
      BY <2>1 DEF AmidUp
    <3>4. \A m, n \in Note : AmidEvents(m, n)' => AmidEvents(m, n)
      BY <3>1, <3>2 DEF AmidEvents
    <3>5. \A m, n \in Note : m = loopMsg' /\ InEvents(n)' => AmidEvents(m, n)
      <4>1. \A m, n \in Note, j \in 1 .. Len(eventLane') :
              m = loopMsg' /\ eventLane'[j] = n =>
                1 < j + 1 /\ eventLane[1] = m /\ eventLane[j + 1] = n
        BY <2>1
      <4>2. 1 \in 1 .. Len(eventLane)
        BY <2>1
      <4> QED
        BY <3>2, <4>1, <4>2 DEF InEvents, AmidEvents
    <3> QED
      BY <1>p, <2>1, <2>2, <3>3, <3>4, <3>5 DEF PlaceByPlace
  <2>5. \A n \in OnTheWay \ OnTheWay' : n = up[1]
    BY <1>p, <2>1, <2>2 DEF PlaceByPlace
  <2> QED
    BY <2>1, <2>2, <2>3, <2>4, <2>5
<1>3. CASE LoopOut
  <2>1. /\ Len(up) \in Nat /\ Len(up') = Len(up) + 1
        /\ \A i \in 1 .. Len(up) : up'[i] = up[i]
        /\ up'[Len(up) + 1] = loopMsg
        /\ UNCHANGED <<link, serving, task, eventLane>> /\ link = "up"
        /\ loop' = "select" /\ loopMsg' = <<"ping">>
    BY <1>3 DEF LoopOut, HandsOK, SessionTypeOK
  <2>2. \A n \in Note : /\ InUp(n)' <=> InUp(n) \/ n = loopMsg
                        /\ InEvents(n)' <=> InEvents(n)
                        /\ n # loopMsg'
    <3>1. \A n \in Note, i \in 1 .. Len(up') :
            up'[i] = n => n = loopMsg \/ (i \in 1 .. Len(up) /\ up[i] = n)
      BY <2>1
    <3> QED
      BY <2>1, <3>1, NoteNames DEF InUp, InEvents
  <2>3. IdleOK' /\ OnePlace'
    <3>1. \A n \in Note : \A i, j \in 1 .. Len(up') : up'[i] = n /\ up'[j] = n => i = j
      BY <2>1 DEF NotesInv, OnePlace, InUp
    <3>2. OnePlace'
      BY <2>1, <2>2, <3>1 DEF NotesInv, OnePlace
    <3> QED
      BY <2>1, <3>2 DEF NotesInv, IdleOK
  <2>4. \A m, n \in Note : Ahead(m, n)' => Ahead(m, n)
    <3>1. \A m, n \in Note, i, j \in 1 .. Len(up') :
            i < j /\ up'[i] = m /\ up'[j] = n =>
              /\ i \in 1 .. Len(up) /\ up[i] = m
              /\ n = loopMsg \/ (j \in 1 .. Len(up) /\ up[j] = n)
      BY <2>1
    <3>2. \A m, n \in Note : AmidUp(m, n)' => AmidUp(m, n) \/ (InUp(m) /\ n = loopMsg)
      BY <3>1 DEF AmidUp, InUp
    <3>3. \A m, n \in Note : AmidEvents(m, n)' => AmidEvents(m, n)
      BY <2>1 DEF AmidEvents
    <3> QED
      BY <1>p, <2>1, <2>2, <3>2, <3>3 DEF PlaceByPlace
  <2>5. \A n \in OnTheWay \ OnTheWay' : n = up[1]
    BY <1>p, <2>1, <2>2 DEF PlaceByPlace
  <2> QED
    BY <2>1, <2>2, <2>3, <2>4, <2>5
<1> QED
  BY <1>1, <1>2, <1>3

\* serve acks a command, and an ack or event gets a slot.
LEMMA NotesBegin ==
  ASSUME SessionInv, SessionInv', NotesInv, \A k \in Cmds : Unserved(k)' => Unserved(k),
         Serve \/ \E n \in Note : PutNote(n)
  PROVE  NotesInv' /\ NotesInOrder
<1> USE DEF SessionInv
<1>p. PlaceByPlace /\ PlaceByPlace'
  <2>1. SessionTypeOK /\ SessionTypeOK'
    OBVIOUS
  <2> QED
    BY <2>1, Places, PTL
<1>1. CASE Serve
  <2>1. PICK k \in agentLane : agentLane' = agentLane \ {k} /\ serving' = serving \cup {Ack(k)}
    BY <1>1 DEF Serve
  <2>2. /\ UNCHANGED <<link, lane, sender, task, taskMsg, down, up, loop, loopMsg, eventLane>>
        /\ k \in Cmds
    BY <1>1 DEF Serve, SessionTypeOK
  <2>3. Unserved(k) /\ ~Unserved(k)'
    BY <2>1, <2>2 DEF Unserved, Below, InDown, Once
  <2>4. \A n \in Note : (InUp(n)' <=> InUp(n)) /\ (InEvents(n)' <=> InEvents(n))
    BY <2>2 DEF InUp, InEvents
  <2>5. Unacked(k)
    BY <2>2, <2>3 DEF NotesInv, AckLater
  <2>6. IdleOK' /\ OnePlace'
    BY <2>1, <2>2, <2>4, <2>5, NoteNames DEF NotesInv, IdleOK, OnePlace, Unacked
  <2>7. AckLater'
    BY <2>1, <2>2, <2>3, <2>4, NoteNames DEF NotesInv, AckLater, Unacked
  <2>8. /\ \A m, n \in Note : Ahead(m, n)' => Ahead(m, n)
        /\ OnTheWay' = OnTheWay
    BY <2>2 DEF Ahead, Amid, OnTheWay
  <2> QED
    BY <2>6, <2>7, <2>8, OrderStays DEF NotesInv
<1>2. ASSUME NEW n \in Note, PutNote(n) PROVE NotesInv' /\ NotesInOrder
  <2>1. /\ Len(eventLane) \in Nat /\ Len(eventLane') = Len(eventLane) + 1
        /\ \A i \in 1 .. Len(eventLane) : eventLane'[i] = eventLane[i]
        /\ eventLane'[Len(eventLane) + 1] = n
        /\ n \in serving /\ serving' = serving \ {n}
        /\ UNCHANGED <<link, lane, sender, task, taskMsg, down, up, loop, loopMsg, agentLane>>
    BY <1>2 DEF PutNote, SessionTypeOK
  <2>2. ~InUp(n) /\ n # loopMsg /\ ~InEvents(n)
    BY <2>1 DEF NotesInv, OnePlace
  <2>3. \A m \in Note : (InUp(m)' <=> InUp(m)) /\ (InEvents(m)' <=> InEvents(m) \/ m = n)
    <3>1. \A m \in Note, i \in 1 .. Len(eventLane') :
            eventLane'[i] = m => m = n \/ (i \in 1 .. Len(eventLane) /\ eventLane[i] = m)
      BY <2>1
    <3> QED
      BY <2>1, <3>1 DEF InUp, InEvents
  <2>4. IdleOK' /\ OnePlace'
    <3>1. \A m \in Note : \A i, j \in 1 .. Len(eventLane') :
            eventLane'[i] = m /\ eventLane'[j] = m => i = j
      BY <2>1, <2>2 DEF NotesInv, OnePlace, InEvents
    <3>2. OnePlace'
      BY <2>1, <2>2, <2>3, <3>1 DEF NotesInv, OnePlace
    <3> QED
      BY <2>1, <3>2 DEF NotesInv, IdleOK
  <2>5. AckLater'
    BY <2>1, <2>3, NoteNames DEF NotesInv, AckLater, Unacked
  <2>6. \A l, m \in Note : Ahead(l, m)' => l # n /\ (m = n \/ Ahead(l, m))
    <3>1. \A l, m \in Note, i, j \in 1 .. Len(eventLane') :
            i < j /\ eventLane'[i] = l /\ eventLane'[j] = m =>
              /\ i \in 1 .. Len(eventLane) /\ eventLane[i] = l
              /\ m = n \/ (j \in 1 .. Len(eventLane) /\ eventLane[j] = m)
      BY <2>1
    <3>2. \A l, m \in Note : AmidEvents(l, m)' => l # n /\ (m = n \/ AmidEvents(l, m))
      BY <2>2, <3>1 DEF InEvents, AmidEvents
    <3>3. \A l, m \in Note : AmidUp(l, m)' => AmidUp(l, m) /\ l # n
      BY <2>1, <2>2 DEF AmidUp, InUp
    <3> QED
      BY <1>p, <2>1, <2>2, <2>3, <3>2, <3>3 DEF PlaceByPlace
  <2>7. \A l, m \in Note : Ahead(l, m) => l # n /\ m # n
    <3>1. \A l, m \in Note : /\ AmidUp(l, m) => l # n /\ m # n
                             /\ AmidEvents(l, m) => l # n /\ m # n
      BY <2>2 DEF AmidUp, AmidEvents, InUp, InEvents
    <3> QED
      BY <1>p, <2>2, <3>1 DEF PlaceByPlace
  <2>8. OnTheWay' = OnTheWay \cup {n}
    BY <1>p, <2>1, <2>3 DEF PlaceByPlace
  <2>9. NotesInOrder
    <3>1. \A l, m \in Note : Ahead(l, m) => ~Ahead(m, l)'
      BY <2>6, <2>7, AheadOnce DEF NotesInv
    <3>2. \A l, m \in Note : m \in OnTheWay' \ OnTheWay => ~Ahead(m, l)'
      BY <2>6, <2>8
    <3> QED
      BY <2>8, <3>1, <3>2 DEF NotesInOrder
  <2> QED
    BY <2>4, <2>5, <2>9 DEF NotesInv
<1> QED
  BY <1>1, <1>2

\* Every step keeps the invariant and the order.
LEMMA NotesStep ==
  SessionInv /\ NotesInv /\ SessionInv' /\ [SessionNext]_sessionVars =>
    NotesInv' /\ [NotesInOrder]_sessionVars
<1>1. ASSUME SessionInv, NotesInv, SessionInv', SessionNext PROVE NotesInv' /\ NotesInOrder
  <2>1. \A k \in Cmds : Unserved(k)' => Unserved(k)
    BY <1>1, UnservedFalls
  <2>2. CASE TaskReads \/ LoopEvent \/ LoopOut
    BY <1>1, <2>1, <2>2, NotesMove
  <2>3. CASE Serve \/ \E n \in Note : PutNote(n)
    BY <1>1, <2>1, <2>3, NotesBegin
  <2>4. CASE ~(TaskReads \/ LoopEvent \/ LoopOut) /\ ~(Serve \/ \E n \in Note : PutNote(n))
    <3>1. IdleOK' /\ Fewer
      BY <1>1, <2>4, NotesStay DEF SessionNext
    <3>2. OnePlace' /\ AckLater'
      BY <1>1, <2>1, <3>1, NotesFewer
    <3>3. NotesInOrder
      BY <1>1, <3>1, FewerInOrder DEF SessionInv
    <3> QED
      BY <3>1, <3>2, <3>3 DEF NotesInv
  <2> QED
    BY <2>2, <2>3, <2>4
<1>2. ASSUME NotesInv, UNCHANGED sessionVars PROVE NotesInv'
  BY <1>2 DEF NotesInv, IdleOK, OnePlace, AckLater, Unserved, Unacked, InUp, InEvents, InDown,
              Below, sessionVars
<1> QED
  BY <1>1, <1>2

\* Acks and events never overtake each other, for any commands and any capacity of the channels,
\* also across reconnects; what has not arrived is lost only with a stream. An ack or event is at
\* one place at a time (OnePlace), for a command that serve has not received has no ack (AckLater)
\* and the loop takes nothing while it has something in hand (IdleOK).
THEOREM NotesKeepOrder == SessionSpec => [][NotesInOrder]_sessionVars
<1>1. SessionSpec => []NotesInv
  BY SessionInvariant, NotesInitInv, NotesStep, PTL DEF SessionSpec
<1> QED
  BY SessionInvariant, <1>1, NotesStep, PTL DEF SessionSpec
=============================================================================
