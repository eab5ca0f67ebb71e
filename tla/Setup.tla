--------------------------------- MODULE Setup ---------------------------------
(***************************************************************************)
(* `kuiper-forge setup` and the `ca` commands: the CA, the server          *)
(* certificate and the config they write, one file at a time, by runs that *)
(* may fail or be killed between any two writes and are then run again; and *)
(* what the coordinator needs of those files to start.                     *)
(*                                                                         *)
(* One run at a time, no two of them in the same second (a config's backup *)
(* is named for the second).                                               *)
(***************************************************************************)
EXTENDS Naturals, FiniteSets

CONSTANTS
  HostNames,  \* names agents may reach the coordinator by
  ForgeKinds, \* the forge of a config: "github", "none", and "forgejo" with a token from
              \* elsewhere, or "pasted" with one that setup put in a file
  Modes,      \* "polling", "webhook", "fixed"
  MaxKeys,    \* bound: key pairs generated
  MaxRuns     \* bound: runs of setup and of the ca commands

ASSUME SetupAssumption == MaxKeys \in Nat /\ MaxRuns \in Nat

VARIABLES
  caCert,     \* the CA's certificate: the key pair it is for, or Absent or Torn
  caKey,      \* its key
  serverCert, \* the server certificate: its key, who signed it, its name, whether it is in date
  serverKey,
  tokenFile,  \* the Forgejo token that was pasted
  configFile,
  backups,    \* configs kept under another name
  setup,      \* the run in progress
  keysMade, runs,
  trusting    \* the CAs that agents hold certificates of

caFiles == <<caCert, caKey>>
serverFiles == <<serverCert, serverKey, tokenFile>>
configFiles == <<configFile, backups>>
setupVars == <<caFiles, serverFiles, configFiles, setup, keysMade, runs, trusting>>

\* A file that is written is emptied first (fs::write, write_private_key).
Absent == [file |-> "absent"]
Torn == [file |-> "torn"]
FileStates == {Absent, Torn}

KeyPair(n) == [pair |-> n]
Keys == {KeyPair(n) : n \in 1..MaxKeys}
Configs == [run : 0..MaxRuns, host : HostNames, forge : ForgeKinds, mode : Modes, foreign : BOOLEAN]

NotRunning == [step |-> "idle"]

SetupInit ==
  /\ caCert = Absent /\ caKey = Absent /\ serverCert = Absent /\ serverKey = Absent
  /\ tokenFile = Absent /\ configFile = Absent /\ backups = {} /\ setup = NotRunning
  /\ keysMade = 0 /\ runs = 0 /\ trusting = {}

SetupAt(step) == setup.step = step
GoTo(step) == setup' = [setup EXCEPT !.step = step]

-----------------------------------------------------------------------------
(* What the coordinator needs *)

\* Config::resolved_forges
Resolves(c) == c.forge # "none" /\ (c.mode = "fixed" => c.forge = "github")

\* webhook_forge: webhooks are for a GitHub forge.
WebhookForge(c) == c.mode = "webhook" => c.forge = "github"

\* server_identity_problem finds none: the server can use the certificate, and agents that reach
\* it as host accept it.
IdentityGood(host) ==
  /\ serverCert \notin FileStates /\ serverKey \notin FileStates /\ serverCert.key = serverKey
  /\ serverCert.ca = caCert /\ serverCert.host = host /\ serverCert.inDate

\* serve, which without a forge only does a dry run
CanServe ==
  /\ configFile \notin FileStates
  /\ caCert \notin FileStates /\ caKey \notin FileStates
  /\ serverCert \notin FileStates /\ serverKey \notin FileStates /\ serverCert.key = serverKey
  /\ configFile.forge # "none" => Resolves(configFile)
  /\ configFile.forge = "pasted" => tokenFile \notin FileStates
  /\ WebhookForge(configFile)

-----------------------------------------------------------------------------
(* The config *)

\* keep_config: a config that is there stays unless the operator says otherwise.
KeepConfig ==
  /\ SetupAt("idle") /\ runs < MaxRuns /\ runs' = runs + 1
  /\ \/ configFile # Absent /\ setup' = [step |-> "kept"]
     \/ setup' = [step |-> "new"]
  /\ UNCHANGED <<caFiles, serverFiles, configFiles, keysMade, trusting>>

\* An answer is a flag's value, what the operator types or the default, and is checked.
HostAnswers == HostNames

\* kept_hostname: a new name, or what the certificate was issued for, or what the config says.
KeptHostname ==
  /\ SetupAt("kept") /\ configFile # Torn
  /\ \E host \in HostAnswers :
       setup' = [step |-> "ca", then |-> "admin", host |-> host, config |-> configFile]
  /\ UNCHANGED <<caFiles, serverFiles, configFiles, keysMade, runs, trusting>>

\* forgejo_token_step: a token that is pasted is kept at once, before there is a config for it.
OpenToken ==
  /\ SetupAt("new") /\ "pasted" \in ForgeKinds /\ tokenFile' = Torn /\ GoTo("token")
  /\ UNCHANGED <<caFiles, serverCert, serverKey, configFiles, keysMade, runs, trusting>>

WriteToken ==
  /\ SetupAt("token") /\ tokenFile' = KeyPair(0) /\ GoTo("pasted")
  /\ UNCHANGED <<caFiles, serverCert, serverKey, configFiles, keysMade, runs, trusting>>

\* forge_choice and each forge's own questions
ForgeChoices == IF SetupAt("pasted") THEN {"pasted"} ELSE ForgeKinds \ {"pasted"}

\* mode_step: Forgejo only polls; without a forge any mode may be asked for.
ModeAllowed(forge, mode) == forge \in {"forgejo", "pasted"} => mode = "polling"

\* new_config
NewConfig ==
  /\ SetupAt("new") \/ SetupAt("pasted")
  /\ \E host \in HostAnswers, forge \in ForgeChoices, mode \in Modes :
       LET c == [run |-> runs, host |-> host, forge |-> forge, mode |-> mode, foreign |-> FALSE]
       IN /\ ModeAllowed(forge, mode) /\ (forge # "none" => Resolves(c))
          /\ setup' = [step |-> "ca", then |-> "save", host |-> host, config |-> c]
  /\ UNCHANGED <<caFiles, serverFiles, configFiles, keysMade, runs, trusting>>

-----------------------------------------------------------------------------
(* Certificates *)

\* init_ca touches nothing when there is any of a CA.
NoCaFiles == caCert = Absent /\ caKey = Absent

\* certificates_step: an existing CA stays.
CaStays ==
  /\ SetupAt("ca") /\ setup.then # "init" /\ caCert # Absent /\ caKey # Absent /\ GoTo("server")
  /\ UNCHANGED <<caFiles, serverFiles, configFiles, keysMade, runs, trusting>>

InitCa ==
  /\ SetupAt("ca") /\ (caCert = Absent \/ caKey = Absent) /\ NoCaFiles /\ keysMade < MaxKeys
  /\ keysMade' = keysMade + 1 /\ caCert' = Torn /\ GoTo("caCert")
  /\ UNCHANGED <<caKey, serverFiles, configFiles, runs, trusting>>

\* The certificate is whole, and the key's file opened ...
WriteCaCert ==
  /\ SetupAt("caCert") /\ caCert' = KeyPair(keysMade) /\ caKey' = Torn /\ GoTo("caKey")
  /\ UNCHANGED <<serverFiles, configFiles, keysMade, runs, trusting>>

\* ... and the key whole.
WriteCaKey ==
  /\ SetupAt("caKey") /\ caKey' = KeyPair(keysMade)
  /\ GoTo(IF setup.then = "init" THEN "done" ELSE "server")
  /\ UNCHANGED <<caCert, serverFiles, configFiles, keysMade, runs, trusting>>

\* managed_elsewhere: the config's server certificate is not one of our CA's.
ManagedElsewhere == setup.then = "admin" /\ setup.config.foreign

ServerCertStays ==
  /\ SetupAt("server") /\ setup.then # "done" /\ GoTo(setup.then)
  /\ ManagedElsewhere \/ IdentityGood(setup.host)
  /\ UNCHANGED <<caFiles, serverFiles, configFiles, keysMade, runs, trusting>>

\* generate_server_cert, which needs both halves of the CA
GenerateServerCert ==
  /\ SetupAt("server") /\ ~ManagedElsewhere
  /\ setup.then = "done" \/ ~IdentityGood(setup.host)
  /\ caCert \notin FileStates /\ caKey \notin FileStates /\ keysMade < MaxKeys
  /\ keysMade' = keysMade + 1 /\ serverCert' = Torn /\ GoTo("serverCert")
  /\ UNCHANGED <<caFiles, serverKey, tokenFile, configFiles, runs, trusting>>

WriteServerCert ==
  /\ SetupAt("serverCert") /\ serverKey' = Torn /\ GoTo("serverKey")
  /\ serverCert' = [key |-> KeyPair(keysMade), ca |-> caKey, host |-> setup.host, inDate |-> TRUE]
  /\ UNCHANGED <<caFiles, tokenFile, configFiles, keysMade, runs, trusting>>

WriteServerKey ==
  /\ SetupAt("serverKey") /\ serverKey' = KeyPair(keysMade)
  /\ GoTo(IF setup.then = "done" THEN "done" ELSE "check")
  /\ UNCHANGED <<caFiles, serverCert, tokenFile, configFiles, keysMade, runs, trusting>>

\* The new one is checked too: a CA whose halves do not match signs nothing good.
CheckServerCert ==
  /\ SetupAt("check") /\ IdentityGood(setup.host) /\ GoTo(setup.then)
  /\ UNCHANGED <<caFiles, serverFiles, configFiles, keysMade, runs, trusting>>

-----------------------------------------------------------------------------
(* Saving *)

\* Mutant of Backup: the old config is written over.
BackupNone == UNCHANGED backups

Backup == backups' = IF configFile = Absent THEN backups ELSE backups \cup {configFile}

\* save_config: the old config is renamed, then the new one written.
BackUpConfig ==
  /\ SetupAt("save") /\ Backup /\ configFile' = Absent /\ GoTo("config")
  /\ UNCHANGED <<caFiles, serverFiles, keysMade, runs, trusting>>

OpenConfig ==
  /\ SetupAt("config") /\ configFile' = Torn /\ GoTo("configOpen")
  /\ UNCHANGED <<caFiles, serverFiles, backups, keysMade, runs, trusting>>

WriteConfig ==
  /\ SetupAt("configOpen") /\ configFile' = setup.config /\ GoTo("admin")
  /\ UNCHANGED <<caFiles, serverFiles, backups, keysMade, runs, trusting>>

\* admin_step, last "so nothing else is lost if it fails"
AdminStep ==
  /\ SetupAt("admin") /\ GoTo("done")
  /\ UNCHANGED <<caFiles, serverFiles, configFiles, keysMade, runs, trusting>>

-----------------------------------------------------------------------------
(* The ca commands, and the rest of the world *)

\* `ca init` and `ca server-cert`, the second of which replaces whatever is there.
CaCommand ==
  /\ SetupAt("idle") /\ runs < MaxRuns /\ runs' = runs + 1
  /\ \/ setup' = [step |-> "ca", then |-> "init"]
     \/ \E host \in HostNames : setup' = [step |-> "server", then |-> "done", host |-> host]
  /\ UNCHANGED <<caFiles, serverFiles, configFiles, keysMade, trusting>>

\* A run ends: done, with an error, or killed.
SetupRunEnds ==
  /\ ~SetupAt("idle") /\ setup' = NotRunning
  /\ UNCHANGED <<caFiles, serverFiles, configFiles, keysMade, runs, trusting>>

CertExpires ==
  /\ SetupAt("idle") /\ serverCert \notin FileStates
  /\ serverCert' = [serverCert EXCEPT !.inDate = FALSE]
  /\ UNCHANGED <<caFiles, serverKey, tokenFile, configFiles, setup, keysMade, runs, trusting>>

\* The operator writes a config by hand, or takes away a CA that no agent knows.
OperatorWrites ==
  /\ SetupAt("idle") /\ configFile \in FileStates
  /\ configFile' \in {c \in Configs : c.run = 0}
  /\ UNCHANGED <<caFiles, serverFiles, backups, setup, keysMade, runs, trusting>>

OperatorRemovesCa ==
  /\ SetupAt("idle") /\ trusting = {} /\ caCert' = Absent /\ caKey' = Absent
  /\ UNCHANGED <<serverFiles, configFiles, setup, keysMade, runs, trusting>>

\* The coordinator runs, and gives an agent a certificate of its CA.
AgentEnrolls ==
  /\ CanServe /\ trusting' = trusting \cup {caCert}
  /\ UNCHANGED <<caFiles, serverFiles, configFiles, setup, keysMade, runs>>

SetupNext ==
  \/ KeepConfig \/ KeptHostname \/ OpenToken \/ WriteToken \/ NewConfig
  \/ CaStays \/ InitCa \/ WriteCaCert \/ WriteCaKey
  \/ ServerCertStays \/ GenerateServerCert \/ WriteServerCert \/ WriteServerKey \/ CheckServerCert
  \/ BackUpConfig \/ OpenConfig \/ WriteConfig \/ AdminStep
  \/ CaCommand \/ SetupRunEnds \/ CertExpires \/ OperatorWrites \/ OperatorRemovesCa \/ AgentEnrolls

SetupSpec == SetupInit /\ [][SetupNext]_setupVars

-----------------------------------------------------------------------------
(* Properties *)

SetupTypeOK ==
  /\ {caCert, caKey, serverKey} \subseteq Keys \cup FileStates
  /\ tokenFile \in FileStates \cup {KeyPair(0)}
  /\ serverCert \in FileStates \cup [key : Keys, ca : Keys, host : HostNames, inDate : BOOLEAN]
  /\ configFile \in FileStates \cup Configs /\ backups \subseteq {Torn} \cup Configs
  /\ keysMade \in 0..MaxKeys /\ runs \in 0..MaxRuns /\ trusting \subseteq Keys

\* A setup that finished, whatever runs were cut short before it, leaves a server certificate
\* that agents accept for the host it was told of, unless that one comes from elsewhere, and a
\* config it saved can be served. (Webhooks without a forge it lets through: `serve --dry-run`
\* refuses those.)
SetupReady ==
  SetupAt("done") /\ setup.then \in {"admin", "save"} =>
    /\ configFile = setup.config
    /\ IdentityGood(setup.host) \/ configFile.foreign
    /\ setup.then = "save" /\ WebhookForge(configFile) => CanServe

\* Running setup again, or being cut short, never replaces a CA that agents hold certificates
\* of, and never loses a config: it is kept as a backup.
SetupSpares ==
  /\ trusting # {} => UNCHANGED caFiles
  /\ configFile \in {configFile'} \cup FileStates \cup backups'

\* Both: whatever runs are cut short, the next one gets the operator there and loses nothing.
SetupSound == []SetupReady /\ [][SetupSpares]_setupVars

===============================================================================
