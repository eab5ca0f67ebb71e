------------------------------- MODULE Enroll -------------------------------
(***************************************************************************)
(* How an agent gets and uses its identity: registration tokens, the       *)
(* register call that exchanges one for a certificate, the files the agent *)
(* keeps it in, the admission of its stream, and the admin's revocation.   *)
(* Certificates are the agent ids they name.                               *)
(***************************************************************************)
EXTENDS Naturals, FiniteSets

CONSTANTS
  Hosts,  \* hosts that run an agent
  Tokens, \* registration tokens
  MaxIds  \* bound: agent ids issued

ASSUME EnrollAssumption == MaxIds \in Nat

VARIABLES
  token,    \* [Tokens -> {"none", "live", "expired", "gone"}]: their rows
  record,   \* [Ids -> {"none", "valid", "revoked", "gone"}]: registered_agents
  lapsed,   \* certificates past their validity
  call,     \* [Hosts -> STRING]: its register call: "none", "called", "consumed", "stored"
  using,    \* [Hosts -> Tokens]: with which token
  issued,   \* [Hosts -> Nat]: the id it issues
  cert, key,\* [Hosts -> Nat]: the agent's files, by the id they are for; 0 for none
  at,       \* [Hosts -> STRING]: "off", "waits", "saving", "checked", "read", "streaming"
  copy,     \* [Hosts -> STRING]: the record agent_stream has read
  spent     \* [Tokens -> Nat]: how often a call consumed it

enrollVars == <<token, record, lapsed, call, using, issued, cert, key, at, copy, spent>>

Ids == 1 .. MaxIds

EnrollInit ==
  /\ token = [t \in Tokens |-> "none"] /\ record = [i \in Ids |-> "none"] /\ lapsed = {}
  /\ call = [h \in Hosts |-> "none"] /\ using = [h \in Hosts |-> CHOOSE t \in Tokens : TRUE]
  /\ issued = [h \in Hosts |-> 0]
  /\ cert = [h \in Hosts |-> 0] /\ key = [h \in Hosts |-> 0]
  /\ at = [h \in Hosts |-> "off"] /\ copy = [h \in Hosts |-> "none"]
  /\ spent = [t \in Tokens |-> 0]

-----------------------------------------------------------------------------
(* register *)

HasCertificates(h) == cert[h] # 0 /\ key[h] # 0

\* connect without certificates, or an explicit register with them, and the configured token.
CallRegister(h, t) ==
  /\ at[h] = "off" /\ token[t] # "none"
  /\ at' = [at EXCEPT ![h] = "waits"]
  /\ call' = [call EXCEPT ![h] = "called"] /\ using' = [using EXCEPT ![h] = t]
  /\ UNCHANGED <<token, record, lapsed, issued, cert, key, copy, spent>>

\* DELETE ... RETURNING.
Consumed(t) == [token EXCEPT ![t] = "gone"]

\* consume_token, then the expiry; a token that has expired is gone as well.
ConsumeToken(h) ==
  LET t == using[h]
  IN /\ call[h] = "called" /\ token[t] \in {"live", "expired"}
     /\ token' = Consumed(t)
     /\ \/ token[t] = "live" /\ call' = [call EXCEPT ![h] = "consumed"]
           /\ spent' = [spent EXCEPT ![t] = @ + 1] /\ UNCHANGED at
        \/ token[t] = "expired" /\ call' = [call EXCEPT ![h] = "none"]
           /\ at' = [at EXCEPT ![h] = "off"] /\ UNCHANGED spent
     /\ UNCHANGED <<record, lapsed, using, issued, cert, key, copy>>

RefuseToken(h) ==
  /\ call[h] = "called" /\ token[using[h]] = "gone"
  /\ call' = [call EXCEPT ![h] = "none"] /\ at' = [at EXCEPT ![h] = "off"]
  /\ UNCHANGED <<token, record, lapsed, using, issued, cert, key, copy, spent>>

Stored(i) == [record EXCEPT ![i] = "valid"]

\* A fresh id, its certificate, its record.
StoreAgent(h) ==
  /\ call[h] = "consumed"
  /\ \E i \in Ids :
       /\ record[i] = "none" /\ \A g \in Hosts : issued[g] # i
       /\ record' = Stored(i) /\ issued' = [issued EXCEPT ![h] = i]
  /\ call' = [call EXCEPT ![h] = "stored"]
  /\ UNCHANGED <<token, lapsed, using, cert, key, at, copy, spent>>

\* The answer comes; the agent writes the certificate first,
SaveCert(h) ==
  /\ call[h] = "stored" /\ at[h] = "waits"
  /\ cert' = [cert EXCEPT ![h] = issued[h]]
  /\ call' = [call EXCEPT ![h] = "none"] /\ at' = [at EXCEPT ![h] = "saving"]
  /\ UNCHANGED <<token, record, lapsed, using, issued, key, copy, spent>>

\* and then the key.
SaveKey(h) ==
  /\ at[h] = "saving"
  /\ key' = [key EXCEPT ![h] = issued[h]] /\ at' = [at EXCEPT ![h] = "off"]
  /\ UNCHANGED <<token, record, lapsed, call, using, issued, cert, copy, spent>>

\* The agent is killed, or its call or its stream breaks; a call that is cut off is dropped.
Interrupted(h) ==
  /\ at[h] # "off" /\ at' = [at EXCEPT ![h] = "off"]
  /\ call' = [call EXCEPT ![h] = "none"] /\ copy' = [copy EXCEPT ![h] = "none"]
  /\ UNCHANGED <<token, record, lapsed, using, issued, cert, key, spent>>

-----------------------------------------------------------------------------
(* agent_stream *)

\* is_agent_valid.
Admits(i) == record[i] = "valid"

\* TLS asks for a certificate in its validity and for its key; the stream for a valid record.
OpenStream(h) ==
  /\ at[h] = "off" /\ HasCertificates(h)
  /\ cert[h] = key[h] /\ cert[h] \notin lapsed /\ Admits(cert[h])
  /\ at' = [at EXCEPT ![h] = "checked"]
  /\ UNCHANGED <<token, record, lapsed, call, using, issued, cert, key, copy, spent>>

\* get_agent, once the first status has come.
ReadAgent(h) ==
  /\ at[h] = "checked"
  /\ at' = [at EXCEPT ![h] = "read"] /\ copy' = [copy EXCEPT ![h] = record[cert[h]]]
  /\ UNCHANGED <<token, record, lapsed, call, using, issued, cert, key, spent>>

\* Mutant of MetadataUpdated: the record that was read is written back.
RecordWritten(h) == [record EXCEPT ![cert[h]] = copy[h]]

\* "a targeted UPDATE that only touches labels/max_vms".
MetadataUpdated(h) == record

UpdateAndRegister(h) ==
  /\ at[h] = "read"
  /\ record' = MetadataUpdated(h)
  /\ at' = [at EXCEPT ![h] = "streaming"] /\ copy' = [copy EXCEPT ![h] = "none"]
  /\ UNCHANGED <<token, lapsed, call, using, issued, cert, key, spent>>

-----------------------------------------------------------------------------
(* Time and the admin *)

\* create_registration_token.
CreateToken(t) ==
  /\ token[t] = "none" /\ token' = [token EXCEPT ![t] = "live"]
  /\ UNCHANGED <<record, lapsed, call, using, issued, cert, key, at, copy, spent>>

TokenExpires(t) ==
  /\ token[t] = "live" /\ token' = [token EXCEPT ![t] = "expired"]
  /\ UNCHANGED <<record, lapsed, call, using, issued, cert, key, at, copy, spent>>

\* delete_token, and cleanup_expired_tokens.
DeleteToken(t) ==
  /\ token[t] \in {"live", "expired"} /\ token' = [token EXCEPT ![t] = "gone"]
  /\ UNCHANGED <<record, lapsed, call, using, issued, cert, key, at, copy, spent>>

Lapse(i) ==
  /\ record[i] # "none" /\ i \notin lapsed /\ lapsed' = lapsed \cup {i}
  /\ UNCHANGED <<token, record, call, using, issued, cert, key, at, copy, spent>>

RevokeAgent(i) ==
  /\ record[i] = "valid" /\ record' = [record EXCEPT ![i] = "revoked"]
  /\ UNCHANGED <<token, lapsed, call, using, issued, cert, key, at, copy, spent>>

\* cleanup_revoked_agents, after the retention.
PurgeRevoked(i) ==
  /\ record[i] = "revoked" /\ record' = [record EXCEPT ![i] = "gone"]
  /\ UNCHANGED <<token, lapsed, call, using, issued, cert, key, at, copy, spent>>

-----------------------------------------------------------------------------
(* The specification *)

EnrollNext ==
  \/ \E h \in Hosts : \/ ConsumeToken(h) \/ RefuseToken(h) \/ StoreAgent(h)
                      \/ SaveCert(h) \/ SaveKey(h) \/ Interrupted(h)
                      \/ OpenStream(h) \/ ReadAgent(h) \/ UpdateAndRegister(h)
                      \/ \E t \in Tokens : CallRegister(h, t)
  \/ \E t \in Tokens : CreateToken(t) \/ TokenExpires(t) \/ DeleteToken(t)
  \/ \E i \in Ids : Lapse(i) \/ RevokeAgent(i) \/ PurgeRevoked(i)

EnrollSpec == EnrollInit /\ [][EnrollNext]_enrollVars

-----------------------------------------------------------------------------
(* What should hold *)

\* "Consume the token (single-use)": however calls of several agents, retries and the admin's
\* deletion interleave, a token is exchanged once.
TokenSingleUse == \A t \in Tokens : spent[t] <= 1

\* A revocation "can't be silently undone" by the stream that is being admitted.
RevokedKept ==
  \A i \in Ids : record[i] \in {"revoked", "gone"} => record'[i] \in {"revoked", "gone"}

\* Both: an agent gets in by a token that nobody else gets in by, and is out once it is revoked.
EnrollSound == []TokenSingleUse /\ [][RevokedKept]_enrollVars

=============================================================================
