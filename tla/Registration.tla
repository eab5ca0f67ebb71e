--------------------------- MODULE Registration ---------------------------
(***************************************************************************)
(* The registry's entry for one agent, over the agent's connections. Each  *)
(* has a stream task at the coordinator, which may outlive the connection  *)
(* and overlap the next one's; entries go by agent, not by connection. The *)
(* disconnect's grace timer, the removal of stale agents and the admin's   *)
(* maintenance flag work on the same entry.                                *)
(***************************************************************************)
EXTENDS Naturals, FiniteSets

CONSTANTS
  MaxConns,   \* bound: connections the agent makes
  MaxStamps,  \* bound: disconnects
  Calls,      \* commands and admin calls: send_command, set_unavailable
  Runners     \* runner names

ASSUME RegistrationAssumption ==
  MaxConns \in Nat /\ MaxStamps \in Nat /\ IsFiniteSet(Runners)

VARIABLES
  entry,     \* the connection in the registry, or 0
  stream,    \* [Conns -> STRING]: its stream task
  cur,       \* the agent's latest connection
  attached,  \* the agent has it open
  stamps,    \* disconnects so far
  stamp,     \* the disconnect the agent is offline from, or 0
  holder,    \* [Calls -> 0 .. MaxConns]: the entry a send_command awaits its answer on, or 0
  stale,     \* the cleanup has listed the agent as stale
  timer,     \* [1 .. MaxStamps -> STRING]: the grace timer of each disconnect
  orphans,   \* [1 .. MaxStamps -> SUBSET Runners]: what it found at its end
  born,      \* [Runners -> Nat]: the number of disconnects when it was made, plus 1; 0 for none
  marked,    \* the admin's set has the agent: it is unavailable
  flag,      \* [Conns -> BOOLEAN]: the same, in the connection's entry
  setter,    \* [Calls -> STRING]: set_unavailable calls
  overlapped \* two of them have overlapped

registrationVars == <<entry, stream, cur, attached, stamps, stamp, holder, stale, timer, orphans,
                      born, marked, flag, setter, overlapped>>

Conns == 1 .. MaxConns

RegistrationInit ==
  /\ entry = 0 /\ stream = [c \in Conns |-> "none"] /\ cur = 0 /\ attached = FALSE
  /\ stamps = 0 /\ stamp = 0
  /\ holder = [k \in Calls |-> 0] /\ stale = FALSE
  /\ timer = [s \in 1 .. MaxStamps |-> "off"] /\ orphans = [s \in 1 .. MaxStamps |-> {}]
  /\ born = [r \in Runners |-> 0]
  /\ marked = FALSE /\ flag = [c \in Conns |-> FALSE]
  /\ setter = [k \in Calls |-> "idle"] /\ overlapped = FALSE

-----------------------------------------------------------------------------
(* Connections and their stream tasks *)

\* The agent connects again once its last session has ended.
OpenConn ==
  /\ ~attached /\ cur < MaxConns
  /\ cur' = cur + 1 /\ attached' = TRUE
  /\ stream' = [stream EXCEPT ![cur + 1] = "opening"]
  /\ UNCHANGED <<entry, stamps, stamp, holder, stale, timer, orphans, born, marked, flag, setter,
                 overlapped>>

\* The session ends at the agent: the link breaks, or the coordinator has closed the stream.
CloseConn ==
  /\ attached
  /\ attached' = FALSE
  /\ UNCHANGED <<entry, stream, cur, stamps, stamp, holder, stale, timer, orphans, born, marked,
                 flag, setter, overlapped>>

\* set_unavailable holds the registry's read lock from reading the set to writing the flag.
Setting == {k \in Calls : setter[k] # "idle"}

\* A new entry takes the flag from the admin's set, under the lock.
Registered(c) == [flag EXCEPT ![c] = marked]

Register(c) ==
  /\ stream[c] = "opening" /\ Setting = {}
  /\ stream' = [stream EXCEPT ![c] = "loop"]
  /\ entry' = c /\ stamp' = 0
  /\ flag' = Registered(c)
  /\ UNCHANGED <<cur, attached, stamps, holder, stale, timer, orphans, born, marked, setter,
                 overlapped>>

\* Nothing has the connection's command channel any more: neither the registry nor a command that
\* awaits its answer.
Unheld(c) == entry # c /\ \A k \in Calls : holder[k] # c

\* The stream has ended at the agent, or its command channel is closed.
LeaveLoop(c) ==
  /\ stream[c] = "loop"
  /\ c # cur \/ ~attached \/ Unheld(c)
  /\ stream' = [stream EXCEPT ![c] = "over"]
  /\ UNCHANGED <<entry, cur, attached, stamps, stamp, holder, stale, timer, orphans, born, marked,
                 flag, setter, overlapped>>

\* unregister takes out the agent's entry, whichever connection made it, and fails the commands
\* that wait on it.
Unregister ==
  /\ Setting = {} /\ stamps < MaxStamps
  /\ stamps' = stamps + 1 /\ stamp' = stamps + 1 /\ entry' = 0
  /\ holder' = [k \in Calls |-> IF holder[k] = entry THEN 0 ELSE holder[k]]

\* A stream task unregisters the agent, and starts the grace timer.
EndStream(c) ==
  /\ stream[c] = "over" /\ Unregister
  /\ stream' = [stream EXCEPT ![c] = "gone"]
  /\ timer' = [timer EXCEPT ![stamps + 1] = "sleeping"]
  /\ UNCHANGED <<cur, attached, stale, orphans, born, marked, flag, setter, overlapped>>

\* remove_stale lists the agents not heard from for long, and unregisters them one by one.
ListStale ==
  /\ entry # 0 /\ ~stale
  /\ stale' = TRUE
  /\ UNCHANGED <<entry, stream, cur, attached, stamps, stamp, holder, timer, orphans, born, marked,
                 flag, setter, overlapped>>

RemoveStale ==
  /\ stale /\ Unregister
  /\ stale' = FALSE
  /\ UNCHANGED <<stream, cur, attached, timer, orphans, born, marked, flag, setter, overlapped>>

-----------------------------------------------------------------------------
(* Commands, runners and the failover *)

SendCommand(k) ==
  /\ entry # 0 /\ holder[k] = 0 /\ setter[k] = "idle"
  /\ holder' = [holder EXCEPT ![k] = entry]
  /\ UNCHANGED <<entry, stream, cur, attached, stamps, stamp, stale, timer, orphans, born, marked,
                 flag, setter, overlapped>>

\* The answer comes, or the timeout.
CommandOver(k) ==
  /\ holder[k] # 0
  /\ holder' = [holder EXCEPT ![k] = 0]
  /\ UNCHANGED <<entry, stream, cur, attached, stamps, stamp, stale, timer, orphans, born, marked,
                 flag, setter, overlapped>>

\* A pass makes a runner on the agent.
MakeRunner(r) ==
  /\ entry # 0 /\ ~flag[entry] /\ born[r] = 0
  /\ born' = [born EXCEPT ![r] = stamps + 1]
  /\ UNCHANGED <<entry, stream, cur, attached, stamps, stamp, holder, stale, timer, orphans, marked,
                 flag, setter, overlapped>>

\* The grace is over: "snapshot first, claim second".
GraceOver(s) ==
  /\ timer[s] = "sleeping"
  /\ orphans' = [orphans EXCEPT ![s] = {r \in Runners : born[r] # 0}]
  /\ timer' = [timer EXCEPT ![s] = IF orphans'[s] = {} THEN "off" ELSE "snapshot"]
  /\ UNCHANGED <<entry, stream, cur, attached, stamps, stamp, holder, stale, born, marked, flag,
                 setter, overlapped>>

\* Mutant of Claims: whoever is offline.
ClaimsAnyway(s) == entry = 0 /\ stamp # 0

\* claim_failover: the agent is still offline from that disconnect, and nobody else claimed it.
Claims(s) == entry = 0 /\ stamp = s

ClaimFailover(s) ==
  /\ timer[s] = "snapshot"
  /\ timer' = [timer EXCEPT ![s] = "off"]
  /\ \/ Claims(s) /\ stamp' = 0
        /\ born' = [r \in Runners |-> IF r \in orphans[s] THEN 0 ELSE born[r]]
     \/ ~Claims(s) /\ UNCHANGED <<stamp, born>>
  /\ UNCHANGED <<entry, stream, cur, attached, stamps, holder, stale, orphans, marked, flag, setter,
                 overlapped>>

-----------------------------------------------------------------------------
(* set_unavailable *)

\* The set is changed; its lock is released before the agent's is taken.
Mark(k, to) ==
  /\ setter[k] = "idle" /\ holder[k] = 0
  /\ marked' = to
  /\ setter' = [setter EXCEPT ![k] = IF to THEN "set" ELSE "clear"]
  /\ overlapped' = (overlapped \/ Setting # {})
  /\ UNCHANGED <<entry, stream, cur, attached, stamps, stamp, holder, stale, timer, orphans, born,
                 flag>>

Flag(k) ==
  /\ setter[k] # "idle"
  /\ flag' = [c \in Conns |-> IF c = entry THEN setter[k] = "set" ELSE flag[c]]
  /\ setter' = [setter EXCEPT ![k] = "idle"]
  /\ UNCHANGED <<entry, stream, cur, attached, stamps, stamp, holder, stale, timer, orphans, born,
                 marked, overlapped>>

-----------------------------------------------------------------------------
(* The specification *)

RegistrationNext ==
  \/ OpenConn \/ CloseConn \/ ListStale \/ RemoveStale
  \/ \E c \in Conns : Register(c) \/ LeaveLoop(c) \/ EndStream(c)
  \/ \E k \in Calls : SendCommand(k) \/ CommandOver(k) \/ Flag(k) \/ \E to \in BOOLEAN : Mark(k, to)
  \/ \E r \in Runners : MakeRunner(r)
  \/ \E s \in 1 .. MaxStamps : GraceOver(s) \/ ClaimFailover(s)

RegistrationSpec == RegistrationInit /\ [][RegistrationNext]_registrationVars

-----------------------------------------------------------------------------
(* What should hold *)

\* An agent that is registered has the availability its admin last set, across reconnects: "so a
\* concurrent set_unavailable can't slip in between" (register). Two overlapping set_unavailable
\* calls may leave the entry with the other's value.
AvailabilityKept ==
  entry # 0 /\ Setting = {} /\ ~overlapped => flag[entry] = marked

\* "the claim proves the agent was still offline after the snapshot, so nothing in it can belong to
\* a new connection" (server.rs): a runner failed over was made before the disconnect.
FailoverSpares ==
  \A s \in 1 .. MaxStamps, r \in Runners :
    born[r] # 0 /\ born'[r] = 0 /\ ClaimFailover(s) => born[r] <= s

\* Both: a reconnect takes neither the admin's setting nor the new connection's runners away.
ReconnectSound == []AvailabilityKept /\ [][FailoverSpares]_registrationVars

=============================================================================
