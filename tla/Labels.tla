------------------------------- MODULE Labels -------------------------------
(***************************************************************************)
(* Label matching is done twice: an agent advertises a capability per      *)
(* mapping and picks the image of a CreateRunner itself, and the           *)
(* coordinator works out which of the capabilities that will be, for the   *)
(* limits it counts the runner against. Neither tells the other.           *)
(***************************************************************************)
EXTENDS Naturals, Sequences, SequencesExt, FiniteSetsExt

CONSTANTS
  LabelNames,  \* labels, in lower case
  ImageIds,    \* ids of images or templates
  MaxMappings  \* bound: mappings of the agent

ASSUME LabelsAssumption == MaxMappings \in Nat

VARIABLES
  base,     \* the agent's base labels
  baseId,   \* its default image
  mappings, \* [labels, id] in the order of the config
  wanted,   \* the labels of a job,
  setId     \* and the set a pool command names, "" for none

labelVars == <<base, baseId, mappings, wanted, setId>>

Mappings == [labels : SUBSET LabelNames, id : ImageIds]

LabelsInit ==
  /\ base \in SUBSET LabelNames /\ baseId \in ImageIds /\ mappings = <<>>
  /\ wanted \in SUBSET LabelNames /\ setId \in ImageIds \cup {""}

\* The agent comes back with another mapping in its config.
AddMapping ==
  /\ Len(mappings) < MaxMappings
  /\ \E m \in Mappings : mappings' = Append(mappings, m)
  /\ UNCHANGED <<base, baseId, wanted, setId>>

LabelsNext == AddMapping

LabelsSpec == LabelsInit /\ [][LabelsNext]_labelVars

First(S) == IF S = {} THEN 0 ELSE Min(S)

-----------------------------------------------------------------------------
(* The agent. 0 is the default image, i the one of mapping i. *)

\* capabilities: a set per mapping, then the base labels alone.
Capabilities ==
  Append([i \in DOMAIN mappings |->
            [labels |-> base \cup mappings[i].labels, id |-> mappings[i].id]],
         [labels |-> base, id |-> baseId])

\* select_mapping: the first mapping the job asks for and is covered by.
SelectMapping ==
  First({i \in DOMAIN mappings :
           /\ (wanted \ base) \cap mappings[i].labels # {}
           /\ wanted \subseteq base \cup mappings[i].labels})

\* mapping_for: an id "the coordinator saw" before "config changed" goes by labels.
MappingFor ==
  LET named == First({i \in DOMAIN mappings : mappings[i].id = setId})
  IN  IF named # 0 THEN named ELSE IF setId = baseId THEN 0 ELSE SelectMapping

\* select_image.
SelectImage == IF MappingFor = 0 THEN baseId ELSE mappings[MappingFor].id

-----------------------------------------------------------------------------
(* The coordinator. It knows the sets, their ids, which is the default and the base labels. *)

\* set_covers, matches_labels.
Covers(set) == wanted \subseteq set
MatchesLabels == \E c \in ToSet(Capabilities) : Covers(c.labels)

\* Mutant of AsksForExtra: any label of the set counts.
AsksForAny(set) == set \cap wanted # {}

AsksForExtra(set) == (set \ base) \cap wanted # {}

\* selected_set: the index of the capability a runner for the job is made from.
SelectedSet ==
  LET default == Len(Capabilities)
      sets == [i \in DOMAIN Capabilities |-> Capabilities[i].labels]
      named == First({i \in DOMAIN Capabilities : Capabilities[i].id = setId})
      extra == First({i \in 1 .. default - 1 : AsksForExtra(sets[i]) /\ Covers(sets[i])})
  IN  CASE named # 0 -> named
        [] named = 0 /\ extra # 0 -> extra
        [] OTHER -> IF Covers(sets[default]) THEN default ELSE 0

-----------------------------------------------------------------------------
(* What should hold *)

\* "The first set that adds a label the job asks for and covers it" (selected_set) is the image
\* "the agent's own matching picks", for every job the coordinator may send there.
SetAgreed ==
  MatchesLabels => SelectedSet # 0 /\ Capabilities[SelectedSet].id = SelectImage
=============================================================================
