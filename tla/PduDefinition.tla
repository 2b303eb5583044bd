---------------------------- MODULE PduDefinition ----------------------------
(***************************************************************************)
(* PduDefinition (src/pdu_definition.cpp): which definition a robot's PDU  *)
(* name has after a file was loaded, and which one its channel leads to.   *)
(*                                                                         *)
(* A file is read from its first entry to its last.  A "legacy" file lists *)
(* readers and writers for each robot; a "compact" file names a set of     *)
(* definitions for each robot, and the files the sets are in.  An entry is *)
(* whole if it has all its fields; its name it always has.                 *)
(***************************************************************************)
EXTENDS Naturals, Sequences, SequencesExt

CONSTANTS Robots,   \* names of robots
          Names,    \* org_name of PDUs, as numbers in the order of std::map
          Channels,
          Files     \* the files to look at

EntryRecords == [name : Names, channel : Channels, whole : BOOLEAN]

LegacyRobots == [name : Robots, readers : Seq(EntryRecords), writers : Seq(EntryRecords)]
CompactRobots == [name : Robots, set : Nat]
DefinitionSets == [id : Nat, readable : BOOLEAN, defs : Seq(EntryRecords)]

(* What a file of either layout lists; a field that an entry has not is    *)
(* its being whole.                                                        *)
ASSUME DefinitionAssumption ==
    /\ Names \subseteq Nat
    /\ \A f \in Files :
          \/ f.layout = "legacy" /\ f.robots \in Seq(LegacyRobots)
          \/ /\ f.layout = "compact"
             /\ f.robots \in Seq(CompactRobots) /\ f.paths \in Seq(DefinitionSets)
          \/ f.layout = "unreadable"
-----------------------------------------------------------------------------
(* What the loops of load_legacy_ and load_compact_ come across, in order. *)

Listed(robot, list, defs) ==
    [i \in DOMAIN defs |-> [robot |-> robot, list |-> list, entry |-> defs[i]]]

(* What ends the loop: the file is no good from here on.                   *)
BadItem == <<[list |-> "bad"]>>

LegacyItems(f) ==
    FlattenSeq([i \in DOMAIN f.robots |->
        Listed(f.robots[i].name, "readers", f.robots[i].readers)
          \o Listed(f.robots[i].name, "writers", f.robots[i].writers)])

(* Of two sets with an id the first counts (std::map::emplace).            *)
SetsOf(f, id) == {i \in DOMAIN f.paths : f.paths[i].id = id}

FirstSet(f, id) == f.paths[CHOOSE i \in SetsOf(f, id) : \A j \in SetsOf(f, id) : i <= j]

SetsReadable(f) ==
    \A i \in DOMAIN f.paths : /\ f.paths[i].readable
                              /\ \A e \in ToSet(f.paths[i].defs) : e.whole

(* All the sets are read before anything is stored.                        *)
CompactItems(f) ==
    IF ~SetsReadable(f) THEN BadItem
    ELSE FlattenSeq([i \in DOMAIN f.robots |->
             LET r == f.robots[i]
             IN  IF SetsOf(f, r.set) = {} THEN BadItem
                 ELSE Listed(r.name, "set", FirstSet(f, r.set).defs)])

Items(f) == CASE f.layout = "legacy" -> LegacyItems(f)
              [] f.layout = "compact" -> CompactItems(f)
              [] OTHER -> BadItem

Key(item) == <<item.robot, item.entry.name>>

(* Fault: a writer replaces a reader of the same name.                     *)
NeverSkipped(table, item) == FALSE

(* A writer of a name that is there already is not even read to its end.   *)
Skipped(table, item) == item.list = "writers" /\ Key(item) \in DOMAIN table

(* The map with one more entry, which replaces an earlier one of its name. *)
Put(table, item) ==
    [k \in DOMAIN table \cup {Key(item)} |->
        IF k = Key(item) THEN item.entry ELSE table[k]]

(* One entry.  After an error nothing more is read, and nothing is undone. *)
LoadItem(pdus, item) ==
    CASE ~pdus.ok -> pdus
      [] pdus.ok /\ item.list = "bad" -> [pdus EXCEPT !.ok = FALSE]
      [] OTHER -> IF Skipped(pdus.table, item) THEN pdus
                  ELSE IF ~item.entry.whole THEN [pdus EXCEPT !.ok = FALSE]
                  ELSE [pdus EXCEPT !.table = Put(@, item)]

(* What load returns, and the map it leaves behind.                        *)
Load(f) ==
    LET items == Items(f)
        after[i \in 0 .. Len(items)] ==
            IF i = 0 THEN [ok |-> TRUE, table |-> <<>>]
            ELSE LoadItem(after[i - 1], items[i])
    IN  after[Len(items)]

(* resolve by name, and by channel: the first in the order of the map.     *)
HasName(table, robot, name) == <<robot, name>> \in DOMAIN table

ByName(table, robot, name) == table[<<robot, name>>]

OnChannel(table, robot, channel) ==
    {k \in DOMAIN table : k[1] = robot /\ table[k].channel = channel}

ByChannel(table, robot, channel) ==
    LET found == OnChannel(table, robot, channel)
    IN  table[CHOOSE k \in found : \A j \in found : k[2] <= j[2]]
-----------------------------------------------------------------------------
(* What a file says of a key when it is read as a set of lists: the last   *)
(* reader, and if there is none the first writer; the last of a set.       *)
Candidates(f, k, lists) ==
    {i \in DOMAIN Items(f) : Items(f)[i].list \in lists /\ Key(Items(f)[i]) = k}

Meant(f, k) ==
    LET first == Candidates(f, k, {"readers", "set"})
    IN  Items(f)[IF first # {} THEN Max(first)
                 ELSE Min(Candidates(f, k, {"writers"}))].entry

AllKeys(f) == {Key(it) : it \in {i \in ToSet(Items(f)) : i.list # "bad"}}

(* A load that succeeds gives each robot and name listed what the file     *)
(* means, and no other; one that fails leaves nothing that is not listed.  *)
LoadedAsListed(f) ==
    LET pdus == Load(f)
    IN  IF pdus.ok
        THEN pdus.table = [k \in AllKeys(f) |-> Meant(f, k)]
        ELSE \A k \in DOMAIN pdus.table :
                /\ pdus.table[k].whole
                /\ \E i \in Candidates(f, k, {"readers", "writers", "set"}) :
                      pdus.table[k] = Items(f)[i].entry

(* A name leads to its channel and the channel back to the name, so that   *)
(* get_pdu_name inverts get_pdu_channel_id, unless the file gives another  *)
(* name of the robot the same channel.                                     *)
ChannelsInvert(f) ==
    LET table == Load(f).table
    IN  \A k \in DOMAIN table :
           LET back == ByChannel(table, k[1], ByName(table, k[1], k[2]).channel)
           IN  \/ back = table[k]
               \/ \E j \in DOMAIN table \ {k} :
                     j[1] = k[1] /\ table[j].channel = table[k].channel

(* Both, of every file.                                                    *)
LoadsAgree == \A f \in Files : LoadedAsListed(f)

LookupsAgree == \A f \in Files : ChannelsInvert(f)
=============================================================================
