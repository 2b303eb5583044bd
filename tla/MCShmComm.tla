------------------------------- MODULE MCShmComm -------------------------------
(* Two instances with comm configs of their own, and definition files.     *)
EXTENDS ShmComm

CONSTANTS a, b

Config(impl, names) == [impl |-> impl, pdus |-> [i \in DOMAIN names |-> <<1, names[i]>>]]

(* Two callback instances that want the same channel, or one poll instance *)
(* with two channels.                                                      *)
MCDeployments ==
    {a :> Config("callback", <<1>>) @@ b :> Config("callback", <<1>>),
     a :> Config("poll", <<1, 2>>) @@ b :> Config("absent", <<>>)}

(* Two poll instances with a channel each.                                 *)
MCTwoPolls == {a :> Config("poll", <<1>>) @@ b :> Config("poll", <<2>>)}

UpTo(n, S) == UNION {[1 .. k -> S] : k \in 0 .. n}

(* Entries enough to replace each other, to share a channel and to fail.   *)
MCFew == {[name |-> 1, channel |-> 1, whole |-> TRUE],
          [name |-> 1, channel |-> 2, whole |-> TRUE],
          [name |-> 2, channel |-> 1, whole |-> TRUE],
          [name |-> 1, channel |-> 2, whole |-> FALSE]}

(* A robot with three entries, or the same robot twice; and two sets,      *)
(* which may have one id.                                                  *)
MCLegacy ==
    {[layout |-> "legacy", robots |-> <<[name |-> 1, readers |-> r, writers |-> w]>>] :
        r \in UpTo(2, EntryRecords), w \in UpTo(1, EntryRecords)}
    \cup
    {[layout |-> "legacy",
      robots |-> <<[name |-> 1, readers |-> r, writers |-> w],
                   [name |-> 1, readers |-> q, writers |-> v]>>] :
        r, w, q, v \in UpTo(1, MCFew)}

MCCompact ==
    {[layout |-> "compact",
      paths |-> <<[id |-> 1, readable |-> TRUE, defs |-> s],
                  [id |-> i, readable |-> there, defs |-> <<e>>]>>,
      robots |-> <<[name |-> 1, set |-> j], [name |-> 1, set |-> k]>>] :
        s \in UpTo(2, MCFew), e \in MCFew, there \in BOOLEAN,
        i \in {1, 2}, j, k \in {1, 2, 3}}

MCFiles == MCLegacy \cup MCCompact \cup {[layout |-> "unreadable"]}

(* What the deployments use: PDU 1 on channel 1, PDU 2 on channel 2.       *)
MCEntry(n) == [name |-> n, channel |-> n, whole |-> TRUE]

MCPduFile ==
    [layout |-> "legacy",
     robots |-> <<[name |-> 1, readers |-> <<MCEntry(1), MCEntry(2)>>, writers |-> <<>>]>>]
===============================================================================
