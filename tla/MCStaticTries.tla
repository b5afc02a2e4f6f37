-------------------------- MODULE MCStaticTries ---------------------------
(***************************************************************************)
(* Logs of up to MaxLen different, telling requests, and configurations of *)
(* two tries.                                                              *)
(***************************************************************************)
EXTENDS StaticTries

CONSTANT MaxLen

Request(ip, instant, wall, agent, uri) ==
  [ip |-> ip, instant |-> instant, wall |-> wall, agent |-> agent, uri |-> uri]

(* A good bot, a bad one and a client at one address, the good bot without *)
(* a valid address, and a client of an early zone with a uri of its own.   *)
MCRequests ==
  {Request(1, 2, 2, "good", "/"), Request(1, 2, 2, "bad", "/"),
   Request(0, 2, 2, "good", "/"), Request(2, 1, 2, "client", "/"),
   Request(2, 2, 1, "", "/x")}
MCLogs ==
  {s \in UNION {[1..n -> MCRequests] : n \in 0..MaxLen} : IsInjective(s)}

Trie(start, end, agentRegex, uriRegex, listed) ==
  [start |-> start, end |-> end, agentRegex |-> agentRegex,
   uriRegex |-> uriRegex, whiteAgents |-> IF listed THEN {"good"} ELSE {},
   blackAgents |-> IF listed THEN {"good", "bad"} ELSE {}]
Every(listed) == Trie(NoBound, NoBound, NoRegex, NoRegex, listed)
From(listed) ==
  Trie(Bound(FALSE, 2), NoBound, NoRegex, Regex({"/", "/x"}), listed)
Until(listed) ==
  Trie(NoBound, Bound(TRUE, 1), Regex({"client", "good"}), NoRegex, listed)

Two(tc1, tc2) == [t \in {"t1", "t2"} |-> IF t = "t1" THEN tc1 ELSE tc2]
MCConfigs ==
  {Two(Every(FALSE), Every(FALSE)), Two(Every(FALSE), From(FALSE)),
   Two(NoConfig, Until(FALSE)), Two(Every(TRUE), From(TRUE))}
=============================================================================
