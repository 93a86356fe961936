------------------------------ MODULE MCClients ------------------------------
(* Small populations of clients for TLC.  Each behaviour is about one of    *)
(* them, so that enough calls fit where few commands and events meet.       *)
EXTENDS Clients

Group(commands, calls, reads, typos, events) ==
  [commands |-> commands, calls |-> calls, reads |-> reads, typos |-> typos, events |-> events]

Readers == Group({"wrap", "unwrap"}, 4, {1, 2}, {}, {})
Revokers == Group({"wrap", "unwrap", "peek", "revoke"}, 3, {2}, {}, {"time", "forget"})
Unlucky == Group({"wrap", "unwrap", "revoke"}, 3, {1}, {}, {"restart"})
Careless == Group({"wrap", "unwrap", "peek", "revoke"}, 2, {1}, {Never, Malformed}, {"refusal", "time"})
Sharers == Group({"split", "combine", "print", "unwrap"}, 4, {1}, {}, {})
Makers == Group({"create", "create_split", "combine"}, 3, {1}, {}, {"refusal"})
Browsers == Group({"wrap", "load", "click"}, 4, {1, 2}, {}, {})
Rivals == Group({"wrap", "load", "click", "unwrap", "revoke"}, 4, {1}, {}, {})

AllPopulations == {Readers, Revokers, Unlucky, Careless, Sharers, Makers, Browsers, Rivals}
OnlySharers == {Sharers}
=============================================================================
