------------------------------ MODULE Clients ------------------------------
(***************************************************************************)
(* Who uses the server: the commands of the CLI (internal/cli/client.go)    *)
(* and the web page (internal/web/static/app.js).  Each command makes at    *)
(* most one request; its response may be lost, or the client may time out,  *)
(* and no request is ever repeated by the program itself.  What one client  *)
(* prints, any other may use.                                               *)
(***************************************************************************)
EXTENDS Service

CONSTANTS
  Populations,  \* what a behaviour is about, see population
  NumShares, Threshold  \* the quorum of every split

ASSUME QuorumAssumption == NumShares \in Nat /\ Threshold \in 2..NumShares

VARIABLES
  population,  \* bound of the model: the commands, the number of calls, the reads
               \* asked for, the mistyped tokens and the events of this behaviour
  call,        \* the commands and clicks, in the order in which they start
  tokens,      \* the IDs whose token was printed or shown
  shares,      \* the shares that were printed or shown: <<ID, coordinate>>
  tab          \* one tab with the reveal page

clientVars == <<population, call, tokens, shares, tab>>
vars == <<serviceVars, clientVars>>

Cli == {"wrap", "split", "unwrap", "combine", "print", "peek", "revoke"}
Page == {"create", "create_split", "load", "click"}

ASSUME PopulationsAssumption ==
  \A p \in Populations : p.reads \subseteq Nat /\ p.typos \subseteq {Never, Malformed}

(* revoked: the IDs whose revocation had been confirmed when the call began.*)
NoCall == [cmd |-> "none", id |-> Absent, quorum |-> TRUE, exit |-> "none", revoked |-> {}]
Call == [cmd : Cli \cup Page, id : Ids \cup {Malformed, Absent}, quorum : BOOLEAN,
         exit : {"open", "ok", "error", "usage", "gone", "not_found"},
         revoked : SUBSET Ids]

ClosedTab == [id |-> Absent, panels |-> {}, clicks |-> 0, code |-> "none"]

Init ==
  /\ ServiceInit
  /\ population \in Populations
  /\ call = [c \in 1..Calls |-> NoCall]
  /\ tokens = {} /\ shares = {}
  /\ tab = ClosedTab

Open(c) == call[c].exit = "open"
ConfirmedRevoked ==
  {request[c].id : c \in {d \in 1..Calls :
     request[d].at = "delivered" /\ request[d].op = "revoke" /\ request[d].outcome = "ok"}}

(* Calls begin in the order of their numbers.                              *)
Begins(c, cmd) ==
  /\ cmd \in population.commands
  /\ c <= population.calls
  /\ call[c] = NoCall
  /\ \A d \in 1..(c - 1) : call[d] # NoCall

Enter(c, cmd, id, quorum, exit) ==
  call' = [call EXCEPT ![c] = [cmd |-> cmd, id |-> id, quorum |-> quorum,
                               exit |-> exit, revoked |-> ConfirmedRevoked]]

(* The command ends without a request, about a secret or about none.       *)
EndLocally(c, cmd, id, exit) ==
  /\ Begins(c, cmd)
  /\ Enter(c, cmd, id, TRUE, exit)
  /\ Quiet /\ Elsewhere
  /\ UNCHANGED request

(* call: the connection is refused unless the server is running.           *)
Dial(c, cmd, id, quorum, op, reads) ==
  /\ Begins(c, cmd)
  /\ IF server = "running"
       THEN Enter(c, cmd, id, quorum, "open") /\ Send(c, op, id, reads)
       ELSE Enter(c, cmd, id, quorum, "error") /\ UNCHANGED request
  /\ Quiet /\ Elsewhere
----------------------------------------------------------------------------
(* The CLI.                                                                *)

(* A bound of the model: IDs are never exhausted.                          *)
MayWrap ==
  Cardinality({c \in 1..Calls : call[c].cmd \in {"wrap", "split", "create", "create_split"}})
    < Cardinality(Ids \ {Never})

cmdWrap(c) ==
  /\ MayWrap
  /\ \E reads \in population.reads : Dial(c, "wrap", Absent, TRUE, "wrap", reads)
  /\ UNCHANGED <<population, tokens, shares, tab>>

(* Fault: the quorum is left to shamir.Split, after the wrap.               *)
cmdWrapSplitLate(c) ==
  /\ MayWrap
  /\ \E reads \in population.reads, quorum \in BOOLEAN :
       Dial(c, "split", Absent, quorum, "wrap", reads)
  /\ UNCHANGED <<population, tokens, shares, tab>>

(* wrap --shares --threshold: the quorum is validated before any request.   *)
cmdWrapSplit(c) ==
  /\ MayWrap
  /\ \/ \E reads \in population.reads : Dial(c, "split", Absent, TRUE, "wrap", reads)
     \/ EndLocally(c, "split", Absent, "usage")
  /\ UNCHANGED <<population, tokens, shares, tab>>

(* A token may be mistyped: it does not parse, or is one never issued.      *)
cmdOnToken(c) ==
  /\ \E cmd \in {"unwrap", "peek", "revoke"}, id \in tokens \cup population.typos :
       Dial(c, cmd, id, TRUE, cmd, 0)
  /\ UNCHANGED <<population, tokens, shares, tab>>

(* shamir.Combine, here and in the page: shares of one split with distinct  *)
(* coordinates give its token; those of several pass unnoticed and give a   *)
(* token that nobody was ever given.                                        *)
Combines(some) ==
  /\ Cardinality(some) >= 2 /\ Cardinality(some) >= Threshold
  /\ \A s, t \in some : s # t => s[2] # t[2]

Combined(some) ==
  IF Cardinality({s[1] : s \in some}) = 1 THEN (CHOOSE s \in some : TRUE)[1] ELSE Never

cmdCombine(c) ==
  /\ \E some \in SUBSET shares :
       IF Combines(some)
         THEN Dial(c, "combine", Combined(some), TRUE, "unwrap", 0)
         ELSE EndLocally(c, "combine", Absent, "usage")
  /\ UNCHANGED <<population, tokens, shares, tab>>

(* combine --print-token makes no request.                                 *)
cmdCombinePrint(c) ==
  /\ \E some \in SUBSET shares :
       /\ Combines(some)
       /\ EndLocally(c, "print", Combined(some), "ok")
       /\ tokens' = tokens \cup {Combined(some)}
  /\ UNCHANGED <<population, shares, tab>>

(* Fault: 410 is treated like any other error.                             *)
goneExitUnknown(outcome) ==
  CASE outcome = "ok" -> "ok"
    [] outcome \in {"not_found", "auth_fail"} -> "not_found"
    [] OTHER -> "error"

(* The exit codes; a page shows the same distinctions.                     *)
goneExit(outcome) ==
  CASE outcome = "ok" -> "ok"
    [] outcome \in Reasons -> "gone"
    [] outcome \in {"not_found", "auth_fail"} -> "not_found"
    [] OTHER -> "error"

Close(c, exit) == call' = [call EXCEPT ![c].exit = exit]

Deliver(c) ==
  /\ Open(c) /\ request[c].at = "answered"
  /\ request' = [request EXCEPT ![c].at = "delivered"]
  /\ Quiet /\ Elsewhere

AllShares(id) == {id} \X (1..NumShares)

(* Fault: --json prints the server's response in split mode too.            *)
ReceiveSplitJson(c) ==
  /\ call[c].cmd = "split" /\ Deliver(c)
  /\ Close(c, goneExit(request[c].outcome))
  /\ tokens' = IF request[c].outcome = "ok" THEN tokens \cup {request[c].id} ELSE tokens
  /\ UNCHANGED <<population, shares, tab>>

(* printShares in place of the token; Split refuses a bad quorum.           *)
ReceiveSplit(c) ==
  /\ call[c].cmd = "split" /\ Deliver(c)
  /\ IF request[c].outcome = "ok" /\ call[c].quorum
       THEN Close(c, "ok") /\ shares' = shares \cup AllShares(request[c].id)
       ELSE /\ Close(c, IF call[c].quorum THEN goneExit(request[c].outcome) ELSE "error")
            /\ UNCHANGED shares
  /\ UNCHANGED <<population, tokens, tab>>

(* The other commands; wrap prints the token, as the page shows the link.   *)
Receive(c) ==
  /\ call[c].cmd \in (Cli \cup {"create"}) \ {"split"} /\ Deliver(c)
  /\ Close(c, goneExit(request[c].outcome))
  /\ tokens' = IF request[c].op = "wrap" /\ request[c].outcome = "ok"
                 THEN tokens \cup {request[c].id} ELSE tokens
  /\ UNCHANGED <<population, shares, tab>>

(* Fault: no answer is reported as if the server had found nothing.         *)
GiveUpNotFound(c) ==
  /\ Open(c)
  /\ Close(c, "not_found")
  /\ \/ UNCHANGED request
     \/ request[c].at = "sent" /\ request' = [request EXCEPT ![c].at = "cut"]
  /\ Quiet /\ Elsewhere
  /\ UNCHANGED <<population, tokens, shares, tab>>

(* The connection fails, or the 15 s of the client pass.  The server does   *)
(* not notice; a request that has not arrived may never do so.              *)
GiveUp(c) ==
  /\ Open(c)
  /\ Close(c, "error")
  /\ \/ UNCHANGED request
     \/ request[c].at = "sent" /\ request' = [request EXCEPT ![c].at = "cut"]
  /\ Quiet /\ Elsewhere
  /\ UNCHANGED <<population, tokens, shares, tab>>
----------------------------------------------------------------------------
(* The page.                                                               *)

create(c) ==
  /\ MayWrap
  /\ \E reads \in population.reads, cmd \in {"create", "create_split"} :
       Dial(c, cmd, Absent, TRUE, "wrap", reads)
  /\ UNCHANGED <<population, tokens, shares, tab>>

(* The page wraps, then loads shamir.js and splits; either may fail.        *)
ReceiveCreateSplit(c) ==
  /\ call[c].cmd = "create_split" /\ Deliver(c)
  /\ \/ /\ request[c].outcome = "ok"
        /\ Close(c, "ok")
        /\ shares' = shares \cup AllShares(request[c].id)
     \/ Close(c, "error") /\ UNCHANGED shares
  /\ UNCHANGED <<population, tokens, tab>>

(* Fault: loading the page unwraps.                                        *)
beginUnwrapAtOnce(c) ==
  /\ tab.id = Absent
  /\ \E id \in tokens :
       Dial(c, "load", id, TRUE, "unwrap", 0) /\ tab' = [tab EXCEPT !.id = id]
  /\ UNCHANGED <<population, tokens, shares>>

(* A tab is opened on a share link: the page peeks.                         *)
beginUnwrap(c) ==
  /\ tab.id = Absent
  /\ \E id \in tokens :
       Dial(c, "load", id, TRUE, "peek", 0) /\ tab' = [tab EXCEPT !.id = id]
  /\ UNCHANGED <<population, tokens, shares>>

(* The button stays enabled until the first response is shown.              *)
clickReveal(c) ==
  /\ "waiting" \in tab.panels
  /\ Dial(c, "click", tab.id, TRUE, "unwrap", 0)
  /\ tab' = [tab EXCEPT !.clicks = @ + 1]
  /\ UNCHANGED <<population, tokens, shares>>

renderGone(outcome) ==
  tab' = [tab EXCEPT !.panels = (@ \ {"waiting"}) \cup {"gone"}, !.code = outcome]

(* Neither showSecret nor renderGone hides what the other has shown.        *)
ReceiveTab(c) ==
  /\ call[c].cmd \in {"load", "click"} /\ Deliver(c)
  /\ Close(c, goneExit(request[c].outcome))
  /\ CASE request[c].outcome # "ok" -> renderGone(request[c].outcome)
       [] request[c].outcome = "ok" /\ call[c].cmd = "load" ->
            tab' = [tab EXCEPT !.panels = @ \cup {"waiting"}]
       [] OTHER -> tab' = [tab EXCEPT !.panels = (@ \ {"waiting"}) \cup {"revealed"}]
  /\ UNCHANGED <<population, tokens, shares>>

Command(c) ==
  \/ cmdWrap(c) \/ cmdWrapSplit(c) \/ cmdOnToken(c) \/ cmdCombine(c) \/ cmdCombinePrint(c)
  \/ create(c) \/ beginUnwrap(c) \/ clickReveal(c)

Response(c) == Receive(c) \/ ReceiveSplit(c) \/ ReceiveCreateSplit(c) \/ ReceiveTab(c)

(* A bound of the model: what the server does of itself in this behaviour.  *)
Happens(event) == event \in population.events
Allowed ==
  /\ Happens("time") \/ now' = now
  /\ Happens("forget") \/ forgotten' \subseteq forgotten
  /\ Happens("restart") \/ server' = "running"
  /\ Happens("refusal") \/
       \A c \in 1..Calls : request'[c].outcome \notin {"limited", "bad_request", "full"}

Server == ServiceNext /\ Allowed /\ UNCHANGED clientVars

Next ==
  \/ \E c \in 1..Calls : Command(c) \/ Response(c) \/ GiveUp(c)
  \/ Server

Spec == Init /\ [][Next]_vars

(* Fair is one timer alone, the deadline of Shutdown.                       *)
FairSpec == Spec /\ WF_vars(ShutdownReturns /\ UNCHANGED clientVars)
----------------------------------------------------------------------------
TypeOK ==
  /\ ServiceTypeOK
  /\ population \in Populations
  /\ call \in [1..Calls -> {NoCall} \cup Call]
  /\ tokens \subseteq Ids /\ shares \subseteq Ids \X (1..NumShares)
  /\ tab.id \in Ids \cup {Absent} /\ tab.panels \subseteq {"waiting", "revealed", "gone"}
  /\ tab.clicks \in Nat

(* A revocation that was confirmed holds: no request that was begun after   *)
(* it is given the secret, by any client.                                   *)
RevokedStaysUnread ==
  \A c \in 1..Calls : \A id \in call[c].revoked : c \notin Granted(id)

(* Scripts branch on the exit code: 3 (gone) is returned exactly when the   *)
(* answer was evidence of how the secret ended, 4 only when there is none   *)
(* any more or never was, so that a loss of evidence never passes for it.   *)
ExitCodesTruthful ==
  \A c \in 1..Calls :
    LET id == call[c].id
        over == id \in spent \/ (id \in Issued /\ Store!Over(id)) IN
    /\ request[c].at = "delivered" /\ request[c].outcome \in Reasons => call[c].exit = "gone"
    /\ call[c].exit = "gone" => over
    /\ call[c].exit = "not_found" => id \in {Never, Malformed} \cup forgotten \cup spent

(* A read that was spent is reported as such: the command that was granted  *)
(* it succeeds exactly if its answer brought the secret.  A timeout, a lost *)
(* response or a failed decryption ends in an error, and exit codes 3 and 4 *)
(* never hide a read of the command's own.                                 *)
OwnReadReported ==
  \A id \in Ids : \A c \in Granted(id) :
    call[c].exit \in IF request[c].at = "delivered" /\ request[c].outcome = "ok"
                      THEN {"ok"} ELSE {"open", "error"}

(* A secret whose wrap was answered to the client can be named by someone,  *)
(* by its token or by a quorum of its shares.  The one exception is the     *)
(* page, which splits only after it wrapped.                                *)
Reassembled(id) == \E some \in SUBSET shares : Combines(some) /\ Combined(some) = id
Nameable(id) == id \in tokens \/ Reassembled(id)

OnlyThePageStrands ==
  \A c \in 1..Calls :
    request[c].at = "delivered" /\ request[c].op = "wrap" /\ request[c].outcome = "ok"
      => Nameable(request[c].id) \/ call[c].cmd = "create_split"

(* Custody: the whole token of a split secret appears nowhere until someone *)
(* combined a quorum of its own shares after the split and had it printed,  *)
(* so nobody reads it with fewer shares.                                    *)
SplitCustody ==
  \A c \in 1..Calls :
    call[c].cmd \in {"split", "create_split"} /\ request[c].id \in tokens =>
      /\ \E d \in (c + 1)..Calls : call[d].cmd = "print" /\ call[d].id = request[c].id
      /\ Reassembled(request[c].id)

(* A reader who clicked once and is told that the secret "was already read" *)
(* was beaten to it: every read went to others.  Opening the page costs     *)
(* nothing.                                                                 *)
SingleClickAlarm ==
  tab.code = "consumed" /\ tab.clicks <= 1 =>
    Cardinality({c \in Granted(tab.id) : call[c].cmd \notin {"load", "click"}})
      = Asked(tab.id)

(* "A bad/insufficient/corrupted set of shares fails here, before any       *)
(* request reaches the server" (client.go): what combine sends is a token   *)
(* that was issued.                                                         *)
BadSharesStayLocal ==
  \A c \in 1..Calls : call[c].cmd = "combine" /\ request[c].at # "none" => request[c].id # Never
=============================================================================
