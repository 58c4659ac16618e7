------------------------------ MODULE McpServers ------------------------------
(***************************************************************************)
(* One external MCP server of the service: its row, its upstream and route *)
(* at the gateway, the approval of its tools (routers/mcp.py), and the     *)
(* calls relayed to it over cached upstream sessions (mcp_remote.py).      *)
(***************************************************************************)
EXTENDS Integers, FiniteSets

CONSTANTS Urls,       \* addresses the server is registered at
          Listings,   \* what the server may list: sets of tools, each a name and a digest
          Editors,    \* admin requests at the same time
          Relays,     \* tool calls at the same time
          MaxMishaps, MaxChanges  \* bounds: failures and restarts; these and commits together

Nowhere == "nowhere"
Nobody == "nobody"

ASSUME McpAssumption ==
  /\ {MaxMishaps, MaxChanges} \subseteq Nat
  /\ Nowhere \notin Urls /\ Nobody \notin Editors

VARIABLES
  server,    \* the McpRemoteServer row, or Unregistered
  revisions, \* updated_at values given out
  writer,    \* the admin request whose transaction has written the row, or Nobody
  upstream,  \* the address in the gateway's upstream, or Nowhere
  relay,     \* the address the relay route is written for, or Nowhere
  grant,     \* the key's grant of the route: none, given, or left from a deleted server
  edit,      \* each admin request
  call,      \* each tool call
  kept,      \* _sessions with room for one: its key and the address it was opened at, or NoSession
  reviewed,  \* history: what admins approved, and the address they saw it at
  crossed,   \* history: changes of the registration have overlapped
  halfway,   \* history: a change failed after it began to write the gateway
  mishaps

mcpVars == <<server, revisions, writer, upstream, relay, grant, edit, call, kept,
             reviewed, crossed, halfway, mishaps>>
gatewayVars == <<upstream, relay, halfway, mishaps>>
historyVars == <<reviewed, crossed>>

NoSession == [key |-> -1, url |-> Nowhere]
Unregistered == [url |-> Nowhere, rev |-> 0, tools |-> {}, approved |-> {}]
IdleEdit == [op |-> "none", stage |-> "idle", row |-> Unregistered, url |-> Nowhere,
             entries |-> {}, revokes |-> FALSE]
IdleCall == [stage |-> "idle", rev |-> 0, session |-> Nowhere, again |-> FALSE]

Room == revisions + mishaps < MaxChanges
NewRevision == Room /\ revisions' = revisions + 1
Mishap == Room /\ mishaps < MaxMishaps /\ mishaps' = mishaps + 1

Names(entries) == {e.name : e \in entries}
Changes == {"create", "update", "delete"}

(* offered_tools: listed, and approved as listed. *)
Offered == server.tools \cap server.approved

McpInit ==
  /\ server = Unregistered /\ revisions = 0 /\ writer = Nobody
  /\ upstream = Nowhere /\ relay = Nowhere /\ grant = "none"
  /\ edit = [a \in Editors |-> IdleEdit] /\ call = [c \in Relays |-> IdleCall]
  /\ kept = NoSession
  /\ reviewed = {} /\ crossed = FALSE /\ halfway = FALSE /\ mishaps = 0

(* A change of the registration reads the row; creates need there be none. *)
Begin(a, op, url) ==
  /\ edit[a].stage = "idle" /\ (op = "create") = (server = Unregistered)
  /\ edit' = [edit EXCEPT ![a] = [IdleEdit EXCEPT !.op = op, !.url = url,
                                    !.row = IF op = "update" THEN server ELSE Unregistered,
                                    !.stage = IF op = "delete" THEN "unroute" ELSE "flush"]]
  /\ crossed' = (crossed \/ \E b \in Editors : edit[b].op \in Changes)
  /\ UNCHANGED <<server, revisions, writer, gatewayVars, grant, call, kept, reviewed>>

Ends(a) == edit' = [edit EXCEPT ![a] = IdleEdit]

(* An UPDATE holds the columns that differ from the row as it was read. *)
Column(was, now, value) == IF value = was THEN now ELSE value

(* What the row becomes: another address may be another server, so that    *)
(* the listing and the approvals go.                                       *)
Moved(a) ==
  LET was == edit[a].row IN
  IF edit[a].op = "create" THEN [Unregistered EXCEPT !.url = edit[a].url]
  ELSE IF edit[a].url = was.url THEN server
  ELSE [server EXCEPT !.url = edit[a].url, !.tools = Column(was.tools, @, {}),
                      !.approved = Column(was.approved, @, {})]

(* A create takes back what an earlier server of the name left (revoke_grants). *)
Revokes(a) == edit[a].op = "create" /\ grant # "none"

(* db.flush: from here on the row is locked; an INSERT finds its name      *)
(* taken, or an UPDATE its row gone.                                       *)
Flush(a) ==
  /\ edit[a].stage = "flush" /\ writer = Nobody
  /\ IF (edit[a].op = "create") = (server = Unregistered)
     THEN /\ writer' = a
          /\ edit' = [edit EXCEPT ![a].stage = "upstream", ![a].revokes = Revokes(a)]
     ELSE Ends(a) /\ UNCHANGED writer
  /\ UNCHANGED <<server, revisions, gatewayVars, grant, call, kept, historyVars>>

(* provision: the upstream, then the route. *)
WritesUpstream(a) ==
  /\ edit[a].stage = "upstream" /\ upstream' = edit[a].url
  /\ edit' = [edit EXCEPT ![a].stage = "route"]
  /\ UNCHANGED <<server, revisions, writer, relay, halfway, mishaps, grant, call, kept, historyVars>>

WritesRoute(a) ==
  /\ edit[a].stage = "route" /\ relay' = edit[a].url
  /\ edit' = [edit EXCEPT ![a].stage = "commit"]
  /\ UNCHANGED <<server, revisions, writer, upstream, halfway, mishaps, grant, call, kept, historyVars>>

(* The gateway fails, or the commit after it: the transaction is rolled    *)
(* back, what was written to the gateway stays.                            *)
RollsBack(a) ==
  /\ edit[a].stage \in {"upstream", "route", "commit"} /\ Mishap /\ writer' = Nobody /\ Ends(a)
  /\ halfway' = (halfway \/ edit[a].stage # "upstream")
  /\ UNCHANGED <<server, revisions, upstream, relay, grant, call, kept, historyVars>>

Revised(row) == [row EXCEPT !.rev = revisions + 1]

(* A create or an update commits.  Its sessions are forgotten after the    *)
(* refresh that follows.                                                   *)
Commit(a) ==
  /\ edit[a].stage = "commit" /\ NewRevision
  /\ server' = Revised(Moved(a)) /\ writer' = Nobody
  /\ grant' = IF edit[a].revokes THEN "none" ELSE grant
  /\ halfway' = FALSE
  /\ IF edit[a].op = "update" THEN edit' = [edit EXCEPT ![a].stage = "forget"] ELSE Ends(a)
  /\ UNCHANGED <<upstream, relay, mishaps, call, kept, historyVars>>

Forget(a) ==
  /\ edit[a].stage = "forget" /\ kept' = NoSession /\ Ends(a)
  /\ UNCHANGED <<server, revisions, writer, gatewayVars, grant, call, historyVars>>

(* deprovision: the route, the upstream, the sessions.  If the gateway     *)
(* refuses, the row stays.                                                 *)
Unroute(a) ==
  /\ edit[a].stage = "unroute" /\ relay' = Nowhere
  /\ edit' = [edit EXCEPT ![a].stage = "unupstream"]
  /\ UNCHANGED <<server, revisions, writer, upstream, halfway, mishaps, grant, call, kept, historyVars>>

Unupstream(a) ==
  /\ edit[a].stage = "unupstream" /\ upstream' = Nowhere /\ kept' = NoSession
  /\ edit' = [edit EXCEPT ![a].stage = "erase", ![a].revokes = grant # "none"]
  /\ UNCHANGED <<server, revisions, writer, relay, halfway, mishaps, grant, call, historyVars>>

DeleteFails(a) ==
  /\ edit[a].stage \in {"unroute", "unupstream", "erase"} /\ Mishap /\ Ends(a)
  /\ halfway' = (halfway \/ edit[a].stage # "unroute")
  /\ UNCHANGED <<server, revisions, writer, upstream, relay, grant, call, kept, historyVars>>

(* The grants and the row go in one transaction; a grant given since they  *)
(* were read is left.                                                      *)
Erase(a) ==
  /\ edit[a].stage = "erase" /\ writer = Nobody
  /\ server' = Unregistered /\ halfway' = FALSE /\ Ends(a)
  /\ grant' = IF edit[a].revokes THEN "none" ELSE IF grant = "given" THEN "left" ELSE grant
  /\ UNCHANGED <<revisions, writer, upstream, relay, mishaps, call, kept, historyVars>>

(* An admin gives the key the route of a registered server. *)
Grant ==
  /\ server # Unregistered /\ grant = "none" /\ grant' = "given"
  /\ UNCHANGED <<server, revisions, writer, gatewayVars, edit, call, kept, historyVars>>

-------------------------------------------------------------------------------
(* refresh: the listing of the address read first, with no transaction open. *)
List(a, listing) ==
  /\ edit[a].stage = "idle" /\ server # Unregistered
  /\ edit' = [edit EXCEPT ![a] = [IdleEdit EXCEPT !.op = "refresh", !.stage = "listed",
                                                  !.url = server.url, !.entries = listing]]
  /\ UNCHANGED <<server, revisions, writer, gatewayVars, grant, call, kept, historyVars>>

(* The row is read again; a listing of another address is refused. *)
Reread(a) ==
  /\ edit[a].op = "refresh" /\ edit[a].stage = "listed"
  /\ IF server.url = edit[a].url
     THEN edit' = [edit EXCEPT ![a].stage = "write", ![a].row = server]
     ELSE Ends(a)
  /\ UNCHANGED <<server, revisions, writer, gatewayVars, grant, call, kept, historyVars>>

(* Mutant: they stay as the tools are listed now. *)
ApprovedAsListed(row, listing) == {e \in listing : e.name \in Names(row.approved)}

(* Approvals of tools that are still listed stay, as they were approved. *)
StillApproved(row, listing) == {e \in row.approved : e.name \in Names(listing)}

(* The administrator loads the page, and later sends what to offer of it.  *)
Look(a, wanted) ==
  /\ edit[a].stage = "idle" /\ wanted # {}
  /\ edit' = [edit EXCEPT ![a] = [IdleEdit EXCEPT !.op = "approve", !.stage = "send",
                                                  !.url = server.url, !.entries = wanted]]
  /\ UNCHANGED <<server, revisions, writer, gatewayVars, grant, call, kept, historyVars>>

(* Every tool must still be listed with the digest that was sent. *)
Approve(a) ==
  /\ edit[a].op = "approve" /\ edit[a].stage = "send"
  /\ reviewed' = reviewed \cup {<<edit[a].url, e>> : e \in edit[a].entries}
  /\ IF edit[a].entries \subseteq server.tools
     THEN edit' = [edit EXCEPT ![a].stage = "write", ![a].row = server]
     ELSE Ends(a)
  /\ UNCHANGED <<server, revisions, writer, gatewayVars, grant, call, kept, crossed>>

(* Both write the columns they changed of the row as they read it, once    *)
(* no other transaction holds it.                                          *)
Write(a) ==
  /\ edit[a].stage = "write" /\ writer = Nobody /\ Ends(a)
  /\ LET was == edit[a].row  refresh == edit[a].op = "refresh"
         tools == IF refresh THEN edit[a].entries ELSE was.tools
         approved == IF refresh THEN StillApproved(was, tools) ELSE edit[a].entries IN
     IF server = Unregistered \/ (approved = was.approved /\ ~refresh)
     THEN UNCHANGED <<server, revisions>>
     ELSE /\ NewRevision
          /\ server' = Revised([server EXCEPT !.tools = Column(was.tools, @, tools),
                                              !.approved = Column(was.approved, @, approved)])
  /\ UNCHANGED <<writer, gatewayVars, grant, call, kept, historyVars>>

-------------------------------------------------------------------------------
(* Where a relayed request ends up: nowhere while the two resources differ. *)
Reached == IF upstream = relay THEN upstream ELSE Nowhere

(* tools/call: the row is read, and its tool must be offered. *)
Call(c) ==
  /\ call[c].stage = "idle" /\ Offered # {}
  /\ call' = [call EXCEPT ![c] = [IdleCall EXCEPT !.stage = "open", !.rev = server.rev]]
  /\ UNCHANGED <<server, revisions, writer, gatewayVars, grant, edit, kept, historyVars>>

(* What a session is kept under, of the row the call has read. *)
SessionKey(rev) == rev

Finds(rev) == kept.key = SessionKey(rev)

(* The cached session, or a new one, opened at the server the route leads to. *)
Open(c) ==
  /\ call[c].stage = "open"
  /\ call' = [call EXCEPT ![c] =
       IF Finds(@.rev) THEN [@ EXCEPT !.stage = "send", !.session = kept.url]
       ELSE IF Reached # Nowhere THEN [@ EXCEPT !.stage = "opened", !.session = Reached]
       ELSE IdleCall]
  /\ UNCHANGED <<server, revisions, writer, gatewayVars, grant, edit, kept, historyVars>>

(* After notifications/initialized the session is kept, in the place of    *)
(* the one used longest ago.                                               *)
Store(c) ==
  /\ call[c].stage = "opened"
  /\ kept' = [key |-> SessionKey(call[c].rev), url |-> call[c].session]
  /\ call' = [call EXCEPT ![c].stage = "send"]
  /\ UNCHANGED <<server, revisions, writer, gatewayVars, grant, edit, historyVars>>

(* The answer, or an error that ends the call. *)
Answer(c) ==
  /\ call[c].stage = "send" /\ Reached \in {Nowhere, call[c].session}
  /\ call' = [call EXCEPT ![c] = IdleCall]
  /\ UNCHANGED <<server, revisions, writer, gatewayVars, grant, edit, kept, historyVars>>

(* A server that does not know the session, another one or restarted: the  *)
(* kept session goes, and the call is tried once more.                     *)
Expired(c) ==
  /\ call[c].stage = "send" /\ Reached # Nowhere
  /\ kept' = IF Finds(call[c].rev) THEN NoSession ELSE kept
  /\ call' = [call EXCEPT ![c] = IF @.again THEN IdleCall
                                 ELSE [@ EXCEPT !.stage = "open", !.again = TRUE, !.session = Nowhere]]
  /\ UNCHANGED <<server, revisions, writer, gatewayVars, grant, edit, historyVars>>

(* Idle for too long. *)
Drop ==
  /\ kept # NoSession /\ kept' = NoSession
  /\ UNCHANGED <<server, revisions, writer, gatewayVars, grant, edit, call, historyVars>>

(* The process ends and comes back; provision_all writes the registered    *)
(* servers, if the gateway lets it.                                        *)
McpBoot ==
  /\ Mishap
  /\ writer' = Nobody /\ kept' = NoSession
  /\ edit' = [a \in Editors |-> IdleEdit] /\ call' = [c \in Relays |-> IdleCall]
  /\ \E ok \in BOOLEAN :
       /\ upstream' = IF ok /\ server # Unregistered THEN server.url ELSE upstream
       /\ relay' = IF ok /\ server # Unregistered THEN server.url ELSE relay
  /\ halfway' = (upstream' # server.url \/ relay' # server.url)
  /\ crossed' = FALSE
  /\ UNCHANGED <<server, revisions, grant, reviewed>>

McpNext ==
  \/ \E a \in Editors :
       \/ \E url \in Urls, op \in {"create", "update"} : Begin(a, op, url)
       \/ Begin(a, "delete", Nowhere)
       \/ Flush(a) \/ WritesUpstream(a) \/ WritesRoute(a) \/ RollsBack(a) \/ Commit(a) \/ Forget(a)
       \/ Unroute(a) \/ Unupstream(a) \/ DeleteFails(a) \/ Erase(a)
       \/ \E l \in Listings : List(a, l)
       \/ \E wanted \in SUBSET server.tools : Look(a, wanted)
       \/ Reread(a) \/ Approve(a) \/ Write(a)
  \/ \E c \in Relays : Call(c) \/ Open(c) \/ Store(c) \/ Answer(c) \/ Expired(c)
  \/ Drop \/ Grant \/ McpBoot

McpSpec == McpInit /\ [][McpNext]_mcpVars

-------------------------------------------------------------------------------
Changing == {a \in Editors : edit[a].op \in Changes}
Settled == Changing = {} /\ ~crossed /\ ~halfway

(* When changes that did not overlap are over and none has failed halfway, *)
(* the gateway leads where the row says, and the session that the next     *)
(* call finds was opened there, whatever calls stored meanwhile.           *)
GatewayFollowsTheRow ==
  Settled => /\ upstream = server.url /\ relay = server.url
             /\ Finds(server.rev) => kept.url = server.url

(* A server registered again does not inherit the grants of the one before *)
(* (revoke_grants), even those given while that one was being deleted.     *)
NoInheritedGrant == server # Unregistered => grant # "left"

RegistrationIsClean == GatewayFollowsTheRow /\ NoInheritedGrant

(* An offered tool is as an administrator has seen and approved it, beside *)
(* any refresh ("an approval never covers a description or schema nobody   *)
(* looked at", approve_mcp_server_tools).                                  *)
OfferedWasReviewed == \A e \in Offered : \E url \in Urls : <<url, e>> \in reviewed

(* Together: what a registration leaves behind or finds is never taken     *)
(* over unseen, a tool as little as a grant or an address.                 *)
NothingUnseen == RegistrationIsClean /\ OfferedWasReviewed
===============================================================================
