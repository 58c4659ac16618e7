----------------------------- MODULE AlertRouting ------------------------------
(***************************************************************************)
(* From an alert to the people it is for: dispatch_alert reads the         *)
(* settings, the mail channel and the owners one after another while       *)
(* administrators change them (routers/alerts.py), and the mutes that      *)
(* withhold alerts come and go beside the clock.                           *)
(*                                                                         *)
(* One resource has an owner row, a route: the alerts about it are its     *)
(* own, those about its upstream refer to it, and those that Alertmanager  *)
(* posts are for the administrators only.  A settings row that was never   *)
(* saved is one with the defaults.                                         *)
(***************************************************************************)
EXTENDS Naturals, Sequences, FiniteSets

CONSTANTS
  People, Channels,
  NoChannel,      \* mail_channel_id is NULL
  Garbled,        \* a column of e-mails that does not parse holds {Garbled}
  Writers,        \* requests of administrators under way at the same time
  FirstRouting,   \* the tables in the beginning: <<channels, settings, owner>>
  Batches,        \* what a cycle or Alertmanager has to dispatch at once
  BatchCap,       \* MAX_ALERTS_PER_REQUEST
  MaxSettings, MaxMutings,  \* bounds on requests of administrators, about mutes or not
  MaxBatches,     \* bound on batches
  MaxClock,       \* bound on the clock
  LongestMute     \* MAX_MUTE_DAYS

ASSUME RoutingAssumption ==
  /\ NoChannel \notin Channels /\ Garbled \notin People
  /\ {BatchCap, MaxSettings, MaxMutings, MaxBatches, MaxClock, LongestMute} \subseteq Nat

NoRow == [exists |-> FALSE, emails |-> {}, on |-> TRUE]
OwnerRow(emails, on) == [exists |-> TRUE, emails |-> emails, on |-> on]
(* recipient_item_template and payload_template: "blank" without the first, *)
(* "broken" when they do not render.                                       *)
Templates == {"good", "blank", "broken"}
NoSuchChannel == [exists |-> FALSE, on |-> FALSE, template |-> "good"]
ChannelRow(on, template) == [exists |-> TRUE, on |-> on, template |-> template]

OwnerRows == [exists : BOOLEAN, emails : SUBSET (People \cup {Garbled}), on : BOOLEAN]
ChannelRows == [exists : BOOLEAN, on : BOOLEAN, template : Templates]
Settings == [mail : Channels \cup {NoChannel}, admins : SUBSET (People \cup {Garbled})]

(* The foreign key of the settings held when the tables were written. *)
ASSUME FirstRoutingAssumption ==
  \A first \in FirstRouting :
    /\ first[1] \in [Channels -> ChannelRows] /\ first[2] \in Settings /\ first[3] \in OwnerRows
    /\ first[2].mail # NoChannel => first[1][first[2].mail].exists

VARIABLES
  channels,  \* alert_channels: whether each is there, enabled, and what it renders
  routing,   \* alert_settings: mail_channel_id and admin_emails
  owner,     \* the route's row in resource_owners
  mutes,     \* alert_mutes: until when each key is muted, 0 without a row
  clock,
  mail,      \* the dispatch under way
  writers,   \* the requests under way: what they want and what they read
  asked, batches,
  (* History. *)
  steady,    \* who could be told through which channel and as what, at every
             \* moment of the dispatch under way
  wanted,    \* who was an administrator or an assignee at some moment of it
  ill,       \* something the alert needs did not parse or render meanwhile
  promised,  \* until when administrators were told that each key is muted
  purged     \* keys whose mute a purge has taken though it was extended

routingTables == <<channels, routing, owner>>
dispatch == <<mail, steady, wanted, ill>>
muting == <<mutes, clock, promised, purged>>
routingVars == <<routingTables, dispatch, muting, writers, asked, batches>>

MuteKeys == {"global", "route"}
NoWriter == [kind |-> "none"]
NoMail == [at |-> "idle", queue |-> <<>>, channel |-> NoChannel, admins |-> {}, to |-> {},
           broken |-> FALSE, outcome |-> "none"]

RoutingInit ==
  /\ \E first \in FirstRouting : channels = first[1] /\ routing = first[2] /\ owner = first[3]
  /\ mutes = [k \in MuteKeys |-> 0] /\ clock = 0
  /\ mail = NoMail /\ writers = [w \in Writers |-> NoWriter]
  /\ asked = 0 /\ batches = 0
  /\ steady = {} /\ wanted = {} /\ ill = FALSE
  /\ promised = mutes /\ purged = {}

-------------------------------------------------------------------------------
(* What an alert needs, read at one moment.                                *)
Owned(alert) == alert = "route"
Refers(alert) == alert = "upstream"
Parses(emails) == Garbled \notin emails

(* The channel the mail goes through, if it is in force. *)
InForce(cs, s) == s.mail # NoChannel /\ cs[s.mail].on

AssigneesOf(o, alert) ==
  IF (Owned(alert) \/ Refers(alert)) /\ o.on /\ Parses(o.emails) THEN o.emails ELSE {}

Vetoed(o, alert) == Owned(alert) /\ ~o.on

Unfit(cs, s, o, alert, c) ==
  \/ ~Parses(s.admins)
  \/ Owned(alert) /\ ~Parses(o.emails)
  \/ \E x \in {c, s.mail} \ {NoChannel} : cs[x].template # "good"

Reachable(cs, s, o, alert) ==
  IF InForce(cs, s) /\ ~Vetoed(o, alert) /\ ~Unfit(cs, s, o, alert, s.mail)
  THEN (s.admins \X {s.mail} \X {"admin"}) \cup (AssigneesOf(o, alert) \X {s.mail} \X {"assignee"})
  ELSE {}

(* The tables have changed, or not: what that means for the dispatch.      *)
Watched ==
  IF mail.queue = <<>> THEN UNCHANGED <<steady, wanted, ill>>
  ELSE LET alert == Head(mail.queue)
       IN  /\ steady' = steady \cap Reachable(channels', routing', owner', alert)
           /\ wanted' = wanted \cup routing'.admins \cup AssigneesOf(owner', alert)
           /\ ill' = (ill \/ Unfit(channels', routing', owner', alert, mail.channel))

(* The first alert of a queue is about to be dispatched, or none is left.  *)
StartsWith(queue) ==
  IF queue = <<>> THEN mail' = NoMail /\ steady' = {} /\ wanted' = {} /\ ill' = FALSE
  ELSE LET alert == Head(queue)
       IN  /\ mail' = [NoMail EXCEPT !.at = "settings", !.queue = queue]
           /\ steady' = Reachable(channels, routing, owner, alert)
           /\ wanted' = routing.admins \cup AssigneesOf(owner, alert)
           /\ ill' = Unfit(channels, routing, owner, alert, NoChannel)

Batched == batches < MaxBatches /\ batches' = batches + 1

(* MuteIndex.is_muted, from the mutes that are active now. *)
Muted(alert) ==
  \/ mutes["global"] > clock
  \/ Owned(alert) /\ mutes["route"] > clock

(* The mails a cycle has decided to send, one after another.  When the     *)
(* mutes cannot be read nothing is muted.                                  *)
StartCycle ==
  /\ mail.at = "idle" /\ Batched
  /\ \E b \in Batches, loaded \in BOOLEAN :
       StartsWith(SelectSeq(b, LAMBDA alert : alert \in {"route", "upstream"} /\ ~(loaded /\ Muted(alert))))
  /\ UNCHANGED <<routingTables, muting, writers, asked>>

(* receive_alertmanager_webhook: at most so many of one request, and what  *)
(* is not an alert is left out.  Mutes are not asked.                      *)
Accepted(b) == SelectSeq(SubSeq(b, 1, IF Len(b) < BatchCap THEN Len(b) ELSE BatchCap),
                         LAMBDA alert : alert = "infra")

ReceiveBatch ==
  /\ mail.at = "idle" /\ Batched
  /\ \E b \in Batches : StartsWith(Accepted(b))
  /\ UNCHANGED <<routingTables, muting, writers, asked>>

-------------------------------------------------------------------------------
(* dispatch_alert: each step reads its table as it is by then.             *)
EndsAs(outcome, to) == [mail EXCEPT !.at = "told", !.outcome = outcome, !.to = to]
Sending == UNCHANGED <<routingTables, muting, writers, asked, batches, steady, wanted, ill>>

LoadSettings ==
  /\ mail.at = "settings"
  /\ mail' = IF routing.mail = NoChannel THEN EndsAs("skipped", {})
             ELSE [mail EXCEPT !.at = "channel", !.channel = routing.mail,
                               !.admins = routing.admins]
  /\ Sending

LoadChannel ==
  /\ mail.at = "channel"
  /\ mail' = LET ch == channels[mail.channel]
             IN  CASE ~ch.on -> EndsAs("skipped", {})
                   [] ch.on /\ ch.template = "blank" -> EndsAs("failed", {})
                   [] OTHER -> [mail EXCEPT !.at = "owners", !.broken = ch.template = "broken"]
  /\ Sending

(* Mutant: whatever route is referred to can veto the alert. *)
AnyoneVetoes(o, alert) == (Owned(alert) \/ Refers(alert)) /\ ~o.on

(* Only the alert's own resource can suppress or fail it. *)
Suppressed(o, alert) == Owned(alert) /\ ~o.on

(* _resolve_recipients *)
ResolveRecipients ==
  /\ mail.at = "owners"
  /\ LET alert == Head(mail.queue)
         to == AssigneesOf(owner, alert) \cup mail.admins
     IN  mail' = IF Suppressed(owner, alert) THEN EndsAs("skipped", {})
                 ELSE IF (Owned(alert) /\ ~Parses(owner.emails)) \/ ~Parses(mail.admins)
                 THEN EndsAs("failed", {})
                 ELSE IF to = {} THEN EndsAs("skipped", {})
                 ELSE [mail EXCEPT !.at = "send", !.to = to]
  /\ Sending

(* _render_payload and send_webhook, with what was read of the channel. *)
Send ==
  /\ mail.at = "send"
  /\ mail' \in IF mail.broken THEN {EndsAs("failed", {})}
               ELSE {EndsAs("sent", mail.to), EndsAs("refused", {})}
  /\ Sending

(* The history is recorded and the next alert is up. *)
NextAlert ==
  /\ mail.at = "told"
  /\ StartsWith(Tail(mail.queue))
  /\ UNCHANGED <<routingTables, muting, writers, asked, batches>>

Dispatching ==
  \/ StartCycle \/ ReceiveBatch
  \/ LoadSettings \/ LoadChannel \/ ResolveRecipients \/ Send \/ NextAlert

-------------------------------------------------------------------------------
(* A request reads and commits later.  A commit writes the columns whose   *)
(* value differs from the one that was read.                               *)
Asks(w, request, most) ==
  /\ writers[w] = NoWriter /\ asked < most
  /\ asked' = asked + 1
  /\ writers' = [writers EXCEPT ![w] = request]

Reading(w, request) ==
  Asks(w, request, MaxSettings) /\ UNCHANGED <<routingTables, dispatch, batches>>

(* update_alert_settings: the channel is looked up before the settings. *)
AskSettings(w) ==
  \/ \E c \in {NoChannel} \cup {x \in Channels : channels[x].exists} :
       Reading(w, [kind |-> "channel", to |-> c, same |-> c = routing.mail])
  \/ \E emails \in SUBSET People :
       Reading(w, [kind |-> "admins", to |-> emails, same |-> emails = routing.admins])

AskChannel(w) ==
  \E c \in Channels : channels[c].exists /\
    \/ \E on \in BOOLEAN : Reading(w, [kind |-> "switch", on |-> on, of |-> c])
    \/ \E t \in Templates : Reading(w, [kind |-> "template", template |-> t, of |-> c])
    \/ routing.mail # c /\ Reading(w, [kind |-> "drop", of |-> c])

(* upsert_resource_owner: what the body leaves out stays as it was read,   *)
(* and garbled e-mails are read as none.                                   *)
ReadAs(emails) == IF Parses(emails) THEN emails ELSE {}

AskOwner(w) ==
  \/ \E emails \in SUBSET People :
       Reading(w, [kind |-> "owner", read |-> owner, row |-> owner.exists, emails |-> emails,
                   on |-> owner.on])
  \/ \E on \in BOOLEAN :
       Reading(w, [kind |-> "owner", read |-> owner, row |-> owner.exists,
                   emails |-> ReadAs(owner.emails), on |-> on])

AskRouting(w) == AskSettings(w) \/ AskChannel(w) \/ AskOwner(w)

Frees(w) == writers' = [writers EXCEPT ![w] = NoWriter] /\ UNCHANGED <<asked, batches, mail>>

(* The row a request has read is not there any more for it to change. *)
FreesAll(w) ==
  /\ writers' = [v \in Writers |->
       IF v = w THEN NoWriter
       ELSE IF writers[v].kind = "owner" THEN [writers[v] EXCEPT !.row = FALSE] ELSE writers[v]]
  /\ UNCHANGED <<asked, batches, mail>>

CommitSettings(w) ==
  LET r == writers[w]
  IN  /\ \/ /\ r.kind = "channel"
            /\ routing' = IF r.same \/ (r.to # NoChannel /\ ~channels[r.to].exists) THEN routing
                          ELSE [routing EXCEPT !.mail = r.to]
         \/ /\ r.kind = "admins"
            /\ routing' = IF r.same THEN routing ELSE [routing EXCEPT !.admins = r.to]
      /\ Frees(w)
      /\ UNCHANGED <<channels, owner>>
      /\ Watched

CommitChannel(w) ==
  LET r == writers[w]
  IN  /\ r.kind \in {"switch", "template"}
      /\ channels' = IF ~channels[r.of].exists THEN channels
                     ELSE IF r.kind = "switch" THEN [channels EXCEPT ![r.of].on = r.on]
                     ELSE [channels EXCEPT ![r.of].template = r.template]
      /\ Frees(w)
      /\ UNCHANGED <<routing, owner>>
      /\ Watched

(* delete_channel: the foreign key has the last word. *)
DropChannel(w) ==
  LET r == writers[w]
  IN  /\ r.kind = "drop"
      /\ channels' = IF routing.mail = r.of THEN channels ELSE [channels EXCEPT ![r.of] = NoSuchChannel]
      /\ Frees(w)
      /\ UNCHANGED <<routing, owner>>
      /\ Watched

(* The default state has no row; a second first row is written over the    *)
(* one that was faster; a row that has gone meanwhile is an error.         *)
CommitOwner(w) ==
  LET r == writers[w]
      default == r.emails = {} /\ r.on
      changed == OwnerRow(IF r.emails = r.read.emails THEN owner.emails ELSE r.emails,
                          IF r.on = r.read.on THEN owner.on ELSE r.on)
  IN  /\ r.kind = "owner"
      /\ \/ default /\ r.row /\ owner' = NoRow /\ FreesAll(w)
         \/ default /\ ~r.row /\ UNCHANGED owner /\ Frees(w)
         \/ /\ ~default /\ Frees(w)
            /\ owner' = CASE ~r.read.exists -> OwnerRow(r.emails, r.on)
                          [] r.row -> changed
                          [] r.read.exists /\ ~r.row -> owner
      /\ UNCHANGED <<channels, routing>>
      /\ Watched

CreateChannel ==
  /\ asked < MaxSettings /\ asked' = asked + 1
  /\ \E c \in Channels, on \in BOOLEAN, t \in Templates :
       ~channels[c].exists /\ channels' = [channels EXCEPT ![c] = ChannelRow(on, t)]
  /\ UNCHANGED <<routing, owner, mail, writers, batches>>
  /\ Watched

(* delete_resource_owner *)
DropOwner ==
  /\ asked < MaxSettings /\ asked' = asked + 1
  /\ owner.exists /\ owner' = NoRow
  /\ writers' = [v \in Writers |->
       IF writers[v].kind = "owner" THEN [writers[v] EXCEPT !.row = FALSE] ELSE writers[v]]
  /\ UNCHANGED <<channels, routing, mail, batches>>
  /\ Watched

Editing ==
  /\ \/ CreateChannel \/ DropOwner
     \/ \E w \in Writers : \/ AskRouting(w)
                           \/ CommitSettings(w) \/ CommitChannel(w)
                           \/ DropChannel(w) \/ CommitOwner(w)
  /\ UNCHANGED muting

RecipientsNext == Dispatching \/ Editing

-------------------------------------------------------------------------------
(* upsert_alert_mute, delete_alert_mute and purge_expired_mutes: a request *)
(* finds rows and changes or deletes these rows later, if they are still   *)
(* there.                                                                  *)
Finding(w, request) ==
  Asks(w, request, MaxMutings) /\ UNCHANGED <<routingTables, dispatch, muting, batches>>

AskMute(w) ==
  \E k \in MuteKeys, until \in clock + 1 .. clock + LongestMute :
    Finding(w, [kind |-> "mute", key |-> k, until |-> until, had |-> mutes[k] # 0,
                same |-> until = mutes[k], rows |-> {k} \cap {j \in MuteKeys : mutes[j] # 0}])

AskLift(w) ==
  \E k \in MuteKeys : mutes[k] # 0 /\ Finding(w, [kind |-> "lift", key |-> k, rows |-> {k}])

(* list_active_mutes purges first, and without expired rows it only reads. *)
Expired == {k \in MuteKeys : mutes[k] # 0 /\ mutes[k] <= clock}
AskPurge(w) == Expired # {} /\ Finding(w, [kind |-> "purge", rows |-> Expired])

Muters == {"mute", "lift", "purge"}
Deletes(w, rows) ==
  /\ mutes' = [k \in MuteKeys |-> IF k \in rows THEN 0 ELSE mutes[k]]
  /\ writers' = [v \in Writers |->
       IF v = w THEN NoWriter
       ELSE IF writers[v].kind \in Muters THEN [writers[v] EXCEPT !.rows = @ \ rows]
       ELSE writers[v]]

(* Mutant: the loser of a race for the first row keeps the winner's time.  *)
WinnerStays(r) == r.had /\ r.rows # {} /\ ~r.same

(* The time is written: over the row that was read, as a first row, or     *)
(* over the row of a request that was faster.                              *)
TimeChanges(r) == IF r.had THEN r.rows # {} /\ ~r.same ELSE TRUE

(* The answer tells what the row says after the commit, and a row that has *)
(* gone is an error.                                                       *)
CommitMute(w) ==
  LET r == writers[w]
      answered == r.had => r.rows # {}
  IN  /\ r.kind = "mute"
      /\ mutes' = IF TimeChanges(r) THEN [mutes EXCEPT ![r.key] = r.until] ELSE mutes
      /\ promised' = IF answered THEN [promised EXCEPT ![r.key] = mutes'[r.key]] ELSE promised
      /\ purged' = IF answered THEN purged \ {r.key} ELSE purged
      /\ writers' = [writers EXCEPT ![w] = NoWriter]

CommitLift(w) ==
  LET r == writers[w]
  IN  /\ r.kind = "lift"
      /\ Deletes(w, r.rows)
      /\ promised' = IF r.rows = {} THEN promised ELSE [promised EXCEPT ![r.key] = 0]
      /\ UNCHANGED purged

CommitPurge(w) ==
  LET r == writers[w]
  IN  /\ r.kind = "purge"
      /\ Deletes(w, r.rows)
      /\ purged' = purged \cup {k \in r.rows : mutes[k] > clock}
      /\ UNCHANGED promised

ClockTicks ==
  /\ clock < MaxClock /\ clock' = clock + 1
  /\ UNCHANGED <<routingTables, dispatch, writers, asked, batches, mutes, promised, purged>>

MutingNext ==
  \/ ClockTicks
  \/ \E w \in Writers :
       \/ AskMute(w) \/ AskLift(w) \/ AskPurge(w)
       \/ /\ CommitMute(w) \/ CommitLift(w) \/ CommitPurge(w)
          /\ UNCHANGED <<routingTables, dispatch, clock, asked, batches>>

RoutingNext == RecipientsNext \/ MutingNext

RoutingSpec == RoutingInit /\ [][RoutingNext]_routingVars

-------------------------------------------------------------------------------
(* However administrators change the settings, the channels and the owners *)
(* while an alert is on its way (dispatch_alert): who could be told at     *)
(* every moment of it, through a channel in force at every moment, is told *)
(* or the alert fails and is tried again; nobody is told who was meant at  *)
(* no moment; an alert fails only if the webhook refused it, or something  *)
(* it needs was unusable: what another resource's row holds never is.      *)
ToldAsMeant ==
  mail.at = "told" =>
    /\ steady # {} => mail.outcome # "skipped"
    /\ mail.outcome = "sent" => mail.to \subseteq wanted /\ {x[1] : x \in steady} \subseteq mail.to
    /\ mail.outcome = "failed" => ill

(* The channel in use cannot be deleted, in whatever order it is put to use *)
(* and deleted (delete_channel, update_alert_settings).                    *)
ChannelInUseStays == routing.mail # NoChannel => channels[routing.mail].exists

(* A mute that an administrator was told of lasts to its time, or until    *)
(* somebody lifts it or sets another one, whatever requests overlap        *)
(* (upsert_alert_mute); unless a purge has found its row before the time   *)
(* was extended, and deletes it after (purge_expired_mutes).               *)
MutesLast == \A k \in MuteKeys \ purged : promised[k] > clock => mutes[k] = promised[k]

(* Together: what administrators have set is what alerts follow.           *)
AlertsReachTheirPeople == ToldAsMeant /\ ChannelInUseStays /\ MutesLast

RoutingTypeOK ==
  /\ channels \in [Channels -> ChannelRows] /\ routing \in Settings /\ owner \in OwnerRows
  /\ mutes \in [MuteKeys -> 0 .. MaxClock + LongestMute] /\ clock \in 0 .. MaxClock
===============================================================================
