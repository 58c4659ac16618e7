------------------------------ MODULE AdminProofs ------------------------------
(***************************************************************************)
(* What administrators edit and who is mailed: whom alerts reach and how   *)
(* long mutes last (AlertRouting), the daily report on GPU hosts           *)
(* (GpuReport), and the gateway routes (GatewayRoutes), for any people,    *)
(* channels, hosts, colors, batches, routes, and administrators at work    *)
(* side by side.                                                           *)
(***************************************************************************)
EXTENDS AlertRouting, GpuReport, GatewayRoutes, FiniteSetTheorems, TLAPS

(***************************************************************************)
(* Alerts and mutes.                                                       *)
(***************************************************************************)
(* What a request of an administrator carries from its read to its commit. *)
Requests ==
  {NoWriter}
  \cup [kind : {"channel"}, to : Channels \cup {NoChannel}, same : BOOLEAN]
  \cup [kind : {"admins"}, to : SUBSET People, same : BOOLEAN]
  \cup [kind : {"switch"}, on : BOOLEAN, of : Channels]
  \cup [kind : {"template"}, template : Templates, of : Channels]
  \cup [kind : {"drop"}, of : Channels]
  \cup [kind : {"owner"}, read : OwnerRows, row : BOOLEAN,
        emails : SUBSET (People \cup {Garbled}), on : BOOLEAN]
  \cup [kind : {"mute"}, key : MuteKeys, until : Nat, had : BOOLEAN, same : BOOLEAN,
        rows : SUBSET MuteKeys]
  \cup [kind : {"lift"}, key : MuteKeys, rows : SUBSET MuteKeys]
  \cup [kind : {"purge"}, rows : SUBSET MuteKeys]

RoutingTypes ==
  /\ channels \in [Channels -> ChannelRows] /\ routing \in Settings /\ owner \in OwnerRows
  /\ writers \in [Writers -> Requests]
  /\ mutes \in [MuteKeys -> Nat] /\ promised \in [MuteKeys -> Nat] /\ clock \in Nat

(* A lift deletes the one key it was asked for. *)
LiftsAreNarrow ==
  \A w \in Writers : writers[w].kind = "lift" => writers[w].rows \subseteq {writers[w].key}

MailIsWhole ==
  /\ mail = [at |-> mail.at, queue |-> mail.queue, channel |-> mail.channel,
             admins |-> mail.admins, to |-> mail.to, broken |-> mail.broken,
             outcome |-> mail.outcome]
  /\ mail.at = "idle" <=> mail.queue = <<>>
  /\ mail.at \in {"idle", "settings", "channel", "owners", "send", "told"}
  /\ mail.at \in {"channel", "owners", "send"} => mail.channel \in Channels
  /\ mail.at = "settings" => mail.channel = NoChannel

(* What the history says of the present. *)
WatchIsCurrent ==
  mail.queue # <<>> =>
    LET alert == Head(mail.queue)
    IN  /\ steady \subseteq Reachable(channels, routing, owner, alert)
        /\ routing.admins \cup AssigneesOf(owner, alert) \subseteq wanted
        /\ Unfit(channels, routing, owner, alert, mail.channel) => ill

(* What the dispatch has read so far is good for everybody who is still    *)
(* meant.                                                                  *)
ReadsAreGood ==
  /\ mail.at \in {"channel", "owners"} =>
       /\ mail.admins \subseteq wanted
       /\ ~Parses(mail.admins) => ill
       /\ \A x \in steady : x[2] = mail.channel /\ (x[3] = "admin" => x[1] \in mail.admins)
  /\ mail.at \in {"owners", "send"} /\ mail.broken => ill
  /\ mail.at = "send" => mail.to \subseteq wanted /\ \A x \in steady : x[1] \in mail.to

DispatchInv == MailIsWhole /\ WatchIsCurrent /\ ReadsAreGood /\ ToldAsMeant

RoutingInv == RoutingTypes /\ LiftsAreNarrow /\ DispatchInv /\ ChannelInUseStays /\ MutesLast
-------------------------------------------------------------------------------
(* The dispatch.                                                           *)
LEMMA DispatchFramed ==
  ASSUME DispatchInv, UNCHANGED <<routingTables, dispatch>>
  PROVE  DispatchInv'
  BY DEF DispatchInv, MailIsWhole, WatchIsCurrent, ReadsAreGood, ToldAsMeant, routingTables, dispatch,
         Reachable, Unfit, AssigneesOf, InForce, Vetoed

(* Whatever an edit changes, the history takes it in.                      *)
LEMMA WatchedKeeps ==
  ASSUME DispatchInv, Watched, UNCHANGED mail
  PROVE  DispatchInv'
  <1> USE DEF DispatchInv
  <1>1. MailIsWhole'
    BY DEF MailIsWhole
  <1>2. CASE mail.queue = <<>>
    <2>1. mail.at = "idle"
      BY <1>2 DEF MailIsWhole
    <2> QED BY <1>1, <1>2, <2>1 DEF WatchIsCurrent, ReadsAreGood, ToldAsMeant
  <1>3. CASE mail.queue # <<>>
    <2> DEFINE alert == Head(mail.queue)
    <2>1. /\ steady' = steady \cap Reachable(channels', routing', owner', alert)
          /\ wanted' = wanted \cup routing'.admins \cup AssigneesOf(owner', alert)
          /\ ill' = (ill \/ Unfit(channels', routing', owner', alert, mail.channel))
      BY <1>3 DEF Watched
    <2>2. WatchIsCurrent'
      BY <2>1, Zenon DEF WatchIsCurrent, Reachable, Unfit, AssigneesOf, InForce, Vetoed
    <2>3. steady' \subseteq steady /\ wanted \subseteq wanted' /\ (ill => ill')
      BY <2>1
    <2>4. ReadsAreGood' /\ ToldAsMeant'
      BY <2>3 DEF ReadsAreGood, ToldAsMeant
    <2> QED BY <1>1, <2>2, <2>4
  <1> QED BY <1>2, <1>3

LEMMA StartsWithKeeps ==
  ASSUME NEW queue, StartsWith(queue), UNCHANGED routingTables
  PROVE  DispatchInv'
  <1>1. CASE queue = <<>>
    <2>1. mail' = NoMail
      BY <1>1 DEF StartsWith
    <2> QED BY <2>1 DEF NoMail, DispatchInv, MailIsWhole, WatchIsCurrent, ReadsAreGood, ToldAsMeant
  <1>2. CASE queue # <<>>
    <2> DEFINE alert == Head(queue)
    <2>1. /\ mail' = [at |-> "settings", queue |-> queue, channel |-> NoChannel, admins |-> {},
                      to |-> {}, broken |-> FALSE, outcome |-> "none"]
          /\ steady' = Reachable(channels, routing, owner, alert)
          /\ wanted' = routing.admins \cup AssigneesOf(owner, alert)
          /\ ill' = Unfit(channels, routing, owner, alert, NoChannel)
      BY <1>2 DEF StartsWith, NoMail
    <2>2. channels' = channels /\ routing' = routing /\ owner' = owner
      BY DEF routingTables
    <2>3. mail'.queue = queue /\ mail'.channel = NoChannel /\ mail'.at = "settings"
      BY <2>1
    <2>4. WatchIsCurrent'
      BY <2>1, <2>2, <2>3 DEF WatchIsCurrent
    <2>5. MailIsWhole' /\ ReadsAreGood' /\ ToldAsMeant'
      BY <1>2, <2>1 DEF MailIsWhole, ReadsAreGood, ToldAsMeant
    <2> QED BY <2>4, <2>5 DEF DispatchInv
  <1> QED BY <1>1, <1>2

LEMMA EndsAsIs ==
  ASSUME MailIsWhole, NEW outcome, NEW to
  PROVE  EndsAs(outcome, to) = [at |-> "told", queue |-> mail.queue, channel |-> mail.channel,
                                admins |-> mail.admins, to |-> to, broken |-> mail.broken,
                                outcome |-> outcome]
  <1>1. PICK m : m = mail
    OBVIOUS
  <1>2. PICK at, queue, channel, admins, was, broken, ended :
          m = [at |-> at, queue |-> queue, channel |-> channel, admins |-> admins, to |-> was,
               broken |-> broken, outcome |-> ended]
    BY <1>1 DEF MailIsWhole
  <1>3. /\ m.at = at /\ m.queue = queue /\ m.channel = channel /\ m.admins = admins
        /\ m.broken = broken /\ DOMAIN m = {"at", "queue", "channel", "admins", "to", "broken", "outcome"}
        /\ EndsAs(outcome, to)
           = [[at |-> at, queue |-> queue, channel |-> channel, admins |-> admins, to |-> was,
               broken |-> broken, outcome |-> ended]
              EXCEPT !.at = "told", !.outcome = outcome, !.to = to]
    BY <1>1, <1>2 DEF EndsAs
  <1> QED BY <1>1, <1>3

(* An alert that has come to its end is told as it was meant.              *)
LEMMA EndsWell ==
  ASSUME DispatchInv, Sending, mail.queue # <<>>, NEW outcome, NEW to,
         mail' = EndsAs(outcome, to),
         outcome = "skipped" => steady = {},
         outcome = "sent" => to \subseteq wanted /\ \A x \in steady : x[1] \in to,
         outcome = "failed" => ill
  PROVE  DispatchInv'
  <1> USE DEF DispatchInv
  <1>1. /\ mail'.at = "told" /\ mail'.queue = mail.queue /\ mail'.channel = mail.channel
        /\ mail'.outcome = outcome /\ mail'.to = to
    BY EndsAsIs
  <1>2. MailIsWhole'
    BY EndsAsIs, <1>1 DEF MailIsWhole
  <1>3. UNCHANGED <<steady, wanted, ill, channels, routing, owner>>
    BY DEF Sending, routingTables
  <1>4. WatchIsCurrent'
    BY <1>1, <1>3 DEF WatchIsCurrent
  <1>5. ReadsAreGood' /\ ToldAsMeant'
    BY <1>1, <1>3 DEF ReadsAreGood, ToldAsMeant
  <1> QED BY <1>2, <1>4, <1>5

LEMMA LoadSettingsKeeps ==
  ASSUME RoutingTypes, DispatchInv, LoadSettings
  PROVE  DispatchInv'
  <1> USE DEF DispatchInv
  <1> DEFINE alert == Head(mail.queue)
  <1>1. mail.at = "settings" /\ mail.queue # <<>> /\ mail.channel = NoChannel /\ Sending
    BY DEF LoadSettings, MailIsWhole
  <1>2. CASE routing.mail = NoChannel
    <2>1. mail' = EndsAs("skipped", {})
      BY <1>2 DEF LoadSettings
    <2>2. steady = {}
      BY <1>1, <1>2 DEF WatchIsCurrent, Reachable, InForce
    <2> QED BY <1>1, <2>1, <2>2, EndsWell
  <1>3. CASE routing.mail # NoChannel
    <2>1. mail' = [at |-> "channel", queue |-> mail.queue, channel |-> routing.mail,
                   admins |-> routing.admins, to |-> mail.to, broken |-> mail.broken,
                   outcome |-> mail.outcome]
      BY <1>3 DEF LoadSettings, MailIsWhole
    <2>2. UNCHANGED <<steady, wanted, ill, channels, routing, owner>>
      BY <1>1 DEF Sending, routingTables
    <2>3. routing.mail \in Channels
      BY <1>3 DEF RoutingTypes, Settings
    <2>4. MailIsWhole'
      BY <1>1, <2>1, <2>3 DEF MailIsWhole
    <2>5. Unfit(channels, routing, owner, alert, routing.mail)
          => Unfit(channels, routing, owner, alert, NoChannel)
      BY <1>3 DEF Unfit
    <2>6. WatchIsCurrent'
      BY <1>1, <2>1, <2>2, <2>5 DEF WatchIsCurrent
    <2>7. ~Parses(routing.admins) => ill
      BY <1>1 DEF WatchIsCurrent, Unfit
    <2>8. \A x \in steady : x[2] = routing.mail /\ (x[3] = "admin" => x[1] \in routing.admins)
      BY <1>1 DEF WatchIsCurrent, Reachable
    <2>9. routing.admins \subseteq wanted
      BY <1>1 DEF WatchIsCurrent
    <2>10. ReadsAreGood' /\ ToldAsMeant'
      BY <2>1, <2>2, <2>7, <2>8, <2>9 DEF ReadsAreGood, ToldAsMeant
    <2> QED BY <2>4, <2>6, <2>10
  <1> QED BY <1>2, <1>3

LEMMA LoadChannelKeeps ==
  ASSUME RoutingTypes, DispatchInv, LoadChannel
  PROVE  DispatchInv'
  <1> USE DEF DispatchInv
  <1> DEFINE alert == Head(mail.queue)
             ch == channels[mail.channel]
  <1>1. /\ mail.at = "channel" /\ mail.queue # <<>> /\ mail.channel \in Channels /\ Sending
        /\ ch \in ChannelRows
    BY DEF LoadChannel, MailIsWhole, RoutingTypes
  <1>2. CASE ~ch.on
    <2>1. mail' = EndsAs("skipped", {})
      BY <1>2 DEF LoadChannel
    <2>2. steady = {}
      <3> SUFFICES ASSUME NEW x \in steady PROVE FALSE
        OBVIOUS
      <3>1. x[2] = mail.channel
        BY <1>1 DEF ReadsAreGood
      <3>2. InForce(channels, routing) /\ x[2] = routing.mail
        BY <1>1 DEF WatchIsCurrent, Reachable
      <3> QED BY <1>2, <3>1, <3>2 DEF InForce
    <2> QED BY <1>1, <2>1, <2>2, EndsWell
  <1>3. CASE ch.on /\ ch.template = "blank"
    <2>1. mail' = EndsAs("failed", {})
      BY <1>3 DEF LoadChannel
    <2>2. Unfit(channels, routing, owner, alert, mail.channel)
      <3>1. mail.channel \in {mail.channel, routing.mail} \ {NoChannel}
        BY <1>1, RoutingAssumption
      <3> QED BY <1>3, <3>1 DEF Unfit
    <2>3. ill
      BY <1>1, <2>2 DEF WatchIsCurrent
    <2> QED BY <1>1, <2>1, <2>3, EndsWell
  <1>4. CASE ch.on /\ ch.template # "blank"
    <2>1. mail' = [at |-> "owners", queue |-> mail.queue, channel |-> mail.channel,
                   admins |-> mail.admins, to |-> mail.to, broken |-> ch.template = "broken",
                   outcome |-> mail.outcome]
      BY <1>4 DEF LoadChannel, MailIsWhole
    <2>2. UNCHANGED <<steady, wanted, ill, channels, routing, owner>>
      BY <1>1 DEF Sending, routingTables
    <2>3. MailIsWhole'
      BY <1>1, <2>1 DEF MailIsWhole
    <2>4. mail'.queue = mail.queue /\ mail'.channel = mail.channel
      BY <2>1
    <2>5. WatchIsCurrent'
      BY <2>2, <2>4 DEF WatchIsCurrent
    <2>6. ch.template = "broken" => ill
      <3>1. mail.channel \in {mail.channel, routing.mail} \ {NoChannel}
        BY <1>1, RoutingAssumption
      <3>2. ch.template = "broken" => Unfit(channels, routing, owner, alert, mail.channel)
        BY <3>1 DEF Unfit
      <3> QED BY <1>1, <3>2 DEF WatchIsCurrent
    <2>7. mail'.at = "owners" /\ mail'.admins = mail.admins /\ (mail'.broken <=> ch.template = "broken")
      BY <2>1
    <2>8. ReadsAreGood' /\ ToldAsMeant'
      BY <1>1, <2>2, <2>4, <2>6, <2>7 DEF ReadsAreGood, ToldAsMeant
    <2> QED BY <2>3, <2>5, <2>8
  <1> QED BY <1>2, <1>3, <1>4

LEMMA ResolveRecipientsKeeps ==
  ASSUME DispatchInv, ResolveRecipients
  PROVE  DispatchInv'
  <1> USE DEF DispatchInv
  <1> DEFINE alert == Head(mail.queue)
             to == AssigneesOf(owner, alert) \cup mail.admins
  <1>1. mail.at = "owners" /\ mail.queue # <<>> /\ Sending
    BY DEF ResolveRecipients, MailIsWhole
  <1>2. \A x \in steady : x[1] \in to
    <2> SUFFICES ASSUME NEW x \in steady PROVE x[1] \in to
      OBVIOUS
    <2>1. x \in (routing.admins \X {routing.mail} \X {"admin"})
                \cup (AssigneesOf(owner, alert) \X {routing.mail} \X {"assignee"})
      BY <1>1 DEF WatchIsCurrent, Reachable
    <2>2. x[3] = "admin" => x[1] \in mail.admins
      BY <1>1 DEF ReadsAreGood
    <2> QED BY <2>1, <2>2
  <1>3. to \subseteq wanted
    BY <1>1 DEF WatchIsCurrent, ReadsAreGood
  <1>4. CASE Suppressed(owner, alert)
    <2>1. mail' = EndsAs("skipped", {})
      BY <1>4 DEF ResolveRecipients
    <2>2. steady = {}
      BY <1>1, <1>4 DEF WatchIsCurrent, Reachable, Suppressed, Vetoed
    <2> QED BY <1>1, <2>1, <2>2, EndsWell
  <1>5. CASE ~Suppressed(owner, alert)
             /\ ((Owned(alert) /\ ~Parses(owner.emails)) \/ ~Parses(mail.admins))
    <2>1. mail' = EndsAs("failed", {})
      BY <1>5 DEF ResolveRecipients
    <2>2. ill
      BY <1>1, <1>5 DEF WatchIsCurrent, Unfit, ReadsAreGood
    <2> QED BY <1>1, <2>1, <2>2, EndsWell
  <1>6. CASE /\ ~Suppressed(owner, alert)
             /\ ~((Owned(alert) /\ ~Parses(owner.emails)) \/ ~Parses(mail.admins))
             /\ to = {}
    <2>1. mail' = EndsAs("skipped", {})
      BY <1>6 DEF ResolveRecipients
    <2>2. steady = {}
      BY <1>2, <1>6
    <2> QED BY <1>1, <2>1, <2>2, EndsWell
  <1>7. CASE /\ ~Suppressed(owner, alert)
             /\ ~((Owned(alert) /\ ~Parses(owner.emails)) \/ ~Parses(mail.admins))
             /\ to # {}
    <2>1. mail' = [mail EXCEPT !.at = "send", !.to = to]
      BY <1>7 DEF ResolveRecipients
    <2>2. mail' = [at |-> "send", queue |-> mail.queue, channel |-> mail.channel,
                   admins |-> mail.admins, to |-> to, broken |-> mail.broken,
                   outcome |-> mail.outcome]
      BY <2>1 DEF MailIsWhole
    <2>3. UNCHANGED <<steady, wanted, ill, channels, routing, owner>>
      BY <1>1 DEF Sending, routingTables
    <2>4. /\ mail'.at = "send" /\ mail'.queue = mail.queue /\ mail'.channel = mail.channel
          /\ mail'.to = to /\ mail'.broken = mail.broken
      BY <2>2
    <2>5. MailIsWhole'
      BY <1>1, <2>2, <2>4 DEF MailIsWhole
    <2>6. WatchIsCurrent'
      BY <2>3, <2>4 DEF WatchIsCurrent
    <2>7. mail.broken => ill
      BY <1>1 DEF ReadsAreGood
    <2>8. ReadsAreGood' /\ ToldAsMeant'
      BY <1>2, <1>3, <2>3, <2>4, <2>7 DEF ReadsAreGood, ToldAsMeant
    <2> QED BY <2>5, <2>6, <2>8
  <1> QED BY <1>4, <1>5, <1>6, <1>7

LEMMA SendKeeps ==
  ASSUME DispatchInv, Send
  PROVE  DispatchInv'
  <1> USE DEF DispatchInv
  <1>1. mail.at = "send" /\ mail.queue # <<>> /\ Sending
    BY DEF Send, MailIsWhole
  <1>2. CASE mail.broken /\ mail' = EndsAs("failed", {})
    BY <1>1, <1>2, EndsWell DEF ReadsAreGood
  <1>3. CASE mail' = EndsAs("sent", mail.to)
    BY <1>1, <1>3, EndsWell DEF ReadsAreGood
  <1>4. CASE mail' = EndsAs("refused", {})
    BY <1>1, <1>4, EndsWell
  <1> QED BY <1>2, <1>3, <1>4 DEF Send

LEMMA DispatchingKeeps ==
  ASSUME RoutingTypes, DispatchInv, Dispatching
  PROVE  DispatchInv'
  <1>1. CASE StartCycle
    BY <1>1, StartsWithKeeps DEF StartCycle
  <1>2. CASE ReceiveBatch
    BY <1>2, StartsWithKeeps DEF ReceiveBatch
  <1>3. CASE NextAlert
    BY <1>3, StartsWithKeeps DEF NextAlert
  <1> QED
    BY <1>1, <1>2, <1>3, LoadSettingsKeeps, LoadChannelKeeps, ResolveRecipientsKeeps, SendKeeps
    DEF Dispatching

LEMMA EditingKeepsDispatch ==
  ASSUME DispatchInv, Editing
  PROVE  DispatchInv'
  <1>1. CASE CreateChannel
    BY <1>1, WatchedKeeps DEF CreateChannel
  <1>2. CASE DropOwner
    BY <1>2, WatchedKeeps DEF DropOwner
  <1>3. ASSUME NEW w \in Writers, AskRouting(w) PROVE DispatchInv'
    BY <1>3, DispatchFramed DEF AskRouting, AskSettings, AskChannel, AskOwner, Reading
  <1>4. ASSUME NEW w \in Writers, CommitSettings(w) PROVE DispatchInv'
    BY <1>4, WatchedKeeps DEF CommitSettings, Frees
  <1>5. ASSUME NEW w \in Writers, CommitChannel(w) PROVE DispatchInv'
    BY <1>5, WatchedKeeps DEF CommitChannel, Frees
  <1>6. ASSUME NEW w \in Writers, DropChannel(w) PROVE DispatchInv'
    BY <1>6, WatchedKeeps DEF DropChannel, Frees
  <1>7. ASSUME NEW w \in Writers, CommitOwner(w) PROVE DispatchInv'
    BY <1>7, WatchedKeeps DEF CommitOwner, Frees, FreesAll
  <1> QED BY <1>1, <1>2, <1>3, <1>4, <1>5, <1>6, <1>7 DEF Editing

LEMMA MutingKeepsDispatch ==
  ASSUME DispatchInv, MutingNext
  PROVE  DispatchInv'
  BY DispatchFramed DEF MutingNext, ClockTicks, AskMute, AskLift, AskPurge, Finding
-------------------------------------------------------------------------------
(* The tables, and what the requests carry.                                *)
LEMMA AsksKeeps ==
  ASSUME RoutingTypes, NEW w \in Writers, NEW request \in Requests, NEW most,
         Asks(w, request, most)
  PROVE  writers' \in [Writers -> Requests]
  BY DEF RoutingTypes, Asks

LEMMA DispatchingKeepsTables ==
  ASSUME Dispatching
  PROVE  UNCHANGED <<channels, routing, owner, mutes, clock, promised, purged, writers>>
  BY DEF Dispatching, StartCycle, ReceiveBatch, NextAlert, LoadSettings, LoadChannel,
         ResolveRecipients, Send, Sending, routingTables, muting

(* What a request of one kind looks like. *)
LEMMA RequestOfItsKind ==
  ASSUME NEW r \in Requests
  PROVE  /\ r.kind = "channel" => r.to \in Channels \cup {NoChannel}
         /\ r.kind = "admins" => r.to \in SUBSET People
         /\ r.kind = "switch" => r.on \in BOOLEAN /\ r.of \in Channels
         /\ r.kind = "template" => r.template \in Templates /\ r.of \in Channels
         /\ r.kind = "drop" => r.of \in Channels
         /\ r.kind = "owner" => r \in [kind : {"owner"}, read : OwnerRows, row : BOOLEAN,
                                       emails : SUBSET (People \cup {Garbled}), on : BOOLEAN]
         /\ r.kind = "mute" => r \in [kind : {"mute"}, key : MuteKeys, until : Nat, had : BOOLEAN,
                                      same : BOOLEAN, rows : SUBSET MuteKeys]
         /\ r.kind = "lift" => r \in [kind : {"lift"}, key : MuteKeys, rows : SUBSET MuteKeys]
         /\ r.kind = "purge" => r \in [kind : {"purge"}, rows : SUBSET MuteKeys]
  BY DEF Requests, NoWriter

LEMMA AskRoutingKeeps ==
  ASSUME RoutingTypes, NEW w \in Writers, AskRouting(w)
  PROVE  writers' \in [Writers -> Requests] /\ UNCHANGED <<channels, routing, owner>>
  <1>1. CASE AskSettings(w)
    <2>1. CASE \E c \in {NoChannel} \cup {x \in Channels : channels[x].exists} :
                 Reading(w, [kind |-> "channel", to |-> c, same |-> c = routing.mail])
      <3> PICK c \in Channels \cup {NoChannel} :
            Reading(w, [kind |-> "channel", to |-> c, same |-> c = routing.mail])
        BY <2>1
      <3> PICK same \in BOOLEAN : same = (c = routing.mail)
        OBVIOUS
      <3>1. [kind |-> "channel", to |-> c, same |-> same] \in Requests
        BY DEF Requests
      <3> QED BY <3>1, AsksKeeps DEF Reading, routingTables
    <2>2. CASE \E emails \in SUBSET People :
                 Reading(w, [kind |-> "admins", to |-> emails, same |-> emails = routing.admins])
      <3> PICK emails \in SUBSET People :
            Reading(w, [kind |-> "admins", to |-> emails, same |-> emails = routing.admins])
        BY <2>2
      <3> PICK same \in BOOLEAN : same = (emails = routing.admins)
        OBVIOUS
      <3>1. [kind |-> "admins", to |-> emails, same |-> same] \in Requests
        BY DEF Requests
      <3> QED BY <3>1, AsksKeeps DEF Reading, routingTables
    <2> QED BY <1>1, <2>1, <2>2 DEF AskSettings
  <1>2. CASE AskChannel(w)
    <2>1. PICK c \in Channels :
            \/ \E on \in BOOLEAN : Reading(w, [kind |-> "switch", on |-> on, of |-> c])
            \/ \E t \in Templates : Reading(w, [kind |-> "template", template |-> t, of |-> c])
            \/ Reading(w, [kind |-> "drop", of |-> c])
      BY <1>2 DEF AskChannel
    <2>2. /\ \A on \in BOOLEAN : [kind |-> "switch", on |-> on, of |-> c] \in Requests
          /\ \A t \in Templates : [kind |-> "template", template |-> t, of |-> c] \in Requests
          /\ [kind |-> "drop", of |-> c] \in Requests
      BY DEF Requests
    <2>3. PICK r \in Requests : Reading(w, r)
      BY <2>1, <2>2
    <2> QED BY <2>3, AsksKeeps DEF Reading, routingTables
  <1>3. CASE AskOwner(w)
    <2>1. owner \in OwnerRows /\ owner.exists \in BOOLEAN /\ owner.on \in BOOLEAN
          /\ owner.emails \in SUBSET (People \cup {Garbled})
      BY DEF RoutingTypes, OwnerRows
    <2>2. /\ \A emails \in SUBSET People :
               [kind |-> "owner", read |-> owner, row |-> owner.exists, emails |-> emails,
                on |-> owner.on] \in Requests
          /\ \A on \in BOOLEAN :
               [kind |-> "owner", read |-> owner, row |-> owner.exists,
                emails |-> ReadAs(owner.emails), on |-> on] \in Requests
      BY <2>1 DEF Requests, ReadAs
    <2>3. PICK r \in Requests : Reading(w, r)
      BY <1>3, <2>2 DEF AskOwner
    <2> QED BY <2>3, AsksKeeps DEF Reading, routingTables
  <1> QED BY <1>1, <1>2, <1>3 DEF AskRouting

LEMMA FreesKeeps ==
  ASSUME RoutingTypes, NEW w \in Writers, Frees(w) \/ FreesAll(w)
  PROVE  writers' \in [Writers -> Requests]
  <1>1. CASE Frees(w)
    BY <1>1 DEF Frees, RoutingTypes, Requests
  <1>2. CASE FreesAll(w)
    <2>1. \A v \in Writers : writers[v].kind = "owner" => [writers[v] EXCEPT !.row = FALSE] \in Requests
      <3> TAKE v \in Writers
      <3> HAVE writers[v].kind = "owner"
      <3>1. writers[v] \in [kind : {"owner"}, read : OwnerRows, row : BOOLEAN,
                            emails : SUBSET (People \cup {Garbled}), on : BOOLEAN]
        BY RequestOfItsKind DEF RoutingTypes
      <3> QED BY <3>1 DEF Requests
    <2>2. \A v \in Writers : writers[v] \in Requests
      BY DEF RoutingTypes
    <2>3. NoWriter \in Requests
      BY DEF Requests
    <2> QED BY <1>2, <2>1, <2>2, <2>3 DEF FreesAll
  <1> QED BY <1>1, <1>2

LEMMA CommitsKeepTables ==
  ASSUME RoutingTypes, ChannelInUseStays, NEW w \in Writers,
         CommitSettings(w) \/ CommitChannel(w) \/ DropChannel(w) \/ CommitOwner(w)
  PROVE  /\ channels' \in [Channels -> ChannelRows] /\ routing' \in Settings /\ owner' \in OwnerRows
         /\ writers' \in [Writers -> Requests]
         /\ ChannelInUseStays'
  <1> PICK r \in Requests : r = writers[w]
    BY DEF RoutingTypes
  <1>1. routing.mail \in Channels \cup {NoChannel} /\ routing.admins \in SUBSET (People \cup {Garbled})
        /\ routing = [mail |-> routing.mail, admins |-> routing.admins]
    BY DEF RoutingTypes, Settings
  <1>2. CASE CommitSettings(w)
    <2>1. writers' \in [Writers -> Requests] /\ UNCHANGED <<channels, owner>>
      BY <1>2, FreesKeeps DEF CommitSettings
    <2>2. \/ routing' = routing
          \/ /\ r.kind = "channel" /\ ~(r.to # NoChannel /\ ~channels[r.to].exists)
             /\ routing' = [routing EXCEPT !.mail = r.to]
          \/ r.kind = "admins" /\ routing' = [routing EXCEPT !.admins = r.to]
      BY <1>2 DEF CommitSettings
    <2>3. CASE routing' = routing
      BY <2>1, <2>3 DEF RoutingTypes, ChannelInUseStays
    <2>4. CASE /\ r.kind = "channel" /\ ~(r.to # NoChannel /\ ~channels[r.to].exists)
               /\ routing' = [routing EXCEPT !.mail = r.to]
      <3>1. r.to \in Channels \cup {NoChannel}
        BY <2>4, RequestOfItsKind
      <3>2. routing' = [mail |-> r.to, admins |-> routing.admins]
        BY <1>1, <2>4
      <3> QED BY <1>1, <2>1, <2>4, <3>1, <3>2 DEF RoutingTypes, ChannelInUseStays, Settings
    <2>5. CASE r.kind = "admins" /\ routing' = [routing EXCEPT !.admins = r.to]
      <3>1. r.to \in SUBSET People
        BY <2>5, RequestOfItsKind
      <3>2. routing' = [mail |-> routing.mail, admins |-> r.to]
        BY <1>1, <2>5
      <3> QED BY <1>1, <2>1, <3>1, <3>2 DEF RoutingTypes, ChannelInUseStays, Settings
    <2> QED BY <2>2, <2>3, <2>4, <2>5
  <1>3. CASE CommitChannel(w)
    <2>1. writers' \in [Writers -> Requests] /\ UNCHANGED <<routing, owner>>
      BY <1>3, FreesKeeps DEF CommitChannel
    <2>2. r.of \in Channels
      BY <1>3, RequestOfItsKind DEF CommitChannel
    <2>3. PICK c \in ChannelRows : c = channels[r.of]
      BY <2>2 DEF RoutingTypes
    <2>4. \/ channels' = channels
          \/ r.kind = "switch" /\ channels' = [channels EXCEPT ![r.of] = [c EXCEPT !.on = r.on]]
          \/ r.kind = "template" /\ channels' = [channels EXCEPT ![r.of] = [c EXCEPT !.template = r.template]]
      BY <1>3, <2>3 DEF CommitChannel
    <2>5. \/ channels' = channels
          \/ \E d \in ChannelRows : d.exists = c.exists /\ channels' = [channels EXCEPT ![r.of] = d]
      <3>1. r.kind = "switch" => /\ [c EXCEPT !.on = r.on] \in ChannelRows
                                 /\ [c EXCEPT !.on = r.on].exists = c.exists
        BY RequestOfItsKind DEF ChannelRows
      <3>2. r.kind = "template" => /\ [c EXCEPT !.template = r.template] \in ChannelRows
                                   /\ [c EXCEPT !.template = r.template].exists = c.exists
        BY RequestOfItsKind DEF ChannelRows
      <3> QED BY <2>4, <3>1, <3>2
    <2> QED BY <1>1, <2>1, <2>2, <2>3, <2>5 DEF RoutingTypes, ChannelInUseStays
  <1>4. CASE DropChannel(w)
    <2>1. writers' \in [Writers -> Requests] /\ UNCHANGED <<routing, owner>>
      BY <1>4, FreesKeeps DEF DropChannel
    <2>2. r.of \in Channels
      BY <1>4, RequestOfItsKind DEF DropChannel
    <2>3. \/ channels' = channels
          \/ routing.mail # r.of /\ channels' = [channels EXCEPT ![r.of] = NoSuchChannel]
      BY <1>4 DEF DropChannel
    <2>4. NoSuchChannel \in ChannelRows
      BY DEF NoSuchChannel, ChannelRows, Templates
    <2> QED BY <1>1, <2>1, <2>2, <2>3, <2>4 DEF RoutingTypes, ChannelInUseStays
  <1>5. CASE CommitOwner(w)
    <2>1. writers' \in [Writers -> Requests] /\ UNCHANGED <<channels, routing>>
      BY <1>5, FreesKeeps DEF CommitOwner
    <2>2. /\ r.kind = "owner" /\ r.read \in OwnerRows /\ r.row \in BOOLEAN /\ r.on \in BOOLEAN
          /\ r.emails \in SUBSET (People \cup {Garbled}) /\ r.read.exists \in BOOLEAN
      BY <1>5, RequestOfItsKind DEF CommitOwner, OwnerRows
    <2>3. owner.emails \in SUBSET (People \cup {Garbled}) /\ owner.on \in BOOLEAN /\ owner \in OwnerRows
      BY DEF RoutingTypes, OwnerRows
    <2>4. \A emails \in SUBSET (People \cup {Garbled}), on \in BOOLEAN : OwnerRow(emails, on) \in OwnerRows
      BY DEF OwnerRow, OwnerRows
    <2>5. NoRow \in OwnerRows
      BY DEF NoRow, OwnerRows
    <2>6. \/ owner' = NoRow \/ owner' = owner
          \/ \E emails \in SUBSET (People \cup {Garbled}), on \in BOOLEAN : owner' = OwnerRow(emails, on)
      BY <1>5, <2>2, <2>3 DEF CommitOwner
    <2>7. owner' \in OwnerRows
      BY <2>3, <2>4, <2>5, <2>6
    <2> QED BY <2>1, <2>7 DEF RoutingTypes, ChannelInUseStays
  <1> QED BY <1>2, <1>3, <1>4, <1>5

LEMMA DirectEditsKeepTables ==
  ASSUME RoutingTypes, ChannelInUseStays, CreateChannel \/ DropOwner
  PROVE  /\ channels' \in [Channels -> ChannelRows] /\ routing' \in Settings /\ owner' \in OwnerRows
         /\ writers' \in [Writers -> Requests]
         /\ ChannelInUseStays'
  <1>1. CASE CreateChannel
    <2>1. PICK c \in Channels, on \in BOOLEAN, t \in Templates :
            channels' = [channels EXCEPT ![c] = ChannelRow(on, t)]
      BY <1>1 DEF CreateChannel
    <2>2. ChannelRow(on, t) \in ChannelRows /\ ChannelRow(on, t).exists
      BY DEF ChannelRow, ChannelRows
    <2>3. UNCHANGED <<routing, owner, writers>>
      BY <1>1 DEF CreateChannel
    <2> QED BY <2>1, <2>2, <2>3 DEF RoutingTypes, ChannelInUseStays, Settings
  <1>2. CASE DropOwner
    <2>1. UNCHANGED <<channels, routing>> /\ owner' = NoRow
      BY <1>2 DEF DropOwner
    <2>2. NoRow \in OwnerRows
      BY DEF NoRow, OwnerRows
    <2>3. \A v \in Writers : writers[v].kind = "owner" => [writers[v] EXCEPT !.row = FALSE] \in Requests
      <3> TAKE v \in Writers
      <3> HAVE writers[v].kind = "owner"
      <3>1. writers[v] \in [kind : {"owner"}, read : OwnerRows, row : BOOLEAN,
                            emails : SUBSET (People \cup {Garbled}), on : BOOLEAN]
        BY RequestOfItsKind DEF RoutingTypes
      <3> QED BY <3>1 DEF Requests
    <2>4. writers' \in [Writers -> Requests]
      BY <1>2, <2>3 DEF DropOwner, RoutingTypes
    <2> QED BY <2>1, <2>2, <2>4 DEF RoutingTypes, ChannelInUseStays
  <1> QED BY <1>1, <1>2

(* No edit is a lift or makes one wider. *)
LEMMA EditsAreNoLifts ==
  ASSUME RoutingTypes, LiftsAreNarrow, Editing
  PROVE  LiftsAreNarrow'
  <1>1. ASSUME NEW w \in Writers, AskRouting(w) PROVE LiftsAreNarrow'
    BY <1>1 DEF AskRouting, AskSettings, AskChannel, AskOwner, Reading, Asks, LiftsAreNarrow, RoutingTypes
  <1>2. ASSUME NEW w \in Writers, Frees(w) PROVE LiftsAreNarrow'
    BY <1>2 DEF Frees, LiftsAreNarrow, RoutingTypes, NoWriter
  <1>3. ASSUME NEW w \in Writers, FreesAll(w) PROVE LiftsAreNarrow'
    <2>1. \A v \in Writers : writers'[v] =
            IF v = w THEN NoWriter
            ELSE IF writers[v].kind = "owner" THEN [writers[v] EXCEPT !.row = FALSE] ELSE writers[v]
      BY <1>3 DEF FreesAll
    <2>2. \A v \in Writers : writers[v].kind = "owner" => [writers[v] EXCEPT !.row = FALSE].kind = "owner"
      BY RequestOfItsKind DEF RoutingTypes
    <2>3. NoWriter.kind # "lift"
      BY DEF NoWriter
    <2>4. \A v \in Writers : writers'[v].kind = "lift" => writers'[v] = writers[v]
      BY <2>1, <2>2, <2>3
    <2> QED BY <2>4 DEF LiftsAreNarrow
  <1>4. CASE DropOwner
    <2>1. \A v \in Writers : writers'[v] =
            IF writers[v].kind = "owner" THEN [writers[v] EXCEPT !.row = FALSE] ELSE writers[v]
      BY <1>4 DEF DropOwner
    <2>2. \A v \in Writers : writers[v].kind = "owner" => [writers[v] EXCEPT !.row = FALSE].kind = "owner"
      BY RequestOfItsKind DEF RoutingTypes
    <2> QED BY <2>1, <2>2 DEF LiftsAreNarrow
  <1>5. CASE CreateChannel
    BY <1>5 DEF CreateChannel, LiftsAreNarrow
  <1> QED
    BY <1>1, <1>2, <1>3, <1>4, <1>5
    DEF Editing, CommitSettings, CommitChannel, DropChannel, CommitOwner

LEMMA EditingKeeps ==
  ASSUME RoutingInv, Editing
  PROVE  RoutingInv'
  <1> USE DEF RoutingInv
  <1>1. UNCHANGED <<mutes, clock, promised, purged>>
    BY DEF Editing, muting
  <1>2. /\ channels' \in [Channels -> ChannelRows] /\ routing' \in Settings /\ owner' \in OwnerRows
        /\ writers' \in [Writers -> Requests]
        /\ ChannelInUseStays'
    <2>1. ASSUME NEW w \in Writers, AskRouting(w)
          PROVE  /\ writers' \in [Writers -> Requests]
                 /\ UNCHANGED <<channels, routing, owner>> /\ ChannelInUseStays'
      BY <2>1, AskRoutingKeeps DEF ChannelInUseStays
    <2> QED BY <2>1, CommitsKeepTables, DirectEditsKeepTables DEF Editing, RoutingTypes
  <1>3. RoutingTypes'
    BY <1>1, <1>2 DEF RoutingTypes
  <1>4. MutesLast'
    BY <1>1 DEF MutesLast
  <1> QED BY <1>2, <1>3, <1>4, EditsAreNoLifts, EditingKeepsDispatch
-------------------------------------------------------------------------------
(* Mutes.                                                                  *)
LEMMA AskMutingKeeps ==
  ASSUME RoutingInv, NEW w \in Writers, AskMute(w) \/ AskLift(w) \/ AskPurge(w)
  PROVE  RoutingInv'
  <1> USE DEF RoutingInv
  <1>1. PICK r \in Requests : /\ Asks(w, r, MaxMutings)
                              /\ r.kind = "lift" => r.rows \subseteq {r.key}
                              /\ UNCHANGED <<routingTables, dispatch, muting, batches>>
    <2>1. CASE AskMute(w)
      <3> PICK k \in MuteKeys, until \in clock + 1 .. clock + LongestMute :
            Finding(w, [kind |-> "mute", key |-> k, until |-> until, had |-> mutes[k] # 0,
                        same |-> until = mutes[k], rows |-> {k} \cap {j \in MuteKeys : mutes[j] # 0}])
        BY <2>1 DEF AskMute
      <3> PICK had \in BOOLEAN, same \in BOOLEAN : had = (mutes[k] # 0) /\ same = (until = mutes[k])
        OBVIOUS
      <3> PICK rows \in SUBSET MuteKeys : rows = {k} \cap {j \in MuteKeys : mutes[j] # 0}
        OBVIOUS
      <3>1. until \in Nat
        BY RoutingAssumption DEF RoutingTypes
      <3>2. [kind |-> "mute", key |-> k, until |-> until, had |-> had, same |-> same, rows |-> rows]
              \in Requests
        BY <3>1 DEF Requests
      <3> QED BY <3>2 DEF Finding
    <2>2. CASE AskLift(w)
      <3>1. \A k \in MuteKeys : [kind |-> "lift", key |-> k, rows |-> {k}] \in Requests
        BY DEF Requests
      <3> QED BY <2>2, <3>1 DEF AskLift, Finding
    <2>3. CASE AskPurge(w)
      <3>1. [kind |-> "purge", rows |-> Expired] \in Requests
        BY DEF Requests, Expired
      <3> QED BY <2>3, <3>1 DEF AskPurge, Finding
    <2> QED BY <2>1, <2>2, <2>3
  <1>2. UNCHANGED <<channels, routing, owner, mutes, clock, promised, purged>>
    BY <1>1 DEF routingTables, muting
  <1>3. RoutingTypes'
    BY <1>1, <1>2, AsksKeeps DEF RoutingTypes
  <1>4. LiftsAreNarrow'
    BY <1>1 DEF LiftsAreNarrow, Asks, RoutingTypes
  <1>5. ChannelInUseStays' /\ MutesLast'
    BY <1>2 DEF ChannelInUseStays, MutesLast
  <1> QED BY <1>1, <1>3, <1>4, <1>5, DispatchFramed

LEMMA DeletesKeeps ==
  ASSUME RoutingInv, NEW w \in Writers, NEW rows \in SUBSET MuteKeys, Deletes(w, rows)
  PROVE  /\ writers' \in [Writers -> Requests] /\ LiftsAreNarrow'
         /\ mutes' \in [MuteKeys -> Nat]
  <1> USE DEF RoutingInv
  <1>1. \A v \in Writers : writers[v].kind \in Muters =>
          LET r == [writers[v] EXCEPT !.rows = @ \ rows]
          IN  /\ r \in Requests /\ r.kind = writers[v].kind /\ r.rows \subseteq writers[v].rows
              /\ r.kind = "lift" => r.key = writers[v].key
    <2> TAKE v \in Writers
    <2> HAVE writers[v].kind \in Muters
    <2> PICK q \in Requests : q = writers[v]
      BY DEF RoutingTypes
    <2>1. CASE q.kind = "mute"
      <3>1. q \in [kind : {"mute"}, key : MuteKeys, until : Nat, had : BOOLEAN, same : BOOLEAN,
                   rows : SUBSET MuteKeys]
        BY <2>1, RequestOfItsKind
      <3> QED BY <3>1 DEF Requests
    <2>2. CASE q.kind = "lift"
      <3>1. q \in [kind : {"lift"}, key : MuteKeys, rows : SUBSET MuteKeys]
        BY <2>2, RequestOfItsKind
      <3> QED BY <3>1 DEF Requests
    <2>3. CASE q.kind = "purge"
      <3>1. q \in [kind : {"purge"}, rows : SUBSET MuteKeys]
        BY <2>3, RequestOfItsKind
      <3> QED BY <3>1 DEF Requests
    <2> QED BY <2>1, <2>2, <2>3 DEF Muters
  <1>2. NoWriter \in Requests /\ NoWriter.kind = "none"
    BY DEF Requests, NoWriter
  <1>3. \A v \in Writers :
          writers'[v] = IF v = w THEN NoWriter
                        ELSE IF writers[v].kind \in Muters THEN [writers[v] EXCEPT !.rows = @ \ rows]
                        ELSE writers[v]
    BY DEF Deletes
  <1>4. writers' \in [Writers -> Requests]
    BY <1>1, <1>2 DEF Deletes, RoutingTypes
  <1>5. LiftsAreNarrow'
    BY <1>1, <1>2, <1>3 DEF LiftsAreNarrow
  <1>6. mutes' \in [MuteKeys -> Nat]
    BY DEF Deletes, RoutingTypes
  <1> QED BY <1>4, <1>5, <1>6

LEMMA CommitsKeepMutes ==
  ASSUME RoutingInv, NEW w \in Writers, CommitMute(w) \/ CommitLift(w) \/ CommitPurge(w),
         UNCHANGED <<routingTables, dispatch, clock, asked, batches>>
  PROVE  RoutingInv'
  <1> USE DEF RoutingInv
  <1>1. UNCHANGED <<channels, routing, owner, clock>>
    BY DEF routingTables
  <1>2. DispatchInv' /\ ChannelInUseStays'
    BY <1>1, DispatchFramed DEF ChannelInUseStays
  <1>3. SUFFICES /\ writers' \in [Writers -> Requests] /\ LiftsAreNarrow' /\ MutesLast'
                 /\ mutes' \in [MuteKeys -> Nat] /\ promised' \in [MuteKeys -> Nat]
    BY <1>1, <1>2 DEF RoutingTypes
  <1> PICK r \in Requests : r = writers[w]
    BY DEF RoutingTypes
  <1>4. mutes \in [MuteKeys -> Nat] /\ promised \in [MuteKeys -> Nat] /\ clock \in Nat
    BY DEF RoutingTypes
  <1>5. CASE CommitMute(w)
    <2>1. r.key \in MuteKeys /\ r.until \in Nat /\ r.kind = "mute"
      BY <1>5, RequestOfItsKind DEF CommitMute
    <2>2. mutes' \in [MuteKeys -> Nat]
      BY <1>4, <1>5, <2>1 DEF CommitMute
    <2>3. promised' \in [MuteKeys -> Nat]
      BY <1>4, <1>5, <2>1, <2>2 DEF CommitMute
    <2>4. writers' \in [Writers -> Requests] /\ LiftsAreNarrow'
      BY <1>5 DEF CommitMute, RoutingTypes, Requests, LiftsAreNarrow, NoWriter
    <2>5. MutesLast'
      <3> SUFFICES ASSUME NEW k \in MuteKeys, k \notin purged', promised'[k] > clock
                   PROVE  mutes'[k] = promised'[k]
        BY <1>1 DEF MutesLast
      <3>1. CASE r.had => r.rows # {}
        <4>1. promised' = [promised EXCEPT ![r.key] = mutes'[r.key]] /\ purged' = purged \ {r.key}
          BY <1>5, <3>1 DEF CommitMute
        <4>2. k # r.key => mutes'[k] = mutes[k]
          BY <1>4, <1>5 DEF CommitMute
        <4> QED BY <1>4, <4>1, <4>2 DEF MutesLast
      <3>2. CASE ~(r.had => r.rows # {})
        <4>1. UNCHANGED <<mutes, promised, purged>>
          BY <1>5, <3>2 DEF CommitMute, TimeChanges
        <4> QED BY <4>1 DEF MutesLast
      <3> QED BY <3>1, <3>2
    <2> QED BY <2>2, <2>3, <2>4, <2>5
  <1>6. CASE CommitLift(w)
    <2>1. r.key \in MuteKeys /\ r.rows \in SUBSET MuteKeys /\ r.rows \subseteq {r.key} /\ Deletes(w, r.rows)
      BY <1>6, RequestOfItsKind DEF CommitLift, LiftsAreNarrow
    <2>2. promised' = IF r.rows = {} THEN promised ELSE [promised EXCEPT ![r.key] = 0]
      BY <1>6 DEF CommitLift
    <2>3. MutesLast'
      BY <1>1, <1>4, <1>6, <2>1, <2>2 DEF MutesLast, Deletes, CommitLift
    <2> QED BY <1>4, <2>1, <2>2, <2>3, DeletesKeeps
  <1>7. CASE CommitPurge(w)
    <2>1. r.rows \in SUBSET MuteKeys /\ Deletes(w, r.rows)
      BY <1>7, RequestOfItsKind DEF CommitPurge
    <2>2. promised' = promised /\ purged' = purged \cup {k \in r.rows : mutes[k] > clock}
      BY <1>7 DEF CommitPurge
    <2>3. MutesLast'
      BY <1>1, <1>4, <2>1, <2>2 DEF MutesLast, Deletes
    <2> QED BY <1>4, <2>1, <2>2, <2>3, DeletesKeeps
  <1> QED BY <1>5, <1>6, <1>7

LEMMA MutingKeeps ==
  ASSUME RoutingInv, MutingNext
  PROVE  RoutingInv'
  <1>1. CASE ClockTicks
    <2>1. /\ UNCHANGED <<channels, routing, owner, mutes, promised, purged, writers>>
          /\ clock' = clock + 1 /\ UNCHANGED <<routingTables, dispatch>>
      BY <1>1 DEF ClockTicks, routingTables
    <2>2. RoutingTypes'
      BY <2>1 DEF RoutingInv, RoutingTypes
    <2>3. MutesLast'
      BY <2>1 DEF RoutingInv, RoutingTypes, MutesLast
    <2>4. LiftsAreNarrow' /\ ChannelInUseStays'
      BY <2>1 DEF RoutingInv, LiftsAreNarrow, ChannelInUseStays
    <2> QED BY <2>1, <2>2, <2>3, <2>4, DispatchFramed DEF RoutingInv
  <1> QED BY <1>1, AskMutingKeeps, CommitsKeepMutes DEF MutingNext
-------------------------------------------------------------------------------
LEMMA RoutingInitInv ==
  ASSUME RoutingInit
  PROVE  RoutingInv
  <1>1. PICK first \in FirstRouting : channels = first[1] /\ routing = first[2] /\ owner = first[3]
    BY DEF RoutingInit
  <1>2. /\ channels \in [Channels -> ChannelRows] /\ routing \in Settings /\ owner \in OwnerRows
        /\ ChannelInUseStays
    BY <1>1, FirstRoutingAssumption DEF ChannelInUseStays
  <1>3. RoutingTypes /\ LiftsAreNarrow /\ MutesLast
    BY <1>2 DEF RoutingInit, RoutingTypes, LiftsAreNarrow, MutesLast, Requests, NoWriter
  <1>4. DispatchInv
    BY DEF RoutingInit, NoMail, DispatchInv, MailIsWhole, WatchIsCurrent, ReadsAreGood, ToldAsMeant
  <1> QED BY <1>2, <1>3, <1>4 DEF RoutingInv

LEMMA RoutingStep ==
  ASSUME RoutingInv, [RoutingNext]_routingVars
  PROVE  RoutingInv'
  <1>1. CASE Dispatching
    <2>1. UNCHANGED <<channels, routing, owner, mutes, clock, promised, purged, writers>>
      BY <1>1, DispatchingKeepsTables
    <2> QED
      BY <1>1, <2>1, DispatchingKeeps
      DEF RoutingInv, RoutingTypes, LiftsAreNarrow, ChannelInUseStays, MutesLast
  <1>2. CASE UNCHANGED routingVars
    <2>1. UNCHANGED <<channels, routing, owner, mutes, clock, promised, purged, writers>>
          /\ UNCHANGED <<routingTables, dispatch>>
      BY <1>2 DEF routingVars, routingTables, muting
    <2> QED
      BY <2>1, DispatchFramed
      DEF RoutingInv, RoutingTypes, LiftsAreNarrow, ChannelInUseStays, MutesLast
  <1> QED BY <1>1, <1>2, EditingKeeps, MutingKeeps DEF RoutingNext, RecipientsNext

(* Whatever administrators change while an alert is on its way, the people *)
(* who are meant throughout are told or the alert fails, nobody else is    *)
(* told, the channel in use stays, and mutes last as promised.             *)
THEOREM AlertsReachWhomTheyShould ==
  RoutingSpec => []AlertsReachTheirPeople
  <1>1. RoutingInv => AlertsReachTheirPeople
    BY DEF RoutingInv, DispatchInv, AlertsReachTheirPeople
  <1>2. RoutingSpec => []RoutingInv
    BY RoutingInitInv, RoutingStep, PTL DEF RoutingSpec
  <1> QED BY <1>1, <1>2, PTL

-------------------------------------------------------------------------------
(***************************************************************************)
(* The daily report: nobody is mailed twice about a host on one day of     *)
(* Korea, except where a report was cut off, not marked or overlapped.     *)
(***************************************************************************)
ReportStates ==
  [at : {"idle", "averages", "mails"}, since : 0 .. MaxSlot, todo : SUBSET GpuHosts, any : BOOLEAN]

ReportTypeOK ==
  /\ slot \in 0 .. MaxSlot
  /\ marker \in 0 .. MaxSlot + 1
  /\ serving \in Reporters
  /\ report \in [Reporters -> ReportStates]
  /\ handovers \in Nat /\ misfortunes \in Nat
  /\ mailed \in SUBSET (GpuHosts \X Nat)
  /\ twice \in SUBSET mailed
  /\ excused \in SUBSET Nat

Busy(c) == report[c].at # "idle"
DayOf(c) == KstDay(report[c].since)
Marked(day) == marker # NeverSent /\ day <= KstDay(marker)
SentBy(c, letter) ==
  /\ report[c].at = "mails" /\ report[c].any
  /\ DayOf(c) = letter[2] /\ letter[1] \notin report[c].todo

(* Every mail is remembered: by the marker, or by the report it belongs to. *)
MailsAreRemembered ==
  \A letter \in mailed :
    letter[2] \in excused \/ Marked(letter[2]) \/ \E c \in Reporters : SentBy(c, letter)

OverlapIsExcused ==
  \A c, d \in Reporters : c # d /\ Busy(c) /\ Busy(d) => DayOf(c) \in excused

(* A report under way was due, and has been overlapped if it is not still. *)
DueWhenBegun ==
  \A c \in Reporters : Busy(c) /\ marker # NeverSent /\ ~(KstDay(marker) < DayOf(c)) =>
                         KstDay(marker) \in excused /\ DayOf(c) \in excused

NothingIsAhead ==
  /\ \A letter \in mailed : letter[2] <= KstDay(slot)
  /\ \A c \in Reporters : report[c].since <= slot
  /\ \A c \in Reporters, letter \in mailed :
       Busy(c) /\ letter[2] \notin excused => letter[2] <= DayOf(c)

ReportInv ==
  /\ ReportTypeOK
  /\ MailsAreRemembered /\ OverlapIsExcused /\ DueWhenBegun /\ NothingIsAhead
  /\ ReportedOnceADay

-------------------------------------------------------------------------------
(* Days do not go back. *)
LEMMA KstDayGrows ==
  ASSUME NEW s \in Nat, NEW t \in Nat, s <= t
  PROVE  KstDay(s) \in Nat /\ KstDay(s) <= KstDay(t)
  <1>1. s + KstOffset \in Nat /\ t + KstOffset \in Nat /\ s + KstOffset <= t + KstOffset
    BY ReportAssumption
  <1>2. \A a, b \in Nat : a <= b => a \div DaySlots \in Nat /\ a \div DaySlots <= b \div DaySlots
    BY ReportAssumption, SMTT(30)
  <1> QED BY <1>1, <1>2 DEF KstDay

LEMMA ReportInvInit == ReportInit => ReportInv
  BY ReportAssumption
  DEF ReportInit, ReportInv, ReportTypeOK, ReportStates, NoReport, NeverSent, MailsAreRemembered,
      OverlapIsExcused, DueWhenBegun, NothingIsAhead, ReportedOnceADay, Busy
-------------------------------------------------------------------------------
(* Every action keeps the invariant. *)
LEMMA SlotPassesKeeps == ReportInv /\ SlotPasses => ReportInv'
  <1> SUFFICES ASSUME ReportInv, SlotPasses PROVE ReportInv'
    OBVIOUS
  <1> USE DEF SlotPasses
  <1>1. slot \in Nat /\ slot' \in Nat /\ slot <= slot' /\ slot' \in 0 .. MaxSlot
    BY ReportAssumption DEF ReportInv, ReportTypeOK
  <1>2. KstDay(slot) \in Nat /\ KstDay(slot') \in Nat /\ KstDay(slot) <= KstDay(slot')
    BY <1>1, KstDayGrows
  <1>3. ReportTypeOK'
    BY <1>1 DEF ReportInv, ReportTypeOK
  <1>4. NothingIsAhead'
    <2>1. \A letter \in mailed : letter[2] \in Nat
      BY DEF ReportInv, ReportTypeOK
    <2>2. \A letter \in mailed : letter[2] <= KstDay(slot')
      BY <1>2, <2>1 DEF ReportInv, NothingIsAhead
    <2>3. \A c \in Reporters : report[c].since <= slot'
      BY <1>1, ReportAssumption DEF ReportInv, ReportTypeOK, ReportStates, NothingIsAhead
    <2> QED BY <2>2, <2>3 DEF ReportInv, NothingIsAhead, Busy, DayOf, KstDay
  <1>5. MailsAreRemembered' /\ OverlapIsExcused' /\ DueWhenBegun' /\ ReportedOnceADay'
    BY DEF ReportInv, MailsAreRemembered, OverlapIsExcused, DueWhenBegun, ReportedOnceADay,
           Busy, DayOf, SentBy, Marked, KstDay, NeverSent
  <1> QED BY <1>3, <1>4, <1>5 DEF ReportInv

(* What every color's day is made of. *)
LEMMA DaysAreNumbers ==
  ASSUME ReportTypeOK
  PROVE  /\ \A c \in Reporters : DayOf(c) \in Nat
         /\ \A letter \in mailed : letter[2] \in Nat
         /\ marker # NeverSent => KstDay(marker) \in Nat
         /\ KstDay(slot) \in Nat
  <1>1. \A t \in 0 .. MaxSlot + 1 : KstDay(t) \in Nat
    BY KstDayGrows, ReportAssumption
  <1> QED BY <1>1, ReportAssumption DEF ReportTypeOK, ReportStates, DayOf, NeverSent

LEMMA StartReportKeeps ==
  ASSUME NEW c \in Reporters, ReportInv, StartReport(c)
  PROVE  ReportInv'
  <1> USE DEF ReportInv
  <1>1. ReportTypeOK
    OBVIOUS
  <1>2. /\ report[c].at = "idle" /\ IsReportDue(slot, marker)
        /\ report' = [report EXCEPT ![c] = [NoReport EXCEPT !.at = "averages", !.since = slot]]
        /\ excused' = IF UnderWay = {} THEN excused ELSE excused \cup UnderWay \cup {KstDay(slot)}
        /\ UNCHANGED <<slot, marker, serving, handovers, mailed, twice>>
        /\ misfortunes' \in Nat
    BY ReportAssumption DEF StartReport, Misfortune, ReportTypeOK
  <1>3. /\ report'[c] = [at |-> "averages", since |-> slot, todo |-> {}, any |-> FALSE]
        /\ \A d \in Reporters \ {c} : report'[d] = report[d]
    BY <1>2 DEF ReportTypeOK, NoReport
  <1>4. /\ ~Busy(c) /\ Busy(c)' /\ DayOf(c)' = KstDay(slot)
        /\ \A d \in Reporters \ {c} : (Busy(d)' <=> Busy(d)) /\ DayOf(d)' = DayOf(d)
    BY <1>2, <1>3 DEF Busy, DayOf, KstDay
  <1>5. excused \subseteq excused' /\ excused' \subseteq Nat
    BY <1>2, DaysAreNumbers DEF UnderWay, ReportTypeOK, DayOf
  <1>6. ReportTypeOK'
    BY <1>2, <1>3, <1>5 DEF ReportTypeOK, ReportStates, NoReport
  <1>7. OverlapIsExcused'
    <2>1. \A d \in Reporters : d # c /\ Busy(d) => {DayOf(d), KstDay(slot)} \subseteq excused'
      BY <1>2 DEF UnderWay, Busy, DayOf
    <2> QED BY <1>4, <1>5, <2>1 DEF OverlapIsExcused
  <1>8. MailsAreRemembered'
    <2>1. \A d \in Reporters, letter \in mailed : SentBy(d, letter) => SentBy(d, letter)'
      BY <1>2, <1>3, <1>4 DEF SentBy
    <2> QED BY <1>2, <1>5, <2>1 DEF MailsAreRemembered, Marked, NeverSent, KstDay
  <1>9. DueWhenBegun'
    BY <1>2, <1>4, <1>5 DEF DueWhenBegun, IsReportDue, KstDay, NeverSent
  <1>10. NothingIsAhead'
    <2>1. \A d \in Reporters : report'[d].since <= slot
      BY <1>3, ReportAssumption DEF NothingIsAhead, ReportTypeOK, ReportStates
    <2> QED BY <1>2, <1>4, <1>5, <2>1 DEF NothingIsAhead, KstDay
  <1>11. ReportedOnceADay'
    BY <1>2, <1>5 DEF ReportedOnceADay
  <1> QED BY <1>6, <1>7, <1>8, <1>9, <1>10, <1>11

LEMMA AveragesKeeps ==
  ASSUME NEW c \in Reporters, ReportInv, Averages(c)
  PROVE  ReportInv'
  <1> USE DEF ReportInv
  <1>a. /\ UNCHANGED <<slot, marker, serving, handovers, mailed, twice, excused>>
        /\ misfortunes' \in Nat
        /\ report[c].at = "averages" /\ report[c] \in ReportStates
    BY ReportAssumption DEF Averages, Misfortune, ReportTypeOK
  <1>b. /\ report'[c].since = report[c].since \/ report'[c] = NoReport
        /\ report'[c].at \in {"mails", "idle"} /\ report'[c] \in ReportStates
        /\ report' = [report EXCEPT ![c] = report'[c]]
    <2>1. CASE \E idle \in SUBSET GpuHosts :
                 report' = [report EXCEPT ![c].at = "mails", ![c].todo = idle]
      <3>1. PICK idle \in SUBSET GpuHosts :
                 report' = [report EXCEPT ![c].at = "mails", ![c].todo = idle]
        BY <2>1
      <3>2. report'[c] = [report[c] EXCEPT !.at = "mails", !.todo = idle]
        BY <3>1 DEF ReportTypeOK
      <3>3. report' = [report EXCEPT ![c] = report'[c]]
        BY <3>1, <3>2 DEF ReportTypeOK
      <3> QED BY <1>a, <3>2, <3>3 DEF ReportStates
    <2>2. CASE report' = [report EXCEPT ![c] = NoReport]
      BY <2>2, ReportAssumption DEF ReportTypeOK, ReportStates, NoReport
    <2> QED BY <2>1, <2>2 DEF Averages
  <1>c. \A d \in Reporters \ {c} : report'[d] = report[d]
    BY <1>b DEF ReportTypeOK
  <1>1. /\ UNCHANGED <<slot, marker, serving, handovers, mailed, twice, excused>>
        /\ misfortunes' \in Nat
        /\ report[c].at = "averages"
        /\ report'[c].since = report[c].since \/ report'[c] = NoReport
        /\ report'[c].at \in {"mails", "idle"}
        /\ \A d \in Reporters \ {c} : report'[d] = report[d]
    BY <1>a, <1>b, <1>c
  <1>2. ReportTypeOK'
    BY <1>a, <1>b DEF ReportTypeOK
  <1>3. \A d \in Reporters : Busy(d)' => Busy(d) /\ DayOf(d)' = DayOf(d)
    BY <1>1 DEF Busy, DayOf, KstDay, NoReport
  <1>4. \A d \in Reporters, letter \in mailed : SentBy(d, letter) => SentBy(d, letter)'
    BY <1>1 DEF SentBy, DayOf, KstDay
  <1>5. \A d \in Reporters : report'[d].since <= slot
    BY <1>1 DEF NothingIsAhead, NoReport, ReportTypeOK, ReportStates
  <1>6. MailsAreRemembered'
    BY <1>1, <1>4 DEF MailsAreRemembered, Marked, NeverSent, KstDay
  <1>7. OverlapIsExcused' /\ DueWhenBegun' /\ NothingIsAhead' /\ ReportedOnceADay'
    BY <1>1, <1>3, <1>5
    DEF OverlapIsExcused, DueWhenBegun, NothingIsAhead, ReportedOnceADay, NeverSent, KstDay
  <1> QED BY <1>2, <1>6, <1>7

(* The second mail of a day about a host comes from a second report. *)
LEMMA MailAboutKeeps ==
  ASSUME NEW c \in Reporters, NEW h \in GpuHosts, ReportInv, MailAbout(c, h)
  PROVE  ReportInv'
  <1> USE DEF ReportInv
  <1> PICK letter : letter = <<h, DayOf(c)>>
    OBVIOUS
  <1>a. /\ report' = [report EXCEPT ![c].todo = @ \ {h}, ![c].any = TRUE]
        /\ report[c] \in ReportStates /\ report[c].at = "mails" /\ h \in report[c].todo
    BY DEF MailAbout, ReportTypeOK
  <1>b. report'[c] = [report[c] EXCEPT !.todo = @ \ {h}, !.any = TRUE]
    BY <1>a DEF ReportTypeOK
  <1>c. /\ report'[c] \in ReportStates /\ report'[c].at = "mails" /\ report'[c].any
        /\ report'[c].since = report[c].since /\ report'[c].todo = report[c].todo \ {h}
    <2>1. report'[c] = [at |-> "mails", since |-> report[c].since,
                        todo |-> report[c].todo \ {h}, any |-> TRUE]
      BY <1>a, <1>b DEF ReportStates
    <2>2. report'[c].any
      BY <2>1
    <2>3. report[c].since \in 0 .. MaxSlot /\ report[c].todo \ {h} \in SUBSET GpuHosts
      BY <1>a DEF ReportStates
    <2>4. report'[c] \in ReportStates
      BY <2>1, <2>3 DEF ReportStates
    <2> QED BY <2>1, <2>2, <2>4
  <1>d. report' = [report EXCEPT ![c] = report'[c]]
    BY <1>a, <1>b DEF ReportTypeOK
  <1>1. /\ UNCHANGED <<slot, marker, serving, handovers, misfortunes, excused>>
        /\ report[c].at = "mails" /\ h \in report[c].todo
        /\ report'[c].at = "mails" /\ report'[c].any
        /\ report'[c].since = report[c].since /\ report'[c].todo = report[c].todo \ {h}
        /\ \A d \in Reporters \ {c} : report'[d] = report[d]
        /\ mailed' = mailed \cup {letter}
        /\ twice' = IF letter \in mailed THEN twice \cup {letter} ELSE twice
    BY <1>a, <1>c, <1>d DEF MailAbout, ReportTypeOK, DayOf
  <1>2. \A d \in Reporters : (Busy(d)' <=> Busy(d)) /\ DayOf(d)' = DayOf(d) /\ Busy(c)
    BY <1>1 DEF Busy, DayOf, KstDay, ReportTypeOK
  <1>3. letter \in GpuHosts \X Nat
    BY DaysAreNumbers
  <1>4. ReportTypeOK'
    BY <1>1, <1>3, <1>c, <1>d DEF ReportTypeOK
  <1>5. \A d \in Reporters, l \in mailed : SentBy(d, l) => SentBy(d, l)'
    BY <1>1, <1>2 DEF SentBy, ReportTypeOK
  <1>6. SentBy(c, letter)'
    BY <1>1, <1>2 DEF SentBy, ReportTypeOK
  <1>7. MailsAreRemembered'
    <2>1. \A l \in mailed : l[2] \in excused' \/ Marked(l[2])' \/ \E d \in Reporters : SentBy(d, l)'
      BY <1>1, <1>5 DEF MailsAreRemembered, Marked, NeverSent, KstDay
    <2>2. \E d \in Reporters : SentBy(d, letter)'
      BY <1>6
    <2>3. mailed' = mailed \cup {letter}
      BY <1>1
    <2> QED BY <2>1, <2>2, <2>3 DEF MailsAreRemembered
  <1>8. OverlapIsExcused' /\ DueWhenBegun'
    BY <1>1, <1>2 DEF OverlapIsExcused, DueWhenBegun, NeverSent, KstDay
  <1>9. NothingIsAhead'
    <2>1. report[c].since \in Nat /\ slot \in Nat /\ report[c].since <= slot
      BY ReportAssumption DEF ReportTypeOK, ReportStates, NothingIsAhead
    <2>2. DayOf(c) <= KstDay(slot)
      BY <2>1, KstDayGrows DEF DayOf
    <2>3. \A d \in Reporters : report'[d].since <= slot
      BY <1>1 DEF NothingIsAhead, ReportTypeOK, ReportStates
    <2>4. \A d \in Reporters : Busy(d) /\ DayOf(c) \notin excused => d = c
      BY <1>2 DEF OverlapIsExcused
    <2>5. \A d \in Reporters : Busy(d) /\ letter[2] \notin excused => letter[2] <= DayOf(d)
      BY <2>4, DaysAreNumbers
    <2>6. \A l \in mailed : l[2] <= KstDay(slot)
      BY DEF NothingIsAhead
    <2>7. \A l \in mailed' : l[2] <= KstDay(slot)'
      BY <1>1, <2>2, <2>6 DEF KstDay
    <2>8. \A d \in Reporters, l \in mailed' : Busy(d)' /\ l[2] \notin excused' => l[2] <= DayOf(d)'
      BY <1>1, <1>2, <2>5 DEF NothingIsAhead
    <2> QED BY <1>1, <2>3, <2>7, <2>8 DEF NothingIsAhead
  <1>10. letter \in mailed => letter[2] \in excused
    <2> SUFFICES ASSUME letter \in mailed, letter[2] \notin excused PROVE FALSE
      OBVIOUS
    <2>1. ~Marked(letter[2])
      BY <1>2, DaysAreNumbers DEF DueWhenBegun, Marked
    <2>2. \A d \in Reporters : SentBy(d, letter) => d = c
      BY <1>2 DEF OverlapIsExcused, SentBy, Busy
    <2>3. ~SentBy(c, letter)
      BY <1>1 DEF SentBy
    <2> QED BY <2>1, <2>2, <2>3 DEF MailsAreRemembered
  <1>11. ReportedOnceADay'
    BY <1>1, <1>10 DEF ReportedOnceADay
  <1> QED BY <1>4, <1>7, <1>8, <1>9, <1>11

(* The marker is moved by a report that nobody overlapped, and then        *)
(* forward, or among excused days.                                         *)
LEMMA MarkReportSentKeeps ==
  ASSUME NEW c \in Reporters, ReportInv, MarkReportSent(c)
  PROVE  ReportInv'
  <1> USE DEF ReportInv
  <1>1. /\ UNCHANGED <<slot, serving, handovers, mailed, twice>>
        /\ report[c].at = "mails" /\ report[c].todo = {}
        /\ report'[c] = NoReport
        /\ \A d \in Reporters \ {c} : report'[d] = report[d]
        /\ report' \in [Reporters -> ReportStates]
    BY ReportAssumption DEF MarkReportSent, ReportTypeOK, ReportStates, NoReport
  <1>2. \A d \in Reporters : (Busy(d)' => Busy(d) /\ d # c /\ DayOf(d)' = DayOf(d))
                             /\ (d # c => DayOf(d)' = DayOf(d)) /\ Busy(c)
    BY <1>1 DEF Busy, DayOf, KstDay, NoReport
  <1>3. \A d \in Reporters : report'[d].since <= slot
    BY <1>1, ReportAssumption DEF NothingIsAhead, NoReport, ReportTypeOK, ReportStates
  <1>4. \A d \in Reporters \ {c}, l \in mailed : SentBy(d, l) => SentBy(d, l)'
    BY <1>1, <1>2 DEF SentBy
  <1>5. CASE marker' = report[c].since /\ UNCHANGED <<misfortunes, excused>>
    <2>1. marker' # NeverSent /\ NeverSent' = NeverSent /\ KstDay(marker') = DayOf(c)
      BY <1>5, ReportAssumption DEF ReportTypeOK, ReportStates, NeverSent, DayOf
    <2>2. ReportTypeOK'
      BY <1>1, <1>5, ReportAssumption DEF ReportTypeOK, ReportStates
    <2>3. MailsAreRemembered'
      <3> SUFFICES ASSUME NEW l \in mailed, l[2] \notin excused
                   PROVE  Marked(l[2])' \/ \E d \in Reporters : SentBy(d, l)'
        BY <1>1, <1>5 DEF MailsAreRemembered
      <3>1. l[2] <= DayOf(c)
        BY <1>2 DEF NothingIsAhead
      <3> QED BY <2>1, <3>1 DEF Marked, KstDay
    <2>4. OverlapIsExcused' /\ NothingIsAhead' /\ ReportedOnceADay'
      BY <1>1, <1>2, <1>3, <1>5 DEF OverlapIsExcused, NothingIsAhead, ReportedOnceADay, KstDay
    <2>5. DueWhenBegun'
      <3>1. \A d \in Reporters : Busy(d)' => {DayOf(c), DayOf(d)} \subseteq excused
        BY <1>2 DEF OverlapIsExcused
      <3> QED BY <1>2, <1>5, <2>1, <3>1 DEF DueWhenBegun, KstDay
    <2> QED BY <2>2, <2>3, <2>4, <2>5
  <1>6. CASE Misfortune /\ excused' = excused \cup Excuses(c) /\ UNCHANGED marker
    <2>1. excused \subseteq excused' /\ excused' \subseteq Nat
      BY <1>6, DaysAreNumbers DEF Excuses, ReportTypeOK, DayOf
    <2>2. ReportTypeOK'
      BY <1>1, <1>6, <2>1, ReportAssumption DEF ReportTypeOK, Misfortune
    <2>3. \A l \in mailed : SentBy(c, l) => l[2] \in excused'
      BY <1>6 DEF SentBy, Excuses, DayOf
    <2>4. MailsAreRemembered'
      BY <1>1, <1>4, <1>6, <2>1, <2>3 DEF MailsAreRemembered, Marked, NeverSent, KstDay
    <2>5. OverlapIsExcused' /\ NothingIsAhead' /\ ReportedOnceADay'
      BY <1>1, <1>2, <1>3, <2>1 DEF OverlapIsExcused, NothingIsAhead, ReportedOnceADay, KstDay
    <2>6. DueWhenBegun'
      BY <1>2, <1>6, <2>1 DEF DueWhenBegun, KstDay, NeverSent
    <2> QED BY <2>2, <2>4, <2>5, <2>6
  <1> QED BY <1>5, <1>6 DEF MarkReportSent

LEMMA ReporterCrashesKeeps ==
  ASSUME NEW c \in Reporters, ReportInv, ReporterCrashes(c)
  PROVE  ReportInv'
  <1> USE DEF ReportInv
  <1>1. /\ UNCHANGED <<slot, marker, serving, handovers, mailed, twice>>
        /\ excused' = excused \cup Excuses(c) /\ misfortunes' \in Nat
        /\ report'[c] = NoReport
        /\ \A d \in Reporters \ {c} : report'[d] = report[d]
        /\ report' \in [Reporters -> ReportStates]
    BY ReportAssumption DEF ReporterCrashes, Misfortune, ReportTypeOK, ReportStates, NoReport
  <1>2. \A d \in Reporters : Busy(d)' => Busy(d) /\ d # c /\ DayOf(d)' = DayOf(d)
    BY <1>1 DEF Busy, DayOf, KstDay, NoReport
  <1>3. \A d \in Reporters : report'[d].since <= slot
    BY <1>1, ReportAssumption DEF NothingIsAhead, NoReport, ReportTypeOK, ReportStates
  <1>4. excused \subseteq excused' /\ excused' \subseteq Nat
    BY <1>1, DaysAreNumbers DEF Excuses, ReportTypeOK, DayOf
  <1>5. ReportTypeOK'
    BY <1>1, <1>4 DEF ReportTypeOK
  <1>6. MailsAreRemembered'
    <2>1. \A d \in Reporters \ {c}, l \in mailed : SentBy(d, l) => SentBy(d, l)'
      BY <1>1 DEF SentBy, DayOf, KstDay
    <2>2. \A l \in mailed : SentBy(c, l) => l[2] \in excused'
      BY <1>1 DEF SentBy, Excuses, DayOf
    <2> QED BY <1>1, <1>4, <2>1, <2>2 DEF MailsAreRemembered, Marked, NeverSent, KstDay
  <1>7. OverlapIsExcused' /\ DueWhenBegun' /\ NothingIsAhead' /\ ReportedOnceADay'
    BY <1>1, <1>2, <1>3, <1>4
    DEF OverlapIsExcused, DueWhenBegun, NothingIsAhead, ReportedOnceADay, KstDay, NeverSent
  <1> QED BY <1>5, <1>6, <1>7

LEMMA HandoverKeeps ==
  ASSUME NEW c \in Reporters, ReportInv, Handover(c)
  PROVE  ReportInv'
  BY ReportAssumption
  DEF Handover, ReportInv, ReportTypeOK, MailsAreRemembered, OverlapIsExcused, DueWhenBegun,
      NothingIsAhead, ReportedOnceADay, Busy, DayOf, SentBy, Marked, KstDay, NeverSent

LEMMA ReportInvStep == ReportInv /\ [ReportNext]_reportVars => ReportInv'
  <1> SUFFICES ASSUME ReportInv, [ReportNext]_reportVars PROVE ReportInv'
    OBVIOUS
  <1>1. CASE SlotPasses
    BY <1>1, SlotPassesKeeps
  <1>2. CASE \E c \in Reporters : StartReport(c)
    BY <1>2, StartReportKeeps
  <1>3. CASE \E c \in Reporters : Averages(c)
    BY <1>3, AveragesKeeps
  <1>4. CASE \E c \in Reporters : MarkReportSent(c)
    BY <1>4, MarkReportSentKeeps
  <1>5. CASE \E c \in Reporters : ReporterCrashes(c)
    BY <1>5, ReporterCrashesKeeps
  <1>6. CASE \E c \in Reporters : Handover(c)
    BY <1>6, HandoverKeeps
  <1>7. CASE \E c \in Reporters, h \in GpuHosts : MailAbout(c, h)
    BY <1>7, MailAboutKeeps
  <1>8. CASE UNCHANGED reportVars
    BY <1>8
    DEF reportVars, ReportInv, ReportTypeOK, MailsAreRemembered, OverlapIsExcused, DueWhenBegun,
        NothingIsAhead, ReportedOnceADay, Busy, DayOf, SentBy, Marked, KstDay, NeverSent
  <1> QED BY <1>1, <1>2, <1>3, <1>4, <1>5, <1>6, <1>7, <1>8 DEF ReportNext

(* The daily report never mails twice about a host on one day of Korea,    *)
(* outside the days whose report was cut off, not marked or overlapped     *)
(* (is_report_due, maybe_send_gpu_util_report).                            *)
THEOREM DailyReportIsSentOnce == ReportSpec => []ReportedOnceADay
  <1>1. ReportInv => ReportedOnceADay
    BY DEF ReportInv
  <1> QED BY ReportInvInit, ReportInvStep, <1>1, PTL DEF ReportSpec

(***************************************************************************)
(* The routes of the gateway.                                              *)
(***************************************************************************)
RouteType == [name : Names \cup {NoId}, key : Nat, auth : BOOLEAN, own : BOOLEAN, timeout : Nat]
MeaningType == [key : Nat, timeout : Nat, open : BOOLEAN]
JobType == [stage : {"idle", "put", "answer", "list", "patch"}, id : Ids \cup {NoId},
            body : RouteType, means : MeaningType, left : SUBSET Plain]

RoutesTypes ==
  /\ routes \in [Ids -> RouteType] /\ meant \in [Ids -> MeaningType]
  /\ default \in Defaults /\ job \in [Admins -> JobType]
  /\ torn \subseteq Ids /\ unsynced \subseteq Ids
  /\ renamed \in BOOLEAN /\ missed \in BOOLEAN
  /\ edits \in Nat /\ ticks \in Nat /\ faults \in Nat
  /\ cache = [names |-> cache.names, at |-> cache.at] /\ cache.at \in Int

JobsInOrder ==
  \A a \in Admins :
    /\ job[a].stage \in {"put", "answer"} => job[a].id \in Ids
    /\ job[a].stage \in {"idle", "list", "patch"} => job[a].id = NoId
    /\ job[a].stage # "patch" => job[a].left = {}

(* Requests whose edits have not overlapped are alone. *)
OverlapsAreTorn == \A id \in Ids \ torn : \A a, b \in Working(id) : a = b
SavesAreAlone ==
  ~renamed => \A a, b \in Admins : job[a].id # NoId /\ job[b].id # NoId => a = b

AsMeant(r, m) ==
  /\ r = NoRoute => m = NoMeaning
  /\ r # NoRoute => /\ r.key = m.key /\ r.auth = ~m.open /\ r.own = (m.timeout # 0)
                    /\ r.own => r.timeout = m.timeout

RoutesAreAsMeant ==
  \A id \in Ids \ torn :
    /\ AsMeant(routes[id], meant[id])
    /\ \A a \in Admins : /\ job[a].stage = "put" /\ job[a].id = id => AsMeant(job[a].body, job[a].means)
                         /\ id \in job[a].left => ~routes[id].own

DefaultIsFollowed ==
  \A id \in Plain \ unsynced :
    routes[id] # NoRoute /\ ~routes[id].own => routes[id].timeout = default

(* A provisioned route stays, and its id is the name of no other. *)
SystemIsKept ==
  /\ \A id \in System : routes[id] # NoRoute /\ routes[id].name = id
  /\ \A id \in Plain : routes[id].name \notin System
  /\ \A a \in Admins : job[a].stage = "put" =>
       /\ job[a].id \in System => job[a].body # NoRoute /\ job[a].body.name = job[a].id
       /\ job[a].id \in Plain => job[a].body.name \notin System

NamesDiffer ==
  ~renamed =>
    /\ \A id, other \in DOMAIN Listed : Listed[id] = Listed[other] => id = other
    /\ \A a \in Admins : job[a].stage = "put" /\ job[a].body # NoRoute =>
         \A other \in DOMAIN Listed \ {job[a].id} : job[a].body.name # Listed[other]

CacheIsCurrent ==
  Fresh /\ ~missed /\ (\A a \in Admins : job[a].stage # "answer") => cache.names = Listed

FewRoutes == IsFiniteSet(DOMAIN Listed)

RoutesInv ==
  /\ RoutesTypes /\ JobsInOrder /\ OverlapsAreTorn /\ SavesAreAlone /\ RoutesAreAsMeant
  /\ DefaultIsFollowed /\ SystemIsKept /\ NamesDiffer /\ CacheIsCurrent /\ FewRoutes

LEMMA RoutesConstants ==
  /\ NoRoute \in RouteType /\ NoMeaning \in MeaningType /\ Quiet \in JobType
  /\ NoRoute.name = NoId /\ NoRoute.timeout = 0 /\ ~NoRoute.own
  /\ NoRoute.key = 0 /\ NoMeaning.key = 0 /\ NoMeaning.open = FALSE
  /\ Quiet.stage = "idle" /\ Quiet.id = NoId /\ Quiet.left = {} /\ Quiet.body = NoRoute /\ Quiet.means = NoMeaning
  /\ NoId \notin Ids /\ Ids \subseteq Names /\ Defaults \subseteq Nat \ {0} /\ Plain \cap System = {}
  /\ Ids = Plain \cup System
<1>1. NoId \notin Ids
  BY RoutesAssumption
<1>2. NoRoute \in RouteType /\ NoMeaning \in MeaningType
  BY DEF NoRoute, RouteType, NoMeaning, MeaningType
<1>3. Quiet \in JobType
  BY <1>2 DEF Quiet, JobType
<1>. QED
  BY <1>1, <1>2, <1>3, RoutesAssumption DEF NoRoute, NoMeaning, Quiet, Ids, Names

(* A request that begins: whoever is under way at the same route, or at    *)
(* any, is told apart.                                                     *)
LEMMA Started ==
  ASSUME RoutesInv, NEW a \in Admins, NEW id \in Ids \cup {NoId}, NEW new \in JobType,
         job[a].stage = "idle", new.id = id, new.stage # "idle", Begins(id),
         job' = [job EXCEPT ![a] = new]
  PROVE  /\ OverlapsAreTorn' /\ SavesAreAlone'
         /\ torn \subseteq torn' /\ torn' \subseteq Ids /\ edits' \in Nat /\ renamed' \in BOOLEAN
         /\ ~renamed' => (~renamed /\ \A b \in Admins : job[b].id = NoId)
<1>1. /\ \A b \in Admins : job'[b] = IF b = a THEN new ELSE job[b]
      /\ torn' = torn \cup {i \in Ids : id \in {i, NoId} /\ Working(i) # {}}
      /\ edits' = edits + 1
  BY DEF Begins, RoutesInv, RoutesTypes
<1>2. \A i \in Ids : Working(i)' = {b \in Admins : job'[b].stage # "idle" /\ job'[b].id \in {i, NoId}}
  BY DEF Working
<1>3. OverlapsAreTorn'
  <2>. SUFFICES ASSUME NEW i \in Ids, i \notin torn', NEW b \in Working(i)', NEW c \in Working(i)'
                PROVE  b = c
    BY DEF OverlapsAreTorn
  <2>1. CASE id \in {i, NoId}
    <3>1. Working(i) = {}
      BY <1>1, <2>1
    <3>. QED
      BY <1>1, <1>2, <3>1 DEF Working
  <2>2. CASE id \notin {i, NoId}
    <3>1. b \in Working(i) /\ c \in Working(i)
      BY <1>1, <1>2, <2>2 DEF Working
    <3>2. i \notin torn
      BY <1>1
    <3>. QED
      BY <3>1, <3>2 DEF RoutesInv, OverlapsAreTorn
  <2>. QED
    BY <2>1, <2>2
<1>4. ~renamed' => (~renamed /\ \A b \in Admins : job[b].id = NoId)
  <2>1. renamed' = (renamed \/ \E b \in Admins : job[b].stage # "idle" /\ job[b].id # NoId)
    BY DEF Begins
  <2>2. \A b \in Admins : job[b].stage = "idle" => job[b].id = NoId
    BY DEF RoutesInv, JobsInOrder
  <2>. QED
    BY <2>1, <2>2
<1>5. SavesAreAlone'
  BY <1>1, <1>4 DEF SavesAreAlone
<1>6. torn \subseteq torn' /\ torn' \subseteq Ids
  BY <1>1 DEF RoutesInv, RoutesTypes
<1>7. edits' \in Nat
  <2>1. edits \in Nat
    BY DEF RoutesInv, RoutesTypes
  <2>2. edits' = edits + 1
    BY <1>1
  <2>. QED
    BY <2>1, <2>2
<1>8. renamed' \in BOOLEAN
  BY DEF Begins
<1>. HIDE DEF RoutesInv
<1>. QED
  BY <1>3, <1>4, <1>5, <1>6, <1>7, <1>8, Zenon

(* A request that goes on or ends meets nobody new. *)
LEMMA WentOn ==
  ASSUME RoutesInv, NEW a \in Admins, NEW new \in JobType, job[a].stage # "idle",
         new = Quiet \/ new.id = job[a].id, job' = [job EXCEPT ![a] = new],
         UNCHANGED <<torn, renamed>>
  PROVE  OverlapsAreTorn' /\ SavesAreAlone'
<1>1. \A b \in Admins : job'[b] = IF b = a THEN new ELSE job[b]
  BY DEF RoutesInv, RoutesTypes
<1>2. \A i \in Ids : Working(i)' \subseteq Working(i)
  BY <1>1, RoutesConstants DEF Working
<1>3. OverlapsAreTorn'
  BY <1>2 DEF RoutesInv, OverlapsAreTorn
<1>4. SavesAreAlone'
  <2>1. renamed' = renamed
    OBVIOUS
  <2>2. \A b \in Admins : job'[b].id # NoId => job[b].id # NoId
    BY <1>1, RoutesConstants
  <2>3. ~renamed => \A b, c \in Admins : job'[b].id # NoId /\ job'[c].id # NoId => b = c
    BY <2>2 DEF RoutesInv, SavesAreAlone
  <2>4. CASE renamed
    <3>1. renamed'
      BY <2>1, <2>4
    <3>. QED
      BY <3>1 DEF SavesAreAlone
  <2>5. CASE ~renamed
    <3>1. \A b, c \in Admins : job'[b].id # NoId /\ job'[c].id # NoId => b = c
      BY <2>3, <2>5
    <3>. QED
      BY <3>1 DEF SavesAreAlone
  <2>. QED
    BY <2>4, <2>5
<1>. QED
  BY <1>3, <1>4

(* What a save is going to put says what was asked for. *)
LEMMA BuiltAsMeant ==
  ASSUME RoutesInv, NEW id \in Ids, NEW body \in Bodies, ~Refused(id, body)
  PROVE  /\ Built(id, routes[id], body) \in RouteType /\ Built(id, routes[id], body) # NoRoute
         /\ Meaning(id, meant[id], body) \in MeaningType
         /\ id \notin torn => AsMeant(Built(id, routes[id], body), Meaning(id, meant[id], body))
         /\ id \in System => Built(id, routes[id], body).name = id
         /\ id \in Plain => /\ Built(id, routes[id], body).name \notin System
                            /\ \A other \in DOMAIN Listed \ {id} :
                                 Built(id, routes[id], body).name \notin {other, Listed[other]}
<1>. DEFINE built == Built(id, routes[id], body)
            means == Meaning(id, meant[id], body)
<1>1. /\ body \in BodyType /\ default \in Nat \ {0} /\ routes[id] \in RouteType /\ meant[id] \in MeaningType
      /\ edits \in Nat
  BY RoutesAssumption DEF RoutesInv, RoutesTypes
<1>2. /\ body.key \in {"kept", "dropped", "new"} /\ body.auth \in {"kept", "on", "off"}
      /\ body.timeout \in Nat /\ body.name \in Names
      /\ routes[id].key \in Nat /\ routes[id].auth \in BOOLEAN
      /\ meant[id].key \in Nat /\ meant[id].open \in BOOLEAN
  BY <1>1 DEF BodyType, RouteType, MeaningType
<1>3. Header(routes[id], body) \in Nat
  BY <1>1, <1>2 DEF Header
<1>4. /\ built.name = IF id \in System THEN id ELSE body.name
      /\ built.key = IF id \in System THEN routes[id].key ELSE Header(routes[id], body)
      /\ built.own = (body.timeout # 0)
      /\ built.timeout = IF body.timeout # 0 THEN body.timeout ELSE default
  BY DEF Built
<1>5. /\ body.auth = "on" => built.auth = TRUE
      /\ body.auth = "off" => built.auth = FALSE
      /\ body.auth = "kept" => built.auth = IF routes[id] = NoRoute THEN TRUE ELSE routes[id].auth
  BY DEF Built
<1>6. built = [name |-> built.name, key |-> built.key, auth |-> built.auth, own |-> built.own,
               timeout |-> built.timeout]
  <2>1. PICK n, k, u, o, t : Built(id, routes[id], body) =
               [name |-> n, key |-> k, auth |-> u, own |-> o, timeout |-> t]
    BY DEF Built
  <2>. QED
    BY <2>1
<1>7. built \in RouteType
  <2>1. built.name \in Names
    BY <1>2, <1>4, RoutesConstants
  <2>2. built.key \in Nat
    BY <1>2, <1>3, <1>4
  <2>3. built.auth \in BOOLEAN
    BY <1>2, <1>5
  <2>4. built.own \in BOOLEAN
    BY <1>4
  <2>5. built.timeout \in Nat
    BY <1>1, <1>2, <1>4
  <2>. HIDE DEF built
  <2>. QED
    BY <1>6, <2>1, <2>2, <2>3, <2>4, <2>5 DEF RouteType
<1>8. built # NoRoute
  <2>1. built.timeout # 0
    BY <1>1, <1>2, <1>4
  <2>. QED
    BY <2>1, RoutesConstants
<1>9. /\ means.key = IF id \in System \/ body.key = "kept" THEN meant[id].key
                     ELSE IF body.key = "new" THEN edits + 2 ELSE 0
      /\ means.timeout = body.timeout
      /\ means.open = (body.auth = "off" \/ (body.auth = "kept" /\ meant[id].open))
      /\ means = [key |-> means.key, timeout |-> means.timeout, open |-> means.open]
  BY DEF Meaning
<1>10. means \in MeaningType
  <2>1. means.key \in Nat
    BY <1>1, <1>2, <1>9
  <2>2. means.timeout \in Nat
    BY <1>2, <1>9
  <2>3. means.open \in BOOLEAN
    BY <1>9
  <2>. HIDE DEF means
  <2>. QED
    BY <1>9, <2>1, <2>2, <2>3 DEF MeaningType
<1>11. ASSUME id \notin torn PROVE AsMeant(built, means)
  <2>1. AsMeant(routes[id], meant[id]) /\ (id \in System => routes[id] # NoRoute)
    BY <1>11 DEF RoutesInv, RoutesAreAsMeant, SystemIsKept
  <2>2. routes[id].key = meant[id].key
    <3>1. routes[id] = NoRoute => routes[id].key = 0 /\ meant[id].key = 0
      BY <2>1, RoutesConstants DEF AsMeant
    <3>2. routes[id] # NoRoute => routes[id].key = meant[id].key
      BY <2>1 DEF AsMeant
    <3>. QED
      BY <3>1, <3>2
  <2>3. built.key = means.key
    BY <1>2, <1>4, <1>9, <2>2 DEF Header
  <2>4. built.auth = ~means.open
    <3>1. CASE routes[id] = NoRoute
      <4>1. meant[id].open = FALSE
        BY <2>1, <3>1 DEF AsMeant, NoMeaning
      <4>2. CASE body.auth = "off"
        <5>1. built.auth = FALSE /\ means.open = TRUE
          BY <1>5, <1>9, <4>2
        <5>. QED
          BY <5>1
      <4>3. CASE body.auth # "off"
        <5>1. built.auth = TRUE
          BY <1>2, <1>5, <3>1, <4>3
        <5>2. means.open = FALSE
          BY <1>9, <4>1, <4>3
        <5>. QED
          BY <5>1, <5>2
      <4>. QED
        BY <4>2, <4>3
    <3>2. CASE routes[id] # NoRoute
      <4>1. routes[id].auth = ~meant[id].open
        BY <2>1, <3>2 DEF AsMeant
      <4>2. CASE body.auth = "off"
        <5>1. built.auth = FALSE /\ means.open = TRUE
          BY <1>5, <1>9, <4>2
        <5>. QED
          BY <5>1
      <4>3. CASE body.auth = "on"
        <5>1. built.auth = TRUE /\ means.open = FALSE
          BY <1>5, <1>9, <4>3
        <5>. QED
          BY <5>1
      <4>4. CASE body.auth = "kept"
        <5>1. built.auth = routes[id].auth
          BY <1>5, <3>2, <4>4
        <5>2. means.open = meant[id].open
          BY <1>2, <1>9, <4>4
        <5>. QED
          BY <4>1, <5>1, <5>2
      <4>. QED
        BY <1>2, <4>2, <4>3, <4>4
    <3>. QED
      BY <3>1, <3>2
  <2>5. built.own = (means.timeout # 0) /\ (built.own => built.timeout = means.timeout)
    <3>1. built.own = (means.timeout # 0)
      BY <1>4, <1>9
    <3>2. built.own => body.timeout # 0
      BY <1>4
    <3>. QED
      BY <1>4, <1>9, <3>1, <3>2
  <2>. HIDE DEF built, means
  <2>. QED
    BY <1>8, <2>3, <2>4, <2>5 DEF AsMeant
<1>12. ASSUME id \in Plain
       PROVE  /\ built.name \notin System
              /\ \A other \in DOMAIN Listed \ {id} : built.name \notin {other, Listed[other]}
  <2>1. id \notin System
    BY <1>12, RoutesConstants
  <2>2. \A other \in DOMAIN Listed \ {id} : body.name \notin {other, Listed[other]}
    BY <2>1 DEF Refused
  <2>3. \A s \in System : s \in DOMAIN Listed \ {id}
    BY <2>1, RoutesConstants DEF RoutesInv, SystemIsKept, Listed
  <2>4. built.name = body.name
    BY <1>4, <2>1
  <2>. QED
    BY <2>2, <2>3, <2>4
<1>13. id \in System => built.name = id
  BY <1>4
<1>. QED
  BY <1>7, <1>8, <1>10, <1>11, <1>12, <1>13

LEMMA SameListing ==
  ASSUME routes' = routes
  PROVE  Listed' = Listed
BY DEF Listed

(* What only the requests and the routes decide stays, when those do. *)
LEMMA RoutesStand ==
  ASSUME RoutesInv, UNCHANGED <<routes, default, job, meant, torn, renamed, unsynced>>
  PROVE  /\ JobsInOrder' /\ OverlapsAreTorn' /\ SavesAreAlone' /\ RoutesAreAsMeant' /\ DefaultIsFollowed'
         /\ SystemIsKept' /\ NamesDiffer' /\ FewRoutes'
<1>1. routes' = routes /\ job' = job /\ meant' = meant /\ default' = default
  OBVIOUS
<1>2. torn' = torn /\ unsynced' = unsynced
  OBVIOUS
<1>3. renamed' = renamed
  OBVIOUS
<1>4. Listed' = Listed
  BY <1>1, SameListing
<1>5. JobsInOrder' /\ DefaultIsFollowed' /\ SystemIsKept' /\ RoutesAreAsMeant'
  BY <1>1, <1>2 DEF RoutesInv, JobsInOrder, DefaultIsFollowed, SystemIsKept, RoutesAreAsMeant
<1>6. OverlapsAreTorn'
  BY <1>1, <1>2 DEF RoutesInv, OverlapsAreTorn, Working
<1>7. SavesAreAlone' /\ NamesDiffer'
  BY <1>1, <1>3, <1>4 DEF RoutesInv, SavesAreAlone, NamesDiffer
<1>8. FewRoutes'
  BY <1>4 DEF RoutesInv, FewRoutes
<1>. QED
  BY <1>5, <1>6, <1>7, <1>8

(* A save or a deletion is accepted: its PUT is in hand. *)
LEMMA PutBegins ==
  ASSUME RoutesInv, NEW a \in Admins, NEW id \in Ids, NEW new \in JobType,
         new.stage = "put", new.id = id, new.left = {},
         id \notin torn => AsMeant(new.body, new.means),
         id \in System => new.body # NoRoute /\ new.body.name = id,
         id \in Plain => new.body.name \notin System,
         new.body # NoRoute => \A other \in DOMAIN Listed \ {id} : new.body.name # Listed[other],
         job[a].stage = "idle", Begins(id), job' = [job EXCEPT ![a] = new],
         UNCHANGED <<routes, default, cacheVars, meant, unsynced, faults>>
  PROVE  RoutesInv'
<1>3. /\ OverlapsAreTorn' /\ SavesAreAlone'
      /\ torn \subseteq torn' /\ torn' \subseteq Ids /\ edits' \in Nat /\ renamed' \in BOOLEAN
      /\ ~renamed' => (~renamed /\ \A b \in Admins : job[b].id = NoId)
  BY Started
<1>4. /\ job' \in [Admins -> JobType]
      /\ \A b \in Admins : job'[b] = IF b = a THEN new ELSE job[b]
  BY DEF RoutesInv, RoutesTypes
<1>5. /\ routes' = routes /\ default' = default /\ meant' = meant /\ unsynced' = unsynced
      /\ cache' = cache /\ ticks' = ticks /\ faults' = faults
  BY DEF cacheVars
<1>6. missed' = missed
  BY DEF cacheVars
<1>7. Listed' = Listed
  BY <1>5, SameListing
<1>8. RoutesTypes'
  <2>1. missed' \in BOOLEAN
    BY <1>6 DEF RoutesInv, RoutesTypes
  <2>. QED
    BY <1>3, <1>4, <1>5, <2>1 DEF RoutesInv, RoutesTypes
<1>9. JobsInOrder'
  BY <1>4 DEF RoutesInv, JobsInOrder
<1>10. RoutesAreAsMeant'
  <2>. SUFFICES ASSUME NEW i \in Ids, i \notin torn'
                PROVE  /\ AsMeant(routes[i], meant[i])
                       /\ \A b \in Admins :
                            /\ job'[b].stage = "put" /\ job'[b].id = i => AsMeant(job'[b].body, job'[b].means)
                            /\ i \in job'[b].left => ~routes[i].own
    BY <1>5 DEF RoutesAreAsMeant, AsMeant
  <2>1. i \notin torn
    BY <1>3
  <2>2. /\ AsMeant(routes[i], meant[i])
        /\ \A b \in Admins :
             /\ job[b].stage = "put" /\ job[b].id = i => AsMeant(job[b].body, job[b].means)
             /\ i \in job[b].left => ~routes[i].own
    BY <2>1 DEF RoutesInv, RoutesAreAsMeant
  <2>. QED
    BY <1>4, <2>1, <2>2
<1>11. DefaultIsFollowed'
  BY <1>5 DEF RoutesInv, DefaultIsFollowed
<1>12. SystemIsKept'
  BY <1>4, <1>5 DEF RoutesInv, SystemIsKept
<1>13. NamesDiffer'
  <2>. SUFFICES ASSUME ~renamed'
                PROVE  /\ \A i, other \in DOMAIN Listed : Listed[i] = Listed[other] => i = other
                       /\ \A b \in Admins : job'[b].stage = "put" /\ job'[b].body # NoRoute =>
                            \A other \in DOMAIN Listed \ {job'[b].id} : job'[b].body.name # Listed[other]
    BY <1>7 DEF NamesDiffer
  <2>1. ~renamed
    BY <1>3
  <2>2. \A b \in Admins \ {a} : job[b].stage # "put"
    BY <1>3, RoutesConstants DEF RoutesInv, JobsInOrder
  <2>. QED
    BY <1>4, <2>1, <2>2 DEF RoutesInv, NamesDiffer
<1>14. CacheIsCurrent'
  <2>1. Fresh' = Fresh
    BY <1>5 DEF Fresh
  <2>2. (\A b \in Admins : job'[b].stage # "answer") => \A b \in Admins : job[b].stage # "answer"
    BY <1>4
  <2>. QED
    BY <1>5, <1>6, <1>7, <2>1, <2>2 DEF RoutesInv, CacheIsCurrent
<1>15. FewRoutes'
  BY <1>7 DEF RoutesInv, FewRoutes
<1>. QED
  BY <1>3, <1>8, <1>9, <1>10, <1>11, <1>12, <1>13, <1>14, <1>15 DEF RoutesInv

LEMMA RouteSaved ==
  ASSUME RoutesInv, NEW a \in Admins, NEW id \in Ids, NEW body \in Bodies, SaveRoute(a, id, body)
  PROVE  RoutesInv'
<1>. DEFINE built == Built(id, routes[id], body)
            means == Meaning(id, meant[id], body)
            new == [Quiet EXCEPT !.stage = "put", !.id = id, !.body = built, !.means = means]
<1>1. /\ built \in RouteType /\ built # NoRoute /\ means \in MeaningType
      /\ id \notin torn => AsMeant(built, means)
      /\ id \in System => built.name = id
      /\ id \in Plain => /\ built.name \notin System
                         /\ \A other \in DOMAIN Listed \ {id} : built.name \notin {other, Listed[other]}
  BY BuiltAsMeant DEF SaveRoute
<1>2. /\ job[a].stage = "idle" /\ Begins(id)
      /\ job' = [job EXCEPT ![a] = new]
      /\ UNCHANGED <<routes, default, cacheVars, meant, unsynced, faults>>
  BY DEF SaveRoute
<1>. HIDE DEF built, means
<1>4. /\ new \in JobType /\ new.stage = "put" /\ new.id = id /\ new.body = built /\ new.means = means
      /\ new.left = {}
  BY <1>1, RoutesConstants DEF Quiet, JobType
<1>. HIDE DEF new
<1>3. \A other \in DOMAIN Listed \ {id} : built.name # Listed[other]
  <2>1. CASE id \in Plain
    BY <1>1, <2>1
  <2>2. CASE id \in System
    <3>. SUFFICES ASSUME NEW other \in Ids, other # id, routes[other] # NoRoute
                  PROVE  built.name # routes[other].name
      BY DEF Listed
    <3>1. routes[other].name # id
      BY <2>2, RoutesConstants DEF RoutesInv, SystemIsKept
    <3>. QED
      BY <1>1, <2>2, <3>1
  <2>. QED
    BY <2>1, <2>2, RoutesConstants
<1>. QED
  BY <1>1, <1>2, <1>3, <1>4, PutBegins

LEMMA RouteDeleted ==
  ASSUME RoutesInv, NEW a \in Admins, NEW id \in Ids, DeleteRoute(a, id)
  PROVE  RoutesInv'
<1>. DEFINE new == [Quiet EXCEPT !.stage = "put", !.id = id]
<1>1. /\ job[a].stage = "idle" /\ id \in Plain /\ Begins(id)
      /\ UNCHANGED <<routes, default, cacheVars, meant, unsynced, faults>>
  BY DEF DeleteRoute
<1>2. job' = [job EXCEPT ![a] = new]
  BY DEF DeleteRoute
<1>5. /\ new \in JobType /\ new.stage = "put" /\ new.id = id /\ new.left = {}
      /\ new.body = NoRoute /\ new.means = NoMeaning
  BY RoutesConstants DEF Quiet, JobType
<1>. HIDE DEF new
<1>3. AsMeant(NoRoute, NoMeaning)
  BY DEF AsMeant
<1>4. NoRoute.name \notin System /\ id \notin System
  BY <1>1, RoutesConstants
<1>. QED
  BY <1>1, <1>2, <1>3, <1>4, <1>5, PutBegins

(* A request that is at work on a route nobody else works on, or that is   *)
(* done, hinders nobody.                                                   *)
LEMMA NobodyPatches ==
  ASSUME RoutesInv, NEW a \in Admins, job[a].stage = "put", job[a].id \notin torn, NEW b \in Admins
  PROVE  job[a].id \notin job[b].left
<1>1. job[a].id \in Ids
  BY DEF RoutesInv, JobsInOrder
<1>2. CASE job[b].stage = "patch"
  <2>1. job[b].id = NoId
    BY <1>2 DEF RoutesInv, JobsInOrder
  <2>2. a \in Working(job[a].id) /\ b \in Working(job[a].id)
    BY <1>2, <2>1 DEF Working
  <2>3. a = b
    BY <1>1, <2>2 DEF RoutesInv, OverlapsAreTorn
  <2>. QED
    BY <1>2, <2>3
<1>3. CASE job[b].stage # "patch"
  BY <1>3 DEF RoutesInv, JobsInOrder
<1>. QED
  BY <1>2, <1>3

(* The PUT reaches APISIX. *)
LEMMA PutApplied ==
  ASSUME RoutesInv, NEW a \in Admins, NEW new \in JobType, job[a].stage = "put",
         new.left = {}, new = Quiet \/ (new.stage = "answer" /\ new.id = job[a].id),
         new.stage = "answer" \/ missed', missed' \in BOOLEAN, faults' \in Nat,
         job' = [job EXCEPT ![a] = new],
         routes' = [routes EXCEPT ![job[a].id] = job[a].body],
         meant' = [meant EXCEPT ![job[a].id] = job[a].means],
         unsynced' = IF job[a].body.timeout = default THEN unsynced \ {job[a].id}
                                                       ELSE unsynced \cup {job[a].id},
         UNCHANGED <<default, cache, ticks, tallies>>
  PROVE  RoutesInv'
<1>. DEFINE id == job[a].id
            body == job[a].body
            means == job[a].means
<1>1. /\ id \in Ids /\ body \in RouteType /\ means \in MeaningType
      /\ job' \in [Admins -> JobType]
      /\ \A b \in Admins : job'[b] = IF b = a THEN new ELSE job[b]
  BY DEF RoutesInv, RoutesTypes, JobsInOrder, JobType
<1>. HIDE DEF id, body, means
<1>2. /\ routes' \in [Ids -> RouteType] /\ meant' \in [Ids -> MeaningType]
      /\ \A i \in Ids : routes'[i] = IF i = id THEN body ELSE routes[i]
      /\ \A i \in Ids : meant'[i] = IF i = id THEN means ELSE meant[i]
  BY <1>1 DEF RoutesInv, RoutesTypes, id, body, means
<1>3. unsynced' = IF body.timeout = default THEN unsynced \ {id} ELSE unsynced \cup {id}
  BY DEF id, body
<1>4. /\ default' = default /\ cache' = cache /\ ticks' = ticks /\ torn' = torn /\ edits' = edits
  BY DEF tallies
<1>5. renamed' = renamed
  BY DEF tallies
<1>6. RoutesTypes'
  <2>1. renamed' \in BOOLEAN
    BY <1>5 DEF RoutesInv, RoutesTypes
  <2>2. unsynced' \subseteq Ids
    BY <1>1, <1>3 DEF RoutesInv, RoutesTypes
  <2>. QED
    BY <1>1, <1>2, <1>4, <2>1, <2>2 DEF RoutesInv, RoutesTypes
<1>15. new.stage \in {"answer", "idle"}
  BY RoutesConstants
<1>7. JobsInOrder'
  BY <1>1, RoutesConstants DEF RoutesInv, JobsInOrder, id
<1>8. OverlapsAreTorn' /\ SavesAreAlone'
  <2>1. UNCHANGED <<torn, renamed>>
    BY DEF tallies
  <2>. QED
    BY <2>1, WentOn
<1>9. RoutesAreAsMeant'
  <2>. SUFFICES ASSUME NEW i \in Ids, i \notin torn
                PROVE  /\ AsMeant(routes'[i], meant'[i])
                       /\ \A b \in Admins :
                            /\ job'[b].stage = "put" /\ job'[b].id = i => AsMeant(job'[b].body, job'[b].means)
                            /\ i \in job'[b].left => ~routes'[i].own
    BY <1>4 DEF RoutesAreAsMeant, AsMeant
  <2>1. /\ AsMeant(routes[i], meant[i])
        /\ \A b \in Admins :
             /\ job[b].stage = "put" /\ job[b].id = i => AsMeant(job[b].body, job[b].means)
             /\ i \in job[b].left => ~routes[i].own
    BY DEF RoutesInv, RoutesAreAsMeant
  <2>2. AsMeant(routes'[i], meant'[i])
    BY <1>2, <2>1 DEF id, body, means
  <2>3. \A b \in Admins : job'[b].stage = "put" /\ job'[b].id = i => AsMeant(job'[b].body, job'[b].means)
    BY <1>1, <1>15, <2>1
  <2>4. \A b \in Admins : i \in job'[b].left => ~routes'[i].own
    <3>1. CASE i = id
      <4>1. \A b \in Admins : i \notin job[b].left
        BY <3>1, NobodyPatches DEF id
      <4>. QED
        BY <1>1, <4>1
    <3>2. CASE i # id
      BY <1>1, <1>2, <2>1, <3>2
    <3>. QED
      BY <3>1, <3>2
  <2>. QED
    BY <2>2, <2>3, <2>4
<1>10. DefaultIsFollowed'
  <2>. SUFFICES ASSUME NEW i \in Plain, i \notin unsynced', routes'[i] # NoRoute, ~routes'[i].own
                PROVE  routes'[i].timeout = default
    BY <1>4 DEF DefaultIsFollowed
  <2>1. CASE i = id
    BY <1>2, <1>3, <2>1, RoutesConstants
  <2>2. CASE i # id
    BY <1>2, <1>3, <2>2, RoutesConstants DEF RoutesInv, DefaultIsFollowed
  <2>. QED
    BY <2>1, <2>2
<1>11. SystemIsKept'
  <2>1. /\ id \in System => body # NoRoute /\ body.name = id
        /\ id \in Plain => body.name \notin System
    BY DEF RoutesInv, SystemIsKept, id, body
  <2>2. \A b \in Admins : job'[b].stage = "put" => job'[b] = job[b]
    BY <1>1, <1>15
  <2>. QED
    BY <1>2, <2>1, <2>2, RoutesConstants DEF RoutesInv, SystemIsKept
<1>12. NamesDiffer'
  <2>. SUFFICES ASSUME ~renamed
                PROVE  /\ \A i, other \in DOMAIN Listed' : Listed'[i] = Listed'[other] => i = other
                       /\ \A b \in Admins : job'[b].stage # "put"
    BY <1>5 DEF NamesDiffer
  <2>1. \A b \in Admins \ {a} : job[b].stage # "put"
    <3>1. \A b \in Admins : job[b].stage = "put" => job[b].id # NoId
      BY RoutesConstants DEF RoutesInv, JobsInOrder
    <3>. QED
      BY <3>1 DEF RoutesInv, SavesAreAlone
  <2>2. \A b \in Admins : job'[b].stage # "put"
    BY <1>1, <1>15, <2>1
  <2>3. /\ \A i, other \in DOMAIN Listed : Listed[i] = Listed[other] => i = other
        /\ body # NoRoute => \A other \in DOMAIN Listed \ {id} : body.name # Listed[other]
    BY DEF RoutesInv, NamesDiffer, id, body
  <2>4. \A i \in DOMAIN Listed' : i # id => i \in DOMAIN Listed /\ Listed'[i] = Listed[i]
    BY <1>2 DEF Listed
  <2>7. id \in DOMAIN Listed' => body # NoRoute /\ Listed'[id] = body.name
    BY <1>2 DEF Listed
  <2>6. \A i, other \in DOMAIN Listed' : Listed'[i] = Listed'[other] => i = other
    <3>. SUFFICES ASSUME NEW i \in DOMAIN Listed', NEW other \in DOMAIN Listed', Listed'[i] = Listed'[other]
                  PROVE  i = other
      OBVIOUS
    <3>1. CASE i = id /\ other # id
      <4>1. body.name = Listed[other] /\ other \in DOMAIN Listed \ {id} /\ body # NoRoute
        BY <2>4, <2>7, <3>1
      <4>. QED
        BY <2>3, <4>1
    <3>2. CASE i # id /\ other = id
      <4>1. body.name = Listed[i] /\ i \in DOMAIN Listed \ {id} /\ body # NoRoute
        BY <2>4, <2>7, <3>2
      <4>. QED
        BY <2>3, <4>1
    <3>3. CASE i # id /\ other # id
      <4>1. i \in DOMAIN Listed /\ other \in DOMAIN Listed /\ Listed[i] = Listed[other]
        BY <2>4, <3>3
      <4>. QED
        BY <2>3, <4>1
    <3>. QED
      BY <3>1, <3>2, <3>3
  <2>. QED
    BY <2>2, <2>6
<1>13. CacheIsCurrent'
  <2>1. CASE new.stage = "answer"
    <3>1. job'[a].stage = "answer"
      BY <1>1, <2>1
    <3>. QED
      BY <3>1 DEF CacheIsCurrent
  <2>2. CASE new.stage # "answer"
    BY <2>2 DEF CacheIsCurrent
  <2>. QED
    BY <2>1, <2>2
<1>14. FewRoutes'
  <2>1. DOMAIN Listed' \subseteq DOMAIN Listed \cup {id}
    BY <1>2 DEF Listed
  <2>2. IsFiniteSet(DOMAIN Listed \cup {id})
    BY FS_AddElement DEF RoutesInv, FewRoutes
  <2>. QED
    BY <2>1, <2>2, FS_Subset DEF FewRoutes
<1>. QED
  BY <1>6, <1>7, <1>8, <1>9, <1>10, <1>11, <1>12, <1>13, <1>14 DEF RoutesInv

(* A request moves on without a change of the routes. *)
LEMMA OnlyTheJob ==
  ASSUME RoutesInv, NEW a \in Admins, NEW new \in JobType, job[a].stage # "idle",
         new.stage = "answer" => job[a].stage = "answer", new.stage # "put",
         new.stage \in {"idle", "list", "patch"} => new.id = NoId,
         new.stage = "answer" => new.id \in Ids,
         new = Quiet \/ new.id = job[a].id,
         new.stage # "patch" => new.left = {},
         \A i \in new.left \ torn : ~routes[i].own,
         job' = [job EXCEPT ![a] = new], faults' \in Nat,
         UNCHANGED <<routes, default, meant, tallies, unsynced, ticks, missed>>,
         \/ cache' = cache /\ job[a].stage # "answer"
         \/ cache' = NoListing
  PROVE  RoutesInv'
<1>1. /\ job' \in [Admins -> JobType]
      /\ \A b \in Admins : job'[b] = IF b = a THEN new ELSE job[b]
  BY DEF RoutesInv, RoutesTypes
<1>2. /\ routes' = routes /\ default' = default /\ meant' = meant /\ unsynced' = unsynced
      /\ ticks' = ticks /\ torn' = torn /\ edits' = edits
  BY DEF tallies
<1>3. renamed' = renamed
  BY DEF tallies
<1>4. missed' = missed
  OBVIOUS
<1>5. Listed' = Listed
  BY <1>2, SameListing
<1>6. RoutesTypes'
  <2>1. renamed' \in BOOLEAN /\ missed' \in BOOLEAN
    BY <1>3, <1>4 DEF RoutesInv, RoutesTypes
  <2>2. cache' = [names |-> cache'.names, at |-> cache'.at] /\ cache'.at \in Int
    BY DEF NoListing, RoutesInv, RoutesTypes
  <2>. QED
    BY <1>1, <1>2, <2>1, <2>2 DEF RoutesInv, RoutesTypes
<1>7. JobsInOrder'
  BY <1>1, RoutesConstants DEF RoutesInv, JobsInOrder
<1>8. OverlapsAreTorn' /\ SavesAreAlone'
  <2>1. UNCHANGED <<torn, renamed>>
    BY DEF tallies
  <2>. QED
    BY <2>1, WentOn
<1>9. RoutesAreAsMeant'
  <2>. SUFFICES ASSUME NEW i \in Ids, i \notin torn
                PROVE  /\ AsMeant(routes[i], meant[i])
                       /\ \A b \in Admins :
                            /\ job'[b].stage = "put" /\ job'[b].id = i => AsMeant(job'[b].body, job'[b].means)
                            /\ i \in job'[b].left => ~routes[i].own
    BY <1>2 DEF RoutesAreAsMeant, AsMeant
  <2>1. /\ AsMeant(routes[i], meant[i])
        /\ \A b \in Admins :
             /\ job[b].stage = "put" /\ job[b].id = i => AsMeant(job[b].body, job[b].means)
             /\ i \in job[b].left => ~routes[i].own
    BY DEF RoutesInv, RoutesAreAsMeant
  <2>. QED
    BY <1>1, <2>1
<1>10. DefaultIsFollowed' /\ FewRoutes'
  BY <1>2, <1>5 DEF RoutesInv, DefaultIsFollowed, FewRoutes
<1>11. SystemIsKept'
  <2>1. \A b \in Admins : job'[b].stage = "put" => job'[b] = job[b]
    BY <1>1
  <2>. QED
    BY <1>2, <2>1 DEF RoutesInv, SystemIsKept
<1>12. NamesDiffer'
  <2>1. \A b \in Admins : job'[b].stage = "put" => job'[b] = job[b]
    BY <1>1
  <2>. SUFFICES ASSUME ~renamed
                PROVE  /\ \A i, other \in DOMAIN Listed : Listed[i] = Listed[other] => i = other
                       /\ \A b \in Admins : job'[b].stage = "put" /\ job'[b].body # NoRoute =>
                            \A other \in DOMAIN Listed \ {job'[b].id} : job'[b].body.name # Listed[other]
    BY <1>3, <1>5 DEF NamesDiffer
  <2>. QED
    BY <2>1 DEF RoutesInv, NamesDiffer
<1>13. CacheIsCurrent'
  <2>1. CASE cache' = NoListing
    <3>1. ~Fresh'
      BY <2>1 DEF Fresh, NoListing
    <3>. QED
      BY <3>1 DEF CacheIsCurrent
  <2>2. CASE cache' = cache /\ job[a].stage # "answer"
    <3>1. Fresh' = Fresh
      BY <1>2, <2>2 DEF Fresh
    <3>2. (\A b \in Admins : job'[b].stage # "answer") => \A b \in Admins : job[b].stage # "answer"
      BY <1>1, <2>2
    <3>. QED
      BY <1>4, <1>5, <2>2, <3>1, <3>2 DEF RoutesInv, CacheIsCurrent
  <2>. QED
    BY <2>1, <2>2
<1>. QED
  BY <1>6, <1>7, <1>8, <1>9, <1>10, <1>11, <1>12, <1>13 DEF RoutesInv

LEMMA RoutePut ==
  ASSUME RoutesInv, NEW a \in Admins, PutRoute(a)
  PROVE  RoutesInv'
<1>1. job[a].stage = "put" /\ UNCHANGED <<default, cache, fetch, ticks, tallies>>
  BY DEF PutRoute
<1>2. PICK applied \in BOOLEAN, answered \in BOOLEAN :
        /\ answered => applied
        /\ IF answered THEN UNCHANGED faults ELSE Fault
        /\ job' = [job EXCEPT ![a] = IF answered THEN [@ EXCEPT !.stage = "answer"] ELSE Quiet]
        /\ missed' = (missed \/ (applied /\ ~answered))
        /\ IF applied
           THEN /\ routes' = [routes EXCEPT ![job[a].id] = job[a].body]
                /\ meant' = [meant EXCEPT ![job[a].id] = job[a].means]
                /\ unsynced' = IF job[a].body.timeout = default THEN unsynced \ {job[a].id}
                                                                ELSE unsynced \cup {job[a].id}
           ELSE UNCHANGED <<routes, meant, unsynced>>
  BY DEF PutRoute
<1>3. job[a] \in JobType /\ job[a].id \in Ids /\ job[a].left = {}
  BY <1>1 DEF RoutesInv, RoutesTypes, JobsInOrder
<1>4. faults' \in Nat
  <2>1. faults \in Nat
    BY DEF RoutesInv, RoutesTypes
  <2>2. CASE answered
    BY <1>2, <2>1, <2>2
  <2>3. CASE ~answered
    BY <1>2, <2>1, <2>3 DEF Fault
  <2>. QED
    BY <2>2, <2>3
<1>5. missed' \in BOOLEAN
  BY <1>2
<1>6. CASE answered
  <2>. DEFINE new == [job[a] EXCEPT !.stage = "answer"]
  <2>1. /\ new \in JobType /\ new.stage = "answer" /\ new.id = job[a].id /\ new.left = {}
    BY <1>3 DEF JobType
  <2>2. job' = [job EXCEPT ![a] = new]
    BY <1>2, <1>6
  <2>. HIDE DEF new
  <2>3. applied
    BY <1>2, <1>6
  <2>. QED
    BY <1>1, <1>2, <1>4, <1>5, <2>1, <2>2, <2>3, PutApplied
<1>7. CASE ~answered /\ applied
  <2>1. job' = [job EXCEPT ![a] = Quiet] /\ missed'
    BY <1>2, <1>7
  <2>. QED
    BY <1>1, <1>2, <1>4, <1>5, <1>7, <2>1, RoutesConstants, PutApplied
<1>8. CASE ~answered /\ ~applied
  <2>1. job' = [job EXCEPT ![a] = Quiet] /\ UNCHANGED <<routes, meant, unsynced>>
    BY <1>2, <1>8
  <2>2. missed' = missed
    <3>1. missed \in BOOLEAN
      BY DEF RoutesInv, RoutesTypes
    <3>. QED
      BY <1>2, <1>8, <3>1
  <2>. QED
    BY <1>1, <1>4, <2>1, <2>2, RoutesConstants, OnlyTheJob
<1>. QED
  BY <1>6, <1>7, <1>8

LEMMA RouteAnswered ==
  ASSUME RoutesInv, NEW a \in Admins, AnsweredRoute(a)
  PROVE  RoutesInv'
<1>1. /\ job[a].stage = "answer" /\ job' = [job EXCEPT ![a] = Quiet] /\ cache' = NoListing
      /\ UNCHANGED <<routes, default, fetch, ticks, missed, meant, tallies, unsynced, faults>>
  BY DEF AnsweredRoute, Invalidated
<1>2. faults' \in Nat
  BY <1>1 DEF RoutesInv, RoutesTypes
<1>. QED
  BY <1>1, <1>2, RoutesConstants, OnlyTheJob

(* Another default: the routes it reaches are those that have no timeout   *)
(* of their own.                                                           *)
LEMMA DefaultChanged ==
  ASSUME RoutesInv, NEW a \in Admins, NEW seconds \in Defaults, ChangeDefault(a, seconds)
  PROVE  RoutesInv'
<1>. DEFINE new == [Quiet EXCEPT !.stage = "list"]
<1>1. /\ job[a].stage = "idle" /\ Begins(NoId) /\ job' = [job EXCEPT ![a] = new]
      /\ default' = seconds
      /\ unsynced' = {id \in Plain : ~routes[id].own /\ routes[id].timeout # seconds}
      /\ UNCHANGED <<routes, cacheVars, meant, faults>>
  BY DEF ChangeDefault
<1>2. new \in JobType /\ new.stage = "list" /\ new.id = NoId /\ new.left = {}
  BY RoutesConstants DEF Quiet, JobType
<1>. HIDE DEF new
<1>3. /\ OverlapsAreTorn' /\ SavesAreAlone'
      /\ torn \subseteq torn' /\ torn' \subseteq Ids /\ edits' \in Nat /\ renamed' \in BOOLEAN
      /\ ~renamed' => (~renamed /\ \A b \in Admins : job[b].id = NoId)
  BY <1>1, <1>2, Started
<1>4. /\ job' \in [Admins -> JobType]
      /\ \A b \in Admins : job'[b] = IF b = a THEN new ELSE job[b]
  BY <1>1, <1>2 DEF RoutesInv, RoutesTypes
<1>5. /\ routes' = routes /\ meant' = meant /\ cache' = cache /\ ticks' = ticks /\ faults' = faults
  BY <1>1 DEF cacheVars
<1>6. missed' = missed
  BY <1>1 DEF cacheVars
<1>7. Listed' = Listed
  BY <1>5, SameListing
<1>8. RoutesTypes'
  <2>1. missed' \in BOOLEAN
    BY <1>6 DEF RoutesInv, RoutesTypes
  <2>2. unsynced' \subseteq Ids
    BY <1>1, RoutesConstants
  <2>. QED
    BY <1>1, <1>3, <1>4, <1>5, <2>1, <2>2 DEF RoutesInv, RoutesTypes
<1>9. JobsInOrder'
  BY <1>2, <1>4 DEF RoutesInv, JobsInOrder
<1>10. \A b \in Admins : job'[b].stage = "put" => job'[b] = job[b]
  BY <1>2, <1>4
<1>11. RoutesAreAsMeant'
  <2>. SUFFICES ASSUME NEW i \in Ids, i \notin torn'
                PROVE  /\ AsMeant(routes[i], meant[i])
                       /\ \A b \in Admins :
                            /\ job'[b].stage = "put" /\ job'[b].id = i => AsMeant(job'[b].body, job'[b].means)
                            /\ i \in job'[b].left => ~routes[i].own
    BY <1>5 DEF RoutesAreAsMeant, AsMeant
  <2>1. i \notin torn
    BY <1>3
  <2>2. /\ AsMeant(routes[i], meant[i])
        /\ \A b \in Admins :
             /\ job[b].stage = "put" /\ job[b].id = i => AsMeant(job[b].body, job[b].means)
             /\ i \in job[b].left => ~routes[i].own
    BY <2>1 DEF RoutesInv, RoutesAreAsMeant
  <2>. QED
    BY <1>2, <1>4, <2>2
<1>12. DefaultIsFollowed'
  <2>. SUFFICES ASSUME NEW i \in Plain, i \notin unsynced', ~routes[i].own
                PROVE  routes[i].timeout = seconds
    BY <1>1, <1>5 DEF DefaultIsFollowed
  <2>. QED
    BY <1>1
<1>13. SystemIsKept'
  BY <1>5, <1>10 DEF RoutesInv, SystemIsKept
<1>14. NamesDiffer'
  <2>. SUFFICES ASSUME ~renamed
                PROVE  /\ \A i, other \in DOMAIN Listed : Listed[i] = Listed[other] => i = other
                       /\ \A b \in Admins : job'[b].stage = "put" /\ job'[b].body # NoRoute =>
                            \A other \in DOMAIN Listed \ {job'[b].id} : job'[b].body.name # Listed[other]
    BY <1>3, <1>7 DEF NamesDiffer
  <2>. QED
    BY <1>10 DEF RoutesInv, NamesDiffer
<1>15. CacheIsCurrent'
  <2>1. Fresh' = Fresh
    BY <1>5 DEF Fresh
  <2>2. (\A b \in Admins : job'[b].stage # "answer") => \A b \in Admins : job[b].stage # "answer"
    BY <1>1, <1>4
  <2>. QED
    BY <1>5, <1>6, <1>7, <2>1, <2>2 DEF RoutesInv, CacheIsCurrent
<1>16. FewRoutes'
  BY <1>7 DEF RoutesInv, FewRoutes
<1>. QED
  BY <1>3, <1>8, <1>9, <1>11, <1>12, <1>13, <1>14, <1>15, <1>16 DEF RoutesInv

LEMMA DefaultListed ==
  ASSUME RoutesInv, NEW a \in Admins, ListForDefault(a)
  PROVE  RoutesInv'
<1>1. /\ job[a].stage = "list"
      /\ UNCHANGED <<routes, default, cacheVars, meant, tallies, unsynced>>
  BY DEF ListForDefault
<1>2. /\ job[a] \in JobType /\ job[a].id = NoId /\ faults \in Nat
  BY <1>1 DEF RoutesInv, RoutesTypes, JobsInOrder
<1>3. cache' = cache /\ ticks' = ticks
  BY <1>1 DEF cacheVars
<1>4. missed' = missed
  BY <1>1 DEF cacheVars
<1>5. ASSUME UNCHANGED faults,
             job' = [job EXCEPT ![a] = [@ EXCEPT !.stage = "patch",
               !.left = {id \in Plain : routes[id] # NoRoute /\ ~routes[id].own /\ routes[id].timeout # default}]]
      PROVE  RoutesInv'
  <2>. DEFINE left == {id \in Plain : routes[id] # NoRoute /\ ~routes[id].own /\ routes[id].timeout # default}
              new == [job[a] EXCEPT !.stage = "patch", !.left = left]
  <2>1. \A i \in left : ~routes[i].own
    OBVIOUS
  <2>2. left \subseteq Plain
    OBVIOUS
  <2>3. job' = [job EXCEPT ![a] = new]
    BY <1>5
  <2>. HIDE DEF left
  <2>4. /\ new \in JobType /\ new.stage = "patch" /\ new.id = NoId /\ new.left = left
    BY <1>2, <2>2 DEF JobType
  <2>. HIDE DEF new
  <2>5. faults' \in Nat
    BY <1>2, <1>5
  <2>. QED
    BY <1>1, <1>2, <1>3, <1>4, <2>1, <2>3, <2>4, <2>5, OnlyTheJob
<1>6. ASSUME Fault, job' = [job EXCEPT ![a] = Quiet]
      PROVE  RoutesInv'
  <2>1. faults' \in Nat
    BY <1>2, <1>6 DEF Fault
  <2>. QED
    BY <1>1, <1>3, <1>4, <1>6, <2>1, RoutesConstants, OnlyTheJob
<1>. QED
  BY <1>5, <1>6 DEF ListForDefault

(* A PATCH reaches a route or not: it changes no name, and nothing that    *)
(* somebody asked for, unless their edits have overlapped.                 *)
LEMMA TimeoutPatched ==
  ASSUME RoutesInv, NEW a \in Admins, NEW id \in Ids, PatchTimeout(a, id)
  PROVE  RoutesInv'
<1>. DEFINE new == [job[a] EXCEPT !.left = job[a].left \ {id}]
<1>1. /\ job[a].stage = "patch" /\ id \in job[a].left /\ job' = [job EXCEPT ![a] = new]
      /\ UNCHANGED <<default, cacheVars, meant, tallies>>
  BY DEF PatchTimeout
<1>2. /\ job[a] \in JobType /\ job[a].id = NoId /\ faults \in Nat /\ default \in Nat \ {0}
      /\ routes[id] \in RouteType
  BY <1>1, RoutesConstants DEF RoutesInv, RoutesTypes, JobsInOrder
<1>3. /\ new \in JobType /\ new.stage = "patch" /\ new.id = NoId /\ new.left \subseteq job[a].left
  BY <1>1, <1>2 DEF JobType
<1>. HIDE DEF new
<1>4. cache' = cache /\ ticks' = ticks /\ default' = default /\ meant' = meant
  BY <1>1 DEF cacheVars
<1>5. missed' = missed
  BY <1>1 DEF cacheVars
<1>6. \A i \in new.left \ torn : ~routes[i].own
  BY <1>2, <1>3, RoutesConstants DEF RoutesInv, RoutesAreAsMeant, JobType
<1>7. ASSUME Fault, UNCHANGED <<routes, unsynced>>
      PROVE  RoutesInv'
  <2>1. faults' \in Nat
    BY <1>2, <1>7 DEF Fault
  <2>. QED
    BY <1>1, <1>2, <1>3, <1>4, <1>5, <1>6, <1>7, <2>1, OnlyTheJob
<1>8. ASSUME UNCHANGED faults, unsynced' = unsynced \ {id},
             IF routes[id] = NoRoute THEN UNCHANGED routes ELSE routes' = [routes EXCEPT ![id].timeout = default]
      PROVE  RoutesInv'
  <2>1. /\ job' \in [Admins -> JobType]
        /\ \A b \in Admins : job'[b] = IF b = a THEN new ELSE job[b]
    BY <1>1, <1>3 DEF RoutesInv, RoutesTypes
  <2>2. /\ routes'[id] \in RouteType
        /\ routes'[id].name = routes[id].name /\ routes'[id].key = routes[id].key
        /\ routes' \in [Ids -> RouteType]
        /\ \A i \in Ids \ {id} : routes'[i] = routes[i]
        /\ routes'[id] = NoRoute <=> routes[id] = NoRoute
        /\ routes'[id] = NoRoute \/ routes'[id].timeout = default
    <3>1. CASE routes[id] = NoRoute
      BY <1>2, <1>8, <3>1 DEF RoutesInv, RoutesTypes
    <3>2. CASE routes[id] # NoRoute
      <4>. DEFINE patched == [routes[id] EXCEPT !.timeout = default]
      <4>1. /\ patched \in RouteType /\ patched.timeout = default
            /\ patched.name = routes[id].name /\ patched.key = routes[id].key
        BY <1>2 DEF RouteType
      <4>2. routes' = [routes EXCEPT ![id] = patched]
        BY <1>8, <3>2
      <4>. HIDE DEF patched
      <4>3. patched # NoRoute
        BY <1>2, <4>1, RoutesConstants
      <4>. QED
        BY <3>2, <4>1, <4>2, <4>3 DEF RoutesInv, RoutesTypes
    <3>. QED
      BY <3>1, <3>2
  <2>3. routes'[id].auth = routes[id].auth /\ routes'[id].own = routes[id].own
    <3>1. CASE routes[id] = NoRoute
      BY <1>8, <3>1
    <3>2. CASE routes[id] # NoRoute
      <4>1. routes' = [routes EXCEPT ![id] = [routes[id] EXCEPT !.timeout = default]]
        BY <1>8, <3>2
      <4>. QED
        BY <1>2, <4>1 DEF RoutesInv, RoutesTypes, RouteType
    <3>. QED
      BY <3>1, <3>2
  <2>4. torn' = torn /\ edits' = edits
    BY <1>1 DEF tallies
  <2>5. renamed' = renamed
    BY <1>1 DEF tallies
  <2>6. Listed' = Listed
    <3>1. \A i \in Ids : /\ routes'[i] = NoRoute <=> routes[i] = NoRoute
                         /\ routes'[i].name = routes[i].name
      BY <2>2
    <3>. QED
      BY <3>1 DEF Listed
  <2>7. RoutesTypes'
    <3>1. renamed' \in BOOLEAN /\ missed' \in BOOLEAN
      BY <1>5, <2>5 DEF RoutesInv, RoutesTypes
    <3>2. faults' \in Nat
      BY <1>2, <1>8
    <3>3. unsynced' \subseteq Ids
      BY <1>8 DEF RoutesInv, RoutesTypes
    <3>. QED
      BY <1>4, <2>1, <2>2, <2>4, <3>1, <3>2, <3>3 DEF RoutesInv, RoutesTypes
  <2>8. JobsInOrder'
    BY <1>3, <2>1 DEF RoutesInv, JobsInOrder
  <2>9. OverlapsAreTorn' /\ SavesAreAlone'
    <3>1. UNCHANGED <<torn, renamed>>
      BY <1>1 DEF tallies
    <3>. QED
      BY <1>1, <1>2, <1>3, <3>1, WentOn
  <2>10. RoutesAreAsMeant'
    <3>. SUFFICES ASSUME NEW i \in Ids, i \notin torn
                  PROVE  /\ AsMeant(routes'[i], meant[i])
                         /\ \A b \in Admins :
                              /\ job'[b].stage = "put" /\ job'[b].id = i => AsMeant(job'[b].body, job'[b].means)
                              /\ i \in job'[b].left => ~routes'[i].own
      BY <1>4, <2>4 DEF RoutesAreAsMeant, AsMeant
    <3>1. /\ AsMeant(routes[i], meant[i])
          /\ \A b \in Admins :
               /\ job[b].stage = "put" /\ job[b].id = i => AsMeant(job[b].body, job[b].means)
               /\ i \in job[b].left => ~routes[i].own
      BY DEF RoutesInv, RoutesAreAsMeant
    <3>2. AsMeant(routes'[i], meant[i])
      <4>1. CASE i # id
        BY <2>2, <3>1, <4>1
      <4>2. CASE i = id
        <5>1. ~routes[id].own
          BY <1>1, <3>1, <4>2
        <5>2. routes[id] # NoRoute =>
                /\ routes'[id].key = meant[id].key /\ routes'[id].auth = ~meant[id].open
                /\ routes'[id].own = (meant[id].timeout # 0)
          BY <2>2, <2>3, <3>1, <4>2 DEF AsMeant
        <5>3. ~routes'[id].own
          BY <2>3, <5>1
        <5>. QED
          BY <2>2, <3>1, <4>2, <5>2, <5>3 DEF AsMeant
      <4>. QED
        BY <4>1, <4>2
    <3>3. \A b \in Admins : i \in job'[b].left => ~routes'[i].own
      <4>1. \A b \in Admins : i \in job'[b].left => i \in job[b].left
        BY <1>3, <2>1
      <4>2. ~routes[i].own => ~routes'[i].own
        BY <2>2, <2>3
      <4>. QED
        BY <3>1, <4>1, <4>2
    <3>4. \A b \in Admins : job'[b].stage = "put" => job'[b] = job[b]
      BY <1>3, <2>1
    <3>. QED
      BY <3>1, <3>2, <3>3, <3>4
  <2>11. DefaultIsFollowed'
    <3>. SUFFICES ASSUME NEW i \in Plain, i \notin unsynced', routes'[i] # NoRoute, ~routes'[i].own
                  PROVE  routes'[i].timeout = default
      BY <1>4 DEF DefaultIsFollowed
    <3>1. CASE i = id
      BY <2>2, <3>1
    <3>2. CASE i # id
      <4>1. routes'[i] = routes[i] /\ i \notin unsynced
        BY <1>8, <2>2, <3>2, RoutesConstants
      <4>. QED
        BY <4>1 DEF RoutesInv, DefaultIsFollowed
    <3>. QED
      BY <3>1, <3>2
  <2>12. SystemIsKept'
    <3>1. \A b \in Admins : job'[b].stage = "put" => job'[b] = job[b]
      BY <1>3, <2>1
    <3>2. \A i \in Ids : /\ routes'[i] = NoRoute <=> routes[i] = NoRoute
                         /\ routes'[i].name = routes[i].name
      BY <2>2
    <3>. QED
      BY <3>1, <3>2, RoutesConstants DEF RoutesInv, SystemIsKept
  <2>13. NamesDiffer'
    <3>1. \A b \in Admins : job'[b].stage = "put" => job'[b] = job[b]
      BY <1>3, <2>1
    <3>. SUFFICES ASSUME ~renamed
                  PROVE  /\ \A i, other \in DOMAIN Listed : Listed[i] = Listed[other] => i = other
                         /\ \A b \in Admins : job'[b].stage = "put" /\ job'[b].body # NoRoute =>
                              \A other \in DOMAIN Listed \ {job'[b].id} : job'[b].body.name # Listed[other]
      BY <2>5, <2>6 DEF NamesDiffer
    <3>. QED
      BY <3>1 DEF RoutesInv, NamesDiffer
  <2>14. CacheIsCurrent'
    <3>1. Fresh' = Fresh
      BY <1>4 DEF Fresh
    <3>2. (\A b \in Admins : job'[b].stage # "answer") => \A b \in Admins : job[b].stage # "answer"
      BY <1>1, <2>1
    <3>. QED
      BY <1>4, <1>5, <2>6, <3>1, <3>2 DEF RoutesInv, CacheIsCurrent
  <2>15. FewRoutes'
    BY <2>6 DEF RoutesInv, FewRoutes
  <2>. QED
    BY <2>7, <2>8, <2>9, <2>10, <2>11, <2>12, <2>13, <2>14, <2>15 DEF RoutesInv
<1>. QED
  BY <1>7, <1>8 DEF PatchTimeout

LEMMA DefaultIsDone ==
  ASSUME RoutesInv, NEW a \in Admins, DefaultDone(a)
  PROVE  RoutesInv'
<1>1. /\ job[a].stage = "patch" /\ job' = [job EXCEPT ![a] = Quiet]
      /\ UNCHANGED <<routes, default, cacheVars, meant, tallies, unsynced, faults>>
  BY DEF DefaultDone
<1>2. cache' = cache /\ ticks' = ticks
  BY <1>1 DEF cacheVars
<1>3. missed' = missed
  BY <1>1 DEF cacheVars
<1>4. faults' \in Nat
  BY <1>1 DEF RoutesInv, RoutesTypes
<1>. QED
  BY <1>1, <1>2, <1>3, <1>4, RoutesConstants, OnlyTheJob

LEMMA CacheSteps ==
  ASSUME RoutesInv, FetchListing \/ KeepListing \/ TickListing
  PROVE  RoutesInv'
<1>1. UNCHANGED <<routes, default, job, meant, torn, renamed, unsynced>> /\ edits' = edits /\ faults' = faults
  BY DEF FetchListing, KeepListing, TickListing, tallies
<1>2. /\ JobsInOrder' /\ OverlapsAreTorn' /\ SavesAreAlone' /\ RoutesAreAsMeant' /\ DefaultIsFollowed'
      /\ SystemIsKept' /\ NamesDiffer' /\ FewRoutes'
  BY <1>1, RoutesStand
<1>3. Listed' = Listed
  BY <1>1, SameListing
<1>4. ticks \in Nat /\ cache.at \in Int /\ ListingTTL \in Nat
  BY RoutesAssumption DEF RoutesInv, RoutesTypes
<1>5. CASE FetchListing
  <2>1. ~Fresh /\ cache' = cache /\ ticks' = ticks
    BY <1>5 DEF FetchListing
  <2>2. missed' = FALSE
    BY <1>5 DEF FetchListing
  <2>3. RoutesTypes'
    BY <1>1, <2>1, <2>2 DEF RoutesInv, RoutesTypes
  <2>4. CacheIsCurrent'
    <3>1. ~Fresh'
      BY <2>1 DEF Fresh
    <3>. QED
      BY <3>1 DEF CacheIsCurrent
  <2>. QED
    BY <1>2, <2>3, <2>4 DEF RoutesInv
<1>6. CASE KeepListing
  <2>1. cache' = [names |-> fetch, at |-> ticks] /\ ticks' = ticks
    BY <1>6 DEF KeepListing
  <2>2. missed' = (missed \/ fetch # Listed)
    BY <1>6 DEF KeepListing
  <2>3. RoutesTypes'
    <3>1. missed' \in BOOLEAN
      BY <2>2
    <3>. QED
      BY <1>1, <1>4, <2>1, <3>1 DEF RoutesInv, RoutesTypes
  <2>4. CacheIsCurrent'
    <3>1. ~missed' => fetch = Listed
      BY <2>2
    <3>2. cache'.names = fetch
      BY <2>1
    <3>. QED
      BY <1>3, <3>1, <3>2 DEF CacheIsCurrent
  <2>. QED
    BY <1>2, <2>3, <2>4 DEF RoutesInv
<1>7. CASE TickListing
  <2>1. cache' = cache /\ ticks' = ticks + 1
    BY <1>7 DEF TickListing
  <2>2. missed' = missed
    BY <1>7 DEF TickListing
  <2>3. RoutesTypes'
    <3>1. missed' \in BOOLEAN
      BY <2>2 DEF RoutesInv, RoutesTypes
    <3>. QED
      BY <1>1, <1>4, <2>1, <3>1 DEF RoutesInv, RoutesTypes
  <2>4. CacheIsCurrent'
    <3>1. Fresh' => Fresh
      BY <1>4, <2>1 DEF Fresh
    <3>2. job' = job
      BY <1>1
    <3>. QED
      BY <1>3, <2>1, <2>2, <3>1, <3>2 DEF RoutesInv, CacheIsCurrent
  <2>. QED
    BY <1>2, <2>3, <2>4 DEF RoutesInv
<1>. QED
  BY <1>5, <1>6, <1>7

(* What a filter also matches, on a listing that is current: one route.    *)
LEMMA LabelsTakeInOne ==
  ASSUME IsFiniteSet(DOMAIN Listed), \A id \in DOMAIN Listed : Listed[id] \notin DOMAIN Listed \ {id},
         NEW label \in Names, NEW also \in AlsoMatched(Listed, label)
  PROVE  Cardinality(Owners(Listed, label) \cup Owners(Listed, also)) <= 1
<1>1. CASE label \in DOMAIN Listed
  <2>1. /\ also = Listed[label] /\ Listed[label] \notin DOMAIN Listed
        /\ Owners(Listed, Listed[label]) = {label}
    BY <1>1 DEF AlsoMatched
  <2>2. Owners(Listed, label) \subseteq {label}
    BY <1>1 DEF Owners
  <2>3. Owners(Listed, label) \cup Owners(Listed, also) = {label}
    BY <2>1, <2>2
  <2>4. Cardinality({label}) = 1
    BY FS_Singleton
  <2>. QED
    BY <2>3, <2>4
<1>2. CASE label \notin DOMAIN Listed
  <2>1. also \in Owners(Listed, label) /\ Cardinality(Owners(Listed, label)) = 1
    BY <1>2 DEF AlsoMatched
  <2>2. IsFiniteSet(Owners(Listed, label))
    BY FS_Subset DEF Owners
  <2>3. Owners(Listed, label) = {also}
    BY <2>1, <2>2, FS_Singleton
  <2>4. also \in DOMAIN Listed /\ Listed[also] = label
    BY <2>1 DEF Owners
  <2>5. Owners(Listed, also) = {}
    <3>. SUFFICES ASSUME NEW id \in DOMAIN Listed, Listed[id] = also PROVE FALSE
      BY DEF Owners
    <3>1. id = also
      BY <2>4
    <3>. QED
      BY <1>2, <2>4, <3>1
  <2>6. Owners(Listed, label) \cup Owners(Listed, also) = {also}
    BY <2>3, <2>5
  <2>7. Cardinality({also}) = 1
    BY FS_Singleton
  <2>. QED
    BY <2>6, <2>7
<1>. QED
  BY <1>1, <1>2

LEMMA RoutesHold == RoutesInv => RoutesAreKept
<1>. SUFFICES ASSUME RoutesInv PROVE RoutesAreKept
  OBVIOUS
<1>1. EditsAreKept
  <2>. SUFFICES ASSUME NEW id \in Ids, id \notin torn, routes[id] # NoRoute
                PROVE  /\ routes[id].key = meant[id].key
                       /\ routes[id].auth = ~meant[id].open
                       /\ routes[id].own = (meant[id].timeout # 0)
                       /\ IF routes[id].own THEN routes[id].timeout = meant[id].timeout
                          ELSE id \in Plain \ unsynced => routes[id].timeout = default
    BY DEF EditsAreKept
  <2>1. AsMeant(routes[id], meant[id])
    BY DEF RoutesInv, RoutesAreAsMeant
  <2>2. id \in Plain \ unsynced /\ ~routes[id].own => routes[id].timeout = default
    BY DEF RoutesInv, DefaultIsFollowed
  <2>3. /\ routes[id].key = meant[id].key
        /\ routes[id].auth = ~meant[id].open
        /\ routes[id].own = (meant[id].timeout # 0)
        /\ routes[id].own => routes[id].timeout = meant[id].timeout
    BY <2>1 DEF AsMeant
  <2>. QED
    BY <2>2, <2>3
<1>2. LabelsTellRoutesApart
  <2>1. ~renamed => \A id \in DOMAIN Listed, other \in DOMAIN Listed : Listed[id] = Listed[other] => id = other
    BY DEF RoutesInv, NamesDiffer
  <2>2. ASSUME Fresh, ~missed, \A a \in Admins : job[a].stage # "answer"
        PROVE  cache.names = Listed
    BY <2>2 DEF RoutesInv, CacheIsCurrent
  <2>3. IsFiniteSet(DOMAIN Listed)
    BY DEF RoutesInv, FewRoutes
  <2>4. (\A id \in DOMAIN Listed : Listed[id] \notin DOMAIN Listed \ {id}) =>
          \A label \in Names : \A also \in AlsoMatched(Listed, label) :
            Cardinality(Owners(Listed, label) \cup Owners(Listed, also)) <= 1
    BY <2>3, LabelsTakeInOne
  <2>. QED
    BY <2>1, <2>2, <2>4 DEF LabelsTellRoutesApart
<1>. QED
  BY <1>1, <1>2 DEF RoutesAreKept

LEMMA RoutesStart == RoutesInit => RoutesInv
<1>. SUFFICES ASSUME RoutesInit PROVE RoutesInv
  OBVIOUS
<1>1. /\ routes = [id \in Ids |-> IF id \in System THEN Provisioned(id) ELSE NoRoute]
      /\ default \in Defaults /\ job = [a \in Admins |-> Quiet] /\ cache = NoListing
      /\ ticks = 0 /\ meant = [id \in Ids |-> [NoMeaning EXCEPT !.key = routes[id].key]]
      /\ torn = {} /\ unsynced = {} /\ edits = 0 /\ faults = 0
  BY DEF RoutesInit
<1>2. renamed = FALSE /\ missed = FALSE
  BY DEF RoutesInit
<1>3. \A id \in Ids : /\ Provisioned(id) \in RouteType /\ Provisioned(id).name = id /\ Provisioned(id).key = 1
                      /\ Provisioned(id).auth = TRUE /\ Provisioned(id).own = FALSE
                      /\ Provisioned(id) # NoRoute
  BY RoutesConstants DEF Provisioned, RouteType, NoRoute
<1>4. /\ routes \in [Ids -> RouteType]
      /\ \A id \in System : routes[id] = Provisioned(id) /\ id \in Ids
      /\ \A id \in Plain : routes[id] = NoRoute /\ id \in Ids
  BY <1>1, <1>3, RoutesConstants
<1>5. \A id \in Ids : /\ meant[id] \in MeaningType /\ meant[id].key = routes[id].key
                      /\ meant[id].timeout = 0 /\ meant[id].open = FALSE
  BY <1>1, <1>4 DEF NoMeaning, MeaningType, RouteType
<1>6. meant \in [Ids -> MeaningType]
  BY <1>1, <1>5
<1>7. job \in [Admins -> JobType] /\ \A a \in Admins : job[a] = Quiet
  BY <1>1, RoutesConstants
<1>8. RoutesTypes
  <2>1. cache = [names |-> cache.names, at |-> cache.at] /\ cache.at \in Int
    BY <1>1 DEF NoListing
  <2>. QED
    BY <1>1, <1>2, <1>4, <1>6, <1>7, <2>1 DEF RoutesTypes
<1>9. JobsInOrder /\ OverlapsAreTorn /\ SavesAreAlone
  BY <1>7, RoutesConstants DEF JobsInOrder, OverlapsAreTorn, SavesAreAlone, Working
<1>10. RoutesAreAsMeant
  <2>1. ASSUME NEW id \in Ids PROVE AsMeant(routes[id], meant[id])
    <3>1. CASE id \in System
      <4>1. routes[id].auth = TRUE /\ routes[id].own = FALSE /\ routes[id] # NoRoute
        BY <1>3, <1>4, <3>1
      <4>. QED
        BY <1>5, <4>1 DEF AsMeant
    <3>2. CASE id \in Plain
      <4>1. routes[id] = NoRoute /\ meant[id].key = 0
        BY <1>4, <1>5, <3>2, RoutesConstants
      <4>2. meant[id] = NoMeaning
        BY <1>5, <4>1 DEF NoMeaning, MeaningType
      <4>. QED
        BY <4>1, <4>2 DEF AsMeant
    <3>. QED
      BY <3>1, <3>2, RoutesConstants
  <2>. QED
    BY <1>7, <2>1, RoutesConstants DEF RoutesAreAsMeant
<1>11. DefaultIsFollowed
  BY <1>4 DEF DefaultIsFollowed
<1>12. SystemIsKept
  BY <1>3, <1>4, <1>7, RoutesConstants DEF SystemIsKept
<1>13. DOMAIN Listed = System /\ \A id \in System : Listed[id] = id
  BY <1>3, <1>4, RoutesConstants DEF Listed
<1>14. NamesDiffer
  BY <1>7, <1>13, RoutesConstants DEF NamesDiffer
<1>15. CacheIsCurrent
  BY <1>1 DEF CacheIsCurrent, Fresh, NoListing
<1>16. FewRoutes
  BY <1>13, RoutesAssumption DEF FewRoutes
<1>. QED
  BY <1>8, <1>9, <1>10, <1>11, <1>12, <1>14, <1>15, <1>16 DEF RoutesInv

(* What administrators save of a route is what it is, also when the        *)
(* default timeout changes beside it, unless edits of the route itself     *)
(* have overlapped; and the listing by which monitoring finds the name a   *)
(* route is counted under tells routes apart (routers/gateway.py).         *)
THEOREM RoutesAlwaysKept == RoutesSpec => []RoutesAreKept
<1>1. RoutesInit => RoutesInv
  BY RoutesStart
<1>2. RoutesInv /\ [RoutesNext]_routeVars => RoutesInv'
  <2>. SUFFICES ASSUME RoutesInv, [RoutesNext]_routeVars PROVE RoutesInv'
    OBVIOUS
  <2>1. CASE \E a \in Admins, id \in Ids, body \in Bodies : SaveRoute(a, id, body)
    BY <2>1, RouteSaved
  <2>2. CASE \E a \in Admins, id \in Ids : DeleteRoute(a, id)
    BY <2>2, RouteDeleted
  <2>3. CASE \E a \in Admins, id \in Ids : PatchTimeout(a, id)
    BY <2>3, TimeoutPatched
  <2>4. CASE \E a \in Admins, seconds \in Defaults : ChangeDefault(a, seconds)
    BY <2>4, DefaultChanged
  <2>5. CASE \E a \in Admins : PutRoute(a)
    BY <2>5, RoutePut
  <2>6. CASE \E a \in Admins : AnsweredRoute(a)
    BY <2>6, RouteAnswered
  <2>7. CASE \E a \in Admins : ListForDefault(a)
    BY <2>7, DefaultListed
  <2>8. CASE \E a \in Admins : DefaultDone(a)
    BY <2>8, DefaultIsDone
  <2>9. CASE FetchListing \/ KeepListing \/ TickListing
    BY <2>9, CacheSteps
  <2>10. CASE UNCHANGED routeVars
    <3>1. UNCHANGED <<routes, default, job, meant, torn, renamed, unsynced>>
      BY <2>10 DEF routeVars
    <3>2. cache' = cache /\ ticks' = ticks /\ edits' = edits /\ faults' = faults
      BY <2>10 DEF routeVars
    <3>3. missed' = missed
      BY <2>10 DEF routeVars
    <3>4. renamed' = renamed
      BY <2>10 DEF routeVars
    <3>5. RoutesTypes'
      <4>1. missed' \in BOOLEAN /\ renamed' \in BOOLEAN
        BY <3>3, <3>4 DEF RoutesInv, RoutesTypes
      <4>. QED
        BY <3>1, <3>2, <4>1 DEF RoutesInv, RoutesTypes
    <3>6. CacheIsCurrent'
      <4>1. Listed' = Listed /\ job' = job /\ Fresh' = Fresh
        BY <3>1, <3>2, SameListing DEF Fresh
      <4>. QED
        BY <3>2, <3>3, <4>1 DEF RoutesInv, CacheIsCurrent
    <3>. QED
      BY <3>1, <3>5, <3>6, RoutesStand DEF RoutesInv
  <2>. QED
    BY <2>1, <2>2, <2>3, <2>4, <2>5, <2>6, <2>7, <2>8, <2>9, <2>10 DEF RoutesNext
<1>3. RoutesInv => RoutesAreKept
  BY RoutesHold
<1>. QED
  BY <1>1, <1>2, <1>3, PTL DEF RoutesSpec
===============================================================================
