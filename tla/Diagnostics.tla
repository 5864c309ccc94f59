------------------------------ MODULE Diagnostics ------------------------------
(***************************************************************************)
(* The controller's verdict on the health of an entity: the standards it   *)
(* follows, and the diagnostics that observers are told                    *)
(* (src/controller/avdeccControllerImpl.cpp).                              *)
(*                                                                         *)
(* News of the device comes by three ways in one order: advertisements     *)
(* (ADP), answers to the enumeration, and unsolicited notifications, which *)
(* may be lost.  The discovery hands over an advertisement only when it    *)
(* differs from the last one of its interface, and with it the last of the *)
(* other interface.  An update that comes before the model was read        *)
(* changes nothing of the model.                                           *)
(*                                                                         *)
(* The enumeration is three rounds of questions here (module Enumeration   *)
(* has all of it), and an entity that has left does not come back.         *)
(***************************************************************************)
EXTENDS Integers, Sequences, FiniteSets

CONSTANTS
  Grandmasters, \* gPTP grandmasters that an interface may follow
  Counted,      \* what has a pair of counters: interfaces, streams, clock domains
  Settings,     \* what a device is, for as long as it runs
  None,         \* no grandmaster, no counter, no control
  Width,        \* values of a counter: 2^32
  MaxWire,      \* messages on their way from the device
  MaxChanges,   \* times the device changes
  MaxLosses     \* notifications that are lost, interfaces that fall silent

Interfaces == {"AvbInterface0", "AvbInterface1"}

ASSUME DiagnosticsAssumption ==
  /\ None \notin Grandmasters \cup (0..(Width - 1)) /\ Width \in Nat \ {0, 1}
  /\ Counted \subseteq Interfaces \cup {"ClockDomain", "StreamInput", "StreamOutput"}
  /\ {MaxWire, MaxChanges, MaxLosses} \subseteq Nat
  /\ \A s \in Settings : s.specification \in Nat /\ s.start \in 0..(Width - 1)

VARIABLES
  setting,  \* what the device is
  device,   \* what is true of the device now
  wire,     \* its messages on their way to the controller
  known,    \* grandmaster of each interface in the last ADP message, as the discovery keeps it
  entity,   \* the ControlledEntityImpl, and what its observers were last told
  losses,   \* notifications lost, interfaces fallen silent
  faults    \* what the device did against the standards

vars == <<setting, device, wire, known, entity, losses, faults>>

Values == {"allowed", "beyond", "malformed"}
Controls == DOMAIN setting.controls

NoEntity ==
  [status |-> "offline", asked |-> {}, adp |-> [i \in Interfaces |-> None], aem |-> [i \in Interfaces |-> None],
   counters |-> [u \in Counted |-> [more |-> None, less |-> None]], values |-> [c \in Controls |-> "allowed"],
   flags |-> {"IEEE17221"}, version |-> 0, specification |-> 0, redundant |-> FALSE, identify |-> None,
   links |-> [i \in Interfaces |-> "Unknown"], warning |-> FALSE, outside |-> {}, told |-> None]

\* What observers may ask of an entity, and are told of.
Health(e) ==
  [interfaces |-> {i \in Interfaces : e.adp[i] # None}, gptp |-> e.aem, counters |-> e.counters,
   values |-> e.values, compatibility |-> <<e.flags, e.version>>, links |-> e.links,
   diagnostics |-> <<e.warning, e.outside>>]

Modelled(e) == e.status \in {"modelled", "advertised"}

\* Observers are told, of an advertised entity only.
Notify(e, what) == IF e.status = "advertised" THEN [e EXCEPT !.told[what] = Health(e)[what]] ELSE e

NotifyIf(changed, e, what) == IF changed THEN Notify(e, what) ELSE e

-----------------------------------------------------------------------------
(* The standards that the entity follows                                     *)

AddCompatibilityFlag(e, flag) ==
  LET flags == CASE flag = "Milan" /\ "Misbehaving" \notin e.flags ->
                      e.flags \cup {"IEEE17221", "Milan"}
                        \cup (IF "IEEE17221Warning" \in e.flags THEN {"MilanWarning"} ELSE {})
                 [] flag = "IEEE17221Warning" /\ "IEEE17221" \in e.flags ->
                      e.flags \cup {"IEEE17221Warning"} \cup (IF "Milan" \in e.flags THEN {"MilanWarning"} ELSE {})
                 [] OTHER -> e.flags
  IN  NotifyIf(flags # e.flags, [e EXCEPT !.flags = flags], "compatibility")

SetMilanWarning(e) ==
  IF "Milan" \in e.flags
  THEN NotifyIf("MilanWarning" \notin e.flags, [e EXCEPT !.flags = @ \cup {"MilanWarning"}], "compatibility")
  ELSE e

\* Who does not follow IEEE 1722.1 does not follow Milan either.
RemoveCompatibilityFlag(e, flag) ==
  LET removed == [e EXCEPT !.flags = @ \ {flag, "Milan"}, !.version = IF "Milan" \in e.flags THEN 0 ELSE @]
  IN  NotifyIf(removed # e, removed, "compatibility")

SetMisbehaving(e) ==
  IF "Misbehaving" \in e.flags THEN e
  ELSE Notify([RemoveCompatibilityFlag(e, "IEEE17221") EXCEPT !.flags = @ \cup {"Misbehaving"}], "compatibility")

DecreaseMilanVersion(e, version) ==
  CASE version > e.version -> e
    [] version = 0 -> RemoveCompatibilityFlag(e, "Milan")
    [] OTHER -> NotifyIf(version # e.version, [e EXCEPT !.version = version], "compatibility")

\* onGetMilanInfoResult: version 0 is a device without Milan, whose refusal is expected.
MilanInfo(e, version) ==
  IF version = 0 THEN e
  ELSE [AddCompatibilityFlag(e, "Milan") EXCEPT !.version = IF version >= 13 THEN version ELSE 12,
                                                !.specification = version]

-----------------------------------------------------------------------------
(* Diagnostics                                                               *)

UpdateRedundancyWarning_ComparedLate(e, isWarning) ==
  LET updated == [e EXCEPT !.warning = isWarning]
  IN  NotifyIf(updated.warning # isWarning, updated, "diagnostics")


UpdateRedundancyWarning(e, isWarning) ==
  NotifyIf(e.warning # isWarning, [e EXCEPT !.warning = isWarning], "diagnostics")

\* Both interfaces of a redundant device must not follow the same grandmaster.
CheckRedundancyWarning(e) ==
  UpdateRedundancyWarning(e, /\ "Milan" \in e.flags /\ e.redundant
                             /\ e.aem["AvbInterface0"] = e.aem["AvbInterface1"])

UpdateOutOfBounds(e, c, isOutOfBounds) ==
  NotifyIf(isOutOfBounds # (c \in e.outside),
           [e EXCEPT !.outside = IF isOutOfBounds THEN @ \cup {c} ELSE @ \ {c}], "diagnostics")

UpdateLinkStatus(e, i, status) ==
  NotifyIf(e.links[i] # status, [e EXCEPT !.links[i] = status], "links")

CheckLinkStatus(e, i) ==
  LET pair == e.counters[i]
  IN  IF None \in {pair.more, pair.less} THEN e
      ELSE UpdateLinkStatus(e, i, IF pair.more = (pair.less + 1) % Width THEN "Up" ELSE "Down")

-----------------------------------------------------------------------------
(* Updates of the model                                                      *)

\* updateGptpInformation: the ADP information and the AvbInterface node follow what is newest.
UpdateGptp(e, i, gm) ==
  LET updated == [e EXCEPT !.adp[i] = IF @ = None THEN @ ELSE gm,
                           !.aem[i] = IF Modelled(e) THEN gm ELSE @]
  IN  NotifyIf(updated # e, CheckRedundancyWarning(updated), "gptp")

UpdateAvbInfo(e, i, gm) == IF Modelled(e) THEN UpdateGptp(e, i, gm) ELSE e

\* onGetAvbInfoResult, refused: what ADP said of the interface is forced onto the new node.
AvbInfoRefused(e, i) ==
  LET judged == DecreaseMilanVersion(e, 0)
  IN  IF e.adp[i] = None THEN judged ELSE UpdateGptp(judged, i, e.adp[i])

\* updateEntity: an advertisement, of all interfaces that the discovery knows.
UpdateEntity(e, interfaces) ==
  LET Changed(i) == interfaces[i] \notin {None, e.adp[i]}
      First == IF Changed("AvbInterface0") THEN UpdateGptp(e, "AvbInterface0", interfaces["AvbInterface0"]) ELSE e
      Both == IF Changed("AvbInterface1") THEN UpdateGptp(First, "AvbInterface1", interfaces["AvbInterface1"]) ELSE First
  IN  Notify([Both EXCEPT !.adp = interfaces], "interfaces")

\* The counters of a message that are valid, over those the node has.
Merged(old, news) ==
  [more |-> IF "more" \in news.valid THEN news.more ELSE old.more,
   less |-> IF "less" \in news.valid THEN news.less ELSE old.less]

Consistent_NoWrap(more, less) == more \in {less, less + 1}


\* Two counters of what alternates: LINK_UP and LINK_DOWN, LOCKED and UNLOCKED, START and STOP.
Consistent(more, less) == more \in {less, (less + 1) % Width}

OrZero(counter) == IF counter = None THEN 0 ELSE counter

\* updateAvbInterfaceCounters looks at the counters of the message, valid or not; the others
\* look at the node, where a counter that is missing is created.
UpdateInterfaceCounters(e, i, news) ==
  LET checked == CheckLinkStatus([e EXCEPT !.counters[i] = Merged(@, news)], i)
  IN  IF "Milan" \in e.flags /\ ~Consistent(news.more, news.less)
      THEN RemoveCompatibilityFlag(checked, "Milan") ELSE checked

UpdateOtherCounters(e, u, news) ==
  LET merged == Merged(e.counters[u], news)
      whole == [more |-> OrZero(merged.more), less |-> OrZero(merged.less)]
  IN  IF "Milan" \notin e.flags THEN [e EXCEPT !.counters[u] = merged]
      ELSE LET updated == [e EXCEPT !.counters[u] = IF u = "StreamOutput" THEN merged ELSE whole]
           IN  IF Consistent(whole.more, whole.less) THEN updated ELSE RemoveCompatibilityFlag(updated, "Milan")

UpdateCounters(e, news) ==
  IF ~Modelled(e) THEN e
  ELSE Notify(IF news.of \in Interfaces THEN UpdateInterfaceCounters(e, news.of, news)
              ELSE UpdateOtherCounters(e, news.of, news), "counters")

\* Answers of the enumeration must have the counters that Milan asks for.
CountersAnswered(e, news) ==
  UpdateCounters(IF "Milan" \in e.flags /\ news.valid # {"more", "less"}
                 THEN RemoveCompatibilityFlag(e, "Milan") ELSE e, news)

\* validateControlValues: what measures something may be out of its range.
ValuesVerdict(c, value) ==
  CASE value = "allowed" -> "Valid"
    [] value = "beyond" /\ setting.controls[c].type = "status" -> "CurrentValueOutOfRange"
    [] OTHER -> "InvalidValues"

ValuesJudged(e, c, value) ==
  UpdateOutOfBounds(IF ValuesVerdict(c, value) = "InvalidValues" THEN RemoveCompatibilityFlag(e, "IEEE17221") ELSE e,
                    c, ValuesVerdict(c, value) = "CurrentValueOutOfRange")

UpdateControlValues(e, c, value) ==
  IF Modelled(e) THEN Notify([ValuesJudged(e, c, value) EXCEPT !.values[c] = value], "values") ELSE e

\* validateMappings: a mapping of what the device does not have is left out, and tells of it.
ValidateMappings(e) == IF Modelled(e) THEN SetMisbehaving(e) ELSE e

-----------------------------------------------------------------------------
(* Validation of an entity that is fully enumerated                          *)

\* validateIdentifyControl
IsIdentify(c) == setting.controls[c].type = "identify"
ValidIdentify(e, c) == setting.controls[c].shape # "broken" /\ e.values[c] = "allowed"
AtTop(c) == setting.controls[c].level \in {"Configuration", "Jack"}

\* The control that ADP names is a valid identify control.
FoundIdentify(e) ==
  /\ setting.adpControl \in Controls
  /\ AtTop(setting.adpControl) /\ IsIdentify(setting.adpControl) /\ ValidIdentify(e, setting.adpControl)

ControlsAreStandard(e) ==
  /\ setting.adpControl = None \/ FoundIdentify(e)
  /\ \A c \in Controls : /\ IsIdentify(c) => AtTop(c) /\ setting.controls[c].shape = "proper" /\ ValidIdentify(e, c)
                         /\ ValuesVerdict(c, e.values[c]) # "InvalidValues"

ValidateControls(e) ==
  LET identifies == {c \in Controls : IsIdentify(c) /\ AtTop(c) /\ ValidIdentify(e, c)}
      judged == IF ControlsAreStandard(e) THEN e ELSE RemoveCompatibilityFlag(e, "IEEE17221")
  IN  [judged EXCEPT !.identify = IF FoundIdentify(e) THEN setting.adpControl
                                  ELSE IF identifies = {} THEN None
                                  ELSE CHOOSE c \in identifies : \A d \in identifies : c <= d,
                     !.outside = {c \in Controls : ValuesVerdict(c, e.values[c]) = "CurrentValueOutOfRange"}]

Streams == setting.inputs \cup setting.outputs

\* The second stream of a redundant pair is counted with the first.
HasRedundantStream == \E s \in Streams : ~s.first

ValidateRedundancy(e) ==
  IF "Milan" \notin e.flags THEN e
  ELSE [(IF HasRedundantStream # setting.redundancyBit THEN SetMilanWarning(e) ELSE e)
          EXCEPT !.redundant = HasRedundantStream]

Capable(streams, domain, format) == {s \in streams : s.first /\ s.domain = domain /\ format \in s.formats}

\* A media clock (CRF) for every clock domain of those who talk, or listen to two streams or more.
ClocksAreThere(domain) ==
  /\ /\ \E s \in setting.inputs : "Base" \in s.formats
     /\ Cardinality(Capable(setting.inputs, domain, "Base")) >= 2
     => /\ Capable(setting.inputs, domain, "CRF") # {}
        /\ Capable(setting.outputs, domain, "CRF") # {}
  /\ (\E s \in setting.outputs : "Base" \in s.formats) => Capable(setting.inputs, domain, "CRF") # {}

MilanModel(version) ==
  /\ \E s \in Streams : "Base" \in s.formats
  /\ ~\E s \in Streams : version >= 10 /\ {"Base", "CRF"} \subseteq s.formats
  /\ \A domain \in setting.domains : ClocksAreThere(domain)

\* No stream has a media clock format and an audio format since Milan 1.3.
ExclusiveFormats(version) == version >= 13 => ~\E s \in Streams : {"AAF", "CRF"} \subseteq s.formats

\* validateEntityModel: the Milan part is not reached when counts of other descriptors are declared.
ValidateModel(e) ==
  IF "nested" \in setting.counts THEN AddCompatibilityFlag(e, "IEEE17221Warning")
  ELSE LET numbered == IF setting.numbered THEN e ELSE RemoveCompatibilityFlag(e, "IEEE17221")
           exclusive == IF ExclusiveFormats(e.specification) THEN numbered ELSE DecreaseMilanVersion(numbered, 12)
       IN  IF "Milan" \notin numbered.flags THEN numbered
           ELSE IF MilanModel(e.specification) THEN exclusive ELSE RemoveCompatibilityFlag(exclusive, "Milan")

ValidateEntity_WarningFirst(e) ==
  LET validated == ValidateModel(ValidateRedundancy(ValidateControls(CheckRedundancyWarning(e))))
      Checked(f, i) == IF i \in Counted THEN CheckLinkStatus(f, i) ELSE f
  IN  Checked(Checked(validated, "AvbInterface0"), "AvbInterface1")


ValidateEntity(e) ==
  LET validated == ValidateModel(ValidateRedundancy(ValidateControls(e)))
      Checked(f, i) == IF i \in Counted THEN CheckLinkStatus(f, i) ELSE f
  IN  CheckRedundancyWarning(Checked(Checked(validated, "AvbInterface0"), "AvbInterface1"))

\* checkEnumerationSteps, nothing being asked any more.
Advertised(e) ==
  IF e.status = "modelled" /\ e.asked = {}
  THEN LET validated == ValidateEntity(e)
       IN  [validated EXCEPT !.status = "advertised", !.told = Health(validated)]
  ELSE e

-----------------------------------------------------------------------------
(* The device                                                                *)

DynamicQuestions == ({"gptp"} \X Interfaces) \cup ({"counters"} \X Counted)

Send(message) == Len(wire) < MaxWire /\ wire' = Append(wire, message)

Gptp(i) == [kind |-> "gptp", of |-> i, gm |-> device'.gm[i]]

CountersNews(u, valid) ==
  [kind |-> "counters", of |-> u, valid |-> valid,
   more |-> IF "more" \in valid THEN device'.counters[u].more ELSE 0,
   less |-> IF "less" \in valid THEN device'.counters[u].less ELSE 0]

Changes == /\ device.changes < MaxChanges
           /\ UNCHANGED <<setting, known, entity, losses>>

\* An interface follows another grandmaster.
DeviceFollows(i) ==
  /\ Changes
  /\ \E gm \in Grandmasters \ {device.gm[i]} :
        device' = [device EXCEPT !.gm[i] = gm, !.changes = @ + 1]
  /\ Send(Gptp(i)) /\ UNCHANGED faults

\* What is counted goes on, or stops; some devices send only the counter that changed.
DeviceCounts(u) ==
  /\ Changes
  /\ LET pair == device.counters[u]
         which == IF pair.more = pair.less THEN "more" ELSE "less"
     IN  /\ device' = [device EXCEPT !.counters[u][which] = (@ + 1) % Width, !.changes = @ + 1]
         /\ \/ Send(CountersNews(u, {"more", "less"})) /\ UNCHANGED faults
            \/ setting.partial /\ Send(CountersNews(u, {which})) /\ faults' = faults \cup {"partial"}

\* The device counts one that was none.
DeviceMiscounts(u) ==
  /\ Changes /\ setting.faulty
  /\ device.counters[u].more # device.counters[u].less
  /\ device' = [device EXCEPT !.counters[u].more = (@ + 1) % Width, !.changes = @ + 1]
  /\ Send(CountersNews(u, {"more", "less"}))
  /\ faults' = faults \cup {"counters"}

\* A control gets another value; what is no value of it is against the standard.
DeviceControls(c) ==
  /\ Changes
  /\ \E value \in Values :
        /\ setting.faulty \/ ValuesVerdict(c, value) # "InvalidValues"
        /\ value # device.values[c]
        /\ device' = [device EXCEPT !.values[c] = value, !.changes = @ + 1]
        /\ Send([kind |-> "values", of |-> c, value |-> value])
        /\ faults' = IF ValuesVerdict(c, value) = "InvalidValues" THEN faults \cup {"values"} ELSE faults

\* The device tells of a mapping to a stream that it does not have.
DeviceMaps ==
  /\ Changes /\ setting.faulty
  /\ device' = [device EXCEPT !.changes = @ + 1]
  /\ Send([kind |-> "mappings"])
  /\ faults' = faults \cup {"mappings"}

Advertises(i) ==
  /\ ~\E n \in DOMAIN wire : wire[n].kind = "adp" /\ wire[n].of = i
  /\ Send([kind |-> "adp", of |-> i, gm |-> device.gm[i]])
  /\ UNCHANGED <<setting, device, known, entity, losses, faults>>

Reply(q, news) ==
  /\ q \in entity.asked /\ ~\E n \in DOMAIN wire : wire[n].kind = "answer" /\ wire[n].to = q
  /\ UNCHANGED <<setting, device, known, entity, losses>>
  /\ Send([kind |-> "answer", to |-> q, news |-> news])

\* Answers to the questions of the enumeration; some devices leave counters out.
AnswersOnce(q) ==
  /\ q[1] \in {"milan", "model"}
  /\ Reply(q, IF q[1] = "model" THEN device.values ELSE setting.specification)
  /\ UNCHANGED faults

AnswersGptp(i) == Reply(<<"gptp", i>>, Gptp(i)) /\ UNCHANGED faults

AnswersCounters(u) ==
  \/ Reply(<<"counters", u>>, CountersNews(u, {"more", "less"})) /\ UNCHANGED faults
  \/ setting.partial /\ Reply(<<"counters", u>>, CountersNews(u, {"more"})) /\ faults' = faults \cup {"partial"}

\* A notification is lost.
Lose ==
  /\ losses < MaxLosses /\ wire # <<>> /\ Head(wire).kind \notin {"adp", "answer"}
  /\ losses' = losses + 1 /\ wire' = Tail(wire)
  /\ UNCHANGED <<setting, device, known, entity, faults>>

-----------------------------------------------------------------------------
(* The controller                                                            *)

Applied(e, news) ==
  CASE news.kind = "gptp" -> UpdateAvbInfo(e, news.of, news.gm)
    [] news.kind = "counters" -> UpdateCounters(e, news)
    [] news.kind = "values" -> UpdateControlValues(e, news.of, news.value)
    [] news.kind = "mappings" -> ValidateMappings(e)

Answered(e, q, news) ==
  CASE q[1] = "milan" -> [MilanInfo(e, news) EXCEPT !.asked = {<<"model", "all">>}]
    [] q[1] = "model" -> [e EXCEPT !.status = "modelled", !.values = news, !.asked = DynamicQuestions]
    [] q[1] = "gptp" /\ q[2] \in setting.silent -> AvbInfoRefused(e, q[2])
    [] q[1] = "gptp" /\ q[2] \notin setting.silent -> UpdateAvbInfo(e, q[2], news.gm)
    [] OTHER -> CountersAnswered(e, news)

\* The discovery keeps the advertisement, and hands over what changed.
Discovered(i, gm) ==
  LET interfaces == [known EXCEPT ![i] = gm]
  IN  /\ known' = interfaces
      /\ entity' = CASE interfaces = known -> entity
                     [] interfaces # known /\ entity.status # "offline" -> UpdateEntity(entity, interfaces)
                     [] OTHER -> [NoEntity EXCEPT !.status = "known", !.adp = interfaces, !.asked = {<<"milan", "info">>}]

Receive ==
  /\ wire # <<>> /\ wire' = Tail(wire)
  /\ LET message == Head(wire)
     IN  \/ message.kind = "adp" /\ Discovered(message.of, message.gm)
         \/ message.kind = "answer" /\ UNCHANGED known
            /\ LET q == message.to
               IN  entity' = Advertised(Answered([entity EXCEPT !.asked = @ \ {q}], q, message.news))
         \/ message.kind \notin {"adp", "answer"} /\ UNCHANGED known
            /\ entity' = Applied(entity, message)
  /\ UNCHANGED <<setting, device, losses, faults>>

\* One of two interfaces is not advertised any more.
InterfaceTimesOut(i) ==
  /\ losses < MaxLosses /\ losses' = losses + 1
  /\ \A j \in Interfaces : known[j] # None
  /\ known' = [known EXCEPT ![i] = None]
  /\ entity' = UpdateEntity(entity, known')
  /\ UNCHANGED <<setting, device, wire, faults>>

Init ==
  /\ setting \in Settings
  /\ \E gm \in [Interfaces -> Grandmasters] :
        device = [gm |-> gm, counters |-> [u \in Counted |-> [more |-> setting.start, less |-> setting.start]],
                  values |-> [c \in Controls |-> "allowed"], changes |-> 0]
  /\ wire = <<>> /\ known = [i \in Interfaces |-> None]
  /\ entity = NoEntity /\ losses = 0 /\ faults = {}

Next ==
  \/ \E i \in Interfaces : DeviceFollows(i) \/ Advertises(i) \/ AnswersGptp(i) \/ InterfaceTimesOut(i)
  \/ \E u \in Counted : DeviceCounts(u) \/ DeviceMiscounts(u) \/ AnswersCounters(u)
  \/ \E c \in Controls : DeviceControls(c)
  \/ DeviceMaps
  \/ \E q \in entity.asked : AnswersOnce(q)
  \/ Lose
  \/ Receive

Spec == Init /\ [][Next]_vars

-----------------------------------------------------------------------------
(* Properties                                                                *)

IsAdvertised == entity.status = "advertised"

\* The device said all it had to say, and nothing of it was lost.
AllIsSaid == wire = <<>> /\ losses = 0 /\ \A i \in Interfaces : known[i] \in {None, device.gm[i]}

\* The diagnostics of an advertised entity are those of its newest state, whichever way it came by:
\* its two records of the grandmaster agree, a Milan entity is warned of exactly when both its
\* interfaces follow the same one, a link is up as its counters say, also where they wrap, a
\* control is out of bounds exactly when its value is; and once the device has said all, its
\* state is the one the controller has (updateGptpInformation and the check*, validate*, update*
\* functions of avdeccControllerImpl.cpp).
DiagnosticsAreCurrent ==
  IsAdvertised =>
    /\ \A i \in Interfaces : entity.adp[i] # None => entity.aem[i] = entity.adp[i]
    /\ "Milan" \in entity.flags =>
         (entity.warning <=> HasRedundantStream /\ entity.aem["AvbInterface0"] = entity.aem["AvbInterface1"])
    /\ \A i \in Interfaces \cap Counted :
         None \notin {entity.counters[i].more, entity.counters[i].less} =>
         (entity.links[i] = "Up") <=> (entity.counters[i].more = (entity.counters[i].less + 1) % Width)
    /\ entity.outside = {c \in Controls : ValuesVerdict(c, entity.values[c]) = "CurrentValueOutOfRange"}
    /\ AllIsSaid => /\ \A i \in Interfaces \ setting.silent : entity.aem[i] = device.gm[i]
                    /\ "partial" \notin faults => entity.counters = device.counters
                    /\ entity.values = device.values

\* Nothing is wrong with the model of the device itself.
SoundModel(e) ==
  /\ setting.numbered \/ "nested" \in setting.counts
  /\ ControlsAreStandard([e EXCEPT !.values = [c \in Controls |-> "allowed"]])
  /\ setting.silent = {} /\ (MilanModel(setting.specification) \/ "nested" \in setting.counts)

\* The verdict is just: a Milan device that did nothing against the standards keeps its Milan flag,
\* also when its counters wrap; one whose counters contradict each other, or whose control has no
\* legal value, has lost it; and version and flags never contradict each other.  A device that
\* sends only the counter that changed is not claimed of: see the README.
VerdictsAreJust ==
  IsAdvertised =>
    /\ "Milan" \in entity.flags <=> entity.version # 0
    /\ "Milan" \in entity.flags => "IEEE17221" \in entity.flags
    /\ "Misbehaving" \in entity.flags => "IEEE17221" \notin entity.flags /\ "mappings" \in faults
    /\ setting.specification # 0 /\ faults = {} /\ SoundModel(entity) => "Milan" \in entity.flags
    /\ "Milan" \in entity.flags /\ "partial" \notin faults =>
         /\ \A u \in Counted : Consistent(entity.counters[u].more, entity.counters[u].less)
         /\ \A c \in Controls : ValuesVerdict(c, entity.values[c]) # "InvalidValues"

\* Observers were told of every change of the health of an advertised entity, whichever update made it.
ObserversSeeHealth == IsAdvertised => entity.told = Health(entity)
=============================================================================
