--------------------------- MODULE DiagnosticsProofs ---------------------------
(***************************************************************************)
(* Proofs about Diagnostics, for any settings of the device, grandmasters, *)
(* counters and bounds.                                                    *)
(*                                                                         *)
(* An update of the entity is a chain of small operations; each of them    *)
(* leaves most of the entity alone, and says of what it changed.  Does     *)
(* states that of an operation, and composes.                              *)
(***************************************************************************)
EXTENDS Diagnostics, SequenceTheorems, TLAPS

-----------------------------------------------------------------------------
(* Types                                                                     *)

Gms == Grandmasters \cup {None}
Counter == (0..(Width - 1)) \cup {None}
Pairs == [more : Counter, less : Counter]
Flags == {"IEEE17221", "Milan", "IEEE17221Warning", "MilanWarning", "Misbehaving"}
Questions == {<<"milan", "info">>, <<"model", "all">>} \cup DynamicQuestions
Identifies ==
  {None, setting.adpControl} \cup {CHOOSE c \in S : \A d \in S : c <= d : S \in SUBSET Controls}
Links == [Interfaces -> {"Unknown", "Up", "Down"}]

Healths ==
  [interfaces : SUBSET Interfaces, gptp : [Interfaces -> Gms], counters : [Counted -> Pairs],
   values : [Controls -> Values], compatibility : (SUBSET Flags) \X Nat, links : Links,
   diagnostics : BOOLEAN \X (SUBSET Controls)]
HealthFields ==
  {"interfaces", "gptp", "counters", "values", "compatibility", "links", "diagnostics"}

Records ==
  [status : {"offline", "known", "modelled", "advertised"}, asked : SUBSET Questions,
   adp : [Interfaces -> Gms], aem : [Interfaces -> Gms], counters : [Counted -> Pairs],
   values : [Controls -> Values], flags : SUBSET Flags, version : Nat, specification : Nat,
   redundant : BOOLEAN, identify : Identifies, links : Links, warning : BOOLEAN,
   outside : SUBSET Controls, told : Healths \cup {None}]
Entities == {e \in Records : e.status = "advertised" => e.told \in Healths}
Fields ==
  {"status", "asked", "adp", "aem", "counters", "values", "flags", "version", "specification",
   "redundant", "identify", "links", "warning", "outside", "told"}

-----------------------------------------------------------------------------
(* What an operation does                                                    *)

Only(e, r, changed) == \A f \in Fields \ changed : r[f] = e[f]

\* Observers of an advertised entity know its health, but for what is in untold.
AgreeBut(e, untold) ==
  e.status = "advertised" =>
    e.told \in Healths /\ \A what \in HealthFields \ untold : e.told[what] = Health(e)[what]

\* Version and flags do not contradict each other.
Verdict(e) ==
  /\ "Milan" \in e.flags => e.version >= 12 /\ "IEEE17221" \in e.flags
  /\ "Milan" \notin e.flags => e.version = 0
  /\ "Misbehaving" \in e.flags => "IEEE17221" \notin e.flags

\* The verdict only gets worse.
Keeps(e, r) ==
  /\ Verdict(e) => Verdict(r)
  /\ "Milan" \in r.flags => "Milan" \in e.flags
  /\ "Misbehaving" \in r.flags => "Misbehaving" \in e.flags

Does(e, r, changed, untold) ==
  /\ r \in Entities /\ Keeps(e, r) /\ Only(e, r, changed \cup {"told"})
  /\ \A before \in SUBSET HealthFields : AgreeBut(e, before) => AgreeBut(r, before \cup untold)

LEMMA HealthTyping ==
  ASSUME NEW e \in Entities
  PROVE  Health(e) \in Healths
<1>1. {i \in Interfaces : e.adp[i] # None} \in SUBSET Interfaces
  OBVIOUS
<1>2. <<e.flags, e.version>> \in (SUBSET Flags) \X Nat /\ <<e.warning, e.outside>> \in BOOLEAN \X (SUBSET Controls)
  BY DEF Entities, Records
<1>3. e.aem \in [Interfaces -> Gms] /\ e.counters \in [Counted -> Pairs]
      /\ e.values \in [Controls -> Values] /\ e.links \in Links
  BY DEF Entities, Records
<1>. QED  BY <1>1, <1>2, <1>3 DEF Health, Healths

LEMMA HealthKept ==
  ASSUME NEW e \in Entities, NEW r \in Entities, NEW C, Only(e, r, C)
  PROVE  /\ "adp" \notin C => Health(r)["interfaces"] = Health(e)["interfaces"]
         /\ "aem" \notin C => Health(r)["gptp"] = Health(e)["gptp"]
         /\ "counters" \notin C => Health(r)["counters"] = Health(e)["counters"]
         /\ "values" \notin C => Health(r)["values"] = Health(e)["values"]
         /\ "flags" \notin C /\ "version" \notin C =>
              Health(r)["compatibility"] = Health(e)["compatibility"]
         /\ "links" \notin C => Health(r)["links"] = Health(e)["links"]
         /\ "warning" \notin C /\ "outside" \notin C =>
              Health(r)["diagnostics"] = Health(e)["diagnostics"]
<1>1. /\ "adp" \notin C => r.adp = e.adp
      /\ "aem" \notin C => r.aem = e.aem
      /\ "counters" \notin C => r.counters = e.counters
      /\ "values" \notin C => r.values = e.values
      /\ "flags" \notin C => r.flags = e.flags
      /\ "version" \notin C => r.version = e.version
      /\ "links" \notin C => r.links = e.links
      /\ "warning" \notin C => r.warning = e.warning
      /\ "outside" \notin C => r.outside = e.outside
  BY DEF Only, Fields
<1>. QED  BY <1>1 DEF Health

\* One operation after the other.
LEMMA DoesThen ==
  ASSUME NEW e \in Entities, NEW r, NEW s, NEW C, NEW D, NEW T \in SUBSET HealthFields,
         NEW U \in SUBSET HealthFields, Does(e, r, C, T), Does(r, s, D, U)
  PROVE  Does(e, s, C \cup D, T \cup U)
<1>1. s \in Entities /\ Only(e, s, (C \cup D) \cup {"told"})
  BY DEF Does, Only
<1>2. Keeps(e, s)
  BY DEF Does, Keeps
<1>3. ASSUME NEW S \in SUBSET HealthFields, AgreeBut(e, S) PROVE AgreeBut(s, S \cup (T \cup U))
  <2>1. AgreeBut(r, S \cup T) /\ S \cup T \in SUBSET HealthFields
    BY <1>3 DEF Does
  <2>2. AgreeBut(s, (S \cup T) \cup U)
    BY <2>1 DEF Does
  <2>3. (S \cup T) \cup U = S \cup (T \cup U)
    OBVIOUS
  <2>. QED  BY <2>2, <2>3
<1>. QED  BY <1>1, <1>2, <1>3 DEF Does

LEMMA DoesNothing ==
  ASSUME NEW e \in Entities, NEW C, NEW T \in SUBSET HealthFields
  PROVE  Does(e, e, C, T)
BY DEF Does, Keeps, Only, AgreeBut

\* It may be said that more was changed.
LEMMA DoesLess ==
  ASSUME NEW e \in Entities, NEW r, NEW C, NEW D, NEW T \in SUBSET HealthFields,
         NEW U \in SUBSET HealthFields, Does(e, r, C, T), C \subseteq D, T \subseteq U
  PROVE  Does(e, r, D, U)
<1>1. Only(e, r, D \cup {"told"})
  BY DEF Does, Only
<1>2. ASSUME NEW S \in SUBSET HealthFields, AgreeBut(e, S) PROVE AgreeBut(r, S \cup U)
  BY <1>2 DEF Does, AgreeBut
<1>. QED  BY <1>1, <1>2 DEF Does

\* A change of the entity of which nobody was told yet.
LEMMA DoesSilently ==
  ASSUME NEW e \in Entities, NEW r \in Entities, NEW C, NEW T \in SUBSET HealthFields,
         Only(e, r, C), {"status", "told"} \cap C = {}, Keeps(e, r),
         \A what \in HealthFields \ T : Health(r)[what] = Health(e)[what]
  PROVE  Does(e, r, C, T)
<1>1. r.status = e.status /\ r.told = e.told
  BY DEF Only, Fields
<1>2. ASSUME NEW S \in SUBSET HealthFields, AgreeBut(e, S) PROVE AgreeBut(r, S \cup T)
  BY <1>1, <1>2 DEF AgreeBut
<1>3. Only(e, r, C \cup {"told"})
  BY DEF Only
<1>. QED  BY <1>2, <1>3 DEF Does

LEMMA NotifyDoes ==
  ASSUME NEW e \in Entities, NEW what \in HealthFields
  PROVE  /\ Notify(e, what) \in Entities /\ Only(e, Notify(e, what), {"told"})
         /\ Keeps(e, Notify(e, what))
         /\ \A before \in SUBSET HealthFields :
              AgreeBut(e, before) => AgreeBut(Notify(e, what), before \ {what})
<1>1. CASE e.status # "advertised"
  BY <1>1 DEF Notify, Only, Keeps, AgreeBut
<1>2. CASE e.status = "advertised" /\ e.told \in Healths
  <2> DEFINE told == [e.told EXCEPT ![what] = Health(e)[what]]
             r == [e EXCEPT !.told = told]
  <2>1. Health(e) \in Healths
    BY HealthTyping
  <2>2. /\ told \in Healths /\ told[what] = Health(e)[what]
        /\ \A w \in HealthFields \ {what} : told[w] = e.told[w]
    <3> DEFINE h == Health(e)
    <3>1. h \in Healths
      BY <2>1
    <3>2. told = [e.told EXCEPT ![what] = h[what]]
      OBVIOUS
    <3> HIDE DEF h, told
    <3>3. told \in Healths
      BY <1>2, <3>1, <3>2 DEF Healths, HealthFields
    <3>4. told[what] = h[what] /\ \A w \in HealthFields \ {what} : told[w] = e.told[w]
      BY <1>2, <3>1, <3>2 DEF Healths, HealthFields
    <3>. QED  BY <3>3, <3>4 DEF h
  <2>3. Notify(e, what) = r
    BY <1>2 DEF Notify
  <2> HIDE DEF told
  <2>4. r \in Entities /\ Only(e, r, {"told"}) /\ r.told = told
    BY <2>2 DEF Entities, Records, Only, Fields
  <2> HIDE DEF r
  <2>5. /\ r.status = e.status /\ r.flags = e.flags /\ r.version = e.version
    BY <2>4 DEF Only, Fields
  <2>6. \A w \in HealthFields : Health(r)[w] = Health(e)[w]
    BY <2>4, HealthKept DEF HealthFields
  <2>7. ASSUME NEW S \in SUBSET HealthFields, AgreeBut(e, S) PROVE AgreeBut(r, S \ {what})
    BY <2>2, <2>4, <2>5, <2>6, <2>7 DEF AgreeBut
  <2>8. Keeps(e, r)
    BY <2>5 DEF Keeps, Verdict
  <2>. QED  BY <2>3, <2>4, <2>7, <2>8
<1>. QED  BY <1>1, <1>2 DEF Entities

\* Observers are told of a field of the health.
LEMMA ToldDoes ==
  ASSUME NEW e \in Entities, NEW r, NEW C, NEW T \in SUBSET HealthFields, NEW what \in HealthFields,
         Does(e, r, C, T)
  PROVE  Does(e, Notify(r, what), C, T \ {what})
<1>1. r \in Entities
  BY DEF Does
<1> DEFINE s == Notify(r, what)
<1>2. /\ s \in Entities /\ Only(r, s, {"told"}) /\ Keeps(r, s)
      /\ \A before \in SUBSET HealthFields : AgreeBut(r, before) => AgreeBut(s, before \ {what})
  BY <1>1, NotifyDoes
<1> HIDE DEF s
<1>3. Only(e, s, C \cup {"told"}) /\ Keeps(e, s)
  BY <1>2 DEF Does, Only, Keeps
<1>4. ASSUME NEW S \in SUBSET HealthFields, AgreeBut(e, S) PROVE AgreeBut(s, S \cup (T \ {what}))
  <2>1. AgreeBut(r, S \cup T) /\ S \cup T \in SUBSET HealthFields
    BY <1>4 DEF Does
  <2>2. AgreeBut(s, (S \cup T) \ {what})
    BY <1>2, <2>1
  <2>. QED  BY <2>2 DEF AgreeBut
<1>. QED  BY <1>2, <1>3, <1>4 DEF Does, s

\* Observers are told if there was a change.
LEMMA ToldIfDoes ==
  ASSUME NEW e \in Entities, NEW r, NEW C, NEW T \in SUBSET HealthFields, NEW what \in HealthFields,
         NEW changed \in BOOLEAN, Does(e, r, C, T), ~changed => Does(e, r, C, T \ {what})
  PROVE  Does(e, NotifyIf(changed, r, what), C, T \ {what})
BY ToldDoes DEF NotifyIf

\* What was not changed.
LEMMA OnlyKeeps ==
  ASSUME NEW e \in Entities, NEW r, NEW C, NEW T, Does(e, r, C, T)
  PROVE  /\ r \in Entities
         /\ \A f \in Fields \ (C \cup {"told"}) : r[f] = e[f]
         /\ "status" \notin C => r.status = e.status
         /\ "asked" \notin C => r.asked = e.asked
         /\ "adp" \notin C => r.adp = e.adp
         /\ "aem" \notin C => r.aem = e.aem
         /\ "counters" \notin C => r.counters = e.counters
         /\ "values" \notin C => r.values = e.values
         /\ "flags" \notin C => r.flags = e.flags
         /\ "version" \notin C => r.version = e.version
         /\ "specification" \notin C => r.specification = e.specification
         /\ "redundant" \notin C => r.redundant = e.redundant
         /\ "links" \notin C => r.links = e.links
         /\ "warning" \notin C => r.warning = e.warning
         /\ "outside" \notin C => r.outside = e.outside
BY DEF Does, Only, Fields

LEMMA NotifyKeeps ==
  ASSUME NEW e \in Entities, NEW what \in HealthFields
  PROVE  LET r == Notify(e, what)
         IN  /\ r \in Entities
             /\ r.status = e.status /\ r.asked = e.asked /\ r.adp = e.adp /\ r.aem = e.aem
             /\ r.counters = e.counters /\ r.values = e.values /\ r.flags = e.flags
             /\ r.version = e.version /\ r.specification = e.specification
             /\ r.redundant = e.redundant /\ r.links = e.links /\ r.warning = e.warning
             /\ r.outside = e.outside
BY NotifyDoes DEF Only, Fields

LEMMA NotifyIfKeeps ==
  ASSUME NEW e \in Entities, NEW what \in HealthFields, NEW changed \in BOOLEAN
  PROVE  LET r == NotifyIf(changed, e, what)
         IN  /\ r \in Entities
             /\ r.status = e.status /\ r.asked = e.asked /\ r.adp = e.adp /\ r.aem = e.aem
             /\ r.counters = e.counters /\ r.values = e.values /\ r.flags = e.flags
             /\ r.version = e.version /\ r.specification = e.specification
             /\ r.redundant = e.redundant /\ r.links = e.links /\ r.warning = e.warning
             /\ r.outside = e.outside
BY NotifyKeeps DEF NotifyIf

-----------------------------------------------------------------------------
(* The standards that the entity follows                                     *)

Rejudged(e, flags, version) == [e EXCEPT !.flags = flags, !.version = version]

LEMMA RejudgedKeeps ==
  ASSUME NEW e \in Entities, NEW flags \in SUBSET Flags, NEW version \in Nat
  PROVE  LET r == Rejudged(e, flags, version)
         IN  /\ r \in Entities /\ Only(e, r, {"flags", "version"})
             /\ r.flags = flags /\ r.version = version
BY DEF Rejudged, Entities, Records, Only, Fields

LEMMA JudgedDoes ==
  ASSUME NEW e \in Entities, NEW flags \in SUBSET Flags, NEW version \in Nat,
         Keeps(e, Rejudged(e, flags, version))
  PROVE  Does(e, Rejudged(e, flags, version), {"flags", "version"}, {"compatibility"})
<1> DEFINE r == Rejudged(e, flags, version)
<1>1. r \in Entities /\ Only(e, r, {"flags", "version"}) /\ Keeps(e, r)
  BY RejudgedKeeps
<1> HIDE DEF r
<1>2. \A what \in HealthFields \ {"compatibility"} : Health(r)[what] = Health(e)[what]
  BY <1>1, HealthKept DEF HealthFields
<1>3. {"compatibility"} \in SUBSET HealthFields
  BY DEF HealthFields
<1>4. Does(e, r, {"flags", "version"}, {"compatibility"})
  BY <1>1, <1>2, <1>3, DoesSilently
<1>. QED  BY <1>4 DEF r

\* The compatibility is judged anew, and observers are told if it is another.
LEMMA CompatibilityDoes ==
  ASSUME NEW e \in Entities, NEW flags \in SUBSET Flags, NEW version \in Nat, NEW changed \in BOOLEAN,
         Keeps(e, Rejudged(e, flags, version)), ~changed => Rejudged(e, flags, version) = e
  PROVE  LET r == NotifyIf(changed, Rejudged(e, flags, version), "compatibility")
         IN  Does(e, r, {"flags", "version"}, {}) /\ r.flags = flags /\ r.version = version
<1> DEFINE r == Rejudged(e, flags, version)
<1>1. /\ Does(e, r, {"flags", "version"}, {"compatibility"})
      /\ r \in Entities /\ r.flags = flags /\ r.version = version
  BY JudgedDoes, RejudgedKeeps
<1>0. ~changed => r = e
  OBVIOUS
<1> HIDE DEF r
<1>2. {"compatibility"} \in SUBSET HealthFields /\ "compatibility" \in HealthFields /\ {} \in SUBSET HealthFields
      /\ {"compatibility"} \ {"compatibility"} = {}
  BY DEF HealthFields
<1>3. ~changed => Does(e, r, {"flags", "version"}, {})
  BY <1>0, <1>2, DoesNothing
<1>4. Does(e, NotifyIf(changed, r, "compatibility"), {"flags", "version"}, {"compatibility"} \ {"compatibility"})
  BY <1>1, <1>2, <1>3, ToldIfDoes
<1>5. LET s == NotifyIf(changed, r, "compatibility") IN s.flags = flags /\ s.version = version
  BY <1>1, <1>2, NotifyIfKeeps
<1>. QED  BY <1>2, <1>4, <1>5 DEF r

LEMMA RemoveDoes ==
  ASSUME NEW e \in Entities, NEW flag \in {"IEEE17221", "Milan"}
  PROVE  /\ Does(e, RemoveCompatibilityFlag(e, flag), {"flags", "version"}, {})
         /\ RemoveCompatibilityFlag(e, flag).flags = e.flags \ {flag, "Milan"}
         /\ RemoveCompatibilityFlag(e, flag).version = IF "Milan" \in e.flags THEN 0 ELSE e.version
<1> DEFINE flags == e.flags \ {flag, "Milan"}
           version == IF "Milan" \in e.flags THEN 0 ELSE e.version
           r == Rejudged(e, flags, version)
           changed == r # e
<1>1. flags \in SUBSET Flags /\ version \in Nat
  BY DEF Entities, Records
<1>2. r.flags = flags /\ r.version = version
  BY DEF Rejudged, Entities, Records
<1>3. Keeps(e, r)
  BY <1>2 DEF Keeps, Verdict
<1>4. RemoveCompatibilityFlag(e, flag) = NotifyIf(changed, r, "compatibility")
  BY DEF RemoveCompatibilityFlag, Rejudged
<1>5. changed \in BOOLEAN /\ (~changed => r = e)
  OBVIOUS
<1> HIDE DEF flags, version, changed
<1>6. /\ Does(e, NotifyIf(changed, r, "compatibility"), {"flags", "version"}, {})
      /\ NotifyIf(changed, r, "compatibility").flags = flags
      /\ NotifyIf(changed, r, "compatibility").version = version
  BY <1>1, <1>3, <1>5, CompatibilityDoes
<1>. QED  BY <1>4, <1>6 DEF flags, version

LEMMA WarnedDoes ==
  ASSUME NEW e \in Entities
  PROVE  /\ Does(e, AddCompatibilityFlag(e, "IEEE17221Warning"), {"flags", "version"}, {})
         /\ "Milan" \in AddCompatibilityFlag(e, "IEEE17221Warning").flags <=> "Milan" \in e.flags
         /\ AddCompatibilityFlag(e, "IEEE17221Warning").version = e.version
<1> DEFINE flags == IF "IEEE17221" \in e.flags
                    THEN e.flags \cup {"IEEE17221Warning"}
                           \cup (IF "Milan" \in e.flags THEN {"MilanWarning"} ELSE {})
                    ELSE e.flags
           r == Rejudged(e, flags, e.version)
           changed == flags # e.flags
<1>1. flags \in SUBSET Flags /\ e.version \in Nat
  BY DEF Entities, Records, Flags
<1>2. r.flags = flags /\ r.version = e.version /\ r = [e EXCEPT !.flags = flags]
  BY DEF Rejudged, Entities, Records
<1>3. Keeps(e, r) /\ ("Milan" \in flags <=> "Milan" \in e.flags)
  BY <1>2 DEF Keeps, Verdict
<1>4. AddCompatibilityFlag(e, "IEEE17221Warning") = NotifyIf(changed, r, "compatibility")
  BY <1>2 DEF AddCompatibilityFlag
<1> HIDE DEF flags
<1>5. changed \in BOOLEAN /\ (~changed => r = e)
  BY DEF Rejudged, Entities, Records
<1> HIDE DEF changed
<1>6. /\ Does(e, NotifyIf(changed, r, "compatibility"), {"flags", "version"}, {})
      /\ NotifyIf(changed, r, "compatibility").flags = flags
      /\ NotifyIf(changed, r, "compatibility").version = e.version
  BY <1>1, <1>3, <1>5, CompatibilityDoes
<1>. QED  BY <1>3, <1>4, <1>6

LEMMA MilanWarnedDoes ==
  ASSUME NEW e \in Entities
  PROVE  /\ Does(e, SetMilanWarning(e), {"flags", "version"}, {})
         /\ "Milan" \in SetMilanWarning(e).flags <=> "Milan" \in e.flags
         /\ SetMilanWarning(e).version = e.version
<1>1. CASE "Milan" \in e.flags
  <2> DEFINE flags == e.flags \cup {"MilanWarning"}
             changed == "MilanWarning" \notin e.flags
             r == Rejudged(e, flags, e.version)
  <2>1. flags \in SUBSET Flags /\ e.version \in Nat
    BY DEF Entities, Records, Flags
  <2>2. r.flags = flags /\ r.version = e.version /\ r = [e EXCEPT !.flags = flags]
    BY DEF Rejudged, Entities, Records
  <2>3. Keeps(e, r) /\ ("Milan" \in flags <=> "Milan" \in e.flags)
    BY <2>2 DEF Keeps, Verdict
  <2>4. SetMilanWarning(e) = NotifyIf(changed, r, "compatibility")
    BY <1>1, <2>2 DEF SetMilanWarning
  <2>5. changed \in BOOLEAN /\ (~changed => r = e)
    <3>1. ~changed => flags = e.flags
      OBVIOUS
    <3>. QED  BY <3>1 DEF Rejudged, Entities, Records
  <2> HIDE DEF flags, changed
  <2>6. /\ Does(e, NotifyIf(changed, r, "compatibility"), {"flags", "version"}, {})
        /\ NotifyIf(changed, r, "compatibility").flags = flags
        /\ NotifyIf(changed, r, "compatibility").version = e.version
    BY <2>1, <2>3, <2>5, CompatibilityDoes
  <2>. QED  BY <2>3, <2>4, <2>6
<1>2. CASE "Milan" \notin e.flags
  <2>1. SetMilanWarning(e) = e
    BY <1>2 DEF SetMilanWarning
  <2>. QED  BY <2>1, DoesNothing
<1>. QED  BY <1>1, <1>2

\* The version of Milan goes down, to none or to the one before 1.3.
LEMMA DecreaseDoes ==
  ASSUME NEW e \in Entities, NEW version \in {0, 12}
  PROVE  /\ Does(e, DecreaseMilanVersion(e, version), {"flags", "version"}, {})
         /\ version = 12 => DecreaseMilanVersion(e, version).flags = e.flags
<1>1. e.version \in Nat
  BY DEF Entities, Records
<1>2. CASE version > e.version
  BY <1>1, <1>2, DoesNothing DEF DecreaseMilanVersion
<1>3. CASE ~(version > e.version) /\ version = 0
  BY <1>3, RemoveDoes DEF DecreaseMilanVersion
<1>4. CASE ~(version > e.version) /\ version = 12
  <2> DEFINE changed == 12 # e.version
             r == Rejudged(e, e.flags, 12)
  <2>1. e.flags \in SUBSET Flags /\ 12 \in Nat
    BY DEF Entities, Records
  <2>2. r.flags = e.flags /\ r.version = 12 /\ r = [e EXCEPT !.version = 12]
    BY DEF Rejudged, Entities, Records
  <2>3. Keeps(e, r)
    BY <1>1, <1>4, <2>2 DEF Keeps, Verdict
  <2>4. DecreaseMilanVersion(e, version) = NotifyIf(changed, r, "compatibility")
    BY <1>4, <2>2 DEF DecreaseMilanVersion
  <2>5. changed \in BOOLEAN /\ (~changed => r = e)
    BY DEF Rejudged, Entities, Records
  <2> HIDE DEF changed
  <2>6. /\ Does(e, NotifyIf(changed, r, "compatibility"), {"flags", "version"}, {})
        /\ NotifyIf(changed, r, "compatibility").flags = e.flags
    BY <2>1, <2>3, <2>5, CompatibilityDoes
  <2>. QED  BY <2>4, <2>6
<1>. QED  BY <1>2, <1>3, <1>4

-----------------------------------------------------------------------------
(* Diagnostics                                                               *)

\* A field that says nothing of compatibility gets another value, and observers are told
\* of the part of the health that has it.
LEMMA FieldDoes ==
  ASSUME NEW e \in Entities, NEW r \in Entities, NEW changed \in BOOLEAN, NEW field, NEW what \in HealthFields,
         Only(e, r, {field}), ~changed => r = e,
         \/ field = "links" /\ what = "links"
         \/ field \in {"warning", "outside"} /\ what = "diagnostics"
  PROVE  Does(e, NotifyIf(changed, r, what), {field}, {})
<1>1. Keeps(e, r)
  BY DEF Only, Fields, Keeps, Verdict
<1>2. \A w \in HealthFields \ {what} : Health(r)[w] = Health(e)[w]
  BY HealthKept DEF HealthFields
<1>3. {what} \in SUBSET HealthFields /\ {what} \ {what} = {}
  OBVIOUS
<1>4. Does(e, r, {field}, {what})
  BY <1>1, <1>2, <1>3, DoesSilently
<1>5. ~changed => Does(e, r, {field}, {what} \ {what})
  BY <1>3, DoesNothing
<1>6. Does(e, NotifyIf(changed, r, what), {field}, {what} \ {what})
  BY <1>3, <1>4, <1>5, ToldIfDoes
<1>. QED  BY <1>3, <1>6

LEMMA RedundancyWarningDoes ==
  ASSUME NEW e \in Entities, NEW isWarning \in BOOLEAN
  PROVE  /\ Does(e, UpdateRedundancyWarning(e, isWarning), {"warning"}, {})
         /\ UpdateRedundancyWarning(e, isWarning).warning = isWarning
<1> DEFINE r == [e EXCEPT !.warning = isWarning]
           changed == e.warning # isWarning
<1>1. r \in Entities /\ Only(e, r, {"warning"}) /\ r.warning = isWarning
  BY DEF Entities, Records, Only, Fields
<1>2. changed \in BOOLEAN /\ (~changed => r = e)
  BY DEF Entities, Records
<1>3. UpdateRedundancyWarning(e, isWarning) = NotifyIf(changed, r, "diagnostics")
  BY DEF UpdateRedundancyWarning
<1>4. "diagnostics" \in HealthFields
  BY DEF HealthFields
<1> HIDE DEF r, changed
<1>5. Does(e, NotifyIf(changed, r, "diagnostics"), {"warning"}, {})
  BY <1>1, <1>2, <1>4, FieldDoes
<1>6. NotifyIf(changed, r, "diagnostics").warning = isWarning
  BY <1>1, <1>2, <1>4, NotifyIfKeeps
<1>. QED  BY <1>3, <1>5, <1>6

Warns(e) == "Milan" \in e.flags /\ e.redundant /\ e.aem["AvbInterface0"] = e.aem["AvbInterface1"]

LEMMA CheckWarningDoes ==
  ASSUME NEW e \in Entities
  PROVE  /\ Does(e, CheckRedundancyWarning(e), {"warning"}, {})
         /\ CheckRedundancyWarning(e).warning = Warns(e)
<1>1. Warns(e) \in BOOLEAN
  BY DEF Warns, Entities, Records
<1>2. CheckRedundancyWarning(e) = UpdateRedundancyWarning(e, Warns(e))
  BY DEF CheckRedundancyWarning, Warns
<1>. QED  BY <1>1, <1>2, RedundancyWarningDoes

LEMMA OutOfBoundsDoes ==
  ASSUME NEW e \in Entities, NEW c \in Controls, NEW is \in BOOLEAN
  PROVE  /\ Does(e, UpdateOutOfBounds(e, c, is), {"outside"}, {})
         /\ UpdateOutOfBounds(e, c, is).outside = IF is THEN e.outside \cup {c} ELSE e.outside \ {c}
<1> DEFINE outside == IF is THEN e.outside \cup {c} ELSE e.outside \ {c}
           r == [e EXCEPT !.outside = outside]
           changed == is # (c \in e.outside)
<1>1. r \in Entities /\ Only(e, r, {"outside"}) /\ r.outside = outside
  <2>1. outside \in SUBSET Controls
    BY DEF Entities, Records
  <2> HIDE DEF outside
  <2>. QED  BY <2>1 DEF Entities, Records, Only, Fields
<1>2. changed \in BOOLEAN /\ (~changed => r = e)
  <2>1. ~changed => outside = e.outside
    OBVIOUS
  <2> HIDE DEF outside
  <2>2. outside = e.outside => r = e
    BY DEF Entities, Records
  <2>3. changed \in BOOLEAN
    OBVIOUS
  <2>. QED  BY <2>1, <2>2, <2>3
<1>3. UpdateOutOfBounds(e, c, is) = NotifyIf(changed, r, "diagnostics")
  <2>1. r = [e EXCEPT !.outside = IF is THEN @ \cup {c} ELSE @ \ {c}]
    OBVIOUS
  <2>. QED  BY <2>1 DEF UpdateOutOfBounds
<1>4. "diagnostics" \in HealthFields
  BY DEF HealthFields
<1> HIDE DEF r, changed, outside
<1>5. Does(e, NotifyIf(changed, r, "diagnostics"), {"outside"}, {})
  BY <1>1, <1>2, <1>4, FieldDoes
<1>6. NotifyIf(changed, r, "diagnostics").outside = outside
  BY <1>1, <1>2, <1>4, NotifyIfKeeps
<1>. QED  BY <1>3, <1>5, <1>6 DEF outside

\* The link of an interface is what its counters say.
LinkIs(e, i) ==
  None \notin {e.counters[i].more, e.counters[i].less} =>
    ((e.links[i] = "Up") <=> (e.counters[i].more = (e.counters[i].less + 1) % Width))

LEMMA LinkDoes ==
  ASSUME NEW e \in Entities, NEW i \in Interfaces \cap Counted
  PROVE  /\ Does(e, CheckLinkStatus(e, i), {"links"}, {})
         /\ LinkIs(CheckLinkStatus(e, i), i)
         /\ \A j \in Interfaces \ {i} : CheckLinkStatus(e, i).links[j] = e.links[j]
<1>1. CASE None \in {e.counters[i].more, e.counters[i].less}
  <2>1. CheckLinkStatus(e, i) = e
    BY <1>1 DEF CheckLinkStatus
  <2>. QED  BY <1>1, <2>1, DoesNothing DEF LinkIs
<1>2. CASE None \notin {e.counters[i].more, e.counters[i].less}
  <2> DEFINE up == e.counters[i].more = (e.counters[i].less + 1) % Width
             status == IF up THEN "Up" ELSE "Down"
             r == [e EXCEPT !.links[i] = status]
             changed == e.links[i] # status
  <2>1. /\ r \in Entities /\ Only(e, r, {"links"})
        /\ r.links[i] = status /\ \A j \in Interfaces \ {i} : r.links[j] = e.links[j]
    <3>1. status \in {"Unknown", "Up", "Down"}
      OBVIOUS
    <3> HIDE DEF status
    <3>. QED  BY <3>1 DEF Entities, Records, Links, Only, Fields
  <2>2. changed \in BOOLEAN /\ (~changed => r = e)
    <3> HIDE DEF status
    <3>. QED  BY DEF Entities, Records, Links
  <2>3. CheckLinkStatus(e, i) = NotifyIf(changed, r, "links")
    BY <1>2 DEF CheckLinkStatus, UpdateLinkStatus
  <2>4. "links" \in HealthFields
    BY DEF HealthFields
  <2>5. status = "Up" <=> up
    OBVIOUS
  <2> HIDE DEF r, changed, status
  <2>6. Does(e, NotifyIf(changed, r, "links"), {"links"}, {})
    BY <2>1, <2>2, <2>4, FieldDoes
  <2>7. /\ NotifyIf(changed, r, "links").links = r.links
        /\ NotifyIf(changed, r, "links").counters = r.counters /\ r.counters = e.counters
    BY <2>1, <2>2, <2>4, NotifyIfKeeps DEF Only, Fields
  <2>. QED  BY <2>1, <2>3, <2>5, <2>6, <2>7 DEF LinkIs
<1>. QED  BY <1>1, <1>2

-----------------------------------------------------------------------------
(* Updates of the model                                                      *)

LEMMA GptpDoes ==
  ASSUME NEW e \in Entities, NEW i \in Interfaces, NEW gm \in Grandmasters
  PROVE  /\ Does(e, UpdateGptp(e, i, gm), {"adp", "aem", "warning"}, {})
         /\ UpdateGptp(e, i, gm).adp[i] = IF e.adp[i] = None THEN None ELSE gm
         /\ UpdateGptp(e, i, gm).aem[i] = IF Modelled(e) THEN gm ELSE e.aem[i]
         /\ \A j \in Interfaces \ {i} : /\ UpdateGptp(e, i, gm).adp[j] = e.adp[j]
                                       /\ UpdateGptp(e, i, gm).aem[j] = e.aem[j]
         /\ (e.warning = Warns(e)) => (UpdateGptp(e, i, gm).warning = Warns(UpdateGptp(e, i, gm)))
<1> DEFINE adp == [e.adp EXCEPT ![i] = IF @ = None THEN @ ELSE gm]
           aem == [e.aem EXCEPT ![i] = IF Modelled(e) THEN gm ELSE @]
           updated == [e EXCEPT !.adp = adp, !.aem = aem]
           checked == CheckRedundancyWarning(updated)
           changed == updated # e
<1>1. adp \in [Interfaces -> Gms] /\ aem \in [Interfaces -> Gms]
  BY DEF Entities, Records, Gms
<1>2. {j \in Interfaces : adp[j] # None} = {j \in Interfaces : e.adp[j] # None}
  <2>1. e.adp \in [Interfaces -> Gms]
    BY DEF Entities, Records
  <2>2. \A j \in Interfaces : adp[j] # None <=> e.adp[j] # None
    BY <2>1, DiagnosticsAssumption
  <2>. QED  BY <2>2
<1>3. UpdateGptp(e, i, gm) = NotifyIf(changed, checked, "gptp")
  <2>1. updated = [e EXCEPT !.adp[i] = IF @ = None THEN @ ELSE gm, !.aem[i] = IF Modelled(e) THEN gm ELSE @]
    BY DEF Entities, Records
  <2>. QED  BY <2>1 DEF UpdateGptp
<1> HIDE DEF adp, aem
<1>4. updated \in Entities /\ Only(e, updated, {"adp", "aem"}) /\ updated.adp = adp /\ updated.aem = aem
  BY <1>1 DEF Entities, Records, Only, Fields
<1> HIDE DEF updated
<1>5. Keeps(e, updated)
  BY <1>4 DEF Only, Fields, Keeps, Verdict
<1>6. \A w \in HealthFields \ {"gptp"} : Health(updated)[w] = Health(e)[w]
  <2>1. Health(updated)["interfaces"] = Health(e)["interfaces"]
    BY <1>2, <1>4 DEF Health
  <2>. QED  BY <1>4, <2>1, HealthKept DEF HealthFields
<1>7. {"gptp"} \in SUBSET HealthFields /\ "gptp" \in HealthFields /\ {"gptp"} \ {"gptp"} = {}
      /\ {} \in SUBSET HealthFields /\ {"gptp"} \cup {} = {"gptp"}
  BY DEF HealthFields
<1>8. Does(e, updated, {"adp", "aem"}, {"gptp"})
  BY <1>4, <1>5, <1>6, <1>7, DoesSilently
<1>9. Does(updated, checked, {"warning"}, {}) /\ checked.warning = Warns(updated)
  BY <1>4, CheckWarningDoes
<1> HIDE DEF checked
<1>10. Does(e, checked, {"adp", "aem"} \cup {"warning"}, {"gptp"} \cup {})
  BY <1>7, <1>8, <1>9, DoesThen
<1>11. {"adp", "aem"} \cup {"warning"} = {"adp", "aem", "warning"}
  OBVIOUS
<1>12. Does(e, checked, {"adp", "aem", "warning"}, {"gptp"})
  BY <1>7, <1>10, <1>11
<1>13. checked \in Entities /\ checked.adp = adp /\ checked.aem = aem
       /\ checked.flags = e.flags /\ checked.redundant = e.redundant
  BY <1>4, <1>9, OnlyKeeps DEF Only, Fields
<1>14. changed \in BOOLEAN
  BY DEF changed
<1>15. ~changed => Does(e, checked, {"adp", "aem", "warning"}, {})
  <2>1. ~changed => Does(e, checked, {"warning"}, {})
    BY <1>9 DEF changed
  <2>. QED  BY <1>7, <2>1, DoesLess
<1> HIDE DEF changed
<1>16. Does(e, NotifyIf(changed, checked, "gptp"), {"adp", "aem", "warning"}, {"gptp"} \ {"gptp"})
  BY <1>7, <1>12, <1>14, <1>15, ToldIfDoes
<1>17. LET r == NotifyIf(changed, checked, "gptp")
       IN  /\ r.adp = adp /\ r.aem = aem /\ r.warning = checked.warning
           /\ r.flags = checked.flags /\ r.redundant = checked.redundant
  BY <1>7, <1>13, <1>14, NotifyIfKeeps
<1>18. Warns(updated) = Warns(NotifyIf(changed, checked, "gptp"))
  BY <1>4, <1>13, <1>17 DEF Warns, Only, Fields
<1>19. /\ adp[i] = (IF e.adp[i] = None THEN None ELSE gm)
       /\ aem[i] = (IF Modelled(e) THEN gm ELSE e.aem[i])
       /\ \A j \in Interfaces \ {i} : adp[j] = e.adp[j] /\ aem[j] = e.aem[j]
  BY DEF adp, aem, Entities, Records
<1>. QED  BY <1>3, <1>7, <1>9, <1>16, <1>17, <1>18, <1>19

LEMMA AdvertisementDoes ==
  ASSUME NEW e \in Entities, NEW interfaces \in [Interfaces -> Gms]
  PROVE  LET r == UpdateEntity(e, interfaces)
         IN  /\ Does(e, r, {"adp", "aem", "warning"}, {})
             /\ r.adp = interfaces
             /\ \A i \in Interfaces :
                  r.aem[i] = IF interfaces[i] \notin {None, e.adp[i]} /\ Modelled(e)
                             THEN interfaces[i] ELSE e.aem[i]
             /\ e.warning = Warns(e) => r.warning = Warns(r)
<1> DEFINE Changed(i) == interfaces[i] \notin {None, e.adp[i]}
           First == IF Changed("AvbInterface0") THEN UpdateGptp(e, "AvbInterface0", interfaces["AvbInterface0"]) ELSE e
           Both == IF Changed("AvbInterface1") THEN UpdateGptp(First, "AvbInterface1", interfaces["AvbInterface1"]) ELSE First
           last == [Both EXCEPT !.adp = interfaces]
           C == {"adp", "aem", "warning"}
<1>0. /\ "AvbInterface0" \in Interfaces /\ "AvbInterface1" \in Interfaces
      /\ {} \in SUBSET HealthFields /\ {} \cup {} = {} /\ C \cup C = C /\ "interfaces" \in HealthFields
      /\ {"interfaces"} \in SUBSET HealthFields /\ {"interfaces"} \ {"interfaces"} = {}
      /\ C \cup {"adp"} = C /\ {} \cup {"interfaces"} = {"interfaces"}
  BY DEF Interfaces, HealthFields
<1>gm. \A i \in Interfaces : interfaces[i] # None => interfaces[i] \in Grandmasters
  BY DEF Gms
<1>1. /\ Does(e, First, C, {}) /\ Modelled(First) = Modelled(e)
      /\ First.aem["AvbInterface0"] = IF Changed("AvbInterface0") /\ Modelled(e)
                                      THEN interfaces["AvbInterface0"] ELSE e.aem["AvbInterface0"]
      /\ First.aem["AvbInterface1"] = e.aem["AvbInterface1"]
      /\ (e.warning = Warns(e)) => (First.warning = Warns(First))
  <2>1. CASE Changed("AvbInterface0")
    <3> DEFINE gm == interfaces["AvbInterface0"]
               r == UpdateGptp(e, "AvbInterface0", gm)
    <3>1. gm \in Grandmasters
      BY <1>0, <1>gm, <2>1
    <3>2. /\ Does(e, r, C, {})
          /\ r.aem["AvbInterface0"] = IF Modelled(e) THEN gm ELSE e.aem["AvbInterface0"]
          /\ r.aem["AvbInterface1"] = e.aem["AvbInterface1"]
          /\ (e.warning = Warns(e)) => (r.warning = Warns(r))
      BY <1>0, <3>1, GptpDoes
    <3>3. First = r
      BY <2>1
    <3> HIDE DEF r, First
    <3>4. r.status = e.status
      BY <3>2, OnlyKeeps
    <3>. QED  BY <2>1, <3>2, <3>3, <3>4 DEF Modelled
  <2>2. CASE ~Changed("AvbInterface0")
    BY <1>0, <2>2, DoesNothing
  <2>. QED  BY <2>1, <2>2
<1>2. First \in Entities
  BY <1>1 DEF Does
<1> HIDE DEF First
<1>3. /\ Does(First, Both, C, {})
      /\ Both.aem["AvbInterface1"] = IF Changed("AvbInterface1") /\ Modelled(e)
                                     THEN interfaces["AvbInterface1"] ELSE First.aem["AvbInterface1"]
      /\ Both.aem["AvbInterface0"] = First.aem["AvbInterface0"]
      /\ (First.warning = Warns(First)) => (Both.warning = Warns(Both))
  <2>1. CASE Changed("AvbInterface1")
    <3> DEFINE gm == interfaces["AvbInterface1"]
               r == UpdateGptp(First, "AvbInterface1", gm)
    <3>1. gm \in Grandmasters
      BY <1>0, <1>gm, <2>1
    <3>2. /\ Does(First, r, C, {})
          /\ r.aem["AvbInterface1"] = IF Modelled(First) THEN gm ELSE First.aem["AvbInterface1"]
          /\ r.aem["AvbInterface0"] = First.aem["AvbInterface0"]
          /\ (First.warning = Warns(First)) => (r.warning = Warns(r))
      BY <1>0, <1>2, <3>1, GptpDoes
    <3>3. Both = r
      BY <2>1
    <3> HIDE DEF r, Both
    <3>. QED  BY <1>1, <2>1, <3>2, <3>3
  <2>2. CASE ~Changed("AvbInterface1")
    BY <1>0, <1>2, <2>2, DoesNothing
  <2>. QED  BY <2>1, <2>2
<1>4. UpdateEntity(e, interfaces) = Notify(last, "interfaces")
  BY DEF UpdateEntity, First
<1> HIDE DEF Both
<1>5. Does(e, Both, C, {})
  <2>1. Does(e, Both, C \cup C, {} \cup {})
    BY <1>0, <1>1, <1>3, DoesThen
  <2>. QED  BY <1>0, <2>1
<1>6. Both \in Entities
  BY <1>5 DEF Does
<1>7. last \in Entities /\ Only(Both, last, {"adp"}) /\ last.adp = interfaces
  BY <1>6 DEF Entities, Records, Only, Fields
<1> HIDE DEF last
<1>8. Does(Both, last, {"adp"}, {"interfaces"})
  <2>1. Keeps(Both, last)
    BY <1>7 DEF Only, Fields, Keeps, Verdict
  <2>2. \A w \in HealthFields \ {"interfaces"} : Health(last)[w] = Health(Both)[w]
    BY <1>6, <1>7, HealthKept DEF HealthFields
  <2>. QED  BY <1>0, <1>6, <1>7, <2>1, <2>2, DoesSilently
<1>9. Does(e, last, C, {"interfaces"})
  <2>1. Does(e, last, C \cup {"adp"}, {} \cup {"interfaces"})
    BY <1>0, <1>5, <1>8, DoesThen
  <2>. QED  BY <1>0, <2>1
<1>10. Does(e, Notify(last, "interfaces"), C, {"interfaces"} \ {"interfaces"})
  BY <1>0, <1>9, ToldDoes
<1>11. LET r == Notify(last, "interfaces")
       IN  /\ r.adp = interfaces /\ r.aem = Both.aem /\ r.warning = Both.warning
           /\ r.flags = Both.flags /\ r.redundant = Both.redundant
  <2>1. /\ last.aem = Both.aem /\ last.warning = Both.warning
        /\ last.flags = Both.flags /\ last.redundant = Both.redundant
    BY <1>7 DEF Only, Fields
  <2>. QED  BY <1>0, <1>7, <2>1, NotifyKeeps
<1>12. Warns(Both) = Warns(Notify(last, "interfaces"))
  BY <1>11 DEF Warns
<1>13. \A i \in Interfaces : Both.aem[i] = IF Changed(i) /\ Modelled(e) THEN interfaces[i] ELSE e.aem[i]
  BY <1>1, <1>3 DEF Interfaces
<1>. QED  BY <1>0, <1>1, <1>3, <1>4, <1>10, <1>11, <1>12, <1>13

\* Pairs of counters that a message of the device has.
CountersMessages ==
  [kind : {"counters"}, of : Counted, valid : SUBSET {"more", "less"},
   more : 0..(Width - 1), less : 0..(Width - 1)]

LEMMA CountersSet ==
  ASSUME NEW e \in Entities, NEW u \in Counted, NEW pair \in Pairs
  PROVE  LET r == [e EXCEPT !.counters[u] = pair]
         IN  /\ r \in Entities /\ Does(e, r, {"counters"}, {"counters"})
             /\ r.counters[u] = pair /\ \A v \in Counted \ {u} : r.counters[v] = e.counters[v]
             /\ r.flags = e.flags /\ r.links = e.links
<1> DEFINE r == [e EXCEPT !.counters[u] = pair]
<1>1. /\ r \in Entities /\ Only(e, r, {"counters"})
      /\ r.counters[u] = pair /\ \A v \in Counted \ {u} : r.counters[v] = e.counters[v]
  BY DEF Entities, Records, Only, Fields
<1> HIDE DEF r
<1>2. Keeps(e, r) /\ r.flags = e.flags /\ r.links = e.links
  BY <1>1 DEF Only, Fields, Keeps, Verdict
<1>3. \A w \in HealthFields \ {"counters"} : Health(r)[w] = Health(e)[w]
  BY <1>1, HealthKept DEF HealthFields
<1>4. {"counters"} \in SUBSET HealthFields
  BY DEF HealthFields
<1>5. Does(e, r, {"counters"}, {"counters"})
  BY <1>1, <1>2, <1>3, <1>4, DoesSilently
<1>. QED  BY <1>1, <1>2, <1>5 DEF r

LEMMA MergedIs ==
  ASSUME NEW old \in Pairs, NEW news \in CountersMessages
  PROVE  /\ Merged(old, news) \in Pairs
         /\ news.valid = {"more", "less"} =>
              Merged(old, news) = [more |-> news.more, less |-> news.less]
BY DEF Merged, Pairs, CountersMessages, Counter

LEMMA WholeIs ==
  ASSUME NEW pair \in Pairs
  PROVE  LET whole == [more |-> OrZero(pair.more), less |-> OrZero(pair.less)]
         IN  /\ whole \in Pairs
             /\ None \notin {pair.more, pair.less} => whole = pair
<1>1. 0 \in Counter
  BY DiagnosticsAssumption DEF Counter
<1>2. OrZero(pair.more) \in Counter /\ OrZero(pair.less) \in Counter
  BY <1>1 DEF OrZero, Pairs
<1>. QED  BY <1>2 DEF OrZero, Pairs

News(news) == [more |-> news.more, less |-> news.less]
Full == {"more", "less"}
Counts == {"counters", "flags", "version", "links"}

\* The counters of an interface, and the link that they tell of.
LEMMA InterfaceCountersDoes ==
  ASSUME NEW e \in Entities, NEW i \in Interfaces \cap Counted, NEW news \in CountersMessages
  PROVE  LET r == UpdateInterfaceCounters(e, i, news)
         IN  /\ Does(e, r, Counts, {"counters"})
             /\ r.counters[i] = Merged(e.counters[i], news)
             /\ \A v \in Counted \ {i} : r.counters[v] = e.counters[v]
             /\ LinkIs(r, i) /\ \A j \in Interfaces \ {i} : r.links[j] = e.links[j]
             /\ "Milan" \in r.flags => Consistent(news.more, news.less)
             /\ Consistent(news.more, news.less) => r.flags = e.flags
<1> DEFINE set == [e EXCEPT !.counters[i] = Merged(@, news)]
           checked == CheckLinkStatus(set, i)
           r == UpdateInterfaceCounters(e, i, news)
<1>0. /\ {} \in SUBSET HealthFields /\ {"counters"} \in SUBSET HealthFields
      /\ {"counters"} \cup {} = {"counters"} /\ {"counters"} \cup {"links"} \subseteq Counts
      /\ Counts \cup {"flags", "version"} = Counts /\ {"counters"} \subseteq {"counters"}
  BY DEF HealthFields, Counts
<1>1. /\ set \in Entities /\ Does(e, set, {"counters"}, {"counters"})
      /\ set.counters[i] = Merged(e.counters[i], news)
      /\ \A v \in Counted \ {i} : set.counters[v] = e.counters[v]
      /\ set.flags = e.flags /\ set.links = e.links
  <2>1. e.counters[i] \in Pairs
    BY DEF Entities, Records
  <2>2. Merged(e.counters[i], news) \in Pairs
    BY <2>1, MergedIs
  <2>3. set = [e EXCEPT !.counters[i] = Merged(e.counters[i], news)]
    OBVIOUS
  <2>. QED  BY <2>2, <2>3, CountersSet
<1> HIDE DEF set
<1>2. /\ Does(set, checked, {"links"}, {}) /\ LinkIs(checked, i)
      /\ \A j \in Interfaces \ {i} : checked.links[j] = set.links[j]
  BY <1>1, LinkDoes
<1>3. checked \in Entities /\ checked.counters = set.counters /\ checked.flags = e.flags
  BY <1>1, <1>2, OnlyKeeps
<1>4. r = IF "Milan" \in e.flags /\ ~Consistent(news.more, news.less)
          THEN RemoveCompatibilityFlag(checked, "Milan") ELSE checked
  BY DEF UpdateInterfaceCounters, set
<1> HIDE DEF checked
<1>5. Does(e, checked, {"counters"} \cup {"links"}, {"counters"} \cup {})
  BY <1>0, <1>1, <1>2, DoesThen
<1>6. Does(e, checked, Counts, {"counters"})
  BY <1>0, <1>5, DoesLess
<1>7. CASE "Milan" \in e.flags /\ ~Consistent(news.more, news.less)
  <2>1. r = RemoveCompatibilityFlag(checked, "Milan")
    BY <1>4, <1>7
  <2> HIDE DEF r
  <2>2. Does(checked, r, {"flags", "version"}, {}) /\ r.flags = checked.flags \ {"Milan"}
    BY <1>3, <2>1, RemoveDoes
  <2>3. r.counters = checked.counters /\ r.links = checked.links
    BY <1>3, <2>2, OnlyKeeps
  <2>4. Does(e, r, Counts \cup {"flags", "version"}, {"counters"} \cup {})
    BY <1>0, <1>6, <2>2, DoesThen
  <2>5. Does(e, r, Counts, {"counters"})
    BY <1>0, <2>4
  <2>6. LinkIs(r, i)
    BY <1>2, <2>3 DEF LinkIs
  <2>. QED  BY <1>1, <1>2, <1>3, <1>7, <2>2, <2>3, <2>5, <2>6 DEF r
<1>8. CASE ~("Milan" \in e.flags /\ ~Consistent(news.more, news.less))
  <2>1. r = checked
    BY <1>4, <1>8
  <2>. QED  BY <1>1, <1>2, <1>3, <1>6, <1>8, <2>1
<1>. QED  BY <1>7, <1>8

\* The counters of a stream or of a clock domain.
LEMMA OtherCountersDoes ==
  ASSUME NEW e \in Entities, NEW u \in Counted, NEW news \in CountersMessages
  PROVE  LET r == UpdateOtherCounters(e, u, news)
         IN  /\ Does(e, r, Counts, {"counters"})
             /\ news.valid = Full => r.counters[u] = News(news)
             /\ \A v \in Counted \ {u} : r.counters[v] = e.counters[v]
             /\ r.links = e.links
             /\ news.valid = Full /\ "Milan" \in r.flags => Consistent(news.more, news.less)
             /\ news.valid = Full /\ Consistent(news.more, news.less) => r.flags = e.flags
<1> DEFINE merged == Merged(e.counters[u], news)
           whole == [more |-> OrZero(merged.more), less |-> OrZero(merged.less)]
           pair == IF u = "StreamOutput" \/ "Milan" \notin e.flags THEN merged ELSE whole
           set == [e EXCEPT !.counters[u] = pair]
           r == UpdateOtherCounters(e, u, news)
<1>0. /\ {} \in SUBSET HealthFields /\ {"counters"} \in SUBSET HealthFields
      /\ {"counters"} \cup {} = {"counters"} /\ {"counters"} \subseteq Counts
      /\ Counts \cup {"flags", "version"} = Counts /\ {"counters"} \subseteq {"counters"}
  BY DEF HealthFields, Counts
<1>1. /\ merged \in Pairs /\ whole \in Pairs
      /\ news.valid = Full => merged = News(news) /\ whole = News(news)
  <2>1. e.counters[u] \in Pairs
    BY DEF Entities, Records
  <2>2. merged \in Pairs /\ (news.valid = Full => merged = News(news))
    BY <2>1, MergedIs DEF Full, News
  <2> HIDE DEF merged
  <2>3. whole \in Pairs /\ (None \notin {merged.more, merged.less} => whole = merged)
    BY <2>2, WholeIs
  <2>4. news.valid = Full => None \notin {merged.more, merged.less}
    BY <2>2, DiagnosticsAssumption DEF News, CountersMessages
  <2>. QED  BY <2>2, <2>3, <2>4
<1>2. r = IF "Milan" \in e.flags /\ ~Consistent(whole.more, whole.less)
          THEN RemoveCompatibilityFlag(set, "Milan") ELSE set
  BY DEF UpdateOtherCounters
<1> HIDE DEF merged, whole
<1>3. pair \in Pairs /\ (news.valid = Full => pair = News(news))
  BY <1>1
<1> HIDE DEF pair
<1>4. /\ set \in Entities /\ Does(e, set, {"counters"}, {"counters"})
      /\ set.counters[u] = pair
      /\ \A v \in Counted \ {u} : set.counters[v] = e.counters[v]
      /\ set.flags = e.flags /\ set.links = e.links
  BY <1>3, CountersSet
<1> HIDE DEF set
<1>5. Does(e, set, Counts, {"counters"})
  BY <1>0, <1>4, DoesLess
<1>6. News(news).more = news.more /\ News(news).less = news.less
  BY DEF News
<1>7. CASE "Milan" \in e.flags /\ ~Consistent(whole.more, whole.less)
  <2>1. r = RemoveCompatibilityFlag(set, "Milan")
    BY <1>2, <1>7
  <2> HIDE DEF r
  <2>2. Does(set, r, {"flags", "version"}, {}) /\ r.flags = set.flags \ {"Milan"}
    BY <1>4, <2>1, RemoveDoes
  <2>3. r.counters = set.counters /\ r.links = set.links
    BY <1>4, <2>2, OnlyKeeps
  <2>4. Does(e, r, Counts \cup {"flags", "version"}, {"counters"} \cup {})
    BY <1>0, <1>5, <2>2, DoesThen
  <2>5. Does(e, r, Counts, {"counters"})
    BY <1>0, <2>4
  <2>. QED  BY <1>1, <1>3, <1>4, <1>6, <1>7, <2>2, <2>3, <2>5 DEF r
<1>8. CASE ~("Milan" \in e.flags /\ ~Consistent(whole.more, whole.less))
  <2>1. r = set
    BY <1>2, <1>8
  <2>. QED  BY <1>1, <1>3, <1>4, <1>5, <1>6, <1>8, <2>1
<1>. QED  BY <1>7, <1>8

\* What an update of the counters makes of the entity, whatever it is that was counted.
CountersTold(e, r, news) ==
  /\ Does(e, r, Counts, {})
  /\ Modelled(e) /\ news.valid = Full => r.counters[news.of] = News(news)
  /\ \A v \in Counted \ {news.of} : r.counters[v] = e.counters[v]
  /\ \A i \in Interfaces \cap Counted : LinkIs(e, i) => LinkIs(r, i)
  /\ Modelled(e) /\ news.valid = Full /\ "Milan" \in r.flags => Consistent(news.more, news.less)
  /\ news.valid = Full /\ Consistent(news.more, news.less) => r.flags = e.flags

LEMMA CountersDoes ==
  ASSUME NEW e \in Entities, NEW news \in CountersMessages
  PROVE  CountersTold(e, UpdateCounters(e, news), news)
<1>0. /\ {} \in SUBSET HealthFields /\ {"counters"} \in SUBSET HealthFields
      /\ "counters" \in HealthFields /\ {"counters"} \ {"counters"} = {}
      /\ news.of \in Counted
  BY DEF HealthFields, CountersMessages
<1>1. CASE ~Modelled(e)
  <2>1. UpdateCounters(e, news) = e
    BY <1>1 DEF UpdateCounters
  <2>2. Does(e, e, Counts, {})
    BY <1>0, DoesNothing
  <2>. QED  BY <1>1, <2>1, <2>2 DEF CountersTold
<1>2. CASE Modelled(e) /\ news.of \in Interfaces
  <2> DEFINE i == news.of
             s == UpdateInterfaceCounters(e, i, news)
             r == Notify(s, "counters")
  <2>1. UpdateCounters(e, news) = r
    BY <1>2 DEF UpdateCounters
  <2>2. /\ Does(e, s, Counts, {"counters"})
        /\ s.counters[i] = Merged(e.counters[i], news)
        /\ \A v \in Counted \ {i} : s.counters[v] = e.counters[v]
        /\ LinkIs(s, i) /\ \A j \in Interfaces \ {i} : s.links[j] = e.links[j]
        /\ "Milan" \in s.flags => Consistent(news.more, news.less)
        /\ Consistent(news.more, news.less) => s.flags = e.flags
    BY <1>0, <1>2, InterfaceCountersDoes
  <2> HIDE DEF s
  <2>3. Does(e, r, Counts, {"counters"} \ {"counters"})
    BY <1>0, <2>2, ToldDoes
  <2>4. s \in Entities
    BY <2>2 DEF Does
  <2>5. r.counters = s.counters /\ r.links = s.links /\ r.flags = s.flags
    BY <1>0, <2>4, NotifyKeeps
  <2> HIDE DEF r
  <2>6. news.valid = Full => Merged(e.counters[i], news) = News(news)
    <3>1. e.counters[i] \in Pairs
      BY <1>0 DEF Entities, Records
    <3>. QED  BY <3>1, MergedIs DEF Full, News
  <2>7. \A j \in Interfaces \cap Counted : LinkIs(e, j) => LinkIs(r, j)
    BY <2>2, <2>5 DEF LinkIs
  <2>. QED  BY <1>0, <2>1, <2>2, <2>3, <2>5, <2>6, <2>7 DEF CountersTold
<1>3. CASE Modelled(e) /\ news.of \notin Interfaces
  <2> DEFINE u == news.of
             s == UpdateOtherCounters(e, u, news)
             r == Notify(s, "counters")
  <2>1. UpdateCounters(e, news) = r
    BY <1>3 DEF UpdateCounters
  <2>2. /\ Does(e, s, Counts, {"counters"})
        /\ news.valid = Full => s.counters[u] = News(news)
        /\ \A v \in Counted \ {u} : s.counters[v] = e.counters[v]
        /\ s.links = e.links
        /\ news.valid = Full /\ "Milan" \in s.flags => Consistent(news.more, news.less)
        /\ news.valid = Full /\ Consistent(news.more, news.less) => s.flags = e.flags
    BY <1>0, OtherCountersDoes
  <2> HIDE DEF s
  <2>3. Does(e, r, Counts, {"counters"} \ {"counters"})
    BY <1>0, <2>2, ToldDoes
  <2>4. s \in Entities
    BY <2>2 DEF Does
  <2>5. r.counters = s.counters /\ r.links = s.links /\ r.flags = s.flags
    BY <1>0, <2>4, NotifyKeeps
  <2> HIDE DEF r
  <2>7. \A j \in Interfaces \cap Counted : LinkIs(e, j) => LinkIs(r, j)
    BY <1>3, <2>2, <2>5 DEF LinkIs
  <2>. QED  BY <1>0, <2>1, <2>2, <2>3, <2>5, <2>7 DEF CountersTold
<1>. QED  BY <1>1, <1>2, <1>3

\* So does an answer of the enumeration.
LEMMA CountersAnsweredDoes ==
  ASSUME NEW e \in Entities, NEW news \in CountersMessages
  PROVE  CountersTold(e, CountersAnswered(e, news), news)
<1>0. {} \in SUBSET HealthFields /\ {"flags", "version"} \cup Counts = Counts /\ {} \cup {} = {}
  BY DEF HealthFields, Counts
<1>1. CASE "Milan" \in e.flags /\ news.valid # Full
  <2> DEFINE d == RemoveCompatibilityFlag(e, "Milan")
             r == UpdateCounters(d, news)
  <2>1. Does(e, d, {"flags", "version"}, {})
    BY RemoveDoes
  <2>2. d \in Entities /\ d.counters = e.counters /\ d.links = e.links
    BY <2>1, OnlyKeeps
  <2>3. CountersAnswered(e, news) = r
    BY <1>1 DEF CountersAnswered, Full
  <2> HIDE DEF d
  <2>4. CountersTold(d, r, news)
    BY <2>2, CountersDoes
  <2> HIDE DEF r
  <2>5. Does(e, r, {"flags", "version"} \cup Counts, {} \cup {})
    BY <1>0, <2>1, <2>4, DoesThen DEF CountersTold
  <2>6. Does(e, r, Counts, {})
    BY <1>0, <2>5
  <2>7. \A i \in Interfaces \cap Counted : LinkIs(e, i) => LinkIs(r, i)
    BY <2>2, <2>4 DEF CountersTold, LinkIs
  <2>. QED  BY <1>1, <2>2, <2>3, <2>4, <2>6, <2>7 DEF CountersTold
<1>2. CASE ~("Milan" \in e.flags /\ news.valid # Full)
  <2>1. CountersAnswered(e, news) = UpdateCounters(e, news)
    BY <1>2 DEF CountersAnswered, Full
  <2>. QED  BY <2>1, CountersDoes
<1>. QED  BY <1>1, <1>2

Legal(c, value) == ValuesVerdict(c, value) # "InvalidValues"
Beyond(c, value) == ValuesVerdict(c, value) = "CurrentValueOutOfRange"

LEMMA ControlValuesDo ==
  ASSUME NEW e \in Entities, NEW c \in Controls, NEW value \in Values, Modelled(e)
  PROVE  LET r == UpdateControlValues(e, c, value)
         IN  /\ Does(e, r, {"values", "outside", "flags", "version"}, {})
             /\ r.values[c] = value /\ \A d \in Controls \ {c} : r.values[d] = e.values[d]
             /\ c \in r.outside <=> Beyond(c, value)
             /\ \A d \in Controls \ {c} : d \in r.outside <=> d \in e.outside
             /\ "Milan" \in r.flags => Legal(c, value)
             /\ Legal(c, value) => r.flags = e.flags
<1> DEFINE is == Beyond(c, value)
           judged == IF Legal(c, value) THEN e ELSE RemoveCompatibilityFlag(e, "IEEE17221")
           bounded == UpdateOutOfBounds(judged, c, is)
           set == [bounded EXCEPT !.values[c] = value]
           r == Notify(set, "values")
           C == {"values", "outside", "flags", "version"}
<1>0. /\ {} \in SUBSET HealthFields /\ {"values"} \in SUBSET HealthFields /\ "values" \in HealthFields
      /\ {"values"} \ {"values"} = {} /\ {} \cup {} = {} /\ {} \cup {"values"} = {"values"}
      /\ ({"flags", "version"} \cup {"outside"}) \cup {"values"} = C
  BY DEF HealthFields
<1>1. /\ Does(e, judged, {"flags", "version"}, {})
      /\ "Milan" \in judged.flags => Legal(c, value)
      /\ Legal(c, value) => judged.flags = e.flags
  <2>1. CASE Legal(c, value)
    BY <1>0, <2>1, DoesNothing
  <2>2. CASE ~Legal(c, value)
    BY <2>2, RemoveDoes
  <2>. QED  BY <2>1, <2>2
<1>2. judged \in Entities /\ judged.values = e.values /\ judged.outside = e.outside
  BY <1>1, OnlyKeeps
<1>3. UpdateControlValues(e, c, value) = r
  BY DEF UpdateControlValues, ValuesJudged, Legal, Beyond
<1> HIDE DEF judged
<1>4. is \in BOOLEAN
  BY DEF Beyond
<1> HIDE DEF is
<1>5. /\ Does(judged, bounded, {"outside"}, {})
      /\ bounded.outside = IF is THEN judged.outside \cup {c} ELSE judged.outside \ {c}
  BY <1>2, <1>4, OutOfBoundsDoes
<1>6. bounded \in Entities /\ bounded.values = judged.values /\ bounded.flags = judged.flags
  BY <1>2, <1>5, OnlyKeeps
<1> HIDE DEF bounded
<1>7. Does(e, bounded, {"flags", "version"} \cup {"outside"}, {} \cup {})
  BY <1>0, <1>1, <1>5, DoesThen
<1>8. /\ set \in Entities /\ Only(bounded, set, {"values"})
      /\ set.values[c] = value /\ \A d \in Controls \ {c} : set.values[d] = bounded.values[d]
  BY <1>6 DEF Entities, Records, Only, Fields
<1> HIDE DEF set
<1>9. Does(bounded, set, {"values"}, {"values"})
  <2>1. Keeps(bounded, set)
    BY <1>8 DEF Only, Fields, Keeps, Verdict
  <2>2. \A w \in HealthFields \ {"values"} : Health(set)[w] = Health(bounded)[w]
    BY <1>6, <1>8, HealthKept DEF HealthFields
  <2>. QED  BY <1>0, <1>6, <1>8, <2>1, <2>2, DoesSilently
<1>10. Does(e, set, C, {"values"})
  <2>1. Does(e, bounded, {"flags", "version"} \cup {"outside"}, {})
    BY <1>0, <1>7
  <2>2. Does(e, set, ({"flags", "version"} \cup {"outside"}) \cup {"values"}, {} \cup {"values"})
    BY <1>0, <2>1, <1>9, DoesThen
  <2>. QED  BY <1>0, <2>2
<1>11. Does(e, r, C, {"values"} \ {"values"})
  BY <1>0, <1>10, ToldDoes
<1>12. r.values = set.values /\ r.outside = set.outside /\ r.flags = set.flags
  BY <1>0, <1>8, NotifyKeeps
<1>13. set.outside = bounded.outside /\ set.flags = bounded.flags
  BY <1>8 DEF Only, Fields
<1> HIDE DEF r, C
<1>14. r.outside = IF is THEN e.outside \cup {c} ELSE e.outside \ {c}
  BY <1>2, <1>5, <1>12, <1>13
<1>15. r.flags = judged.flags
  BY <1>6, <1>12, <1>13
<1>16. r.values[c] = value /\ \A d \in Controls \ {c} : r.values[d] = e.values[d]
  BY <1>2, <1>6, <1>8, <1>12
<1>. QED  BY <1>0, <1>1, <1>3, <1>11, <1>14, <1>15, <1>16 DEF is, C

LEMMA MisbehavingDoes ==
  ASSUME NEW e \in Entities, Verdict(e)
  PROVE  LET r == SetMisbehaving(e)
         IN  /\ r \in Entities /\ Only(e, r, {"flags", "version", "told"})
             /\ Verdict(r) /\ "Milan" \notin r.flags
             /\ AgreeBut(e, {}) => AgreeBut(r, {})
<1>1. CASE "Misbehaving" \in e.flags
  BY <1>1 DEF SetMisbehaving, Only, Verdict
<1>2. CASE "Misbehaving" \notin e.flags
  <2> DEFINE removed == RemoveCompatibilityFlag(e, "IEEE17221")
             set == [removed EXCEPT !.flags = @ \cup {"Misbehaving"}]
             r == Notify(set, "compatibility")
  <2>0. /\ {} \in SUBSET HealthFields /\ {} \cup {} = {} /\ {} \cup {"compatibility"} = {"compatibility"}
        /\ {"compatibility"} \in SUBSET HealthFields /\ "compatibility" \in HealthFields
        /\ {"compatibility"} \ {"compatibility"} = {}
    BY DEF HealthFields
  <2>1. SetMisbehaving(e) = r
    BY <1>2 DEF SetMisbehaving
  <2>2. /\ Does(e, removed, {"flags", "version"}, {})
        /\ removed.flags = e.flags \ {"IEEE17221", "Milan"}
    BY RemoveDoes
  <2>3. removed \in Entities /\ Verdict(removed)
    BY <2>2 DEF Does, Keeps
  <2> HIDE DEF removed
  <2>4. /\ set \in Entities /\ Only(removed, set, {"flags"})
        /\ set.flags = removed.flags \cup {"Misbehaving"}
    <3>1. removed.flags \cup {"Misbehaving"} \in SUBSET Flags
      BY <2>3 DEF Entities, Records, Flags
    <3> DEFINE flags == removed.flags \cup {"Misbehaving"}
    <3>2. set = [removed EXCEPT !.flags = flags]
      OBVIOUS
    <3> HIDE DEF flags, set
    <3>3. flags \in SUBSET Flags
      BY <3>1 DEF flags
    <3>4. set \in Entities /\ Only(removed, set, {"flags"}) /\ set.flags = flags
      BY <2>3, <3>2, <3>3 DEF Entities, Records, Only, Fields
    <3>. QED  BY <3>4 DEF flags
  <2> HIDE DEF set
  <2>5. Verdict(set) /\ "Milan" \notin set.flags
    <3>1. set.version = removed.version
      BY <2>4 DEF Only, Fields
    <3>. QED  BY <2>2, <2>3, <2>4, <3>1 DEF Verdict
  <2>6. ASSUME AgreeBut(e, {}) PROVE AgreeBut(set, {"compatibility"})
    <3>1. AgreeBut(removed, {})
      BY <2>0, <2>2, <2>6 DEF Does
    <3>2. \A w \in HealthFields \ {"compatibility"} : Health(set)[w] = Health(removed)[w]
      BY <2>3, <2>4, HealthKept DEF HealthFields
    <3>3. set.status = removed.status /\ set.told = removed.told
      BY <2>4 DEF Only, Fields
    <3>. QED  BY <3>1, <3>2, <3>3 DEF AgreeBut
  <2>7. /\ r \in Entities /\ Only(set, r, {"told"})
        /\ \A before \in SUBSET HealthFields :
             AgreeBut(set, before) => AgreeBut(r, before \ {"compatibility"})
    BY <2>0, <2>4, NotifyDoes
  <2>8. r.flags = set.flags /\ r.version = set.version
    BY <2>0, <2>4, NotifyKeeps
  <2> HIDE DEF r
  <2>9. Only(e, r, {"flags", "version", "told"})
    <3>1. \A f \in Fields \ {"flags", "version", "told"} :
             removed[f] = e[f] /\ set[f] = removed[f] /\ r[f] = set[f]
      BY <2>2, <2>4, <2>7 DEF Does, Only
    <3>. QED  BY <3>1 DEF Only
  <2>10. AgreeBut(e, {}) => AgreeBut(r, {})
    <3>1. AgreeBut(e, {}) => AgreeBut(r, {"compatibility"} \ {"compatibility"})
      BY <2>0, <2>6, <2>7
    <3>. QED  BY <2>0, <3>1
  <2>. QED  BY <2>1, <2>5, <2>7, <2>8, <2>9, <2>10 DEF Verdict
<1>. QED  BY <1>1, <1>2

\* A Milan entity is warned of exactly when it should be.
RightlyWarned(e) == "Milan" \in e.flags => e.warning = Warns(e)

Gptps == {"adp", "aem", "warning", "flags", "version"}

\* What the controller knows of the grandmaster of an interface agrees with itself.
SameGptp(e, i) == e.adp[i] # None => e.aem[i] = e.adp[i]

LEMMA AvbInfoDoes ==
  ASSUME NEW e \in Entities, NEW i \in Interfaces, NEW gm \in Grandmasters, Modelled(e)
  PROVE  LET r == UpdateAvbInfo(e, i, gm)
         IN  /\ Does(e, r, Gptps, {}) /\ r.flags = e.flags
             /\ r.aem[i] = gm /\ SameGptp(r, i)
             /\ \A j \in Interfaces \ {i} : r.aem[j] = e.aem[j] /\ r.adp[j] = e.adp[j]
             /\ RightlyWarned(e) => RightlyWarned(r)
<1> DEFINE r == UpdateGptp(e, i, gm)
<1>1. UpdateAvbInfo(e, i, gm) = r
  BY DEF UpdateAvbInfo
<1>2. /\ Does(e, r, {"adp", "aem", "warning"}, {})
      /\ r.adp[i] = IF e.adp[i] = None THEN None ELSE gm
      /\ r.aem[i] = IF Modelled(e) THEN gm ELSE e.aem[i]
      /\ \A j \in Interfaces \ {i} : r.adp[j] = e.adp[j] /\ r.aem[j] = e.aem[j]
      /\ (e.warning = Warns(e)) => (r.warning = Warns(r))
  BY GptpDoes
<1> HIDE DEF r
<1>3. r.flags = e.flags
  BY <1>2, OnlyKeeps
<1>4. {} \in SUBSET HealthFields /\ {"adp", "aem", "warning"} \subseteq Gptps
  BY DEF Gptps
<1>5. Does(e, r, Gptps, {})
  BY <1>2, <1>4, DoesLess
<1>. QED  BY <1>1, <1>2, <1>3, <1>5 DEF SameGptp, RightlyWarned

LEMMA AvbInfoRefusedDoes ==
  ASSUME NEW e \in Entities, NEW i \in Interfaces, Modelled(e)
  PROVE  LET r == AvbInfoRefused(e, i)
         IN  /\ Does(e, r, Gptps, {}) /\ SameGptp(r, i)
             /\ \A j \in Interfaces \ {i} : r.aem[j] = e.aem[j] /\ r.adp[j] = e.adp[j]
             /\ RightlyWarned(e) => RightlyWarned(r)
<1> DEFINE judged == DecreaseMilanVersion(e, 0)
           gm == e.adp[i]
           r == AvbInfoRefused(e, i)
<1>0. /\ {} \in SUBSET HealthFields /\ {} \cup {} = {} /\ {"flags", "version"} \subseteq Gptps
      /\ {"flags", "version"} \cup {"adp", "aem", "warning"} = Gptps
  BY DEF Gptps
<1>1. Does(e, judged, {"flags", "version"}, {})
  BY DecreaseDoes
<1>2. r = IF e.adp[i] = None THEN judged ELSE UpdateGptp(judged, i, gm)
  BY DEF AvbInfoRefused
<1> HIDE DEF judged
<1>3. /\ judged \in Entities /\ judged.adp = e.adp /\ judged.aem = e.aem /\ judged.status = e.status
      /\ judged.warning = e.warning /\ judged.redundant = e.redundant
  BY <1>1, OnlyKeeps
<1>4. RightlyWarned(e) => RightlyWarned(judged)
  BY <1>1, <1>3 DEF Does, Keeps, RightlyWarned, Warns
<1>5. CASE e.adp[i] = None
  <2>1. r = judged
    BY <1>2, <1>5
  <2>2. Does(e, judged, Gptps, {})
    BY <1>0, <1>1, DoesLess
  <2>. QED  BY <1>3, <1>4, <1>5, <2>1, <2>2 DEF SameGptp
<1>6. CASE e.adp[i] # None
  <2>1. r = UpdateGptp(judged, i, gm)
    BY <1>2, <1>6
  <2>2. gm \in Grandmasters
    BY <1>6 DEF Entities, Records, Gms
  <2> HIDE DEF r, gm
  <2>3. /\ Does(judged, r, {"adp", "aem", "warning"}, {})
        /\ r.adp[i] = IF judged.adp[i] = None THEN None ELSE gm
        /\ r.aem[i] = IF Modelled(judged) THEN gm ELSE judged.aem[i]
        /\ \A j \in Interfaces \ {i} : r.adp[j] = judged.adp[j] /\ r.aem[j] = judged.aem[j]
        /\ (judged.warning = Warns(judged)) => (r.warning = Warns(r))
    BY <1>3, <2>1, <2>2, GptpDoes
  <2>4. Does(e, r, {"flags", "version"} \cup {"adp", "aem", "warning"}, {} \cup {})
    BY <1>0, <1>1, <2>3, DoesThen
  <2>5. Does(e, r, Gptps, {})
    BY <1>0, <2>4
  <2>6. r.flags = judged.flags
    BY <1>3, <2>3, OnlyKeeps
  <2>. QED  BY <1>3, <1>4, <2>3, <2>5, <2>6 DEF Modelled, SameGptp, RightlyWarned, r
<1>. QED  BY <1>5, <1>6

\* The entity says which version of Milan it follows.
LEMMA MilanInfoDoes ==
  ASSUME NEW e \in Entities, NEW version \in Nat,
         e.status = "known", e.flags = {"IEEE17221"}, e.version = 0
  PROVE  LET r == MilanInfo(e, version)
         IN  /\ r \in Entities /\ Only(e, r, {"flags", "version", "specification"})
             /\ Verdict(r) /\ "Misbehaving" \notin r.flags
             /\ version # 0 => "Milan" \in r.flags /\ r.specification = version
<1>1. CASE version = 0
  BY <1>1 DEF MilanInfo, Only, Verdict
<1>2. CASE version # 0
  <2> DEFINE set == [e EXCEPT !.flags = {"IEEE17221", "Milan"}]
             milan == IF version >= 13 THEN version ELSE 12
             r == [set EXCEPT !.version = milan, !.specification = version]
  <2>1. AddCompatibilityFlag(e, "Milan") = set
    <3>1. {"IEEE17221"} \cup {"IEEE17221", "Milan"} \cup {} = {"IEEE17221", "Milan"}
      OBVIOUS
    <3>. QED  BY <3>1 DEF AddCompatibilityFlag, NotifyIf, Notify
  <2>2. MilanInfo(e, version) = r
    BY <1>2, <2>1 DEF MilanInfo
  <2>3. milan \in Nat /\ milan >= 12
    OBVIOUS
  <2> HIDE DEF milan
  <2>4. set \in Entities /\ Only(e, set, {"flags"}) /\ set.flags = {"IEEE17221", "Milan"}
    BY DEF Entities, Records, Flags, Only, Fields
  <2> HIDE DEF set
  <2>5. /\ r \in Entities /\ Only(set, r, {"version", "specification"})
        /\ r.version = milan /\ r.specification = version
    BY <2>3, <2>4 DEF Entities, Records, Only, Fields
  <2> HIDE DEF r
  <2>6. r.flags = {"IEEE17221", "Milan"} /\ Only(e, r, {"flags", "version", "specification"})
    BY <2>4, <2>5 DEF Only, Fields
  <2>. QED  BY <1>2, <2>2, <2>3, <2>5, <2>6 DEF Verdict
<1>. QED  BY <1>1, <1>2

-----------------------------------------------------------------------------
(* Validation                                                                *)

LEMMA ControlsDo ==
  ASSUME NEW e \in Entities
  PROVE  LET r == ValidateControls(e)
         IN  /\ Does(e, r, {"flags", "version", "identify", "outside"}, HealthFields)
             /\ r.outside = {c \in Controls : Beyond(c, e.values[c])}
             /\ "Milan" \in r.flags => ControlsAreStandard(e)
             /\ ControlsAreStandard(e) => r.flags = e.flags
<1> DEFINE identifies == {c \in Controls : IsIdentify(c) /\ AtTop(c) /\ ValidIdentify(e, c)}
           judged == IF ControlsAreStandard(e) THEN e ELSE RemoveCompatibilityFlag(e, "IEEE17221")
           identify == IF FoundIdentify(e) THEN setting.adpControl
                       ELSE IF identifies = {} THEN None
                       ELSE CHOOSE c \in identifies : \A d \in identifies : c <= d
           outside == {c \in Controls : Beyond(c, e.values[c])}
           r == [judged EXCEPT !.identify = identify, !.outside = outside]
<1>1. ValidateControls(e) = r
  BY DEF ValidateControls, Beyond
<1>2. identify \in Identifies
  <2>1. identifies \in SUBSET Controls
    OBVIOUS
  <2>2. (CHOOSE c \in identifies : \A d \in identifies : c <= d) \in Identifies
    BY <2>1 DEF Identifies
  <2> HIDE DEF identifies
  <2>. QED  BY <2>2 DEF Identifies
<1>3. outside \in SUBSET Controls
  OBVIOUS
<1>4. /\ Does(e, judged, {"flags", "version"}, {})
      /\ "Milan" \in judged.flags => ControlsAreStandard(e)
      /\ ControlsAreStandard(e) => judged.flags = e.flags
  <2>1. CASE ControlsAreStandard(e)
    BY <2>1, DoesNothing
  <2>2. CASE ~ControlsAreStandard(e)
    BY <2>2, RemoveDoes
  <2>. QED  BY <2>1, <2>2
<1>5. judged \in Entities
  BY <1>4 DEF Does
<1> HIDE DEF judged, identify, outside
<1>6. /\ r \in Entities /\ Only(judged, r, {"identify", "outside"}) /\ r.outside = outside
  BY <1>2, <1>3, <1>5 DEF Entities, Records, Only, Fields
<1> HIDE DEF r
<1>7. Keeps(judged, r) /\ r.flags = judged.flags
  BY <1>6 DEF Only, Fields, Keeps, Verdict
<1>8. Does(judged, r, {"identify", "outside"}, HealthFields)
  BY <1>5, <1>6, <1>7, DoesSilently
<1>9. Does(e, r, {"flags", "version"} \cup {"identify", "outside"}, {} \cup HealthFields)
  BY <1>4, <1>8, DoesThen
<1>10. {"flags", "version"} \cup {"identify", "outside"} = {"flags", "version", "identify", "outside"}
  OBVIOUS
<1>11. Does(e, r, {"flags", "version", "identify", "outside"}, HealthFields)
  BY <1>9, <1>10
<1>. QED  BY <1>1, <1>4, <1>6, <1>7, <1>11 DEF outside

LEMMA RedundancyDoes ==
  ASSUME NEW e \in Entities
  PROVE  LET r == ValidateRedundancy(e)
         IN  /\ Does(e, r, {"flags", "version", "redundant"}, HealthFields)
             /\ "Milan" \in r.flags <=> "Milan" \in e.flags
             /\ "Milan" \in r.flags => r.redundant = HasRedundantStream
<1> DEFINE C == {"flags", "version", "redundant"}
<1>1. CASE "Milan" \notin e.flags
  <2>1. ValidateRedundancy(e) = e
    BY <1>1 DEF ValidateRedundancy
  <2>2. Does(e, e, C, HealthFields)
    BY DoesNothing
  <2>. QED  BY <1>1, <2>1, <2>2
<1>2. CASE "Milan" \in e.flags
  <2> DEFINE warned == IF HasRedundantStream # setting.redundancyBit THEN SetMilanWarning(e) ELSE e
             r == [warned EXCEPT !.redundant = HasRedundantStream]
  <2>1. ValidateRedundancy(e) = r
    BY <1>2 DEF ValidateRedundancy
  <2>2. Does(e, warned, {"flags", "version"}, {}) /\ ("Milan" \in warned.flags <=> "Milan" \in e.flags)
    <3>1. CASE HasRedundantStream # setting.redundancyBit
      BY <3>1, MilanWarnedDoes
    <3>2. CASE HasRedundantStream = setting.redundancyBit
      BY <3>2, DoesNothing
    <3>. QED  BY <3>1, <3>2
  <2>3. warned \in Entities
    BY <2>2 DEF Does
  <2> HIDE DEF warned
  <2>4. HasRedundantStream \in BOOLEAN
    BY DEF HasRedundantStream
  <2>5. r \in Entities /\ Only(warned, r, {"redundant"}) /\ r.redundant = HasRedundantStream
    BY <2>3, <2>4 DEF Entities, Records, Only, Fields
  <2> HIDE DEF r
  <2>6. Keeps(warned, r) /\ r.flags = warned.flags
    BY <2>5 DEF Only, Fields, Keeps, Verdict
  <2>7. Does(warned, r, {"redundant"}, HealthFields)
    BY <2>3, <2>5, <2>6, DoesSilently
  <2>8. Does(e, r, {"flags", "version"} \cup {"redundant"}, {} \cup HealthFields)
    BY <2>2, <2>7, DoesThen
  <2>9. {"flags", "version"} \cup {"redundant"} = C
    OBVIOUS
  <2>10. Does(e, r, C, HealthFields)
    BY <2>8, <2>9
  <2>. QED  BY <2>1, <2>2, <2>5, <2>6, <2>10
<1>. QED  BY <1>1, <1>2

LEMMA ModelDoes ==
  ASSUME NEW e \in Entities
  PROVE  LET r == ValidateModel(e)
         IN  /\ Does(e, r, {"flags", "version"}, {})
             /\ /\ setting.numbered \/ "nested" \in setting.counts
                /\ MilanModel(e.specification) \/ "nested" \in setting.counts
                /\ "Milan" \in e.flags
                => "Milan" \in r.flags
<1> DEFINE C == {"flags", "version"}
<1>0. C \cup C = C /\ {} \cup {} = {} /\ {} \in SUBSET HealthFields
  OBVIOUS
<1>1. CASE "nested" \in setting.counts
  BY <1>1, WarnedDoes DEF ValidateModel
<1>2. CASE "nested" \notin setting.counts
  <2> DEFINE numbered == IF setting.numbered THEN e ELSE RemoveCompatibilityFlag(e, "IEEE17221")
             exclusive == IF ExclusiveFormats(e.specification) THEN numbered ELSE DecreaseMilanVersion(numbered, 12)
  <2>1. Does(e, numbered, C, {}) /\ (setting.numbered => numbered = e)
    <3>1. CASE setting.numbered
      BY <1>0, <3>1, DoesNothing
    <3>2. CASE ~setting.numbered
      BY <3>2, RemoveDoes
    <3>. QED  BY <3>1, <3>2
  <2>2. numbered \in Entities
    BY <2>1 DEF Does
  <2>3. ValidateModel(e) = IF "Milan" \notin numbered.flags THEN numbered
                           ELSE IF MilanModel(e.specification) THEN exclusive
                           ELSE RemoveCompatibilityFlag(exclusive, "Milan")
    BY <1>2 DEF ValidateModel
  <2> HIDE DEF numbered
  <2>4. Does(numbered, exclusive, C, {}) /\ exclusive.flags = numbered.flags
    <3>1. CASE ExclusiveFormats(e.specification)
      BY <1>0, <2>2, <3>1, DoesNothing
    <3>2. CASE ~ExclusiveFormats(e.specification)
      BY <2>2, <3>2, DecreaseDoes
    <3>. QED  BY <3>1, <3>2
  <2>5. exclusive \in Entities
    BY <2>4 DEF Does
  <2> HIDE DEF exclusive
  <2>6. Does(e, exclusive, C, {})
    <3>1. Does(e, exclusive, C \cup C, {} \cup {})
      BY <1>0, <2>1, <2>4, DoesThen
    <3>. QED  BY <1>0, <3>1
  <2>7. Does(e, RemoveCompatibilityFlag(exclusive, "Milan"), C, {})
    <3>1. Does(exclusive, RemoveCompatibilityFlag(exclusive, "Milan"), C, {})
      BY <2>5, RemoveDoes
    <3> DEFINE s == RemoveCompatibilityFlag(exclusive, "Milan")
    <3> HIDE DEF s
    <3>2. Does(exclusive, s, C, {})
      BY <3>1 DEF s
    <3>3. Does(e, s, C \cup C, {} \cup {})
      BY <1>0, <2>6, <3>2, DoesThen
    <3>. QED  BY <1>0, <3>3 DEF s
  <2>. QED  BY <1>2, <2>1, <2>3, <2>4, <2>6, <2>7
<1>. QED  BY <1>1, <1>2

Checked(e, i) == IF i \in Counted THEN CheckLinkStatus(e, i) ELSE e

LEMMA CheckedDoes ==
  ASSUME NEW e \in Entities, NEW i \in Interfaces
  PROVE  /\ Does(e, Checked(e, i), {"links"}, {})
         /\ \A j \in Interfaces \cap Counted : LinkIs(e, j) => LinkIs(Checked(e, i), j)
<1>1. CASE i \in Counted
  <2> DEFINE r == CheckLinkStatus(e, i)
  <2>1. /\ Does(e, r, {"links"}, {}) /\ LinkIs(r, i)
        /\ \A j \in Interfaces \ {i} : r.links[j] = e.links[j]
    BY <1>1, LinkDoes
  <2> HIDE DEF r
  <2>2. r.counters = e.counters
    BY <2>1, OnlyKeeps
  <2>3. Checked(e, i) = r
    BY <1>1 DEF Checked, r
  <2>. QED  BY <2>1, <2>2, <2>3 DEF LinkIs
<1>2. CASE i \notin Counted
  BY <1>2, DoesNothing DEF Checked
<1>. QED  BY <1>1, <1>2

Validates == {"flags", "version", "identify", "outside", "redundant", "links", "warning"}

LEMMA ValidatesThen ==
  ASSUME NEW e \in Entities, NEW r, NEW s, NEW D, NEW T \in SUBSET HealthFields,
         Does(e, r, Validates, HealthFields), Does(r, s, D, T), D \subseteq Validates
  PROVE  Does(e, s, Validates, HealthFields) /\ s \in Entities
<1>1. HealthFields \in SUBSET HealthFields /\ Validates \cup D = Validates /\ HealthFields \cup T = HealthFields
  OBVIOUS
<1>2. Does(e, s, Validates \cup D, HealthFields \cup T)
  BY <1>1, DoesThen
<1>. QED  BY <1>1, <1>2 DEF Does

LEMMA ValidateDoes ==
  ASSUME NEW e \in Entities
  PROVE  LET r == ValidateEntity(e)
         IN  /\ Does(e, r, Validates, HealthFields)
             /\ r.outside = {c \in Controls : Beyond(c, e.values[c])}
             /\ "Milan" \in r.flags => ControlsAreStandard(e) /\ r.redundant = HasRedundantStream
             /\ r.warning = Warns(r)
             /\ \A i \in Interfaces \cap Counted : LinkIs(e, i) => LinkIs(r, i)
             /\ /\ setting.numbered \/ "nested" \in setting.counts
                /\ MilanModel(e.specification) \/ "nested" \in setting.counts
                /\ "Milan" \in e.flags /\ ControlsAreStandard(e)
                => "Milan" \in r.flags
<1> DEFINE a == ValidateControls(e)
           b == ValidateRedundancy(a)
           c == ValidateModel(b)
           d == Checked(c, "AvbInterface0")
           f == Checked(d, "AvbInterface1")
           r == CheckRedundancyWarning(f)
<1>0. /\ "AvbInterface0" \in Interfaces /\ "AvbInterface1" \in Interfaces
      /\ {} \in SUBSET HealthFields /\ HealthFields \in SUBSET HealthFields
  BY DEF Interfaces
<1>1. ValidateEntity(e) = r
  BY DEF ValidateEntity, Checked
<1>2. /\ Does(e, a, {"flags", "version", "identify", "outside"}, HealthFields)
      /\ a.outside = {x \in Controls : Beyond(x, e.values[x])}
      /\ "Milan" \in a.flags => ControlsAreStandard(e)
      /\ ControlsAreStandard(e) => a.flags = e.flags
  BY ControlsDo
<1>3. Does(e, a, Validates, HealthFields) /\ a \in Entities
  <2>1. {"flags", "version", "identify", "outside"} \subseteq Validates
    BY DEF Validates
  <2>2. Does(e, a, {"flags", "version", "identify", "outside"}, HealthFields)
        /\ HealthFields \subseteq HealthFields
    BY <1>2
  <2> HIDE DEF a
  <2>3. Does(e, a, Validates, HealthFields)
    BY <1>0, <2>1, <2>2, DoesLess
  <2>. QED  BY <2>3 DEF Does
<1> HIDE DEF a
<1>4. /\ Does(a, b, {"flags", "version", "redundant"}, HealthFields)
      /\ "Milan" \in b.flags <=> "Milan" \in a.flags
      /\ "Milan" \in b.flags => b.redundant = HasRedundantStream
  BY <1>3, RedundancyDoes
<1> HIDE DEF b
<1>5. Does(e, b, Validates, HealthFields) /\ b \in Entities
  <2>1. {"flags", "version", "redundant"} \subseteq Validates
    BY DEF Validates
  <2>. QED  BY <1>0, <1>3, <1>4, <2>1, ValidatesThen
<1>6. /\ Does(b, c, {"flags", "version"}, {})
      /\ /\ setting.numbered \/ "nested" \in setting.counts
         /\ MilanModel(b.specification) \/ "nested" \in setting.counts
         /\ "Milan" \in b.flags
         => "Milan" \in c.flags
  BY <1>5, ModelDoes
<1> HIDE DEF c
<1>7. Does(e, c, Validates, HealthFields) /\ c \in Entities
  <2>1. {"flags", "version"} \subseteq Validates
    BY DEF Validates
  <2>. QED  BY <1>0, <1>5, <1>6, <2>1, ValidatesThen
<1>8. Does(c, d, {"links"}, {}) /\ \A i \in Interfaces \cap Counted : LinkIs(c, i) => LinkIs(d, i)
  BY <1>0, <1>7, CheckedDoes
<1> HIDE DEF d
<1>9. {"links"} \subseteq Validates /\ {"warning"} \subseteq Validates
  BY DEF Validates
<1>10. Does(e, d, Validates, HealthFields) /\ d \in Entities
  BY <1>0, <1>7, <1>8, <1>9, ValidatesThen
<1>11. Does(d, f, {"links"}, {}) /\ \A i \in Interfaces \cap Counted : LinkIs(d, i) => LinkIs(f, i)
  BY <1>0, <1>10, CheckedDoes
<1> HIDE DEF f
<1>12. Does(e, f, Validates, HealthFields) /\ f \in Entities
  BY <1>0, <1>9, <1>10, <1>11, ValidatesThen
<1>13. Does(f, r, {"warning"}, {}) /\ r.warning = Warns(f)
  BY <1>12, CheckWarningDoes
<1> HIDE DEF r
<1>14. Does(e, r, Validates, HealthFields)
  BY <1>0, <1>9, <1>12, <1>13, ValidatesThen
<1>15. /\ a.links = e.links /\ a.counters = e.counters /\ a.specification = e.specification
       /\ b.links = a.links /\ b.counters = a.counters /\ b.specification = a.specification
       /\ b.outside = a.outside
  BY <1>2, <1>3, <1>4, OnlyKeeps
<1>16. /\ c.links = b.links /\ c.counters = b.counters /\ c.outside = b.outside
       /\ c.redundant = b.redundant /\ ("Milan" \in c.flags => "Milan" \in b.flags)
  <2>1. "Milan" \in c.flags => "Milan" \in b.flags
    BY <1>6 DEF Does, Keeps
  <2>. QED  BY <1>5, <1>6, <2>1, OnlyKeeps
<1>17. /\ d.outside = c.outside /\ d.redundant = c.redundant /\ d.flags = c.flags
       /\ f.outside = d.outside /\ f.redundant = d.redundant /\ f.flags = d.flags
  BY <1>7, <1>8, <1>10, <1>11, OnlyKeeps
<1>18. /\ r.outside = f.outside /\ r.redundant = f.redundant /\ r.flags = f.flags
       /\ r.aem = f.aem /\ r.links = f.links /\ r.counters = f.counters
  BY <1>12, <1>13, OnlyKeeps
<1>19. r.warning = Warns(r)
  BY <1>13, <1>18 DEF Warns
<1>20. \A i \in Interfaces \cap Counted : LinkIs(e, i) => LinkIs(r, i)
  <2>1. ASSUME NEW i \in Interfaces \cap Counted, LinkIs(e, i) PROVE LinkIs(r, i)
    <3>1. LinkIs(c, i)
      BY <1>15, <1>16, <2>1 DEF LinkIs
    <3>2. LinkIs(f, i)
      BY <1>8, <1>11, <3>1
    <3>. QED  BY <1>18, <3>2 DEF LinkIs
  <2>. QED  BY <2>1
<1>21. r.outside = {x \in Controls : Beyond(x, e.values[x])}
  BY <1>2, <1>15, <1>16, <1>17, <1>18
<1>22. "Milan" \in r.flags => ControlsAreStandard(e) /\ r.redundant = HasRedundantStream
  BY <1>2, <1>4, <1>16, <1>17, <1>18
<1>23. /\ setting.numbered \/ "nested" \in setting.counts
       /\ MilanModel(e.specification) \/ "nested" \in setting.counts
       /\ "Milan" \in e.flags /\ ControlsAreStandard(e)
       => "Milan" \in r.flags
  BY <1>2, <1>4, <1>6, <1>15, <1>17, <1>18
<1>. QED  BY <1>1, <1>14, <1>19, <1>20, <1>21, <1>22, <1>23

-----------------------------------------------------------------------------
(* The state                                                                 *)

Numbers == [more : 0..(Width - 1), less : 0..(Width - 1)]
Devices ==
  [gm : [Interfaces -> Grandmasters], counters : [Counted -> Numbers],
   values : [Controls -> Values], changes : Nat]

GptpMessages == [kind : {"gptp"}, of : Interfaces, gm : Grandmasters]
ValuesMessages == [kind : {"values"}, of : Controls, value : Values]
Notifications == GptpMessages \cup CountersMessages \cup ValuesMessages \cup [kind : {"mappings"}]
Advertisements == [kind : {"adp"}, of : Interfaces, gm : Grandmasters]

NewsFor(q) ==
  CASE q[1] = "milan" -> {setting.specification}
    [] q[1] = "model" -> [Controls -> Values]
    [] q[1] = "gptp" -> {news \in GptpMessages : news.of = q[2]}
    [] q[1] = "counters" -> {news \in CountersMessages : news.of = q[2]}
Answers == UNION {[kind : {"answer"}, to : {q}, news : NewsFor(q)] : q \in Questions}
Messages == Notifications \cup Advertisements \cup Answers

TypeOK ==
  /\ setting \in Settings /\ device \in Devices /\ wire \in Seq(Messages)
  /\ known \in [Interfaces -> Gms] /\ entity \in Entities
  /\ losses \in Nat /\ faults \in SUBSET {"partial", "counters", "values", "mappings"}

-----------------------------------------------------------------------------
(* What the enumeration asks, and what the device may say                    *)

Milan == <<"milan", "info">>
Model == <<"model", "all">>

Asking(e, k) ==
  /\ e.status = "offline" => e = NoEntity /\ \A i \in Interfaces : k[i] = None
  /\ e.status = "known" =>
       \/ e.asked = {Milan} /\ e.flags = {"IEEE17221"} /\ e.version = 0
       \/ e.asked = {Model}
  /\ e.status = "modelled" => e.asked \in (SUBSET DynamicQuestions) \ {{}}
  /\ e.status = "advertised" => e.asked = {}

\* Each answer is to a question that is asked, and it is the only one.
Answering ==
  \A n \in DOMAIN wire : wire[n].kind = "answer" =>
    /\ wire[n].to \in entity.asked
    /\ \A m \in DOMAIN wire : wire[m].kind = "answer" /\ wire[m].to = wire[n].to => m = n

\* What counters and controls say, if the device keeps to the standards.
ProperCounters(news) ==
  "partial" \notin faults => /\ news.valid = Full
                             /\ "counters" \notin faults => Consistent(news.more, news.less)
ProperValues(values) == "values" \notin faults => \A c \in Controls : Legal(c, values[c])

Proper(m) ==
  /\ m.kind = "mappings" => "mappings" \in faults
  /\ m.kind = "counters" => ProperCounters(m)
  /\ m.kind = "answer" /\ m.to[1] = "counters" => ProperCounters(m.news)
  /\ m.kind = "values" /\ "values" \notin faults => Legal(m.of, m.value)
  /\ m.kind = "answer" /\ m.to = Model => ProperValues(m.news)

Behaving ==
  /\ \A n \in DOMAIN wire : Proper(wire[n])
  /\ "counters" \notin faults =>
       \A u \in Counted : Consistent(device.counters[u].more, device.counters[u].less)
  /\ ProperValues(device.values)

-----------------------------------------------------------------------------
(* The invariant of an entity, while the questions of asked are not answered *)

\* What the standards ask of a device that cannot change while it runs.
SoundSetting ==
  /\ setting.numbered \/ "nested" \in setting.counts
  /\ setting.adpControl # None =>
       /\ setting.adpControl \in Controls /\ AtTop(setting.adpControl)
       /\ IsIdentify(setting.adpControl) /\ setting.controls[setting.adpControl].shape # "broken"
  /\ \A c \in Controls : IsIdentify(c) => AtTop(c) /\ setting.controls[c].shape = "proper"
  /\ setting.silent = {} /\ (MilanModel(setting.specification) \/ "nested" \in setting.counts)

SaidMilan(e, asked) == Model \in asked \/ Modelled(e)
IsKnown(e, asked, q) == Modelled(e) /\ q \notin asked

Judging(e, asked) ==
  /\ Verdict(e)
  /\ "Misbehaving" \in e.flags => "mappings" \in faults
  /\ setting.specification # 0 /\ SaidMilan(e, asked) =>
       /\ e.specification = setting.specification
       /\ faults = {} /\ SoundSetting => "Milan" \in e.flags
  /\ ProperValues(e.values)
  /\ e.status = "advertised" /\ "Milan" \in e.flags => \A c \in Controls : Legal(c, e.values[c])
  /\ "Milan" \in e.flags /\ "partial" \notin faults =>
       \A u \in Counted : IsKnown(e, asked, <<"counters", u>>) =>
         Consistent(e.counters[u].more, e.counters[u].less)

Diagnosing(e, asked) ==
  /\ \A i \in Interfaces \cap Counted : LinkIs(e, i)
  /\ \A i \in Interfaces : IsKnown(e, asked, <<"gptp", i>>) => SameGptp(e, i)
  /\ e.status = "advertised" =>
       /\ "Milan" \in e.flags => e.redundant = HasRedundantStream
       /\ RightlyWarned(e)
       /\ e.outside = {c \in Controls : Beyond(c, e.values[c])}

Sane(e, asked) == e \in Entities /\ AgreeBut(e, {}) /\ Judging(e, asked) /\ Diagnosing(e, asked)

-----------------------------------------------------------------------------
(* What the device says, and what the controller made of it                  *)

\* What the device speaks of, and what it says of it in a message.
Topics ==
  ({"gptp"} \X (Interfaces \ setting.silent)) \cup ({"counters"} \X Counted) \cup ({"values"} \X Controls)

IsAbout(m, x) ==
  \/ m.kind = x[1] /\ m.of = x[2]
  \/ m.kind = "adp" /\ x[1] = "gptp" /\ m.of = x[2]
  \/ m.kind = "answer" /\ m.to = x
  \/ m.kind = "answer" /\ m.to = Model /\ x[1] = "values"

Told(news, x) ==
  CASE x[1] = "gptp" -> news.gm
    [] x[1] = "counters" -> News(news)
    [] x[1] = "values" -> news.value

Says(m, x) ==
  CASE m.kind # "answer" -> Told(m, x)
    [] m.kind = "answer" /\ m.to = Model -> m.news[x[2]]
    [] OTHER -> Told(m.news, x)

Now(x) ==
  CASE x[1] = "gptp" -> device.gm[x[2]]
    [] x[1] = "counters" -> device.counters[x[2]]
    [] x[1] = "values" -> device.values[x[2]]

\* What the next message may say of it without that something new is told: an advertisement says
\* what was said before it.
SettledOn(e, asked, k, x) ==
  CASE x[1] = "gptp" ->
         {gm \in Grandmasters : IsKnown(e, asked, x) => e.aem[x[2]] \in {gm} \cup ({k[x[2]]} \ {None})}
    [] x[1] = "counters" -> {pair \in Numbers : IsKnown(e, asked, x) => e.counters[x[2]] = pair}
    [] x[1] = "values" -> {value \in Values : Modelled(e) => e.values[x[2]] = value}

\* In messages w, and then now, what is said of x without news is what was said of it before.
Repeats(w, n, x) == n = Len(w) + 1 \/ (w[n].kind = "adp" /\ IsAbout(w[n], x))
SaidAt(w, n, now, x) == IF n = Len(w) + 1 THEN now ELSE Says(w[n], x)
Unsaid(w, m, n, x) == \A k \in (m + 1)..(n - 1) : ~IsAbout(w[k], x)

Chained(w, now, x, settled) ==
  \A n \in 1..(Len(w) + 1) : Repeats(w, n, x) =>
    /\ Unsaid(w, 0, n, x) => SaidAt(w, n, now, x) \in settled
    /\ \A m \in 1..(n - 1) : IsAbout(w[m], x) /\ Unsaid(w, m, n, x) => Says(w[m], x) = SaidAt(w, n, now, x)

Followed(x) == losses = 0 /\ (x[1] = "counters" => "partial" \notin faults)

Following ==
  \A x \in Topics : Followed(x) => Chained(wire, Now(x), x, SettledOn(entity, entity.asked, known, x))

Inv ==
  /\ TypeOK /\ Asking(entity, known) /\ Answering /\ Behaving
  /\ Sane(entity, entity.asked) /\ Following

-----------------------------------------------------------------------------
(* Each operation keeps the invariant of the entity                          *)

Spares(asked, left, q) == left \subseteq asked /\ asked \ {q} \subseteq left

\* The news of the grandmaster of an interface, by whatever way.
LEMMA GptpSane ==
  ASSUME NEW e, NEW r, NEW asked, NEW left, NEW i \in Interfaces, Sane(e, asked),
         Spares(asked, left, <<"gptp", i>>), Does(e, r, Gptps, {}), Modelled(e),
         "Milan" \in r.flags \/ r.flags = e.flags \/ setting.silent # {},
         SameGptp(r, i), \A j \in Interfaces \ {i} : r.aem[j] = e.aem[j] /\ r.adp[j] = e.adp[j],
         RightlyWarned(e) => RightlyWarned(r)
  PROVE  Sane(r, left)
<1>0. e \in Entities /\ AgreeBut(e, {}) /\ Judging(e, asked) /\ Diagnosing(e, asked)
  BY DEF Sane
<1>1. r \in Entities
  BY DEF Does
<1>2. AgreeBut(r, {})
  <2>1. {} \in SUBSET HealthFields /\ {} \cup {} = {}
    OBVIOUS
  <2>. QED  BY <1>0, <2>1 DEF Does
<1>3. /\ r.status = e.status /\ r.counters = e.counters /\ r.values = e.values
      /\ r.specification = e.specification /\ r.redundant = e.redundant /\ r.links = e.links
      /\ r.outside = e.outside
  BY <1>0, OnlyKeeps DEF Gptps
<1>4. Keeps(e, r)
  BY DEF Does
<1>5. Judging(r, left)
  <2>1. Modelled(r)
    BY <1>3 DEF Modelled
  <2>2. \A u \in Counted : <<"counters", u>> \notin left => <<"counters", u>> \notin asked
    BY DEF Spares
  <2>3. "Milan" \in e.flags /\ setting.silent = {} => "Milan" \in r.flags
    OBVIOUS
  <2>4. SoundSetting => setting.silent = {}
    BY DEF SoundSetting
  <2>. QED  BY <1>0, <1>3, <1>4, <2>1, <2>2, <2>3, <2>4 DEF Judging, Keeps, SaidMilan, IsKnown
<1>6. Diagnosing(r, left)
  <2>1. \A j \in Interfaces \cap Counted : LinkIs(r, j)
    BY <1>0, <1>3 DEF Diagnosing, LinkIs
  <2>2. ASSUME NEW j \in Interfaces, IsKnown(r, left, <<"gptp", j>>) PROVE SameGptp(r, j)
    <3>1. CASE j = i
      BY <3>1
    <3>2. CASE j # i
      <4>1. <<"gptp", j>> \notin asked
        BY <2>2, <3>2 DEF IsKnown, Spares
      <4>2. SameGptp(e, j)
        BY <1>0, <4>1 DEF Diagnosing, IsKnown
      <4>. QED  BY <3>2, <4>2 DEF SameGptp
    <3>. QED  BY <3>1, <3>2
  <2>. QED  BY <1>0, <1>3, <1>4, <2>1, <2>2 DEF Diagnosing, Keeps
<1>. QED  BY <1>1, <1>2, <1>5, <1>6 DEF Sane

\* The news of a pair of counters.
LEMMA CountersSane ==
  ASSUME NEW e, NEW r, NEW asked, NEW left, NEW news \in CountersMessages, Sane(e, asked),
         Spares(asked, left, <<"counters", news.of>>), CountersTold(e, r, news), Modelled(e),
         ProperCounters(news)
  PROVE  Sane(r, left)
<1>0. e \in Entities /\ AgreeBut(e, {}) /\ Judging(e, asked) /\ Diagnosing(e, asked)
  BY DEF Sane
<1>1. Does(e, r, Counts, {})
  BY DEF CountersTold
<1>2. r \in Entities /\ Keeps(e, r)
  BY <1>1 DEF Does
<1>3. AgreeBut(r, {})
  <2>1. {} \in SUBSET HealthFields /\ {} \cup {} = {}
    OBVIOUS
  <2>. QED  BY <1>0, <1>1, <2>1 DEF Does
<1>4. /\ r.status = e.status /\ r.adp = e.adp /\ r.aem = e.aem /\ r.values = e.values
      /\ r.specification = e.specification /\ r.redundant = e.redundant
      /\ r.outside = e.outside /\ r.warning = e.warning
  BY <1>0, <1>1, OnlyKeeps DEF Counts
<1>5. Modelled(r)
  BY <1>4 DEF Modelled
<1>6. Judging(r, left)
  <2>1. faults = {} => ("Milan" \in e.flags => "Milan" \in r.flags)
    BY DEF CountersTold, ProperCounters
  <2>2. ASSUME "Milan" \in r.flags, "partial" \notin faults, NEW u \in Counted,
               IsKnown(r, left, <<"counters", u>>)
        PROVE  Consistent(r.counters[u].more, r.counters[u].less)
    <3>1. CASE u = news.of
      <4>1. r.counters[u] = News(news) /\ Consistent(news.more, news.less)
        BY <2>2, <3>1 DEF CountersTold, ProperCounters
      <4>. QED  BY <4>1 DEF News
    <3>2. CASE u # news.of
      <4>1. <<"counters", u>> \notin asked
        BY <2>2, <3>2 DEF IsKnown, Spares
      <4>2. r.counters[u] = e.counters[u]
        BY <3>2 DEF CountersTold
      <4>3. "Milan" \in e.flags
        BY <1>2, <2>2 DEF Keeps
      <4>. QED  BY <1>0, <2>2, <4>1, <4>2, <4>3 DEF Judging, IsKnown
    <3>. QED  BY <3>1, <3>2
  <2>. QED  BY <1>0, <1>2, <1>4, <1>5, <2>1, <2>2 DEF Judging, Keeps, SaidMilan
<1>7. Diagnosing(r, left)
  <2>1. \A i \in Interfaces : <<"gptp", i>> \notin left => <<"gptp", i>> \notin asked
    BY DEF Spares
  <2>2. \A i \in Interfaces \cap Counted : LinkIs(r, i)
    BY <1>0 DEF Diagnosing, CountersTold
  <2>3. RightlyWarned(e) => RightlyWarned(r)
    BY <1>2, <1>4 DEF RightlyWarned, Warns, Keeps
  <2>4. \A i \in Interfaces : SameGptp(e, i) => SameGptp(r, i)
    BY <1>4 DEF SameGptp
  <2>5. \A i \in Interfaces : IsKnown(r, left, <<"gptp", i>>) => SameGptp(r, i)
    BY <1>0, <2>1, <2>4 DEF Diagnosing, IsKnown
  <2>. QED  BY <1>0, <1>2, <1>4, <2>2, <2>3, <2>5 DEF Diagnosing, Keeps
<1>. QED  BY <1>2, <1>3, <1>6, <1>7 DEF Sane

LEMMA ValuesSane ==
  ASSUME NEW e, NEW asked, NEW c \in Controls, NEW value \in Values, Sane(e, asked), Modelled(e),
         "values" \notin faults => Legal(c, value)
  PROVE  Sane(UpdateControlValues(e, c, value), asked)
<1> DEFINE r == UpdateControlValues(e, c, value)
<1>0. e \in Entities /\ AgreeBut(e, {}) /\ Judging(e, asked) /\ Diagnosing(e, asked)
  BY DEF Sane
<1>1. /\ Does(e, r, {"values", "outside", "flags", "version"}, {})
      /\ r.values[c] = value /\ \A d \in Controls \ {c} : r.values[d] = e.values[d]
      /\ c \in r.outside <=> Beyond(c, value)
      /\ \A d \in Controls \ {c} : d \in r.outside <=> d \in e.outside
      /\ "Milan" \in r.flags => Legal(c, value)
      /\ Legal(c, value) => r.flags = e.flags
  BY <1>0, ControlValuesDo
<1> HIDE DEF r
<1>2. r \in Entities /\ Keeps(e, r)
  BY <1>1 DEF Does
<1>3. AgreeBut(r, {})
  <2>1. {} \in SUBSET HealthFields /\ {} \cup {} = {}
    OBVIOUS
  <2>. QED  BY <1>0, <1>1, <2>1 DEF Does
<1>4. /\ r.status = e.status /\ r.adp = e.adp /\ r.aem = e.aem /\ r.counters = e.counters
      /\ r.specification = e.specification /\ r.redundant = e.redundant
      /\ r.links = e.links /\ r.warning = e.warning
  BY <1>0, <1>1, OnlyKeeps
<1>5. Modelled(r)
  BY <1>4 DEF Modelled
<1>6. Judging(r, asked)
  <2>1. faults = {} => ("Milan" \in e.flags => "Milan" \in r.flags)
    BY <1>1
  <2>2. ProperValues(r.values)
    <3>1. ProperValues(e.values)
      BY <1>0 DEF Judging
    <3>. QED  BY <1>1, <3>1 DEF ProperValues
  <2>3. r.status = "advertised" /\ "Milan" \in r.flags => \A d \in Controls : Legal(d, r.values[d])
    <3>1. e.status = "advertised" /\ "Milan" \in e.flags => \A d \in Controls : Legal(d, e.values[d])
      BY <1>0 DEF Judging
    <3>. QED  BY <1>1, <1>2, <1>4, <3>1 DEF Keeps
  <2>4. Verdict(r) /\ ("Misbehaving" \in r.flags => "mappings" \in faults)
    BY <1>0, <1>2 DEF Judging, Keeps
  <2>5. setting.specification # 0 /\ SaidMilan(r, asked) =>
          /\ r.specification = setting.specification
          /\ faults = {} /\ SoundSetting => "Milan" \in r.flags
    BY <1>0, <1>4, <2>1 DEF Judging, SaidMilan, Modelled
  <2>6. "Milan" \in r.flags /\ "partial" \notin faults =>
          \A u \in Counted : IsKnown(r, asked, <<"counters", u>>) =>
            Consistent(r.counters[u].more, r.counters[u].less)
    BY <1>0, <1>2, <1>4 DEF Judging, Keeps, IsKnown
  <2>. QED  BY <2>2, <2>3, <2>4, <2>5, <2>6 DEF Judging
<1>7. Diagnosing(r, asked)
  <2>1. \A i \in Interfaces \cap Counted : LinkIs(r, i)
    BY <1>0, <1>4 DEF Diagnosing, LinkIs
  <2>2. RightlyWarned(e) => RightlyWarned(r)
    BY <1>2, <1>4 DEF RightlyWarned, Warns, Keeps
  <2>3. \A i \in Interfaces : IsKnown(r, asked, <<"gptp", i>>) => SameGptp(r, i)
    BY <1>0, <1>4 DEF Diagnosing, IsKnown, SameGptp
  <2>4. e.outside = {d \in Controls : Beyond(d, e.values[d])} =>
        r.outside = {d \in Controls : Beyond(d, r.values[d])}
    <3>1. r.outside \in SUBSET Controls
      BY <1>2 DEF Entities, Records
    <3>2. ASSUME e.outside = {d \in Controls : Beyond(d, e.values[d])}, NEW d \in Controls
          PROVE  d \in r.outside <=> Beyond(d, r.values[d])
      BY <1>1, <3>2
    <3>. QED  BY <3>1, <3>2
  <2>. QED  BY <1>0, <1>2, <1>4, <2>1, <2>2, <2>3, <2>4 DEF Diagnosing, Keeps
<1>. QED  BY <1>2, <1>3, <1>6, <1>7 DEF Sane, r

LEMMA MisbehavingSane ==
  ASSUME NEW e, NEW asked, Sane(e, asked), "mappings" \in faults
  PROVE  Sane(SetMisbehaving(e), asked)
<1> DEFINE r == SetMisbehaving(e)
<1>0. e \in Entities /\ AgreeBut(e, {}) /\ Judging(e, asked) /\ Diagnosing(e, asked)
  BY DEF Sane
<1>1. /\ r \in Entities /\ Only(e, r, {"flags", "version", "told"})
      /\ Verdict(r) /\ "Milan" \notin r.flags /\ AgreeBut(r, {})
  BY <1>0, MisbehavingDoes DEF Judging
<1> HIDE DEF r
<1>2. /\ r.status = e.status /\ r.adp = e.adp /\ r.aem = e.aem /\ r.counters = e.counters
      /\ r.specification = e.specification /\ r.redundant = e.redundant /\ r.values = e.values
      /\ r.links = e.links /\ r.warning = e.warning /\ r.outside = e.outside
  BY <1>1 DEF Only, Fields
<1>3. Judging(r, asked)
  BY <1>0, <1>1, <1>2 DEF Judging, SaidMilan, Modelled
<1>4. Diagnosing(r, asked)
  BY <1>0, <1>1, <1>2 DEF Diagnosing, LinkIs, IsKnown, SameGptp, Modelled, RightlyWarned
<1>. QED  BY <1>1, <1>3, <1>4 DEF Sane, r

LEMMA AdvertisementSane ==
  ASSUME NEW e, NEW asked, NEW k \in [Interfaces -> Gms], Sane(e, asked)
  PROVE  Sane(UpdateEntity(e, k), asked)
<1> DEFINE r == UpdateEntity(e, k)
<1>0. e \in Entities /\ AgreeBut(e, {}) /\ Judging(e, asked) /\ Diagnosing(e, asked)
  BY DEF Sane
<1>1. /\ Does(e, r, {"adp", "aem", "warning"}, {})
      /\ r.adp = k
      /\ \A i \in Interfaces :
           r.aem[i] = IF k[i] \notin {None, e.adp[i]} /\ Modelled(e) THEN k[i] ELSE e.aem[i]
      /\ e.warning = Warns(e) => r.warning = Warns(r)
  BY <1>0, AdvertisementDoes
<1> HIDE DEF r
<1>2. r \in Entities /\ Keeps(e, r)
  BY <1>1 DEF Does
<1>3. AgreeBut(r, {})
  <2>1. {} \in SUBSET HealthFields /\ {} \cup {} = {}
    OBVIOUS
  <2>. QED  BY <1>0, <1>1, <2>1 DEF Does
<1>4. /\ r.status = e.status /\ r.counters = e.counters /\ r.flags = e.flags /\ r.values = e.values
      /\ r.specification = e.specification /\ r.redundant = e.redundant
      /\ r.links = e.links /\ r.outside = e.outside
  BY <1>0, <1>1, OnlyKeeps
<1>5. Judging(r, asked)
  <2>1. Verdict(r)
    BY <1>0, <1>2 DEF Judging, Keeps
  <2>. QED  BY <1>0, <1>4, <2>1 DEF Judging, SaidMilan, Modelled, IsKnown
<1>6. Diagnosing(r, asked)
  <2>1. \A i \in Interfaces \cap Counted : LinkIs(r, i)
    BY <1>0, <1>4 DEF Diagnosing, LinkIs
  <2>2. ASSUME NEW i \in Interfaces, IsKnown(r, asked, <<"gptp", i>>) PROVE SameGptp(r, i)
    <3>1. Modelled(e) /\ SameGptp(e, i)
      BY <1>0, <1>4, <2>2 DEF Diagnosing, IsKnown, Modelled
    <3>. QED  BY <1>1, <3>1 DEF SameGptp
  <2>3. RightlyWarned(e) => RightlyWarned(r)
    BY <1>1, <1>4 DEF RightlyWarned
  <2>. QED  BY <1>0, <1>4, <2>1, <2>2, <2>3 DEF Diagnosing
<1>. QED  BY <1>2, <1>3, <1>5, <1>6 DEF Sane, r

\* The entity says which standards it follows, and its model is read.
LEMMA MilanSane ==
  ASSUME NEW e, Sane(e, {Milan}), e.status = "known", e.flags = {"IEEE17221"}, e.version = 0,
         setting.specification \in Nat
  PROVE  LET r == [MilanInfo(e, setting.specification) EXCEPT !.asked = {Model}]
         IN  Sane(r, r.asked) /\ r.status = "known" /\ r.asked = {Model}
<1> DEFINE s == MilanInfo(e, setting.specification)
           r == [s EXCEPT !.asked = {Model}]
<1>0. e \in Entities /\ Judging(e, {Milan}) /\ Diagnosing(e, {Milan})
  BY DEF Sane
<1>1. /\ s \in Entities /\ Only(e, s, {"flags", "version", "specification"})
      /\ Verdict(s) /\ "Misbehaving" \notin s.flags
      /\ setting.specification # 0 => "Milan" \in s.flags /\ s.specification = setting.specification
  BY <1>0, MilanInfoDoes
<1> HIDE DEF s
<1>2. r \in Entities /\ Only(s, r, {"asked"}) /\ r.asked = {Model}
  BY <1>1 DEF Entities, Records, Questions, Model, Only, Fields
<1> HIDE DEF r
<1>3. /\ r.status = "known" /\ r.values = e.values /\ r.links = e.links /\ r.counters = e.counters
      /\ r.flags = s.flags /\ r.version = s.version /\ r.specification = s.specification
  BY <1>1, <1>2 DEF Only, Fields
<1>4. Judging(r, {Model})
  BY <1>0, <1>1, <1>3 DEF Judging, Verdict, IsKnown, Modelled
<1>5. Diagnosing(r, {Model})
  BY <1>0, <1>3 DEF Diagnosing, LinkIs, IsKnown, Modelled
<1>6. AgreeBut(r, {})
  BY <1>3 DEF AgreeBut
<1>. QED  BY <1>2, <1>3, <1>4, <1>5, <1>6 DEF Sane, r, s

LEMMA ModelSane ==
  ASSUME NEW e, Sane(e, {Model}), e.status = "known",
         NEW values \in [Controls -> Values], ProperValues(values)
  PROVE  LET r == [e EXCEPT !.status = "modelled", !.values = values, !.asked = DynamicQuestions]
         IN  Sane(r, r.asked) /\ r.status = "modelled" /\ r.asked = DynamicQuestions
<1> DEFINE r == [e EXCEPT !.status = "modelled", !.values = values, !.asked = DynamicQuestions]
<1>0. e \in Entities /\ Judging(e, {Model}) /\ Diagnosing(e, {Model})
  BY DEF Sane
<1>1. /\ r \in Entities /\ Only(e, r, {"status", "values", "asked"})
      /\ r.asked = DynamicQuestions /\ r.status = "modelled" /\ r.values = values
  BY <1>0 DEF Entities, Records, Questions, Only, Fields
<1> HIDE DEF r
<1>2. /\ r.links = e.links /\ r.counters = e.counters
      /\ r.flags = e.flags /\ r.version = e.version /\ r.specification = e.specification
  BY <1>1 DEF Only, Fields
<1>3. /\ \A u \in Counted : <<"counters", u>> \in DynamicQuestions
      /\ \A i \in Interfaces : <<"gptp", i>> \in DynamicQuestions
  BY DEF DynamicQuestions
<1>4. Judging(r, DynamicQuestions)
  BY <1>0, <1>1, <1>2, <1>3 DEF Judging, Verdict, IsKnown, SaidMilan
<1>5. Diagnosing(r, DynamicQuestions)
  BY <1>0, <1>1, <1>2, <1>3 DEF Diagnosing, LinkIs, IsKnown
<1>6. AgreeBut(r, {})
  BY <1>1 DEF AgreeBut
<1>. QED  BY <1>1, <1>4, <1>5, <1>6 DEF Sane, r

\* What validation finds: values that are legal say that a sound setting is standard.
LEMMA SoundIsStandard ==
  ASSUME NEW e \in Entities, SoundSetting, \A c \in Controls : Legal(c, e.values[c])
  PROVE  ControlsAreStandard(e)
<1>1. \A c \in Controls : IsIdentify(c) => e.values[c] = "allowed"
  BY DEF Legal, ValuesVerdict, IsIdentify
<1>2. \A c \in Controls : IsIdentify(c) => ValidIdentify(e, c)
  BY <1>1 DEF ValidIdentify, SoundSetting
<1>3. setting.adpControl = None \/ FoundIdentify(e)
  BY <1>1, <1>2 DEF FoundIdentify, SoundSetting
<1>. QED  BY <1>2, <1>3 DEF ControlsAreStandard, SoundSetting, Legal

\* The entity is validated and advertised, when nothing is asked any more.
LEMMA AdvertisedSane ==
  ASSUME NEW e, Sane(e, e.asked)
  PROVE  LET r == Advertised(e)
         IN  /\ Sane(r, r.asked) /\ r.asked = e.asked
             /\ r.adp = e.adp /\ r.aem = e.aem /\ r.counters = e.counters /\ r.values = e.values
             /\ e.status = "modelled" /\ e.asked = {} => r.status = "advertised"
             /\ ~(e.status = "modelled" /\ e.asked = {}) => r = e
<1>0. e \in Entities /\ Judging(e, e.asked) /\ Diagnosing(e, e.asked)
  BY DEF Sane
<1>1. CASE ~(e.status = "modelled" /\ e.asked = {})
  BY <1>1 DEF Advertised
<1>2. CASE e.status = "modelled" /\ e.asked = {}
  <2> DEFINE v == ValidateEntity(e)
             h == Health(v)
             r == [v EXCEPT !.status = "advertised", !.told = h]
  <2>1. Advertised(e) = r
    BY <1>2 DEF Advertised
  <2>2. /\ Does(e, v, Validates, HealthFields)
        /\ v.outside = {c \in Controls : Beyond(c, e.values[c])}
        /\ "Milan" \in v.flags => ControlsAreStandard(e) /\ v.redundant = HasRedundantStream
        /\ v.warning = Warns(v)
        /\ \A i \in Interfaces \cap Counted : LinkIs(e, i) => LinkIs(v, i)
        /\ /\ setting.numbered \/ "nested" \in setting.counts
           /\ MilanModel(e.specification) \/ "nested" \in setting.counts
           /\ "Milan" \in e.flags /\ ControlsAreStandard(e)
           => "Milan" \in v.flags
    BY <1>0, ValidateDoes
  <2> HIDE DEF v
  <2>3. v \in Entities /\ Keeps(e, v)
    BY <2>2 DEF Does
  <2>4. /\ v.status = e.status /\ v.asked = e.asked /\ v.adp = e.adp /\ v.aem = e.aem
        /\ v.counters = e.counters /\ v.values = e.values /\ v.specification = e.specification
    BY <1>0, <2>2, OnlyKeeps DEF Validates
  <2>5. h \in Healths
    BY <2>3, HealthTyping
  <2>6. Health(r) = h
    BY <2>3 DEF Health, Entities, Records
  <2> HIDE DEF h
  <2>7. /\ r \in Entities /\ Only(v, r, {"status", "told"}) /\ r.status = "advertised" /\ r.told = h
    BY <2>3, <2>5 DEF Entities, Records, Only, Fields
  <2> HIDE DEF r
  <2>8. AgreeBut(r, {})
    BY <2>5, <2>6, <2>7 DEF AgreeBut
  <2>9. /\ r.asked = {} /\ r.adp = e.adp /\ r.aem = e.aem /\ r.counters = e.counters
        /\ r.values = e.values /\ r.flags = v.flags /\ r.version = v.version
        /\ r.specification = e.specification /\ r.redundant = v.redundant /\ r.links = v.links
        /\ r.warning = v.warning /\ r.outside = v.outside
    BY <1>2, <2>4, <2>7 DEF Only, Fields
  <2>10. Modelled(r) /\ Modelled(e)
    BY <1>2, <2>7 DEF Modelled
  <2>11. Judging(r, {})
    <3>1. Verdict(r) /\ ("Misbehaving" \in r.flags => "mappings" \in faults)
      BY <1>0, <2>3, <2>9 DEF Judging, Keeps, Verdict
    <3>2. ASSUME setting.specification # 0
          PROVE  /\ r.specification = setting.specification
                 /\ faults = {} /\ SoundSetting => "Milan" \in r.flags
      <4>1. /\ e.specification = setting.specification
            /\ faults = {} /\ SoundSetting => "Milan" \in e.flags
        BY <1>0, <2>10, <3>2 DEF Judging, SaidMilan
      <4>2. faults = {} => \A c \in Controls : Legal(c, e.values[c])
        BY <1>0 DEF Judging, ProperValues
      <4>3. faults = {} /\ SoundSetting => ControlsAreStandard(e)
        BY <1>0, <4>2, SoundIsStandard
      <4>4. SoundSetting => /\ setting.numbered \/ "nested" \in setting.counts
                            /\ MilanModel(setting.specification) \/ "nested" \in setting.counts
        BY DEF SoundSetting
      <4>. QED  BY <2>2, <2>9, <4>1, <4>3, <4>4
    <3>3. "Milan" \in r.flags => \A c \in Controls : Legal(c, r.values[c])
      BY <2>2, <2>9 DEF ControlsAreStandard, Legal
    <3>4. ProperValues(r.values)
      BY <1>0, <2>9 DEF Judging
    <3>5. "Milan" \in r.flags /\ "partial" \notin faults =>
            \A u \in Counted : Consistent(r.counters[u].more, r.counters[u].less)
      BY <1>0, <1>2, <2>3, <2>9, <2>10 DEF Judging, Keeps, IsKnown
    <3>. QED  BY <3>1, <3>2, <3>3, <3>4, <3>5 DEF Judging
  <2>12. Diagnosing(r, {})
    <3>1. \A i \in Interfaces \cap Counted : LinkIs(r, i)
      BY <1>0, <2>2, <2>4, <2>9 DEF Diagnosing, LinkIs
    <3>2. \A i \in Interfaces : SameGptp(r, i)
      BY <1>0, <1>2, <2>9, <2>10 DEF Diagnosing, IsKnown, SameGptp
    <3>3. RightlyWarned(r)
      BY <2>2, <2>4, <2>9 DEF RightlyWarned, Warns
    <3>. QED  BY <2>2, <2>9, <3>1, <3>2, <3>3 DEF Diagnosing
  <2>13. Sane(r, {})
    BY <2>7, <2>8, <2>11, <2>12 DEF Sane
  <2>. QED  BY <1>2, <2>1, <2>7, <2>9, <2>13
<1>. QED  BY <1>1, <1>2

-----------------------------------------------------------------------------
(* What is said of a topic, one message after the other                      *)

LEMMA ChainSaid ==
  ASSUME NEW M, NEW w \in Seq(M), NEW m, NEW now, NEW x, NEW settled, Chained(w, now, x, settled),
         IsAbout(m, x), m.kind = "adp" => Says(m, x) = now
  PROVE  Chained(Append(w, m), Says(m, x), x, settled)
<1> DEFINE s == Append(w, m)
           l == Len(w)
<1>1. l \in Nat /\ Len(s) = l + 1 /\ s[l + 1] = m /\ \A n \in 1..l : s[n] = w[n]
  OBVIOUS
<1> SUFFICES ASSUME NEW n \in 1..(Len(s) + 1), Repeats(s, n, x)
             PROVE  /\ Unsaid(s, 0, n, x) => SaidAt(s, n, Says(m, x), x) \in settled
                    /\ \A k \in 1..(n - 1) : IsAbout(s[k], x) /\ Unsaid(s, k, n, x) =>
                         Says(s[k], x) = SaidAt(s, n, Says(m, x), x)
  BY DEF Chained
<1> HIDE DEF s, l
<1>2. CASE n = l + 2
  <2>1. \A k \in 0..l : ~Unsaid(s, k, n, x)
    BY <1>1, <1>2 DEF Unsaid
  <2>2. SaidAt(s, n, Says(m, x), x) = Says(s[l + 1], x)
    BY <1>1, <1>2 DEF SaidAt
  <2>. QED  BY <1>1, <1>2, <2>1, <2>2
<1>3. CASE n = l + 1
  <2>1. m.kind = "adp"
    BY <1>1, <1>3 DEF Repeats
  <2>2. SaidAt(s, n, Says(m, x), x) = now
    BY <1>1, <1>3, <2>1 DEF SaidAt
  <2>3. Repeats(w, n, x) /\ SaidAt(w, n, now, x) = now /\ n \in 1..(Len(w) + 1)
    BY <1>1, <1>3 DEF Repeats, SaidAt, l
  <2>4. \A k \in 0..(n - 1) : Unsaid(s, k, n, x) => Unsaid(w, k, n, x)
    BY <1>1, <1>3 DEF Unsaid
  <2>. QED  BY <1>1, <1>3, <2>2, <2>3, <2>4 DEF Chained
<1>4. CASE n \in 1..l
  <2>1. Repeats(w, n, x) /\ n \in 1..(Len(w) + 1) /\ SaidAt(s, n, Says(m, x), x) = SaidAt(w, n, now, x)
    BY <1>1, <1>4 DEF Repeats, SaidAt, l
  <2>2. \A k \in 0..(n - 1) : Unsaid(s, k, n, x) => Unsaid(w, k, n, x)
    BY <1>1, <1>4 DEF Unsaid
  <2>3. \A k \in 1..(n - 1) : s[k] = w[k]
    BY <1>1, <1>4
  <2>. QED  BY <1>1, <1>4, <2>1, <2>2, <2>3 DEF Chained
<1>. QED  BY <1>1, <1>2, <1>3, <1>4

LEMMA ChainOther ==
  ASSUME NEW M, NEW w \in Seq(M), NEW m, NEW now, NEW x, NEW settled, Chained(w, now, x, settled),
         ~IsAbout(m, x)
  PROVE  Chained(Append(w, m), now, x, settled)
<1> DEFINE s == Append(w, m)
           l == Len(w)
<1>1. l \in Nat /\ Len(s) = l + 1 /\ s[l + 1] = m /\ \A n \in 1..l : s[n] = w[n]
  OBVIOUS
<1> SUFFICES ASSUME NEW n \in 1..(Len(s) + 1), Repeats(s, n, x)
             PROVE  /\ Unsaid(s, 0, n, x) => SaidAt(s, n, now, x) \in settled
                    /\ \A k \in 1..(n - 1) : IsAbout(s[k], x) /\ Unsaid(s, k, n, x) =>
                         Says(s[k], x) = SaidAt(s, n, now, x)
  BY DEF Chained
<1> HIDE DEF s, l
<1>2. CASE n = l + 2
  <2>1. Repeats(w, l + 1, x) /\ l + 1 \in 1..(Len(w) + 1)
        /\ SaidAt(s, n, now, x) = SaidAt(w, l + 1, now, x)
    BY <1>1, <1>2 DEF Repeats, SaidAt, l
  <2>2. \A k \in 0..l : Unsaid(s, k, n, x) => Unsaid(w, k, l + 1, x)
    BY <1>1, <1>2 DEF Unsaid
  <2>. QED  BY <1>1, <1>2, <2>1, <2>2 DEF Chained
<1>3. n # l + 1
  BY <1>1 DEF Repeats
<1>4. CASE n \in 1..l
  <2>1. Repeats(w, n, x) /\ n \in 1..(Len(w) + 1) /\ SaidAt(s, n, now, x) = SaidAt(w, n, now, x)
    BY <1>1, <1>4 DEF Repeats, SaidAt, l
  <2>2. \A k \in 0..(n - 1) : Unsaid(s, k, n, x) => Unsaid(w, k, n, x)
    BY <1>1, <1>4 DEF Unsaid
  <2>3. \A k \in 1..(n - 1) : s[k] = w[k]
    BY <1>1, <1>4
  <2>. QED  BY <1>1, <1>4, <2>1, <2>2, <2>3 DEF Chained
<1>. QED  BY <1>1, <1>2, <1>3, <1>4

\* The first message is received.
LEMMA ChainTail ==
  ASSUME NEW M, NEW w \in Seq(M), w # <<>>, NEW now, NEW x, NEW settled, NEW after,
         Chained(w, now, x, settled),
         IF IsAbout(Head(w), x) THEN Says(Head(w), x) \in after ELSE settled \subseteq after
  PROVE  Chained(Tail(w), now, x, after)
<1> DEFINE s == Tail(w)
           l == Len(s)
<1>1. l \in Nat /\ Len(w) = l + 1 /\ w[1] = Head(w) /\ \A n \in 1..l : s[n] = w[n + 1]
  OBVIOUS
<1> SUFFICES ASSUME NEW n \in 1..(Len(s) + 1), Repeats(s, n, x)
             PROVE  /\ Unsaid(s, 0, n, x) => SaidAt(s, n, now, x) \in after
                    /\ \A k \in 1..(n - 1) : IsAbout(s[k], x) /\ Unsaid(s, k, n, x) =>
                         Says(s[k], x) = SaidAt(s, n, now, x)
  BY DEF Chained
<1>. n \in 1..(l + 1)
  OBVIOUS
<1>2. Repeats(w, n + 1, x) /\ SaidAt(w, n + 1, now, x) = SaidAt(s, n, now, x)
      /\ n + 1 \in 1..(Len(w) + 1)
  <2> HIDE DEF s
  <2>. QED  BY <1>1 DEF Repeats, SaidAt
<1> HIDE DEF s, l
<1>3. ASSUME NEW k \in 0..(n - 1), Unsaid(s, k, n, x) PROVE Unsaid(w, k + 1, n + 1, x)
  <2>1. ASSUME NEW j \in (k + 2)..n PROVE ~IsAbout(w[j], x)
    <3>1. j - 1 \in (k + 1)..(n - 1) /\ j - 1 \in 1..l /\ w[j] = s[j - 1]
      BY <1>1
    <3>. QED  BY <1>3, <3>1 DEF Unsaid
  <2>. QED  BY <2>1 DEF Unsaid
<1>4. ASSUME Unsaid(s, 0, n, x) PROVE SaidAt(s, n, now, x) \in after
  <2>1. Unsaid(w, 1, n + 1, x)
    BY <1>3, <1>4
  <2>2. CASE IsAbout(Head(w), x)
    BY <1>1, <1>2, <2>1, <2>2 DEF Chained
  <2>3. CASE ~IsAbout(Head(w), x)
    <3>1. Unsaid(w, 0, n + 1, x)
      BY <1>1, <2>1, <2>3 DEF Unsaid
    <3>. QED  BY <1>2, <2>3, <3>1 DEF Chained
  <2>. QED  BY <2>2, <2>3
<1>5. ASSUME NEW k \in 1..(n - 1), IsAbout(s[k], x), Unsaid(s, k, n, x)
      PROVE  Says(s[k], x) = SaidAt(s, n, now, x)
  <2>1. Unsaid(w, k + 1, n + 1, x) /\ s[k] = w[k + 1] /\ k + 1 \in 1..((n + 1) - 1)
    BY <1>1, <1>3, <1>5
  <2>. QED  BY <1>2, <1>5, <2>1 DEF Chained
<1>. QED  BY <1>4, <1>5

\* An advertisement that is the first message says what was said before.
LEMMA ChainHead ==
  ASSUME NEW M, NEW w \in Seq(M), w # <<>>, NEW now, NEW x, NEW settled,
         Chained(w, now, x, settled), Head(w).kind = "adp", IsAbout(Head(w), x)
  PROVE  Says(Head(w), x) \in settled
<1>1. w[1] = Head(w) /\ 1 \in 1..(Len(w) + 1) /\ 1 # Len(w) + 1
  OBVIOUS
<1>2. Repeats(w, 1, x) /\ SaidAt(w, 1, now, x) = Says(Head(w), x) /\ Unsaid(w, 0, 1, x)
  BY <1>1 DEF Repeats, SaidAt, Unsaid
<1>. QED  BY <1>1, <1>2 DEF Chained

LEMMA ChainEmpty ==
  ASSUME NEW now, NEW x, NEW settled
  PROVE  Chained(<<>>, now, x, settled) <=> now \in settled
<1>1. Len(<<>>) = 0 /\ 1..(0 + 1) = {1} /\ 1..(1 - 1) = {}
  OBVIOUS
<1>2. Repeats(<<>>, 1, x) /\ SaidAt(<<>>, 1, now, x) = now /\ Unsaid(<<>>, 0, 1, x)
  BY <1>1 DEF Repeats, SaidAt, Unsaid
<1>. QED  BY <1>1, <1>2 DEF Chained

LEMMA TopicIs ==
  ASSUME NEW x \in Topics
  PROVE  \/ \E i \in Interfaces \ setting.silent : x = <<"gptp", i>>
         \/ \E u \in Counted : x = <<"counters", u>>
         \/ \E c \in Controls : x = <<"values", c>>
BY DEF Topics

LEMMA QuestionIs ==
  ASSUME NEW q \in Questions
  PROVE  \/ q = Milan
         \/ q = Model
         \/ \E i \in Interfaces : q = <<"gptp", i>> /\ q \in DynamicQuestions
         \/ \E u \in Counted : q = <<"counters", u>> /\ q \in DynamicQuestions
BY DEF Questions, DynamicQuestions, Milan, Model

LEMMA AnswerIs ==
  ASSUME NEW m \in Messages, m.kind = "answer"
  PROVE  m.to \in Questions /\ m.news \in NewsFor(m.to)
<1>1. m \in Answers
  BY DEF Messages, Notifications, GptpMessages, CountersMessages, ValuesMessages, Advertisements
<1>2. PICK q \in Questions : m \in [kind : {"answer"}, to : {q}, news : NewsFor(q)]
  BY <1>1 DEF Answers
<1>. QED  BY <1>2

LEMMA NewsIs ==
  ASSUME NEW m \in Messages
  PROVE  /\ m.kind \in {"gptp", "counters", "values", "mappings", "adp", "answer"}
         /\ m.kind = "gptp" => m \in GptpMessages
         /\ m.kind = "counters" => m \in CountersMessages
         /\ m.kind = "values" => m \in ValuesMessages
         /\ m.kind = "adp" => m \in Advertisements
BY DEF Messages, Notifications, GptpMessages, CountersMessages, ValuesMessages, Advertisements, Answers

\* What is said has a type.
LEMMA SaysIs ==
  ASSUME NEW m \in Messages, NEW x \in Topics, IsAbout(m, x)
  PROVE  /\ x[1] = "gptp" => Says(m, x) \in Grandmasters
         /\ x[1] = "counters" => Says(m, x) \in Numbers
         /\ x[1] = "values" => Says(m, x) \in Values
<1>1. CASE m.kind # "answer"
  <2>1. Says(m, x) = Told(m, x)
    BY <1>1 DEF Says
  <2>2. CASE x[1] = "gptp"
    <3>1. m \in GptpMessages \/ m \in Advertisements
      BY <1>1, <2>2, NewsIs DEF IsAbout
    <3>. QED  BY <2>1, <2>2, <3>1 DEF Told, GptpMessages, Advertisements
  <2>3. CASE x[1] = "counters"
    <3>1. m \in CountersMessages
      BY <1>1, <2>3, NewsIs DEF IsAbout
    <3>. QED  BY <2>1, <2>3, <3>1 DEF Told, CountersMessages, News, Numbers
  <2>4. CASE x[1] = "values"
    <3>1. m \in ValuesMessages
      BY <1>1, <2>4, NewsIs DEF IsAbout
    <3>. QED  BY <2>1, <2>4, <3>1 DEF Told, ValuesMessages
  <2>. QED  BY <2>2, <2>3, <2>4
<1>2. CASE m.kind = "answer"
  <2>0. m.news \in NewsFor(m.to)
    BY <1>2, AnswerIs
  <2>1. CASE \E c \in Controls : x = <<"values", c>>
    <3>1. PICK c \in Controls : x = <<"values", c>>
      BY <2>1
    <3>2. m.to = Model
      BY <1>2, <3>1, AnswerIs, QuestionIs DEF IsAbout, Milan, Model
    <3>3. m.news \in [Controls -> Values]
      BY <2>0, <3>2 DEF NewsFor, Model
    <3>. QED  BY <1>2, <3>1, <3>2, <3>3 DEF Says
  <2>2. CASE \E i \in Interfaces : x = <<"gptp", i>>
    <3>1. PICK i \in Interfaces : x = <<"gptp", i>>
      BY <2>2
    <3>2. m.to = x
      BY <1>2, <3>1 DEF IsAbout
    <3>3. m.news \in GptpMessages
      BY <2>0, <3>1, <3>2 DEF NewsFor
    <3>. QED  BY <1>2, <3>1, <3>2, <3>3 DEF Says, Told, GptpMessages, Model
  <2>3. CASE \E u \in Counted : x = <<"counters", u>>
    <3>1. PICK u \in Counted : x = <<"counters", u>>
      BY <2>3
    <3>2. m.to = x
      BY <1>2, <3>1 DEF IsAbout
    <3>3. m.news \in CountersMessages
      BY <2>0, <3>1, <3>2 DEF NewsFor
    <3>. QED  BY <1>2, <3>1, <3>2, <3>3 DEF Says, Told, CountersMessages, News, Numbers, Model
  <2>. QED  BY <2>1, <2>2, <2>3, TopicIs
<1>. QED  BY <1>1, <1>2

-----------------------------------------------------------------------------
(* The controller receives a message                                         *)

\* What message m makes of the entity, and of the discovery, keeps all invariants.
Hears(m, r, k) ==
  /\ Sane(r, r.asked) /\ Asking(r, k) /\ k \in [Interfaces -> Gms]
  /\ \A q \in entity.asked : q \in r.asked \/ (m.kind = "answer" /\ q = m.to)
  /\ \A x \in Topics : Followed(x) =>
       IF IsAbout(m, x)
       THEN (m.kind = "adp" => Says(m, x) \in SettledOn(entity, entity.asked, known, x)) =>
              Says(m, x) \in SettledOn(r, r.asked, k, x)
       ELSE SettledOn(entity, entity.asked, known, x) \subseteq SettledOn(r, r.asked, k, x)

\* An entity whose model was not read yet knows nothing of any topic.
LEMMA UnknownSettles ==
  ASSUME NEW m \in Messages, NEW e, NEW asked, NEW k, NEW x \in Topics, ~Modelled(e), NEW S,
         IsAbout(m, x)
  PROVE  Says(m, x) \in SettledOn(e, asked, k, x)
<1>1. /\ x[1] = "gptp" => Says(m, x) \in Grandmasters
      /\ x[1] = "counters" => Says(m, x) \in Numbers
      /\ x[1] = "values" => Says(m, x) \in Values
  BY SaysIs
<1>. QED  BY <1>1, TopicIs DEF SettledOn, IsKnown

LEMMA HearsNothing ==
  ASSUME Inv, NEW m \in Messages, ~Modelled(entity)
  PROVE  Hears(m, entity, known)
BY UnknownSettles DEF Inv, TypeOK, Hears

\* What is the same is settled still.
LEMMA StillSettled ==
  ASSUME NEW x \in Topics, NEW e, NEW r, NEW asked, NEW left, NEW k, NEW l,
         IsKnown(r, left, x) => IsKnown(e, asked, x),
         x[1] = "gptp" => r.aem[x[2]] = e.aem[x[2]] /\ l[x[2]] = k[x[2]],
         x[1] = "counters" => r.counters[x[2]] = e.counters[x[2]],
         x[1] = "values" => (Modelled(r) => Modelled(e)) /\ r.values[x[2]] = e.values[x[2]]
  PROVE  SettledOn(e, asked, k, x) \subseteq SettledOn(r, left, l, x)
<1>1. CASE x[1] = "gptp"
  BY <1>1 DEF SettledOn
<1>2. CASE x[1] = "counters"
  BY <1>2 DEF SettledOn
<1>3. CASE x[1] = "values"
  BY <1>3 DEF SettledOn
<1>. QED  BY <1>1, <1>2, <1>3, TopicIs

LEMMA AskingKept ==
  ASSUME NEW e, NEW r, NEW k, Asking(e, k), Modelled(e), r.status = e.status, r.asked = e.asked
  PROVE  Asking(r, k) /\ Modelled(r)
BY DEF Asking, Modelled

LEMMA HearsGptp ==
  ASSUME Inv, NEW m \in Messages, m.kind = "gptp", Modelled(entity)
  PROVE  Hears(m, Applied(entity, m), known)
<1> DEFINE i == m.of
           r == UpdateAvbInfo(entity, i, m.gm)
           A == entity.asked
<1>1. m \in GptpMessages /\ i \in Interfaces /\ m.gm \in Grandmasters
  BY NewsIs DEF GptpMessages
<1>2. Applied(entity, m) = r
  BY <1>1 DEF Applied
<1>3. entity \in Entities /\ Sane(entity, A) /\ Asking(entity, known)
  BY DEF Inv, Sane
<1>4. /\ Does(entity, r, Gptps, {}) /\ r.flags = entity.flags
      /\ r.aem[i] = m.gm /\ SameGptp(r, i)
      /\ \A j \in Interfaces \ {i} : r.aem[j] = entity.aem[j] /\ r.adp[j] = entity.adp[j]
      /\ RightlyWarned(entity) => RightlyWarned(r)
  BY <1>1, <1>3, AvbInfoDoes
<1> HIDE DEF r
<1>5. /\ r.status = entity.status /\ r.asked = A
      /\ r.counters = entity.counters /\ r.values = entity.values
  BY <1>3, <1>4, OnlyKeeps DEF Gptps
<1>6. Spares(A, A, <<"gptp", i>>)
  BY DEF Spares
<1>7. Sane(r, A)
  BY <1>1, <1>3, <1>4, <1>6, GptpSane
<1>8. Asking(r, known) /\ Modelled(r)
  BY <1>3, <1>5, AskingKept
<1>9. ASSUME NEW x \in Topics
      PROVE  IF IsAbout(m, x) THEN Says(m, x) \in SettledOn(r, A, known, x)
             ELSE SettledOn(entity, A, known, x) \subseteq SettledOn(r, A, known, x)
  <2>1. CASE x = <<"gptp", i>>
    <3>1. IsAbout(m, x) /\ Says(m, x) = m.gm
      BY <2>1, <1>1 DEF IsAbout, Says, Told, GptpMessages
    <3>. QED  BY <1>1, <1>4, <2>1, <3>1 DEF SettledOn
  <2>2. CASE x # <<"gptp", i>>
    <3>1. ~IsAbout(m, x)
      BY <1>1, <2>2, TopicIs DEF IsAbout, GptpMessages
    <3>2. x[1] = "gptp" => x[2] \in Interfaces \ {i}
      BY <2>2, TopicIs
    <3>3. IsKnown(r, A, x) => IsKnown(entity, A, x)
      BY DEF IsKnown
    <3>. QED  BY <1>4, <1>5, <3>1, <3>2, <3>3, StillSettled
  <2>. QED  BY <2>1, <2>2
<1>. QED  BY <1>2, <1>5, <1>7, <1>8, <1>9 DEF Hears, Inv, TypeOK

LEMMA HearsCounters ==
  ASSUME Inv, NEW m \in Messages, m.kind = "counters", Modelled(entity), Proper(m)
  PROVE  Hears(m, Applied(entity, m), known)
<1> DEFINE u == m.of
           r == UpdateCounters(entity, m)
           A == entity.asked
<1>1. m \in CountersMessages /\ u \in Counted
  BY NewsIs DEF CountersMessages
<1>2. Applied(entity, m) = r
  BY DEF Applied
<1>3. entity \in Entities /\ Sane(entity, A) /\ Asking(entity, known) /\ ProperCounters(m)
  BY DEF Inv, Sane, Proper
<1>4. CountersTold(entity, r, m)
  BY <1>1, <1>3, CountersDoes
<1> HIDE DEF r
<1>5. /\ r.status = entity.status /\ r.asked = A
      /\ r.aem = entity.aem /\ r.values = entity.values
  BY <1>3, <1>4, OnlyKeeps DEF Counts, CountersTold
<1>6. Spares(A, A, <<"counters", u>>)
  BY DEF Spares
<1>7. Sane(r, A)
  BY <1>1, <1>3, <1>4, <1>6, CountersSane
<1>8. Asking(r, known) /\ Modelled(r)
  BY <1>3, <1>5, AskingKept
<1>9. ASSUME NEW x \in Topics, Followed(x)
      PROVE  IF IsAbout(m, x) THEN Says(m, x) \in SettledOn(r, A, known, x)
             ELSE SettledOn(entity, A, known, x) \subseteq SettledOn(r, A, known, x)
  <2>1. CASE x = <<"counters", u>>
    <3>1. IsAbout(m, x) /\ Says(m, x) = News(m)
      BY <2>1 DEF IsAbout, Says, Told
    <3>2. r.counters[u] = News(m)
      BY <1>3, <1>9, <1>4, <2>1 DEF Followed, ProperCounters, CountersTold
    <3>3. Says(m, x) \in Numbers
      BY <2>1, <3>1, SaysIs
    <3>. QED  BY <2>1, <3>1, <3>2, <3>3 DEF SettledOn
  <2>2. CASE x # <<"counters", u>>
    <3>1. ~IsAbout(m, x)
      BY <1>1, <2>2, TopicIs DEF IsAbout
    <3>2. x[1] = "counters" => x[2] \in Counted \ {u}
      BY <2>2, TopicIs
    <3>3. IsKnown(r, A, x) => IsKnown(entity, A, x)
      BY DEF IsKnown
    <3>4. x[1] = "counters" => r.counters[x[2]] = entity.counters[x[2]]
      BY <1>4, <3>2 DEF CountersTold
    <3>. QED  BY <1>5, <3>1, <3>3, <3>4, StillSettled
  <2>. QED  BY <2>1, <2>2
<1>. QED  BY <1>2, <1>5, <1>7, <1>8, <1>9 DEF Hears, Inv, TypeOK

LEMMA HearsValues ==
  ASSUME Inv, NEW m \in Messages, m.kind = "values", Modelled(entity), Proper(m)
  PROVE  Hears(m, Applied(entity, m), known)
<1> DEFINE c == m.of
           r == UpdateControlValues(entity, c, m.value)
           A == entity.asked
<1>1. c \in Controls /\ m.value \in Values
  BY NewsIs DEF ValuesMessages
<1>2. Applied(entity, m) = r
  BY DEF Applied
<1>3. /\ entity \in Entities /\ Sane(entity, A) /\ Asking(entity, known)
      /\ "values" \notin faults => Legal(c, m.value)
  BY DEF Inv, Sane, Proper
<1>4. /\ Does(entity, r, {"values", "outside", "flags", "version"}, {})
      /\ r.values[c] = m.value /\ \A d \in Controls \ {c} : r.values[d] = entity.values[d]
  BY <1>1, <1>3, ControlValuesDo
<1>5. Sane(r, A)
  BY <1>1, <1>3, ValuesSane
<1> HIDE DEF r
<1>6. /\ r.status = entity.status /\ r.asked = A
      /\ r.aem = entity.aem /\ r.counters = entity.counters
  BY <1>3, <1>4, OnlyKeeps
<1>8. Asking(r, known) /\ Modelled(r)
  BY <1>3, <1>6, AskingKept
<1>9. ASSUME NEW x \in Topics
      PROVE  IF IsAbout(m, x) THEN Says(m, x) \in SettledOn(r, A, known, x)
             ELSE SettledOn(entity, A, known, x) \subseteq SettledOn(r, A, known, x)
  <2>1. CASE x = <<"values", c>>
    <3>1. IsAbout(m, x) /\ Says(m, x) = m.value
      BY <2>1 DEF IsAbout, Says, Told
    <3>. QED  BY <1>1, <1>4, <2>1, <3>1 DEF SettledOn
  <2>2. CASE x # <<"values", c>>
    <3>1. ~IsAbout(m, x)
      BY <2>2, TopicIs DEF IsAbout
    <3>2. x[1] = "values" => x[2] \in Controls \ {c}
      BY <2>2, TopicIs
    <3>3. IsKnown(r, A, x) => IsKnown(entity, A, x)
      BY DEF IsKnown
    <3>4. x[1] = "values" => (Modelled(r) => Modelled(entity)) /\ r.values[x[2]] = entity.values[x[2]]
      BY <1>4, <3>2
    <3>. QED  BY <1>6, <3>1, <3>3, <3>4, StillSettled
  <2>. QED  BY <2>1, <2>2
<1>. QED  BY <1>2, <1>5, <1>6, <1>8, <1>9 DEF Hears, Inv, TypeOK

LEMMA HearsMappings ==
  ASSUME Inv, NEW m \in Messages, m.kind = "mappings", Modelled(entity), Proper(m)
  PROVE  Hears(m, Applied(entity, m), known)
<1> DEFINE r == SetMisbehaving(entity)
           A == entity.asked
<1>1. Applied(entity, m) = r
  BY DEF Applied, ValidateMappings
<1>2. /\ entity \in Entities /\ Sane(entity, A) /\ Asking(entity, known) /\ Verdict(entity)
      /\ "mappings" \in faults
  BY DEF Inv, Sane, Judging, Proper
<1>3. Only(entity, r, {"flags", "version", "told"})
  BY <1>2, MisbehavingDoes
<1>4. Sane(r, A)
  BY <1>2, MisbehavingSane
<1> HIDE DEF r
<1>5. /\ r.status = entity.status /\ r.asked = A /\ r.values = entity.values
      /\ r.aem = entity.aem /\ r.counters = entity.counters
  BY <1>3 DEF Only, Fields
<1>6. Asking(r, known) /\ Modelled(r)
  BY <1>2, <1>5, AskingKept
<1>7. ASSUME NEW x \in Topics
      PROVE  ~IsAbout(m, x) /\ SettledOn(entity, A, known, x) \subseteq SettledOn(r, A, known, x)
  <2>1. ~IsAbout(m, x)
    BY TopicIs DEF IsAbout
  <2>2. IsKnown(r, A, x) => IsKnown(entity, A, x)
    BY DEF IsKnown
  <2>. QED  BY <1>5, <2>1, <2>2, StillSettled
<1>. QED  BY <1>1, <1>4, <1>5, <1>6, <1>7 DEF Hears, Inv, TypeOK

\* A notification of an entity whose model was not read changes nothing.
LEMMA HearsNotification ==
  ASSUME Inv, NEW m \in Messages, m.kind \notin {"adp", "answer"}, Proper(m)
  PROVE  Hears(m, Applied(entity, m), known)
<1>1. CASE Modelled(entity)
  BY <1>1, NewsIs, HearsGptp, HearsCounters, HearsValues, HearsMappings
<1>2. CASE ~Modelled(entity)
  <2>1. Applied(entity, m) = entity
    BY <1>2, NewsIs DEF Applied, UpdateAvbInfo, UpdateCounters, UpdateControlValues, ValidateMappings
  <2>. QED  BY <1>2, <2>1, HearsNothing
<1>. QED  BY <1>1, <1>2

\* Nothing is known of an entity that was not seen yet, or has just been.
LEMMA NewSane ==
  ASSUME NEW e, NEW adp \in [Interfaces -> Gms], NEW asked \in SUBSET Questions,
         NEW status \in {"offline", "known"}, Model \notin asked,
         e = [NoEntity EXCEPT !.status = status, !.adp = adp, !.asked = asked]
  PROVE  Sane(e, asked) /\ e.status = status /\ e.asked = asked
<1>1. /\ e.status = status /\ e.asked = asked /\ e.adp = adp
      /\ e.aem = [i \in Interfaces |-> None] /\ e.values = [c \in Controls |-> "allowed"]
      /\ e.counters = [u \in Counted |-> [more |-> None, less |-> None]]
      /\ e.flags = {"IEEE17221"} /\ e.version = 0 /\ e.links = [i \in Interfaces |-> "Unknown"]
  BY DEF NoEntity
<1>2. e \in Entities
  <2>1. /\ [i \in Interfaces |-> None] \in [Interfaces -> Gms]
        /\ [c \in Controls |-> "allowed"] \in [Controls -> Values]
        /\ [i \in Interfaces |-> "Unknown"] \in Links
    BY DEF Gms, Values, Links
  <2>2. [u \in Counted |-> [more |-> None, less |-> None]] \in [Counted -> Pairs]
    BY DEF Pairs, Counter
  <2>3. {"IEEE17221"} \in SUBSET Flags /\ None \in Identifies
    BY DEF Flags, Identifies
  <2>. QED  BY <2>1, <2>2, <2>3 DEF Entities, Records, NoEntity
<1>3. ProperValues(e.values)
  BY <1>1 DEF ProperValues, Legal, ValuesVerdict
<1>4. Judging(e, asked)
  BY <1>1, <1>3 DEF Judging, Verdict, SaidMilan, Modelled, IsKnown
<1>5. Diagnosing(e, asked)
  BY <1>1 DEF Diagnosing, LinkIs, IsKnown, Modelled
<1>6. AgreeBut(e, {})
  BY <1>1 DEF AgreeBut
<1>. QED  BY <1>1, <1>2, <1>4, <1>5, <1>6 DEF Sane

\* What the controller makes of an advertisement.
Discovers(i, gm, r, k) ==
  LET interfaces == [known EXCEPT ![i] = gm]
  IN  /\ k = interfaces
      /\ r = CASE interfaces = known -> entity
               [] interfaces # known /\ entity.status # "offline" -> UpdateEntity(entity, interfaces)
               [] OTHER -> [NoEntity EXCEPT !.status = "known", !.adp = interfaces, !.asked = {<<"milan", "info">>}]

LEMMA HearsAdvertisement ==
  ASSUME Inv, NEW m \in Messages, m.kind = "adp", NEW r, NEW k, Discovers(m.of, m.gm, r, k)
  PROVE  Hears(m, r, k)
<1> DEFINE i == m.of
           gm == m.gm
           A == entity.asked
           x0 == <<"gptp", i>>
<1>0. i \in Interfaces /\ gm \in Grandmasters /\ gm # None
  BY NewsIs, DiagnosticsAssumption DEF Advertisements
<1>1. /\ entity \in Entities /\ Sane(entity, A) /\ Asking(entity, known) /\ known \in [Interfaces -> Gms]
      /\ Diagnosing(entity, A)
  BY DEF Inv, TypeOK, Sane
<1>2. k = [known EXCEPT ![i] = gm] /\ k \in [Interfaces -> Gms] /\ k[i] = gm
      /\ \A j \in Interfaces \ {i} : k[j] = known[j]
  BY <1>0, <1>1 DEF Discovers, Gms
<1>3. ASSUME NEW x \in Topics PROVE IsAbout(m, x) <=> x = x0
  BY TopicIs DEF IsAbout
<1>4. Says(m, x0) = gm
  BY DEF Says, Told
<1>5. CASE k = known
  <2>1. r = entity
    BY <1>5 DEF Discovers
  <2>. QED  BY <1>1, <1>2, <1>5, <2>1 DEF Hears
<1>6. CASE k # known /\ entity.status # "offline"
  <2>1. r = UpdateEntity(entity, k)
    BY <1>6 DEF Discovers
  <2>0. entity \in Entities /\ k \in [Interfaces -> Gms]
    BY <1>1, <1>2
  <2>2. /\ Does(entity, r, {"adp", "aem", "warning"}, {})
        /\ \A j \in Interfaces :
             r.aem[j] = IF k[j] \notin {None, entity.adp[j]} /\ Modelled(entity) THEN k[j] ELSE entity.aem[j]
    BY ONLY <2>0, <2>1, AdvertisementDoes
  <2>3. Sane(r, A)
    BY <1>1, <1>2, <2>1, AdvertisementSane
  <2>4. /\ r.status = entity.status /\ r.asked = A /\ r.values = entity.values
        /\ r.counters = entity.counters /\ r.flags = entity.flags /\ r.version = entity.version
    BY <1>1, <2>2, OnlyKeeps
  <2>5. Asking(r, k)
    BY <1>1, <1>6, <2>4 DEF Asking
  <2>6. ASSUME NEW x \in Topics
        PROVE  IF IsAbout(m, x) THEN Says(m, x) \in SettledOn(r, A, k, x)
               ELSE SettledOn(entity, A, known, x) \subseteq SettledOn(r, A, k, x)
    <3>0. IsKnown(r, A, x) => IsKnown(entity, A, x)
      BY <2>4 DEF IsKnown, Modelled
    <3>1. CASE x = x0
      <4>1. IsKnown(r, A, x) => r.aem[i] = gm
        <5>1. IsKnown(r, A, x) => Modelled(entity) /\ SameGptp(entity, i)
          BY <1>0, <1>1, <3>0, <3>1 DEF Diagnosing, IsKnown
        <5>. QED  BY <1>0, <1>2, <2>2, <5>1 DEF SameGptp
      <4>. QED  BY <1>0, <1>3, <1>4, <3>1, <4>1 DEF SettledOn
    <3>2. CASE x # x0 /\ x[1] = "gptp"
      <4>1. x[2] \in Interfaces \ {i}
        BY <3>2, TopicIs
      <4>2. k[x[2]] = known[x[2]]
        BY <1>2, <4>1
      <4>3. r.aem[x[2]] \in {entity.aem[x[2]]} \cup ({k[x[2]]} \ {None})
        BY <2>2, <4>1
      <4>. QED  BY <1>3, <3>0, <3>2, <4>2, <4>3 DEF SettledOn
    <3>3. CASE x # x0 /\ x[1] # "gptp"
      BY <1>3, <2>4, <3>0, <3>3, StillSettled DEF Modelled
    <3>. QED  BY <3>1, <3>2, <3>3
  <2>. QED  BY <1>2, <2>3, <2>4, <2>5, <2>6 DEF Hears
<1>7. CASE k # known /\ entity.status = "offline"
  <2>1. r = [NoEntity EXCEPT !.status = "known", !.adp = k, !.asked = {Milan}]
    BY <1>7 DEF Discovers, Milan
  <2>2. Sane(r, {Milan}) /\ r.status = "known" /\ r.asked = {Milan}
    <3>1. {Milan} \in SUBSET Questions /\ Model \notin {Milan} /\ "known" \in {"offline", "known"}
      BY DEF Questions, Milan, Model
    <3>. QED  BY <1>2, <2>1, <3>1, NewSane
  <2>3. r.flags = {"IEEE17221"} /\ r.version = 0
    BY <2>1 DEF NoEntity
  <2>4. Asking(r, k)
    BY <2>2, <2>3 DEF Asking
  <2>5. entity = NoEntity
    BY <1>1, <1>7 DEF Asking
  <2>6. A = {} /\ r.aem = entity.aem /\ r.counters = entity.counters /\ r.values = entity.values
    BY <2>1, <2>5 DEF NoEntity
  <2>7. ~Modelled(r)
    BY <2>2 DEF Modelled
  <2>8. ASSUME NEW x \in Topics
        PROVE  IF IsAbout(m, x) THEN Says(m, x) \in SettledOn(r, r.asked, k, x)
               ELSE SettledOn(entity, A, known, x) \subseteq SettledOn(r, r.asked, k, x)
    <3>1. CASE IsAbout(m, x)
      BY <2>7, <3>1, UnknownSettles
    <3>2. CASE ~IsAbout(m, x)
      <4>1. ~IsKnown(r, r.asked, x)
        BY <2>7 DEF IsKnown
      <4>2. x[1] = "gptp" => x[2] \in Interfaces \ {i}
        BY <1>3, <3>2, TopicIs
      <4>3. x[1] = "gptp" => k[x[2]] = known[x[2]]
        BY <1>2, <4>2
      <4>4. /\ x[1] = "gptp" => r.aem[x[2]] = entity.aem[x[2]] /\ k[x[2]] = known[x[2]]
            /\ x[1] = "counters" => r.counters[x[2]] = entity.counters[x[2]]
            /\ x[1] = "values" => (Modelled(r) => Modelled(entity)) /\ r.values[x[2]] = entity.values[x[2]]
        BY <2>6, <2>7, <4>3
      <4>. QED  BY <3>2, <4>1, <4>4, StillSettled
    <3>. QED  BY <3>1, <3>2
  <2>9. \A q \in entity.asked : FALSE
    BY <2>6
  <2>. QED  BY <1>2, <2>2, <2>4, <2>8, <2>9 DEF Hears
<1>. QED  BY <1>5, <1>6, <1>7

LEMMA AskedSane ==
  ASSUME NEW e, NEW asked, Sane(e, asked), NEW S \in SUBSET Questions
  PROVE  LET r == [e EXCEPT !.asked = S]
         IN  Sane(r, asked) /\ Only(e, r, {"asked"}) /\ r.asked = S
<1> DEFINE r == [e EXCEPT !.asked = S]
<1>0. e \in Entities /\ Judging(e, asked) /\ Diagnosing(e, asked) /\ AgreeBut(e, {})
  BY DEF Sane
<1>1. r \in Entities /\ Only(e, r, {"asked"}) /\ r.asked = S
  BY <1>0 DEF Entities, Records, Only, Fields
<1> HIDE DEF r
<1>2. /\ r.status = e.status /\ r.adp = e.adp /\ r.aem = e.aem /\ r.counters = e.counters
      /\ r.values = e.values /\ r.flags = e.flags /\ r.version = e.version /\ r.told = e.told
      /\ r.specification = e.specification /\ r.redundant = e.redundant /\ r.links = e.links
      /\ r.warning = e.warning /\ r.outside = e.outside
  BY <1>1 DEF Only, Fields
<1>3. Judging(r, asked)
  BY <1>0, <1>2 DEF Judging, Verdict, SaidMilan, Modelled, IsKnown
<1>4. Diagnosing(r, asked)
  BY <1>0, <1>2 DEF Diagnosing, LinkIs, IsKnown, Modelled, SameGptp, RightlyWarned, Warns
<1>5. AgreeBut(r, {})
  <2>1. \A w \in HealthFields : Health(r)[w] = Health(e)[w]
    BY <1>0, <1>1, HealthKept DEF HealthFields
  <2>. QED  BY <1>0, <1>2, <2>1 DEF AgreeBut
<1>. QED  BY <1>1, <1>3, <1>4, <1>5 DEF Sane, r

LEMMA UnknownKeeps ==
  ASSUME NEW x \in Topics, NEW e, NEW r, NEW asked, NEW left, NEW k, NEW l,
         ~IsKnown(r, left, x), x[1] = "values" => ~Modelled(r)
  PROVE  SettledOn(e, asked, k, x) \subseteq SettledOn(r, left, l, x)
BY TopicIs DEF SettledOn

LEMMA HearsMilan ==
  ASSUME Inv, NEW m \in Messages, m.kind = "answer", m.to = Milan, Milan \in entity.asked
  PROVE  Hears(m, Advertised(Answered([entity EXCEPT !.asked = @ \ {Milan}], Milan, m.news)), known)
<1> DEFINE e == [entity EXCEPT !.asked = @ \ {Milan}]
           r == [MilanInfo(e, setting.specification) EXCEPT !.asked = {Model}]
<1>0. Milan # Model /\ Milan \notin DynamicQuestions /\ Milan \notin Topics
  BY TopicIs DEF Milan, Model, DynamicQuestions
<1>1. /\ Sane(entity, entity.asked) /\ Asking(entity, known) /\ entity \in Entities
      /\ known \in [Interfaces -> Gms] /\ setting \in Settings
  BY DEF Inv, TypeOK
<1>2. entity.status = "known" /\ entity.asked = {Milan} /\ entity.flags = {"IEEE17221"} /\ entity.version = 0
  <2>1. entity.status \in {"offline", "known", "modelled", "advertised"}
    BY <1>1 DEF Entities, Records
  <2>2. entity.status # "offline"
    BY <1>1 DEF Asking, NoEntity
  <2>. QED  BY <1>0, <1>1, <2>1, <2>2 DEF Asking
<1>3. Sane(e, {Milan}) /\ Only(entity, e, {"asked"})
  <2>1. e = [entity EXCEPT !.asked = {}] /\ {} \in SUBSET Questions
    BY <1>2
  <2>. QED  BY <1>1, <1>2, <2>1, AskedSane
<1> HIDE DEF e
<1>4. e.status = "known" /\ e.flags = {"IEEE17221"} /\ e.version = 0
  BY <1>2, <1>3 DEF Only, Fields
<1>5. setting.specification \in Nat
  BY <1>1, DiagnosticsAssumption
<1>6. Sane(r, r.asked) /\ r.status = "known" /\ r.asked = {Model}
  BY <1>3, <1>4, <1>5, MilanSane
<1>7. Answered(e, Milan, m.news) = r
  <2>1. m.news = setting.specification
    <3>1. m.news \in NewsFor(Milan)
      BY AnswerIs
    <3>. QED  BY <3>1 DEF NewsFor, Milan
  <2>. QED  BY <2>1 DEF Answered, Milan, Model
<1> HIDE DEF r
<1>8. Advertised(r) = r /\ ~Modelled(r) /\ Asking(r, known)
  BY <1>6 DEF Advertised, Modelled, Asking
<1>9. ASSUME NEW x \in Topics
      PROVE  ~IsAbout(m, x) /\ SettledOn(entity, entity.asked, known, x) \subseteq SettledOn(r, r.asked, known, x)
  <2>1. ~IsAbout(m, x)
    BY <1>0, TopicIs DEF IsAbout
  <2>2. ~IsKnown(r, r.asked, x)
    BY <1>8 DEF IsKnown
  <2>. QED  BY <1>8, <2>1, <2>2, UnknownKeeps
<1>10. \A q \in entity.asked : q = m.to
  BY <1>2
<1>. QED  BY <1>1, <1>6, <1>7, <1>8, <1>9, <1>10 DEF Hears, e

LEMMA HearsModel ==
  ASSUME Inv, NEW m \in Messages, m.kind = "answer", m.to = Model, Model \in entity.asked, Proper(m)
  PROVE  Hears(m, Advertised(Answered([entity EXCEPT !.asked = @ \ {Model}], Model, m.news)), known)
<1> DEFINE e == [entity EXCEPT !.asked = @ \ {Model}]
           r == [e EXCEPT !.status = "modelled", !.values = m.news, !.asked = DynamicQuestions]
<1>0. Milan # Model /\ Model \notin DynamicQuestions /\ Model \notin Topics
  BY TopicIs DEF Milan, Model, DynamicQuestions
<1>1. /\ Sane(entity, entity.asked) /\ Asking(entity, known) /\ entity \in Entities
      /\ known \in [Interfaces -> Gms]
  BY DEF Inv, TypeOK
<1>2. entity.status = "known" /\ entity.asked = {Model}
  <2>1. entity.status \in {"offline", "known", "modelled", "advertised"}
    BY <1>1 DEF Entities, Records
  <2>2. entity.status # "offline"
    BY <1>1 DEF Asking, NoEntity
  <2>. QED  BY <1>0, <1>1, <2>1, <2>2 DEF Asking
<1>3. Sane(e, {Model}) /\ Only(entity, e, {"asked"})
  <2>1. e = [entity EXCEPT !.asked = {}] /\ {} \in SUBSET Questions
    BY <1>2
  <2>. QED  BY <1>1, <1>2, <2>1, AskedSane
<1> HIDE DEF e
<1>4. e.status = "known" /\ e \in Entities
  BY <1>2, <1>3 DEF Only, Fields, Sane
<1>5. m.news \in [Controls -> Values] /\ ProperValues(m.news)
  <2>1. m.news \in NewsFor(Model)
    BY AnswerIs
  <2>. QED  BY <2>1 DEF NewsFor, Model, Proper
<1>6. Sane(r, r.asked) /\ r.status = "modelled" /\ r.asked = DynamicQuestions
  BY <1>3, <1>4, <1>5, ModelSane
<1>7. Answered(e, Model, m.news) = r
  BY DEF Answered, Model
<1>8. r.values = m.news
  BY <1>4 DEF Entities, Records
<1> HIDE DEF r
<1>9. DynamicQuestions # {}
  <2>1. <<"gptp", "AvbInterface0">> \in DynamicQuestions
    BY DEF DynamicQuestions, Interfaces
  <2>. QED  BY <2>1
<1>10. Advertised(r) = r /\ Asking(r, known)
  BY <1>6, <1>9 DEF Advertised, Asking
<1>11. ASSUME NEW x \in Topics
       PROVE  IF IsAbout(m, x) THEN Says(m, x) \in SettledOn(r, r.asked, known, x)
              ELSE SettledOn(entity, entity.asked, known, x) \subseteq SettledOn(r, r.asked, known, x)
  <2>1. CASE \E c \in Controls : x = <<"values", c>>
    <3>1. IsAbout(m, x)
      BY <2>1 DEF IsAbout
    <3>2. Says(m, x) = m.news[x[2]] /\ m.news[x[2]] \in Values
      BY <1>5, <2>1 DEF Says
    <3>. QED  BY <1>8, <2>1, <3>1, <3>2 DEF SettledOn
  <2>2. CASE ~\E c \in Controls : x = <<"values", c>>
    <3>1. x \in DynamicQuestions /\ x[1] # "values"
      BY <2>2, TopicIs DEF DynamicQuestions
    <3>2. ~IsAbout(m, x)
      BY <1>0, <3>1, TopicIs DEF IsAbout
    <3>3. ~IsKnown(r, r.asked, x)
      BY <1>6, <3>1 DEF IsKnown
    <3>. QED  BY <3>1, <3>2, <3>3, UnknownKeeps
  <2>. QED  BY <2>1, <2>2
<1>12. \A q \in entity.asked : q = m.to
  BY <1>2
<1>. QED  BY <1>1, <1>6, <1>7, <1>10, <1>11, <1>12 DEF Hears, e

\* An answer about the grandmaster of an interface, or its refusal, or about counters: what it
\* makes of the entity before it is seen whether that was the last one.
DynamicAnswer(m, q, r) ==
  /\ Sane(r, r.asked) /\ r.status = "modelled" /\ r.asked = entity.asked \ {q}
  /\ r.values = entity.values
  /\ \A i \in Interfaces \ setting.silent : r.aem[i] = IF q = <<"gptp", i>> THEN m.news.gm ELSE entity.aem[i]
  /\ "partial" \notin faults =>
       \A u \in Counted : r.counters[u] = IF q = <<"counters", u>> THEN News(m.news) ELSE entity.counters[u]

LEMMA HearsDynamic ==
  ASSUME Inv, NEW m \in Messages, m.kind = "answer", NEW q \in DynamicQuestions, m.to = q,
         entity.status = "modelled", NEW s, DynamicAnswer(m, q, s)
  PROVE  Hears(m, Advertised(s), known)
<1> DEFINE r == Advertised(s)
           A == entity.asked
<1>1. /\ Sane(r, r.asked) /\ r.asked = s.asked
      /\ r.aem = s.aem /\ r.counters = s.counters /\ r.values = s.values
      /\ s.asked = {} => r.status = "advertised"
      /\ s.asked # {} => r = s
  BY AdvertisedSane DEF DynamicAnswer
<1> HIDE DEF r
<1>2. Asking(entity, known) /\ known \in [Interfaces -> Gms] /\ Modelled(entity)
  BY DEF Inv, TypeOK, Modelled
<1>3. Asking(r, known)
  BY <1>1, <1>2 DEF Asking, DynamicAnswer
<1>4. Modelled(r)
  BY <1>1 DEF Modelled, DynamicAnswer
<1>5. ASSUME NEW x \in Topics, Followed(x)
      PROVE  IF IsAbout(m, x) THEN Says(m, x) \in SettledOn(r, r.asked, known, x)
             ELSE SettledOn(entity, A, known, x) \subseteq SettledOn(r, r.asked, known, x)
  <2>0. q # Model
    BY DEF Model, DynamicQuestions
  <2>1. CASE x = q
    <3>1. IsAbout(m, x) /\ Says(m, x) = Told(m.news, x)
      BY <2>0, <2>1 DEF IsAbout, Says
    <3>2. CASE \E i \in Interfaces \ setting.silent : x = <<"gptp", i>>
      <4>1. PICK i \in Interfaces \ setting.silent : x = <<"gptp", i>>
        BY <3>2
      <4>2. Says(m, x) = m.news.gm /\ r.aem[i] = m.news.gm
        BY <1>1, <2>1, <3>1, <4>1 DEF Told, DynamicAnswer
      <4>3. Says(m, x) \in Grandmasters
        BY <3>1, <4>1, SaysIs
      <4>. QED  BY <3>1, <4>1, <4>2, <4>3 DEF SettledOn
    <3>3. CASE \E u \in Counted : x = <<"counters", u>>
      <4>1. PICK u \in Counted : x = <<"counters", u>>
        BY <3>3
      <4>2. "partial" \notin faults
        BY <1>5, <4>1 DEF Followed
      <4>3. Says(m, x) = News(m.news) /\ r.counters[u] = News(m.news)
        BY <1>1, <2>1, <3>1, <4>1, <4>2 DEF Told, DynamicAnswer
      <4>4. Says(m, x) \in Numbers
        BY <3>1, <4>1, SaysIs
      <4>. QED  BY <3>1, <4>1, <4>3, <4>4 DEF SettledOn
    <3>4. x[1] # "values"
      BY <2>1 DEF DynamicQuestions
    <3>. QED  BY <3>2, <3>3, <3>4, TopicIs
  <2>2. CASE x # q
    <3>1. ~IsAbout(m, x)
      BY <2>0, <2>2, TopicIs DEF IsAbout
    <3>2. IsKnown(r, r.asked, x) => IsKnown(entity, A, x)
      BY <1>1, <1>2, <2>2 DEF IsKnown, DynamicAnswer
    <3>3. CASE \E i \in Interfaces \ setting.silent : x = <<"gptp", i>>
      <4>1. r.aem[x[2]] = entity.aem[x[2]]
        BY <1>1, <2>2, <3>3 DEF DynamicAnswer
      <4>. QED  BY <3>1, <3>2, <3>3, <4>1, StillSettled
    <3>4. CASE \E u \in Counted : x = <<"counters", u>>
      <4>1. "partial" \notin faults
        BY <1>5, <3>4 DEF Followed
      <4>2. r.counters[x[2]] = entity.counters[x[2]]
        BY <1>1, <2>2, <3>4, <4>1 DEF DynamicAnswer
      <4>. QED  BY <3>1, <3>2, <3>4, <4>2, StillSettled
    <3>5. CASE \E c \in Controls : x = <<"values", c>>
      <4>1. r.values[x[2]] = entity.values[x[2]]
        BY <1>1 DEF DynamicAnswer
      <4>. QED  BY <1>2, <3>1, <3>2, <3>5, <4>1, StillSettled
    <3>. QED  BY <3>3, <3>4, <3>5, TopicIs
  <2>. QED  BY <2>1, <2>2
<1>6. \A p \in entity.asked : p \in r.asked \/ p = m.to
  BY <1>1 DEF DynamicAnswer
<1>. QED  BY <1>1, <1>2, <1>3, <1>5, <1>6 DEF Hears, r

LEMMA AnswerIsDynamic ==
  ASSUME Inv, NEW m \in Messages, m.kind = "answer", NEW q \in DynamicQuestions, m.to = q,
         q \in entity.asked, Proper(m), entity.status = "modelled"
  PROVE  DynamicAnswer(m, q, Answered([entity EXCEPT !.asked = @ \ {q}], q, m.news))
<1> DEFINE e == [entity EXCEPT !.asked = @ \ {q}]
           A == entity.asked
           left == A \ {q}
           r == Answered(e, q, m.news)
<1>1. Sane(entity, A) /\ entity \in Entities
  BY DEF Inv, TypeOK
<1>2. Sane(e, A) /\ Only(entity, e, {"asked"}) /\ e.asked = left
  <2>1. e = [entity EXCEPT !.asked = left] /\ left \in SUBSET Questions
    BY <1>1 DEF Entities, Records
  <2> HIDE DEF left
  <2>. QED  BY <1>1, <2>1, AskedSane
<1> HIDE DEF e
<1>3. /\ e.status = "modelled" /\ Modelled(e) /\ e.aem = entity.aem /\ e.counters = entity.counters
      /\ e.values = entity.values /\ e \in Entities
  BY <1>2 DEF Only, Fields, Modelled, Sane
<1>4. Spares(A, left, q)
  BY DEF Spares
<1>5. m.news \in NewsFor(q)
  BY AnswerIs
<1>6. CASE \E i \in Interfaces : q = <<"gptp", i>>
  <2>1. PICK i \in Interfaces : q = <<"gptp", i>>
    BY <1>6
  <2>2. m.news \in GptpMessages
    BY <1>5, <2>1 DEF NewsFor
  <2>3. CASE i \in setting.silent
    <3>1. r = AvbInfoRefused(e, i)
      BY <2>1, <2>3 DEF Answered
    <3>2. /\ Does(e, r, Gptps, {}) /\ SameGptp(r, i)
          /\ \A j \in Interfaces \ {i} : r.aem[j] = e.aem[j] /\ r.adp[j] = e.adp[j]
          /\ RightlyWarned(e) => RightlyWarned(r)
      BY <1>3, <3>1, AvbInfoRefusedDoes
    <3> HIDE DEF r
    <3>3. Sane(r, left)
      BY <1>2, <1>3, <1>4, <2>1, <2>3, <3>2, GptpSane
    <3>4. r.asked = left /\ r.status = "modelled" /\ r.values = e.values /\ r.counters = e.counters
      BY <1>2, <1>3, <3>2, OnlyKeeps DEF Gptps
    <3>5. \A j \in Interfaces \ setting.silent : r.aem[j] = IF q = <<"gptp", j>> THEN m.news.gm ELSE entity.aem[j]
      BY <1>3, <2>1, <2>3, <3>2
    <3>6. \A u \in Counted : q # <<"counters", u>>
      BY <2>1
    <3>. QED  BY <1>3, <3>3, <3>4, <3>5, <3>6 DEF DynamicAnswer, r, e
  <2>4. CASE i \notin setting.silent
    <3> DEFINE gm == m.news.gm
    <3>0. gm \in Grandmasters
      BY <2>2 DEF GptpMessages
    <3>1. r = UpdateAvbInfo(e, i, gm)
      BY <2>1, <2>4 DEF Answered
    <3>2. /\ Does(e, r, Gptps, {}) /\ r.flags = e.flags
          /\ r.aem[i] = gm /\ SameGptp(r, i)
          /\ \A j \in Interfaces \ {i} : r.aem[j] = e.aem[j] /\ r.adp[j] = e.adp[j]
          /\ RightlyWarned(e) => RightlyWarned(r)
      BY <1>3, <3>0, <3>1, AvbInfoDoes
    <3> HIDE DEF r
    <3>3. Sane(r, left)
      BY <1>2, <1>3, <1>4, <2>1, <3>2, GptpSane
    <3>4. r.asked = left /\ r.status = "modelled" /\ r.values = e.values /\ r.counters = e.counters
      BY <1>2, <1>3, <3>2, OnlyKeeps DEF Gptps
    <3>5. \A j \in Interfaces \ setting.silent : r.aem[j] = IF q = <<"gptp", j>> THEN m.news.gm ELSE entity.aem[j]
      BY <1>3, <2>1, <3>2
    <3>6. \A u \in Counted : q # <<"counters", u>>
      BY <2>1
    <3>. QED  BY <1>3, <3>3, <3>4, <3>5, <3>6 DEF DynamicAnswer, r, e
  <2>. QED  BY <2>3, <2>4
<1>7. CASE \E u \in Counted : q = <<"counters", u>>
  <2>1. PICK u \in Counted : q = <<"counters", u>>
    BY <1>7
  <2> DEFINE news == m.news
  <2>2. news \in CountersMessages /\ news.of = u /\ ProperCounters(news)
    BY <1>5, <2>1 DEF NewsFor, Proper
  <2>3. r = CountersAnswered(e, news)
    BY <2>1 DEF Answered
  <2> HIDE DEF news
  <2>4. CountersTold(e, r, news)
    BY <1>3, <2>2, <2>3, CountersAnsweredDoes
  <2> HIDE DEF r
  <2>5. Sane(r, left)
    BY <1>2, <1>3, <1>4, <2>1, <2>2, <2>4, CountersSane
  <2>6. Does(e, r, Counts, {})
    BY <2>4 DEF CountersTold
  <2>7. r.asked = left /\ r.status = "modelled" /\ r.values = e.values /\ r.aem = e.aem
    BY <1>2, <1>3, <2>6, OnlyKeeps DEF Counts
  <2>8. "partial" \notin faults =>
          \A v \in Counted : r.counters[v] = IF q = <<"counters", v>> THEN News(news) ELSE entity.counters[v]
    <3>1. "partial" \notin faults => r.counters[u] = News(news)
      BY <1>3, <2>2, <2>4 DEF CountersTold, ProperCounters
    <3>2. \A v \in Counted \ {u} : r.counters[v] = entity.counters[v]
      BY <1>3, <2>2, <2>4 DEF CountersTold
    <3>3. \A v \in Counted : q = <<"counters", v>> <=> v = u
      BY <2>1
    <3>. QED  BY <3>1, <3>2, <3>3
  <2>9. \A i \in Interfaces : q # <<"gptp", i>>
    BY <2>1
  <2>. QED  BY <1>3, <2>5, <2>7, <2>8, <2>9 DEF DynamicAnswer, r, e, news
<1>8. q \in Questions
  BY DEF Questions
<1>9. q # Milan /\ q # Model
  BY DEF DynamicQuestions, Milan, Model
<1>. QED  BY <1>6, <1>7, <1>8, <1>9, QuestionIs

LEMMA HearsAnswer ==
  ASSUME Inv, NEW m \in Messages, m.kind = "answer", m.to \in entity.asked, Proper(m)
  PROVE  Hears(m, Advertised(Answered([entity EXCEPT !.asked = @ \ {m.to}], m.to, m.news)), known)
<1>1. m.to \in Questions
  BY AnswerIs
<1>2. CASE m.to = Milan
  BY <1>2, HearsMilan
<1>3. CASE m.to = Model
  BY <1>3, HearsModel
<1>4. CASE m.to \in DynamicQuestions
  <2> DEFINE q == m.to
             s == Answered([entity EXCEPT !.asked = @ \ {q}], q, m.news)
  <2>1. entity.status = "modelled"
    <3>1. Milan \notin DynamicQuestions /\ Model \notin DynamicQuestions
      BY DEF DynamicQuestions, Milan, Model
    <3>2. entity \in Entities /\ Asking(entity, known)
      BY DEF Inv, TypeOK
    <3>3. entity.status \in {"offline", "known", "modelled", "advertised"}
      BY <3>2 DEF Entities, Records
    <3>. QED  BY <1>4, <3>1, <3>2, <3>3 DEF Asking, NoEntity
  <2>2. DynamicAnswer(m, q, s)
    BY <1>4, <2>1, AnswerIsDynamic
  <2> HIDE DEF s
  <2>3. Hears(m, Advertised(s), known)
    BY <1>4, <2>1, <2>2, HearsDynamic
  <2>. QED  BY <2>3 DEF s
<1>. QED  BY <1>1, <1>2, <1>3, <1>4, QuestionIs

-----------------------------------------------------------------------------
(* Steps                                                                     *)

\* The device stays what it is.
LEMMA SameSetting ==
  ASSUME setting' = setting
  PROVE  /\ Controls' = Controls /\ Entities' = Entities /\ Devices' = Devices
         /\ Messages' = Messages /\ Topics' = Topics
         /\ HasRedundantStream' = HasRedundantStream /\ SoundSetting' = SoundSetting
<1>1. Controls' = Controls
  BY DEF Controls
<1>2. Identifies' = Identifies
  BY <1>1 DEF Identifies
<1>3. Healths' = Healths
  BY <1>1 DEF Healths
<1>4. Records' = Records
  BY <1>1, <1>2, <1>3 DEF Records
<1>5. Entities' = Entities
  BY <1>3, <1>4 DEF Entities
<1>6. Devices' = Devices
  BY <1>1 DEF Devices
<1>7. ValuesMessages' = ValuesMessages
  BY <1>1 DEF ValuesMessages
<1>8. Notifications' = Notifications
  BY <1>7 DEF Notifications
<1>9. \A q \in Questions : NewsFor(q)' = NewsFor(q)
  BY <1>1 DEF NewsFor
<1>10. Answers' = Answers
  BY <1>9 DEF Answers
<1>11. Messages' = Messages
  BY <1>8, <1>10 DEF Messages
<1>12. Topics' = Topics
  BY <1>1 DEF Topics
<1>13. HasRedundantStream' = HasRedundantStream
  BY DEF HasRedundantStream, Streams
<1>14. \A v \in {setting.specification} : MilanModel(v)' = MilanModel(v)
  BY DEF MilanModel, Streams, ClocksAreThere, Capable
<1>15. SoundSetting' = SoundSetting
  BY <1>1, <1>14 DEF SoundSetting, AtTop, IsIdentify
<1>. QED  BY <1>1, <1>5, <1>6, <1>11, <1>12, <1>13, <1>15

\* What is sane stays so, whatever the device does against the standards.
LEMMA KeptSane ==
  ASSUME setting' = setting, faults \subseteq faults', NEW e, NEW asked, Sane(e, asked),
         entity' = e, entity'.asked = asked
  PROVE  Sane(entity, entity.asked)'
<1>0. e \in Entities /\ AgreeBut(e, {}) /\ Judging(e, asked) /\ Diagnosing(e, asked)
  BY DEF Sane
<1>1. /\ Controls' = Controls /\ Entities' = Entities
      /\ HasRedundantStream' = HasRedundantStream /\ SoundSetting' = SoundSetting
  BY SameSetting
<1>2. \A c, v : Legal(c, v)' = Legal(c, v) /\ Beyond(c, v)' = Beyond(c, v)
  BY DEF Legal, Beyond, ValuesVerdict
<1>3. AgreeBut(entity, {})'
  <2>1. Healths' = Healths
    BY <1>1 DEF Healths
  <2>2. \A w \in HealthFields : Health(entity)'[w] = Health(e)[w]
    BY DEF Health
  <2>. QED  BY <1>0, <2>1, <2>2 DEF AgreeBut
<1>4. Judging(entity, entity.asked)'
  <2>1. ProperValues(e.values) => ProperValues(entity.values)'
    BY <1>1, <1>2 DEF ProperValues
  <2>2. SaidMilan(entity, entity.asked)' = SaidMilan(e, asked)
    BY DEF SaidMilan, Modelled
  <2>3. \A q : IsKnown(entity, entity.asked, q)' = IsKnown(e, asked, q)
    BY DEF IsKnown, Modelled
  <2>4. Verdict(entity)' = Verdict(e)
    BY DEF Verdict
  <2>5. Verdict(entity)' /\ ("Misbehaving" \in entity'.flags => "mappings" \in faults')
    BY <1>0, <2>4 DEF Judging
  <2>6. setting'.specification # 0 /\ SaidMilan(entity, entity.asked)' =>
          /\ entity'.specification = setting'.specification
          /\ faults' = {} /\ SoundSetting' => "Milan" \in entity'.flags
    BY <1>0, <1>1, <2>2 DEF Judging
  <2>7. entity'.status = "advertised" /\ "Milan" \in entity'.flags =>
          \A c \in Controls' : Legal(c, entity.values[c])'
    <3>1. \A c : Legal(c, entity.values[c])' = Legal(c, e.values[c])
      BY DEF Legal, ValuesVerdict
    <3>. QED  BY <1>0, <1>1, <3>1 DEF Judging
  <2>8. "Milan" \in entity'.flags /\ "partial" \notin faults' =>
          \A u \in Counted : IsKnown(e, asked, <<"counters", u>>) =>
            Consistent(e.counters[u].more, e.counters[u].less)
    BY <1>0 DEF Judging
  <2>9. "Milan" \in entity'.flags /\ "partial" \notin faults' =>
          \A u \in Counted : IsKnown(entity, entity.asked, <<"counters", u>>)' =>
            Consistent(entity.counters[u].more, entity.counters[u].less)'
    BY <2>3, <2>8 DEF Consistent
  <2>10. ProperValues(entity.values)'
    BY <1>0, <2>1 DEF Judging
  <2>. QED  BY <2>5, <2>6, <2>7, <2>9, <2>10 DEF Judging
<1>5. Diagnosing(entity, entity.asked)'
  <2>1. \A i : LinkIs(entity, i)' = LinkIs(e, i)
    BY DEF LinkIs
  <2>2. \A q : IsKnown(entity, entity.asked, q)' = IsKnown(e, asked, q)
    BY DEF IsKnown, Modelled
  <2>3. \A i : SameGptp(entity, i)' = SameGptp(e, i)
    BY DEF SameGptp
  <2>4. RightlyWarned(entity)' = RightlyWarned(e)
    BY DEF RightlyWarned, Warns
  <2>5. {c \in Controls : Beyond(c, entity.values[c])}' = {c \in Controls : Beyond(c, e.values[c])}
    <3>1. \A c : Beyond(c, entity.values[c])' = Beyond(c, e.values[c])
      BY DEF Beyond, ValuesVerdict
    <3>. QED  BY <1>1, <3>1
  <2>. QED  BY <1>0, <1>1, <2>1, <2>2, <2>3, <2>4, <2>5 DEF Diagnosing
<1>. QED  BY <1>0, <1>1, <1>3, <1>4, <1>5 DEF Sane

\* So does what the device said before.
LEMMA KeptProper ==
  ASSUME setting' = setting, faults \subseteq faults', NEW m, Proper(m)
  PROVE  Proper(m)'
<1>1. Controls' = Controls
  BY DEF Controls
<1>2. \A c, v : Legal(c, v)' = Legal(c, v)
  BY DEF Legal, ValuesVerdict
<1>3. \A news : ProperCounters(news) => ProperCounters(news)'
  BY DEF ProperCounters
<1>4. \A values : ProperValues(values) => ProperValues(values)'
  BY <1>1, <1>2 DEF ProperValues
<1>. QED  BY <1>2, <1>3, <1>4 DEF Proper

\* The controller receives the first message.
LEMMA ReceivesInv ==
  ASSUME Inv, wire # <<>>, wire' = Tail(wire), UNCHANGED <<setting, device, losses, faults>>,
         NEW r, NEW k, entity' = r, known' = k, Hears(Head(wire), r, k)
  PROVE  Inv'
<1> DEFINE m == Head(wire)
           l == Len(wire')
<1>1. /\ wire \in Seq(Messages) /\ wire' \in Seq(Messages) /\ m \in Messages
      /\ l \in Nat /\ 1 \in DOMAIN wire /\ wire[1] = m /\ DOMAIN wire' = 1..l
      /\ \A n \in 1..l : wire'[n] = wire[n + 1] /\ n + 1 \in DOMAIN wire /\ n + 1 # 1
  <2>1. wire \in Seq(Messages)
    BY DEF Inv, TypeOK
  <2>. QED  BY <2>1
<1>2. Sane(r, r.asked) /\ Asking(r, k) /\ k \in [Interfaces -> Gms]
  BY DEF Hears
<1>3. TypeOK'
  BY <1>1, <1>2, SameSetting DEF Inv, TypeOK, Sane
<1>4. Asking(entity, known)'
  BY <1>2 DEF Asking, NoEntity, Controls
<1>5. Answering'
  <2> SUFFICES ASSUME NEW n \in 1..l, wire'[n].kind = "answer"
               PROVE  /\ wire'[n].to \in entity'.asked
                      /\ \A j \in 1..l : wire'[j].kind = "answer" /\ wire'[j].to = wire'[n].to => j = n
    BY <1>1 DEF Answering
  <2>1. /\ wire[n + 1].to \in entity.asked
        /\ \A j \in DOMAIN wire : wire[j].kind = "answer" /\ wire[j].to = wire[n + 1].to => j = n + 1
    BY <1>1 DEF Inv, Answering
  <2>2. m.kind = "answer" => wire[n + 1].to # m.to
    BY <1>1, <2>1
  <2>3. wire[n + 1].to \in r.asked
    BY <2>1, <2>2 DEF Hears
  <2>. QED  BY <1>1, <2>1, <2>3
<1>6. Behaving'
  <2>1. \A n \in 1..l : Proper(wire'[n])
    BY <1>1 DEF Inv, Behaving
  <2>2. \A n \in 1..l : Proper(wire[n])'
    <3>1. ASSUME NEW n \in 1..l PROVE Proper(wire[n])'
      <4>1. PICK x : x = wire'[n]
        OBVIOUS
      <4>2. Proper(x)
        BY <2>1, <4>1
      <4>3. Proper(x)'
        BY <4>2, KeptProper
      <4>. QED  BY <4>1, <4>3 DEF Proper, ProperCounters, ProperValues, Legal, ValuesVerdict
    <3>. QED  BY <3>1
  <2>3. ProperValues(device.values)'
    BY DEF Inv, Behaving, ProperValues, Controls, Legal, ValuesVerdict
  <2>. QED  BY <1>1, <2>2, <2>3 DEF Inv, Behaving
<1>7. Sane(entity, entity.asked)'
  BY <1>2, KeptSane
<1>8. Following'
  <2> SUFFICES ASSUME NEW x \in Topics, Followed(x)
               PROVE  Chained(wire', Now(x), x, SettledOn(r, r.asked, k, x))
    <3>1. \A x \in Topics : Now(x)' = Now(x) /\ Followed(x)' = Followed(x)
      BY DEF Now, Followed
    <3>2. \A x : SettledOn(entity, entity.asked, known, x)' = SettledOn(r, r.asked, k, x)
      BY DEF SettledOn, IsKnown, Modelled
    <3>3. Topics' = Topics
      BY SameSetting
    <3>. QED  BY <3>1, <3>2, <3>3 DEF Following
  <2> DEFINE settled == SettledOn(entity, entity.asked, known, x)
             after == SettledOn(r, r.asked, k, x)
             now == Now(x)
  <2>1. Chained(wire, now, x, settled)
    BY DEF Inv, Following
  <2>2. IF IsAbout(m, x) THEN (m.kind = "adp" => Says(m, x) \in settled) => Says(m, x) \in after
        ELSE settled \subseteq after
    BY DEF Hears
  <2> HIDE DEF settled, after, now, m
  <2>3. m = Head(wire)
    BY DEF m
  <2>4. IsAbout(m, x) /\ m.kind = "adp" => Says(m, x) \in settled
    BY <1>1, <2>1, <2>3, ChainHead
  <2>5. IF IsAbout(m, x) THEN Says(m, x) \in after ELSE settled \subseteq after
    BY <2>2, <2>4
  <2>6. Chained(Tail(wire), now, x, after)
    BY <1>1, <2>1, <2>3, <2>5, ChainTail
  <2>. QED  BY <2>6 DEF after, now
<1>. QED  BY <1>3, <1>4, <1>5, <1>6, <1>7, <1>8 DEF Inv

LEMMA ReceiveInv ==
  ASSUME Inv, Receive
  PROVE  Inv'
<1> DEFINE m == Head(wire)
<1>1. wire # <<>> /\ m = wire[1] /\ 1 \in DOMAIN wire /\ m \in Messages
  BY DEF Inv, TypeOK, Receive
<1>2. Proper(m) /\ (m.kind = "answer" => m.to \in entity.asked)
  BY <1>1 DEF Inv, Behaving, Answering
<1>3. PICK r : r = entity'
  OBVIOUS
<1>4. PICK k : k = known'
  OBVIOUS
<1>5. Hears(m, r, k)
  <2>1. CASE m.kind = "adp" /\ Discovered(m.of, m.gm)
    <3>1. Discovers(m.of, m.gm, r, k)
      BY <2>1, <1>3, <1>4 DEF Discovered, Discovers
    <3>2. m.kind = "adp"
      BY <2>1
    <3> HIDE DEF m
    <3>. QED  BY <1>1, <3>1, <3>2, HearsAdvertisement
  <2>2. CASE m.kind = "answer" /\ UNCHANGED known
             /\ LET q == m.to
                IN  entity' = Advertised(Answered([entity EXCEPT !.asked = @ \ {q}], q, m.news))
    <3>1. r = Advertised(Answered([entity EXCEPT !.asked = @ \ {m.to}], m.to, m.news)) /\ k = known
      BY <2>2, <1>3, <1>4
    <3>2. m.kind = "answer" /\ m.to \in entity.asked
      BY <2>2, <1>2
    <3> HIDE DEF m
    <3>. QED  BY <1>1, <1>2, <3>1, <3>2, HearsAnswer
  <2>3. CASE m.kind \notin {"adp", "answer"} /\ UNCHANGED known /\ entity' = Applied(entity, m)
    <3>1. r = Applied(entity, m) /\ k = known /\ m.kind \notin {"adp", "answer"}
      BY <2>3, <1>3, <1>4
    <3> HIDE DEF m
    <3>. QED  BY <1>1, <1>2, <3>1, HearsNotification
  <2>. QED  BY <2>1, <2>2, <2>3 DEF Receive
<1>6. wire' = Tail(wire) /\ UNCHANGED <<setting, device, losses, faults>>
  BY DEF Receive
<1>. QED  BY <1>1, <1>3, <1>4, <1>5, <1>6, ReceivesInv

\* The device says something: it is the one message about what is another thing now.
Spoken(m) ==
  /\ m \in Messages /\ wire' = Append(wire, m)
  /\ UNCHANGED <<setting, known, entity, losses>>
  /\ device' \in Devices /\ faults' \in SUBSET {"partial", "counters", "values", "mappings"}
  /\ faults \subseteq faults'
  /\ m.kind = "answer" =>
       m.to \in entity.asked /\ ~\E n \in DOMAIN wire : wire[n].kind = "answer" /\ wire[n].to = m.to
  /\ Proper(m)' /\ ProperValues(device.values)'
  /\ "counters" \notin faults' =>
       \A u \in Counted : Consistent(device'.counters[u].more, device'.counters[u].less)
  /\ \A x \in Topics : Followed(x)' =>
       IF IsAbout(m, x) THEN Says(m, x) = Now(x)' /\ (m.kind = "adp" => Now(x)' = Now(x))
       ELSE Now(x)' = Now(x)

LEMMA SpokenInv ==
  ASSUME Inv, NEW m, Spoken(m)
  PROVE  Inv'
<1> DEFINE l == Len(wire)
<1>1. /\ wire \in Seq(Messages) /\ DOMAIN wire = 1..l /\ l \in Nat /\ m \in Messages
      /\ wire' \in Seq(Messages) /\ DOMAIN wire' = 1..(l + 1) /\ wire'[l + 1] = m
      /\ \A n \in 1..l : wire'[n] = wire[n]
  BY DEF Inv, TypeOK, Spoken
<1>2. setting' = setting /\ known' = known /\ entity' = entity /\ losses' = losses /\ faults \subseteq faults'
  BY DEF Spoken
<1> HIDE DEF l
<1>3. TypeOK'
  BY <1>1, <1>2, SameSetting DEF Inv, TypeOK, Spoken
<1>4. Asking(entity, known)'
  BY <1>2 DEF Inv, Asking, NoEntity, Controls, Modelled, DynamicQuestions
<1>5. Answering'
  <2> SUFFICES ASSUME NEW n \in 1..(l + 1), wire'[n].kind = "answer"
               PROVE  /\ wire'[n].to \in entity.asked
                      /\ \A j \in 1..(l + 1) : wire'[j].kind = "answer" /\ wire'[j].to = wire'[n].to => j = n
    BY <1>1, <1>2 DEF Answering
  <2>1. m.kind = "answer" =>
          m.to \in entity.asked /\ ~\E j \in 1..l : wire[j].kind = "answer" /\ wire[j].to = m.to
    BY <1>1 DEF Spoken
  <2>2. \A i \in 1..l : wire[i].kind = "answer" =>
          /\ wire[i].to \in entity.asked
          /\ \A j \in 1..l : wire[j].kind = "answer" /\ wire[j].to = wire[i].to => j = i
    BY <1>1 DEF Inv, Answering
  <2>3. \A i \in 1..(l + 1) : i \in 1..l \/ i = l + 1
    BY <1>1
  <2>4. CASE n = l + 1
    BY <1>1, <2>1, <2>3, <2>4
  <2>5. CASE n \in 1..l
    BY <1>1, <2>1, <2>2, <2>3, <2>5
  <2>. QED  BY <2>3, <2>4, <2>5
<1>6. Behaving'
  <2>1. ASSUME NEW n \in 1..(l + 1) PROVE Proper(wire[n])'
    <3>1. CASE n = l + 1
      BY <1>1, <3>1 DEF Spoken, Proper, ProperCounters, ProperValues, Legal, ValuesVerdict
    <3>2. CASE n \in 1..l
      <4>1. PICK x : x = wire'[n]
        OBVIOUS
      <4>2. Proper(x)
        BY <1>1, <3>2, <4>1 DEF Inv, Behaving
      <4>3. Proper(x)'
        BY <1>2, <4>2, KeptProper
      <4>. QED  BY <4>1, <4>3 DEF Proper, ProperCounters, ProperValues, Legal, ValuesVerdict
    <3>. QED  BY <1>1, <3>1, <3>2
  <2>. QED  BY <1>1, <2>1 DEF Behaving, Spoken
<1>7. Sane(entity, entity.asked)'
  BY <1>2, KeptSane DEF Inv
<1>8. Following'
  <2> SUFFICES ASSUME NEW x \in Topics, Followed(x)'
               PROVE  Chained(wire', Now(x)', x, SettledOn(entity, entity.asked, known, x))
    <3>1. \A x : SettledOn(entity, entity.asked, known, x)' = SettledOn(entity, entity.asked, known, x)
      BY <1>2 DEF SettledOn, IsKnown, Modelled
    <3>2. Topics' = Topics
      BY <1>2, SameSetting
    <3>. QED  BY <3>1, <3>2 DEF Following
  <2>1. Followed(x)
    BY <1>2 DEF Followed
  <2> DEFINE settled == SettledOn(entity, entity.asked, known, x)
             now == Now(x)
  <2>2. Chained(wire, now, x, settled)
    BY <2>1 DEF Inv, Following
  <2>3. wire' = Append(wire, m)
    BY DEF Spoken
  <2>4. IF IsAbout(m, x) THEN Says(m, x) = Now(x)' /\ (m.kind = "adp" => Now(x)' = now)
        ELSE Now(x)' = now
    BY DEF Spoken
  <2> HIDE DEF settled, now
  <2>5. CASE IsAbout(m, x)
    <3>1. m.kind = "adp" => Says(m, x) = now
      BY <2>4, <2>5
    <3>2. Chained(Append(wire, m), Says(m, x), x, settled)
      BY <1>1, <2>2, <2>5, <3>1, ChainSaid
    <3>. QED  BY <2>3, <2>4, <2>5, <3>2 DEF settled
  <2>6. CASE ~IsAbout(m, x)
    <3>1. Chained(Append(wire, m), now, x, settled)
      BY <1>1, <2>2, <2>6, ChainOther
    <3>. QED  BY <2>3, <2>4, <2>6, <3>1 DEF settled
  <2>. QED  BY <2>5, <2>6
<1>. QED  BY <1>3, <1>4, <1>5, <1>6, <1>7, <1>8 DEF Inv

-----------------------------------------------------------------------------
(* What the device does                                                      *)

\* What Legal is does not change while the device runs.
LEMMA LegalKept ==
  ASSUME setting' = setting
  PROVE  \A values : (\A c \in Controls : Legal(c, values[c])) <=> (\A c \in Controls : Legal(c, values[c]))'
BY DEF Controls, Legal, ValuesVerdict

LEMMA AnswerIn ==
  ASSUME NEW q \in Questions, NEW news \in NewsFor(q)
  PROVE  [kind |-> "answer", to |-> q, news |-> news] \in Messages
<1>1. [kind |-> "answer", to |-> q, news |-> news] \in [kind : {"answer"}, to : {q}, news : NewsFor(q)]
  OBVIOUS
<1>. QED  BY <1>1 DEF Messages, Answers

\* What is not a change of what the device says, in a message about nothing else.
LEMMA SameDevice ==
  ASSUME Inv, UNCHANGED <<setting, device, known, entity, losses>>, faults \subseteq faults'
  PROVE  /\ device' \in Devices /\ ProperValues(device.values)'
         /\ "counters" \notin faults' =>
              \A u \in Counted : Consistent(device'.counters[u].more, device'.counters[u].less)
         /\ \A x : Now(x)' = Now(x)
<1>1. ProperValues(device.values)'
  BY LegalKept DEF Inv, Behaving, ProperValues
<1>. QED  BY <1>1 DEF Inv, TypeOK, Behaving, Now

LEMMA FollowsSpoken ==
  ASSUME Inv, NEW i \in Interfaces, DeviceFollows(i)
  PROVE  Inv'
<1> USE DEF DeviceFollows, Changes
<1>1. PICK gm \in Grandmasters : device' = [device EXCEPT !.gm[i] = gm, !.changes = @ + 1]
  OBVIOUS
<1>2. /\ device \in Devices /\ device'.gm = [device.gm EXCEPT ![i] = gm] /\ device'.counters = device.counters
      /\ device'.values = device.values /\ device' \in Devices /\ device'.gm[i] = gm
  <2>1. device \in Devices /\ device.gm \in [Interfaces -> Grandmasters] /\ device.changes \in Nat
    BY DEF Inv, TypeOK, Devices
  <2>2. [device.gm EXCEPT ![i] = gm] \in [Interfaces -> Grandmasters] /\ [device.gm EXCEPT ![i] = gm][i] = gm
    BY <2>1
  <2>3. /\ device'.gm = [device.gm EXCEPT ![i] = gm] /\ device'.counters = device.counters
        /\ device'.values = device.values
    BY <1>1, <2>1 DEF Devices
  <2>4. device' = [gm |-> device'.gm, counters |-> device.counters, values |-> device.values, changes |-> device.changes + 1]
    BY <1>1, <2>1 DEF Devices
  <2>5. device' \in Devices
    BY <2>1, <2>2, <2>3, <2>4 DEF Devices
  <2>. QED  BY <2>1, <2>2, <2>3, <2>5
<1> DEFINE m == [kind |-> "gptp", of |-> i, gm |-> gm]
<1>3. m \in GptpMessages /\ m \in Messages
  BY DEF GptpMessages, Messages, Notifications
<1>4. wire' = Append(wire, m)
  BY <1>2 DEF Send, Gptp
<1>5. ProperValues(device.values)'
  BY <1>2, LegalKept DEF Inv, Behaving, ProperValues
<1>6. \A x \in Topics : IF IsAbout(m, x) THEN Says(m, x) = Now(x)' ELSE Now(x)' = Now(x)
  <2> SUFFICES ASSUME NEW x \in Topics PROVE IF IsAbout(m, x) THEN Says(m, x) = Now(x)' ELSE Now(x)' = Now(x)
    OBVIOUS
  <2>1. CASE \E j \in Interfaces : x = <<"gptp", j>>
    BY <1>2, <2>1 DEF IsAbout, Says, Told, Now, Devices
  <2>2. CASE (\E u \in Counted : x = <<"counters", u>>) \/ (\E c \in Controls : x = <<"values", c>>)
    BY <1>2, <2>2 DEF IsAbout, Says, Told, Now
  <2>. QED  BY <2>1, <2>2, TopicIs
<1>7. Spoken(m)
  <2>1. Proper(m)' /\ m.kind = "gptp"
    BY DEF Proper
  <2>2. m \in Messages /\ wire' = Append(wire, m) /\ UNCHANGED <<setting, known, entity, losses, faults>>
    BY <1>3, <1>4
  <2> HIDE DEF m
  <2>. QED  BY <1>2, <1>5, <1>6, <2>1, <2>2 DEF Spoken, Inv, TypeOK, Behaving
<1> HIDE DEF m
<1>. QED  BY <1>7, SpokenInv

LEMMA ControlsSpoken ==
  ASSUME Inv, NEW c \in Controls, DeviceControls(c)
  PROVE  Inv'
<1> USE DEF DeviceControls, Changes
<1>1. PICK value \in Values :
        /\ device' = [device EXCEPT !.values[c] = value, !.changes = @ + 1]
        /\ Send([kind |-> "values", of |-> c, value |-> value])
        /\ faults' = IF ValuesVerdict(c, value) = "InvalidValues" THEN faults \cup {"values"} ELSE faults
  OBVIOUS
<1>2. /\ device \in Devices /\ device'.values = [device.values EXCEPT ![c] = value]
      /\ device'.counters = device.counters /\ device'.gm = device.gm /\ device' \in Devices
      /\ device'.values[c] = value /\ \A d \in Controls \ {c} : device'.values[d] = device.values[d]
  <2> DEFINE values == [device.values EXCEPT ![c] = value]
  <2>1. device \in Devices /\ device.values \in [Controls -> Values] /\ device.changes \in Nat
    BY DEF Inv, TypeOK, Devices
  <2>2. /\ values \in [Controls -> Values] /\ values[c] = value
        /\ \A d \in Controls \ {c} : values[d] = device.values[d]
    BY <2>1
  <2>3. device'.values = values /\ device'.counters = device.counters /\ device'.gm = device.gm
    BY <1>1, <2>1 DEF Devices
  <2>4. device' = [gm |-> device.gm, counters |-> device.counters, values |-> values, changes |-> device.changes + 1]
    BY <1>1, <2>1 DEF Devices
  <2> HIDE DEF values
  <2>5. device' \in Devices
    BY <2>1, <2>2, <2>3, <2>4 DEF Devices
  <2>. QED  BY <2>1, <2>2, <2>3, <2>5
<1> DEFINE m == [kind |-> "values", of |-> c, value |-> value]
<1>3. m \in ValuesMessages /\ m \in Messages
  BY DEF ValuesMessages, Messages, Notifications
<1>4. wire' = Append(wire, m)
  BY <1>1 DEF Send
<1>5. "values" \notin faults' => Legal(c, value) /\ "values" \notin faults
  BY <1>1 DEF Legal
<1>6. ProperValues(device.values)'
  <2>1. "values" \notin faults' => \A d \in Controls : Legal(d, device'.values[d])
    BY <1>2, <1>5 DEF Inv, Behaving, ProperValues
  <2>. QED  BY <2>1, LegalKept DEF ProperValues
<1>7. \A x \in Topics : IF IsAbout(m, x) THEN Says(m, x) = Now(x)' ELSE Now(x)' = Now(x)
  <2> SUFFICES ASSUME NEW x \in Topics PROVE IF IsAbout(m, x) THEN Says(m, x) = Now(x)' ELSE Now(x)' = Now(x)
    OBVIOUS
  <2>1. CASE \E d \in Controls : x = <<"values", d>>
    BY <1>2, <2>1 DEF IsAbout, Says, Told, Now
  <2>2. CASE (\E u \in Counted : x = <<"counters", u>>) \/ (\E j \in Interfaces : x = <<"gptp", j>>)
    BY <1>2, <2>2 DEF IsAbout, Says, Told, Now
  <2>. QED  BY <2>1, <2>2, TopicIs
<1>8. Spoken(m)
  <2>1. Proper(m)' /\ m.kind = "values"
    BY <1>5 DEF Proper, Legal, ValuesVerdict
  <2>2. /\ m \in Messages /\ wire' = Append(wire, m) /\ UNCHANGED <<setting, known, entity, losses>>
        /\ faults \subseteq faults' /\ faults' \in SUBSET {"partial", "counters", "values", "mappings"}
        /\ "counters" \notin faults' => "counters" \notin faults
    BY <1>1, <1>3, <1>4 DEF Inv, TypeOK
  <2> HIDE DEF m
  <2>. QED  BY <1>2, <1>6, <1>7, <2>1, <2>2 DEF Spoken, Inv, Behaving
<1> HIDE DEF m
<1>. QED  BY <1>8, SpokenInv

LEMMA MapsSpoken ==
  ASSUME Inv, DeviceMaps
  PROVE  Inv'
<1> USE DEF DeviceMaps, Changes
<1>1. /\ device \in Devices /\ device'.values = device.values
      /\ device'.counters = device.counters /\ device'.gm = device.gm /\ device' \in Devices
  BY DEF Inv, TypeOK, Devices
<1> DEFINE m == [kind |-> "mappings"]
<1>2. m \in Messages
  BY DEF Messages, Notifications
<1>3. ProperValues(device.values)'
  BY <1>1, LegalKept DEF Inv, Behaving, ProperValues
<1>4. \A x \in Topics : ~IsAbout(m, x) /\ Now(x)' = Now(x)
  <2> SUFFICES ASSUME NEW x \in Topics PROVE ~IsAbout(m, x) /\ Now(x)' = Now(x)
    OBVIOUS
  <2>. QED  BY <1>1, TopicIs DEF IsAbout, Now
<1>5. Spoken(m)
  <2>1. Proper(m)' /\ m.kind = "mappings"
    BY DEF Proper
  <2>2. /\ m \in Messages /\ wire' = Append(wire, m) /\ UNCHANGED <<setting, known, entity, losses>>
        /\ faults \subseteq faults' /\ faults' \in SUBSET {"partial", "counters", "values", "mappings"}
        /\ "counters" \notin faults' => "counters" \notin faults
    BY <1>2 DEF Send, Inv, TypeOK
  <2> HIDE DEF m
  <2>. QED  BY <1>1, <1>3, <1>4, <2>1, <2>2 DEF Spoken, Inv, Behaving
<1> HIDE DEF m
<1>. QED  BY <1>5, SpokenInv

LEMMA AdvertisesSpoken ==
  ASSUME Inv, NEW i \in Interfaces, Advertises(i)
  PROVE  Inv'
<1> USE DEF Advertises
<1> DEFINE m == [kind |-> "adp", of |-> i, gm |-> device.gm[i]]
<1>1. m \in Advertisements /\ m \in Messages
  BY DEF Messages, Advertisements, Inv, TypeOK, Devices
<1>2. \A x \in Topics : IsAbout(m, x) => Says(m, x) = Now(x)
  <2> SUFFICES ASSUME NEW x \in Topics, IsAbout(m, x) PROVE Says(m, x) = Now(x)
    OBVIOUS
  <2>. QED  BY TopicIs DEF IsAbout, Now, Says, Told
<1>3. Proper(m)' /\ m.kind = "adp"
  BY DEF Proper
<1>4. m \in Messages /\ wire' = Append(wire, m) /\ UNCHANGED <<setting, device, known, entity, losses, faults>>
  BY <1>1 DEF Send
<1> HIDE DEF m
<1>5. Spoken(m)
  BY <1>2, <1>3, <1>4, SameDevice DEF Spoken, Inv, TypeOK
<1>. QED  BY <1>5, SpokenInv

\* The news of a pair of counters, of the device as it is now.
LEMMA CountersNewsIs ==
  ASSUME device' \in Devices, NEW u \in Counted, NEW valid \in SUBSET Full
  PROVE  LET news == CountersNews(u, valid)
         IN  /\ news \in CountersMessages /\ news.kind = "counters" /\ news.of = u /\ news.valid = valid
             /\ valid = Full => /\ News(news) = device'.counters[u]
                                /\ news.more = device'.counters[u].more /\ news.less = device'.counters[u].less
<1>1. device'.counters[u] \in Numbers /\ 0 \in 0..(Width - 1)
  BY DiagnosticsAssumption DEF Devices
<1>. QED  BY <1>1 DEF CountersNews, CountersMessages, News, Numbers, Full

LEMMA CountingInv ==
  ASSUME Inv, NEW u \in Counted, NEW which \in {"more", "less"}, NEW valid \in {Full, {which}}, Changes,
         device' = [device EXCEPT !.counters[u][which] = (@ + 1) % Width, !.changes = @ + 1],
         Send(CountersNews(u, valid)), faults \subseteq faults',
         faults' \in SUBSET {"partial", "counters", "values", "mappings"},
         valid # Full => "partial" \in faults',
         "counters" \notin faults' =>
           which = IF device.counters[u].more = device.counters[u].less THEN "more" ELSE "less"
  PROVE  Inv'
<1> USE DEF Changes
<1> DEFINE pair == [device.counters[u] EXCEPT ![which] = (@ + 1) % Width]
           counters == [device.counters EXCEPT ![u] = pair]
<1>1. /\ device \in Devices /\ device.counters \in [Counted -> Numbers] /\ device.changes \in Nat
      /\ device.counters[u] \in Numbers
  BY DEF Inv, TypeOK, Devices
<1>2. \A n \in 0..(Width - 1) : (n + 1) % Width \in 0..(Width - 1)
  BY DiagnosticsAssumption
<1>3. pair \in Numbers
  BY <1>1, <1>2 DEF Numbers
<1>4. "counters" \notin faults' => Consistent(pair.more, pair.less)
  <2>1. "counters" \notin faults' => Consistent(device.counters[u].more, device.counters[u].less)
    BY DEF Inv, Behaving
  <2>2. "counters" \notin faults' =>
          \/ device.counters[u].more = device.counters[u].less /\ which = "more"
             /\ pair.more = (device.counters[u].more + 1) % Width /\ pair.less = device.counters[u].less
          \/ device.counters[u].more = (device.counters[u].less + 1) % Width /\ which = "less"
             /\ pair.less = (device.counters[u].less + 1) % Width /\ pair.more = device.counters[u].more
    BY <1>1, <2>1 DEF Consistent, Numbers
  <2>. QED  BY <2>2 DEF Consistent
<1> HIDE DEF pair
<1>5. counters \in [Counted -> Numbers] /\ counters[u] = pair /\ \A v \in Counted \ {u} : counters[v] = device.counters[v]
  BY <1>1, <1>3
<1>6. device' = [gm |-> device.gm, counters |-> counters, values |-> device.values, changes |-> device.changes + 1]
  BY <1>1 DEF Devices, pair
<1> HIDE DEF counters
<1>7. device' \in Devices /\ device'.counters = counters /\ device'.gm = device.gm /\ device'.values = device.values
  <2>1. device.gm \in [Interfaces -> Grandmasters] /\ device.values \in [Controls -> Values]
    BY <1>1 DEF Devices
  <2>2. counters \in [Counted -> Numbers] /\ device.changes \in Nat
    BY <1>1, <1>5
  <2>3. [gm |-> device.gm, counters |-> counters, values |-> device.values, changes |-> device.changes + 1] \in Devices
    BY ONLY <2>1, <2>2 DEF Devices
  <2>4. device' \in Devices
    BY ONLY <1>6, <2>3
  <2>5. device'.counters = counters /\ device'.gm = device.gm /\ device'.values = device.values
    BY ONLY <1>6
  <2>. QED  BY ONLY <2>4, <2>5
<1>8. PICK m : m = CountersNews(u, valid)
  OBVIOUS
<1>9. /\ m \in CountersMessages /\ m.kind = "counters" /\ m.of = u /\ m.valid = valid
      /\ valid = Full => News(m) = pair /\ m.more = pair.more /\ m.less = pair.less
  <2>1. valid \in SUBSET Full
    BY DEF Full
  <2>2. LET news == CountersNews(u, valid)
        IN  /\ news \in CountersMessages /\ news.kind = "counters" /\ news.of = u /\ news.valid = valid
            /\ valid = Full => /\ News(news) = device'.counters[u]
                               /\ news.more = device'.counters[u].more /\ news.less = device'.counters[u].less
    BY <1>7, <2>1, CountersNewsIs
  <2>. QED  BY <1>5, <1>7, <1>8, <2>2
<1>10. m \in Messages /\ wire' = Append(wire, m)
  BY <1>8, <1>9 DEF Send, Messages, Notifications
<1>11. ProperValues(device.values)'
  BY <1>7, LegalKept DEF Inv, Behaving, ProperValues
<1>12. Proper(m)'
  BY <1>4, <1>9 DEF Proper, ProperCounters
<1>13. \A x \in Topics : Followed(x)' => IF IsAbout(m, x) THEN Says(m, x) = Now(x)' ELSE Now(x)' = Now(x)
  <2> SUFFICES ASSUME NEW x \in Topics, Followed(x)'
               PROVE  IF IsAbout(m, x) THEN Says(m, x) = Now(x)' ELSE Now(x)' = Now(x)
    OBVIOUS
  <2>1. CASE x = <<"counters", u>>
    BY <1>5, <1>7, <1>9, <2>1 DEF Says, Told, Now, Followed, IsAbout
  <2>2. CASE \E v \in Counted \ {u} : x = <<"counters", v>>
    BY <1>5, <1>7, <1>9, <2>2 DEF IsAbout, Now
  <2>3. CASE (\E d \in Controls : x = <<"values", d>>) \/ (\E j \in Interfaces : x = <<"gptp", j>>)
    BY <1>7, <1>9, <2>3 DEF IsAbout, Now
  <2>. QED  BY <2>1, <2>2, <2>3, TopicIs
<1>14. \A v \in Counted : "counters" \notin faults' => Consistent(device'.counters[v].more, device'.counters[v].less)
  <2>1. \A v \in Counted : "counters" \notin faults' => Consistent(counters[v].more, counters[v].less)
    BY <1>4, <1>5 DEF Inv, Behaving
  <2>. QED  BY <1>7, <2>1
<1>15. Spoken(m)
  BY <1>7, <1>9, <1>10, <1>11, <1>12, <1>13, <1>14 DEF Spoken
<1>. QED  BY <1>15, SpokenInv

LEMMA CountsSpoken ==
  ASSUME Inv, NEW u \in Counted, DeviceCounts(u) \/ DeviceMiscounts(u)
  PROVE  Inv'
<1>2. faults \in SUBSET {"partial", "counters", "values", "mappings"}
  BY DEF Inv, TypeOK
<1>3. CASE DeviceCounts(u)
  <2>1. PICK which : which = IF device.counters[u].more = device.counters[u].less THEN "more" ELSE "less"
    OBVIOUS
  <2>2. /\ Changes /\ device' = [device EXCEPT !.counters[u][which] = (@ + 1) % Width, !.changes = @ + 1]
        /\ \/ Send(CountersNews(u, Full)) /\ UNCHANGED faults
           \/ Send(CountersNews(u, {which})) /\ faults' = faults \cup {"partial"}
    BY <1>3, <2>1 DEF DeviceCounts, Full
  <2>3. which \in {"more", "less"}
    BY <2>1
  <2>4. PICK valid \in {Full, {which}} :
           /\ Send(CountersNews(u, valid)) /\ faults \subseteq faults'
           /\ faults' \in SUBSET {"partial", "counters", "values", "mappings"}
           /\ valid # Full => "partial" \in faults'
    BY <1>2, <2>2
  <2>. QED  BY <2>1, <2>2, <2>3, <2>4, CountingInv
<1>4. CASE DeviceMiscounts(u)
  <2>1. device \in Devices /\ device.counters \in [Counted -> Numbers] /\ device.counters[u] \in Numbers
    BY DEF Inv, TypeOK, Devices
  <2>2. /\ Changes /\ device' = [device EXCEPT !.counters[u]["more"] = (@ + 1) % Width, !.changes = @ + 1]
        /\ Send(CountersNews(u, Full)) /\ faults' = faults \cup {"counters"}
    BY <1>4 DEF DeviceMiscounts, Full
  <2>3. faults \subseteq faults' /\ faults' \in SUBSET {"partial", "counters", "values", "mappings"} /\ "counters" \in faults'
    BY <1>2, <2>2
  <2>4. "more" \in {"more", "less"} /\ Full \in {Full, {"more"}}
    OBVIOUS
  <2>. QED  BY <2>2, <2>3, <2>4, CountingInv
<1>. QED  BY <1>3, <1>4

\* An answer of the device as it is.
LEMMA ReplyInv ==
  ASSUME Inv, NEW q \in Questions, NEW news \in NewsFor(q), Reply(q, news), faults \subseteq faults',
         faults' \in SUBSET {"partial", "counters", "values", "mappings"},
         q[1] = "counters" => ProperCounters(news)', q = Model => ProperValues(news)',
         \A x \in Topics : Followed(x)' /\ IsAbout([kind |-> "answer", to |-> q, news |-> news], x) =>
           Says([kind |-> "answer", to |-> q, news |-> news], x) = Now(x)
  PROVE  Inv'
<1>1. PICK m : m = [kind |-> "answer", to |-> q, news |-> news]
  OBVIOUS
<1>2. m \in Messages /\ m.kind = "answer" /\ m.to = q /\ m.news = news
  BY <1>1, AnswerIn
<1>3. Proper(m)'
  BY <1>2 DEF Proper
<1>4. /\ wire' = Append(wire, m) /\ UNCHANGED <<setting, device, known, entity, losses>>
      /\ q \in entity.asked /\ ~\E n \in DOMAIN wire : wire[n].kind = "answer" /\ wire[n].to = q
  BY <1>1 DEF Reply, Send
<1>5. \A x \in Topics : Followed(x)' /\ IsAbout(m, x) => Says(m, x) = Now(x)
  BY <1>1
<1>6. Spoken(m)
  BY <1>2, <1>3, <1>4, <1>5, SameDevice DEF Spoken
<1>. QED  BY <1>6, SpokenInv

LEMMA OnceSpoken ==
  ASSUME Inv, NEW q \in entity.asked, AnswersOnce(q)
  PROVE  Inv'
<1>1. q \in Questions /\ device.values \in [Controls -> Values]
  BY DEF Inv, TypeOK, Entities, Records, Devices
<1>2. UNCHANGED <<setting, device, known, entity, losses, faults>> /\ q[1] \in {"milan", "model"}
  BY DEF AnswersOnce, Reply
<1>3. faults \subseteq faults' /\ faults' \in SUBSET {"partial", "counters", "values", "mappings"}
  BY <1>2 DEF Inv, TypeOK
<1>4. CASE q = Milan
  <2> DEFINE m == [kind |-> "answer", to |-> q, news |-> setting.specification]
  <2>1. Reply(q, setting.specification) /\ setting.specification \in NewsFor(q)
    BY <1>4 DEF AnswersOnce, NewsFor, Milan
  <2>2. \A x \in Topics : ~IsAbout(m, x)
    BY <1>4, TopicIs DEF IsAbout, Milan, Model
  <2>3. q # Model /\ q[1] # "counters"
    BY <1>4 DEF Milan, Model
  <2>. QED  BY <1>1, <1>3, <2>1, <2>2, <2>3, ReplyInv
<1>5. CASE q = Model
  <2> DEFINE m == [kind |-> "answer", to |-> q, news |-> device.values]
  <2>1. Reply(q, device.values) /\ device.values \in NewsFor(q)
    BY <1>1, <1>5 DEF AnswersOnce, NewsFor, Model
  <2>2. \A x \in Topics : IsAbout(m, x) => Says(m, x) = Now(x)
    BY <1>5, TopicIs DEF IsAbout, Says, Now, Model
  <2>3. q[1] # "counters" /\ ProperValues(device.values)'
    BY <1>2, <1>3, <1>5, SameDevice DEF Model
  <2>4. PICK news : news = device.values
    OBVIOUS
  <2>5. ProperValues(news)'
    BY <1>2, <2>3, <2>4 DEF ProperValues, Legal, ValuesVerdict, Controls
  <2>. QED  BY <1>1, <1>3, <2>1, <2>2, <2>3, <2>4, <2>5, ReplyInv
<1>6. q = Milan \/ q = Model
  BY <1>1, <1>2, QuestionIs
<1>. QED  BY <1>4, <1>5, <1>6

LEMMA GptpSpoken ==
  ASSUME Inv, NEW i \in Interfaces, AnswersGptp(i)
  PROVE  Inv'
<1> DEFINE q == <<"gptp", i>>
<1>1. UNCHANGED <<setting, device, known, entity, losses, faults>>
  BY DEF AnswersGptp, Reply
<1>2. faults \subseteq faults' /\ faults' \in SUBSET {"partial", "counters", "values", "mappings"}
  BY <1>1 DEF Inv, TypeOK
<1>3. PICK news : news = Gptp(i)
  OBVIOUS
<1>4. news \in GptpMessages /\ news.of = i /\ news.gm = device.gm[i]
  BY <1>1, <1>3 DEF Gptp, GptpMessages, Inv, TypeOK, Devices
<1>5. q \in Questions /\ news \in NewsFor(q) /\ Reply(q, news) /\ q # Model /\ q[1] # "counters"
  BY <1>3, <1>4 DEF AnswersGptp, NewsFor, Questions, DynamicQuestions, Model
<1>6. \A x \in Topics : IsAbout([kind |-> "answer", to |-> q, news |-> news], x) =>
        Says([kind |-> "answer", to |-> q, news |-> news], x) = Now(x)
  BY <1>4, <1>5, TopicIs DEF IsAbout, Says, Told, Now, Model
<1> HIDE DEF q
<1>. QED  BY <1>2, <1>5, <1>6, ReplyInv

LEMMA CountersSpoken ==
  ASSUME Inv, NEW u \in Counted, AnswersCounters(u)
  PROVE  Inv'
<1> DEFINE q == <<"counters", u>>
<1>1. PICK valid \in {Full, {"more"}} :
        /\ Reply(q, CountersNews(u, valid)) /\ faults' \in {faults, faults \cup {"partial"}}
        /\ valid # Full => "partial" \in faults'
  BY DEF AnswersCounters, Full
<1>2. faults \subseteq faults' /\ faults' \in SUBSET {"partial", "counters", "values", "mappings"}
  BY <1>1 DEF Inv, TypeOK
<1>3. PICK news : news = CountersNews(u, valid)
  OBVIOUS
<1>4. UNCHANGED <<setting, device, known, entity, losses>> /\ device' \in Devices
  BY <1>1 DEF Reply, Inv, TypeOK
<1>5. /\ news \in CountersMessages /\ news.kind = "counters" /\ news.of = u /\ news.valid = valid
      /\ valid = Full => /\ News(news) = device.counters[u]
                         /\ news.more = device.counters[u].more /\ news.less = device.counters[u].less
  <2>1. valid \in SUBSET Full
    BY DEF Full
  <2>. QED  BY <1>3, <1>4, <2>1, CountersNewsIs
<1>6. q \in Questions /\ news \in NewsFor(q) /\ Reply(q, news) /\ q # Model /\ q[1] = "counters"
  BY <1>1, <1>3, <1>5 DEF NewsFor, Questions, DynamicQuestions, Model
<1>7. \A x \in Topics : Followed(x)' /\ IsAbout([kind |-> "answer", to |-> q, news |-> news], x) =>
        Says([kind |-> "answer", to |-> q, news |-> news], x) = Now(x)
  BY <1>1, <1>5, <1>6, TopicIs DEF IsAbout, Says, Told, Now, Model, Followed
<1>8. ProperCounters(news)'
  BY <1>1, <1>2, <1>5 DEF ProperCounters, Inv, Behaving
<1> HIDE DEF q
<1>. QED  BY <1>2, <1>6, <1>7, <1>8, ReplyInv

-----------------------------------------------------------------------------
(* What is lost, and what falls silent                                       *)

LEMMA StaysInv ==
  ASSUME Inv, UNCHANGED <<setting, device, faults>>, wire' = wire \/ (wire # <<>> /\ wire' = Tail(wire)),
         losses' \in Nat, NEW r, NEW k, entity' = r, known' = k, Sane(r, r.asked), Asking(r, k),
         k \in [Interfaces -> Gms], r.asked = entity.asked,
         losses' # 0 \/ UNCHANGED <<wire, entity, known, losses>>
  PROVE  Inv'
<1>1. PICK d \in {0, 1}, l \in Nat :
        /\ wire' \in Seq(Messages) /\ DOMAIN wire' = 1..l
        /\ \A n \in 1..l : n + d \in DOMAIN wire /\ wire'[n] = wire[n + d]
  <2>1. wire \in Seq(Messages)
    BY DEF Inv, TypeOK
  <2>2. CASE wire' = wire
    <3>1. PICK l \in Nat : DOMAIN wire = 1..l
      BY <2>1
    <3>2. wire' \in Seq(Messages) /\ DOMAIN wire' = 1..l
      BY ONLY <2>1, <2>2, <3>1
    <3>3. \A n \in 1..l : n + 0 = n
      OBVIOUS
    <3>4. \A n \in 1..l : n + 0 \in DOMAIN wire /\ wire'[n] = wire[n + 0]
      BY <2>2, <3>1, <3>3
    <3>. QED  BY <3>2, <3>4
  <2>3. CASE wire # <<>> /\ wire' = Tail(wire)
    <3>1. /\ wire' \in Seq(Messages) /\ DOMAIN wire' = 1..(Len(wire) - 1) /\ Len(wire) - 1 \in Nat
          /\ \A n \in 1..(Len(wire) - 1) : n + 1 \in DOMAIN wire /\ wire'[n] = wire[n + 1]
      BY <2>1, <2>3
    <3>. QED  BY <3>1
  <2>. QED  BY <2>2, <2>3
<1>2. TypeOK'
  BY <1>1, SameSetting DEF Inv, TypeOK, Sane
<1>3. Asking(entity, known)'
  BY DEF Asking, NoEntity, Controls, Modelled, DynamicQuestions
<1>4. Answering'
  <2> SUFFICES ASSUME NEW n \in 1..l, wire'[n].kind = "answer"
               PROVE  /\ wire'[n].to \in entity'.asked
                      /\ \A j \in 1..l : wire'[j].kind = "answer" /\ wire'[j].to = wire'[n].to => j = n
    BY <1>1 DEF Answering
  <2>1. /\ wire[n + d].to \in entity.asked
        /\ \A j \in DOMAIN wire : wire[j].kind = "answer" /\ wire[j].to = wire[n + d].to => j = n + d
    BY <1>1 DEF Inv, Answering
  <2>. QED  BY <1>1, <2>1
<1>5. Behaving'
  <2>1. ASSUME NEW n \in 1..l PROVE Proper(wire[n])'
    <3>1. PICK x : x = wire'[n]
      OBVIOUS
    <3>2. Proper(x)
      BY <1>1, <3>1 DEF Inv, Behaving
    <3>3. Proper(x)'
      BY <3>2, KeptProper
    <3>. QED  BY <3>1, <3>3 DEF Proper, ProperCounters, ProperValues, Legal, ValuesVerdict
  <2>2. ProperValues(device.values)'
    BY DEF Inv, Behaving, ProperValues, Controls, Legal, ValuesVerdict
  <2>. QED  BY <1>1, <2>1, <2>2 DEF Inv, Behaving
<1>6. Sane(entity, entity.asked)'
  BY KeptSane
<1>7. Following'
  <2>1. CASE losses' # 0
    BY <2>1 DEF Following, Followed
  <2>2. CASE UNCHANGED <<wire, entity, known, losses>>
    <3>1. \A x : SettledOn(entity, entity.asked, known, x)' = SettledOn(entity, entity.asked, known, x)
      BY <2>2 DEF SettledOn, IsKnown, Modelled
    <3>2. Topics' = Topics
      BY SameSetting
    <3>3. \A x \in Topics : Now(x)' = Now(x) /\ Followed(x)' = Followed(x)
      BY <2>2 DEF Now, Followed
    <3>. QED  BY <2>2, <3>1, <3>2, <3>3 DEF Inv, Following
  <2>. QED  BY <2>1, <2>2
<1>. QED  BY <1>2, <1>3, <1>4, <1>5, <1>6, <1>7 DEF Inv

LEMMA LoseInv ==
  ASSUME Inv, Lose
  PROVE  Inv'
<1>1. PICK r : r = entity
  OBVIOUS
<1>2. PICK k : k = known
  OBVIOUS
<1>3. Sane(r, r.asked) /\ Asking(r, k) /\ k \in [Interfaces -> Gms] /\ r.asked = entity.asked
  BY <1>1, <1>2 DEF Inv, TypeOK
<1>4. /\ UNCHANGED <<setting, device, faults>> /\ wire # <<>> /\ wire' = Tail(wire)
      /\ losses' \in Nat /\ losses' # 0 /\ entity' = r /\ known' = k
  BY <1>1, <1>2 DEF Lose, Inv, TypeOK
<1>. QED  BY <1>3, <1>4, StaysInv

LEMMA TimesOutInv ==
  ASSUME Inv, NEW i \in Interfaces, InterfaceTimesOut(i)
  PROVE  Inv'
<1>1. PICK k : k = known'
  OBVIOUS
<1>2. k \in [Interfaces -> Gms]
  BY <1>1 DEF InterfaceTimesOut, Inv, TypeOK, Gms
<1>3. PICK r : r = UpdateEntity(entity, k)
  OBVIOUS
<1>4. entity \in Entities /\ Sane(entity, entity.asked)
  BY DEF Inv, TypeOK
<1>5. Sane(r, entity.asked)
  BY <1>2, <1>3, <1>4, AdvertisementSane
<1>6. Does(entity, r, {"adp", "aem", "warning"}, {})
  BY <1>2, <1>3, <1>4, AdvertisementDoes
<1>7. r.status = entity.status /\ r.asked = entity.asked /\ r.flags = entity.flags /\ r.version = entity.version
  BY <1>4, <1>6, OnlyKeeps
<1>8. entity.status # "offline"
  BY DEF Inv, Asking, InterfaceTimesOut, Interfaces
<1>9. Asking(r, k)
  BY <1>7, <1>8 DEF Inv, Asking
<1>10. /\ UNCHANGED <<setting, device, faults>> /\ wire' = wire /\ entity' = r /\ known' = k
       /\ losses' \in Nat /\ losses' # 0
  BY <1>1, <1>3 DEF InterfaceTimesOut, Inv, TypeOK
<1>11. wire' = wire \/ (wire # <<>> /\ wire' = Tail(wire))
  BY <1>10
<1>12. losses' # 0 \/ UNCHANGED <<wire, entity, known, losses>>
  BY <1>10
<1>13. Sane(r, r.asked) /\ r.asked = entity.asked
  BY <1>5, <1>7
<1>. QED  BY <1>2, <1>9, <1>10, <1>11, <1>12, <1>13, StaysInv

LEMMA StutterInv ==
  ASSUME Inv, UNCHANGED vars
  PROVE  Inv'
<1>1. PICK r : r = entity
  OBVIOUS
<1>2. PICK k : k = known
  OBVIOUS
<1>3. Sane(r, r.asked) /\ Asking(r, k) /\ k \in [Interfaces -> Gms] /\ r.asked = entity.asked
  BY <1>1, <1>2 DEF Inv, TypeOK
<1>4. /\ UNCHANGED <<setting, device, faults>> /\ UNCHANGED <<wire, entity, known, losses>>
      /\ losses' \in Nat /\ entity' = r /\ known' = k
  BY <1>1, <1>2 DEF vars, Inv, TypeOK
<1>5. wire' = wire \/ (wire # <<>> /\ wire' = Tail(wire))
  BY <1>4
<1>6. losses' # 0 \/ UNCHANGED <<wire, entity, known, losses>>
  BY <1>4
<1>. QED  BY <1>3, <1>4, <1>5, <1>6, StaysInv

-----------------------------------------------------------------------------
(* All of it                                                                 *)

LEMMA InitInv ==
  ASSUME Init
  PROVE  Inv
<1>1. setting \in Settings /\ setting.specification \in Nat /\ setting.start \in 0..(Width - 1)
  BY DiagnosticsAssumption DEF Init
<1>2. PICK gm \in [Interfaces -> Grandmasters] :
        device = [gm |-> gm, counters |-> [u \in Counted |-> [more |-> setting.start, less |-> setting.start]],
                  values |-> [c \in Controls |-> "allowed"], changes |-> 0]
  BY DEF Init
<1>3. device \in Devices
  <2>1. [u \in Counted |-> [more |-> setting.start, less |-> setting.start]] \in [Counted -> Numbers]
    BY <1>1 DEF Numbers
  <2>2. [c \in Controls |-> "allowed"] \in [Controls -> Values]
    BY DEF Values
  <2>. QED  BY <1>2, <2>1, <2>2 DEF Devices
<1>4. known = [i \in Interfaces |-> None] /\ known \in [Interfaces -> Gms]
  BY DEF Init, Gms
<1>5. wire = <<>> /\ wire \in Seq(Messages) /\ DOMAIN wire = {}
  BY DEF Init
<1>6. /\ Sane(entity, entity.asked) /\ entity.status = "offline" /\ entity.asked = {} /\ entity = NoEntity
  <2>1. entity = NoEntity
    BY DEF Init
  <2> DEFINE adp == [i \in Interfaces |-> None]
  <2>2. entity = [NoEntity EXCEPT !.status = "offline", !.adp = adp, !.asked = {}]
    <3>1. PICK n : n = NoEntity
      OBVIOUS
    <3>2. DOMAIN n = Fields /\ n.status = "offline" /\ n.adp = adp /\ n.asked = {}
      BY <3>1 DEF NoEntity, Fields
    <3>3. n = [f \in Fields |-> n[f]]
      BY <3>1 DEF NoEntity, Fields
    <3> HIDE DEF adp
    <3>4. n = [n EXCEPT !.status = "offline", !.adp = adp, !.asked = {}]
      BY ONLY <3>2, <3>3
    <3>. QED  BY <2>1, <3>1, <3>4
  <2>3. adp \in [Interfaces -> Gms]
    BY DEF Gms
  <2> HIDE DEF adp
  <2>4. PICK e, k : e = entity /\ k = adp
    OBVIOUS
  <2>5. PICK status \in {"offline", "known"}, asked \in SUBSET Questions : status = "offline" /\ asked = {}
    OBVIOUS
  <2>6. e = [NoEntity EXCEPT !.status = status, !.adp = k, !.asked = asked] /\ k \in [Interfaces -> Gms]
    BY <2>2, <2>3, <2>4, <2>5
  <2>7. Model \notin asked
    BY <2>5
  <2>8. Sane(e, asked) /\ e.status = status /\ e.asked = asked
    BY <2>6, <2>7, NewSane
  <2>. QED  BY <2>1, <2>4, <2>5, <2>8
<1>7. TypeOK
  BY <1>1, <1>3, <1>4, <1>5, <1>6 DEF TypeOK, Sane, Init
<1>8. Asking(entity, known)
  BY <1>4, <1>6 DEF Asking
<1>9. Behaving
  <2>1. \A c \in Controls : Legal(c, device.values[c])
    BY <1>2 DEF Legal, ValuesVerdict
  <2>2. \A u \in Counted : Consistent(device.counters[u].more, device.counters[u].less)
    BY <1>2 DEF Consistent
  <2>. QED  BY <1>5, <2>1, <2>2 DEF Behaving, ProperValues
<1>10. Following
  <2> SUFFICES ASSUME NEW x \in Topics
               PROVE  Chained(<<>>, Now(x), x, SettledOn(entity, entity.asked, known, x))
    BY <1>5 DEF Following
  <2>1. ~Modelled(entity)
    BY <1>6 DEF Modelled
  <2>2. Now(x) \in SettledOn(entity, entity.asked, known, x)
    BY <1>3, <2>1, TopicIs DEF Now, SettledOn, IsKnown, Devices
  <2>. QED  BY <2>2, ChainEmpty
<1>. QED  BY <1>5, <1>6, <1>7, <1>8, <1>9, <1>10 DEF Inv, Answering

LEMMA NextInv ==
  ASSUME Inv, [Next]_vars
  PROVE  Inv'
<1>1. CASE UNCHANGED vars
  BY <1>1, StutterInv
<1>2. ASSUME NEW i \in Interfaces, DeviceFollows(i) \/ Advertises(i) \/ AnswersGptp(i) \/ InterfaceTimesOut(i)
      PROVE  Inv'
  BY <1>2, FollowsSpoken, AdvertisesSpoken, GptpSpoken, TimesOutInv
<1>3. ASSUME NEW u \in Counted, DeviceCounts(u) \/ DeviceMiscounts(u) \/ AnswersCounters(u)
      PROVE  Inv'
  BY <1>3, CountsSpoken, CountersSpoken
<1>4. ASSUME NEW c \in Controls, DeviceControls(c)
      PROVE  Inv'
  BY <1>4, ControlsSpoken
<1>5. ASSUME NEW q \in entity.asked, AnswersOnce(q)
      PROVE  Inv'
  BY <1>5, OnceSpoken
<1>6. DeviceMaps \/ Lose \/ Receive => Inv'
  BY MapsSpoken, LoseInv, ReceiveInv
<1>. QED  BY <1>1, <1>2, <1>3, <1>4, <1>5, <1>6 DEF Next

LEMMA Invariant == Spec => []Inv
<1>1. Init => Inv
  BY InitInv
<1>2. Inv /\ [Next]_vars => Inv'
  BY NextInv
<1>. QED  BY <1>1, <1>2, PTL DEF Spec

\* Every state of the model is one of the program: the messages, the entity and the device have
\* the types of their classes, an answer has the news that its question is about, and an
\* advertised entity has told its observers of all the parts of its health.
THEOREM DiagnosticsTyping == Spec => []TypeOK
<1>1. Inv => TypeOK
  BY DEF Inv
<1>. QED  BY <1>1, Invariant, PTL

\* Whichever update changes the health of an advertised entity, its observers were told of it
\* (the notifications of the update* functions of avdeccControllerImpl.cpp).
THEOREM ObserversAlwaysSee == Spec => []ObserversSeeHealth
<1>1. Inv => ObserversSeeHealth
  <2> SUFFICES ASSUME Inv, entity.status = "advertised" PROVE entity.told = Health(entity)
    BY DEF ObserversSeeHealth, IsAdvertised
  <2>1. entity.told \in Healths /\ \A what \in HealthFields : entity.told[what] = Health(entity)[what]
    BY DEF Inv, Sane, AgreeBut
  <2>2. Health(entity) \in Healths
    BY HealthTyping DEF Inv, TypeOK
  <2>3. \A h \in Healths : h = [what \in HealthFields |-> h[what]]
    BY DEF Healths, HealthFields
  <2>. QED  BY <2>1, <2>2, <2>3
<1>. QED  BY <1>1, Invariant, PTL

\* The verdict on an advertised entity is just, whatever it is and does: a device without fault
\* keeps its Milan flag, one whose counters or controls contradict the standard has lost it
\* (addCompatibilityFlag, removeCompatibilityFlag, decreaseMilanCompatibilityVersion, the
\* validations of an entity and the checks of its counters).
THEOREM VerdictsAlwaysJust == Spec => []VerdictsAreJust
<1>1. Inv => VerdictsAreJust
  <2> SUFFICES ASSUME Inv, entity.status = "advertised" PROVE VerdictsAreJust
    BY DEF VerdictsAreJust, IsAdvertised
  <2>1. Judging(entity, entity.asked) /\ entity.asked = {} /\ Modelled(entity)
    BY DEF Inv, Sane, Asking, Modelled
  <2>2. entity.version \in Nat
    BY DEF Inv, TypeOK, Entities, Records
  <2>3. ("Milan" \in entity.flags <=> entity.version # 0) /\ ("Milan" \in entity.flags => "IEEE17221" \in entity.flags)
    BY <2>1, <2>2 DEF Judging, Verdict
  <2>4. "Misbehaving" \in entity.flags => "IEEE17221" \notin entity.flags /\ "mappings" \in faults
    BY <2>1 DEF Judging, Verdict
  <2>5. setting.specification # 0 /\ faults = {} /\ SoundModel(entity) => "Milan" \in entity.flags
    <3> SUFFICES ASSUME setting.specification # 0, faults = {}, SoundModel(entity)
                 PROVE  "Milan" \in entity.flags
      OBVIOUS
    <3>1. PICK e : e = [entity EXCEPT !.values = [c \in Controls |-> "allowed"]]
      OBVIOUS
    <3>2. ControlsAreStandard(e)
      BY <3>1 DEF SoundModel
    <3>3. SoundSetting
      BY <3>2 DEF SoundModel, SoundSetting, ControlsAreStandard, FoundIdentify, ValidIdentify
    <3>. QED  BY <2>1, <3>3 DEF Judging, SaidMilan
  <2>6. "Milan" \in entity.flags /\ "partial" \notin faults =>
          \A u \in Counted : Consistent(entity.counters[u].more, entity.counters[u].less)
    BY <2>1 DEF Judging, IsKnown
  <2>7. "Milan" \in entity.flags => \A c \in Controls : ValuesVerdict(c, entity.values[c]) # "InvalidValues"
    BY <2>1 DEF Judging, Legal
  <2>. QED  BY <2>3, <2>4, <2>5, <2>6, <2>7 DEF VerdictsAreJust
<1>. QED  BY <1>1, Invariant, PTL

\* The diagnostics of an advertised entity are those of its newest state, and its state is the
\* one the device has once nothing is on its way (updateGptpInformation and the check*, validate*
\* and update* functions of avdeccControllerImpl.cpp).
THEOREM DiagnosticsAlwaysCurrent == Spec => []DiagnosticsAreCurrent
<1>1. Inv => DiagnosticsAreCurrent
  <2> SUFFICES ASSUME Inv, entity.status = "advertised" PROVE DiagnosticsAreCurrent
    BY DEF DiagnosticsAreCurrent, IsAdvertised
  <2>1. /\ Diagnosing(entity, entity.asked) /\ entity.asked = {} /\ Modelled(entity)
        /\ entity \in Entities /\ entity \in Records /\ device \in Devices
    BY DEF Inv, TypeOK, Sane, Asking, Modelled, Entities
  <2>2. \A i \in Interfaces : entity.adp[i] # None => entity.aem[i] = entity.adp[i]
    BY <2>1 DEF Diagnosing, IsKnown, SameGptp
  <2>3. "Milan" \in entity.flags =>
          (entity.warning <=> HasRedundantStream /\ entity.aem["AvbInterface0"] = entity.aem["AvbInterface1"])
    BY <2>1 DEF Diagnosing, RightlyWarned, Warns
  <2>4. \A i \in Interfaces \cap Counted :
          None \notin {entity.counters[i].more, entity.counters[i].less} =>
            (entity.links[i] = "Up") <=> (entity.counters[i].more = (entity.counters[i].less + 1) % Width)
    BY <2>1 DEF Diagnosing, LinkIs
  <2>5. entity.outside = {c \in Controls : ValuesVerdict(c, entity.values[c]) = "CurrentValueOutOfRange"}
    BY <2>1 DEF Diagnosing, Beyond
  <2>6. ASSUME AllIsSaid, NEW x \in Topics, x[1] = "counters" => "partial" \notin faults
        PROVE  Now(x) \in SettledOn(entity, {}, known, x)
    <3>1. Chained(<<>>, Now(x), x, SettledOn(entity, {}, known, x))
      BY <2>1, <2>6 DEF Inv, Following, Followed, AllIsSaid
    <3>. QED  BY <3>1, ChainEmpty
  <2>7. AllIsSaid => \A i \in Interfaces \ setting.silent : entity.aem[i] = device.gm[i]
    <3> SUFFICES ASSUME AllIsSaid, NEW i \in Interfaces \ setting.silent PROVE entity.aem[i] = device.gm[i]
      OBVIOUS
    <3> DEFINE x == <<"gptp", i>>
    <3>1. x \in Topics
      BY DEF Topics
    <3>2. Now(x) \in SettledOn(entity, {}, known, x)
      BY <2>6, <3>1
    <3>3. entity.aem[i] \in {device.gm[i]} \cup ({known[i]} \ {None})
      BY <2>1, <3>2 DEF SettledOn, IsKnown, Now
    <3>. QED  BY <3>3 DEF AllIsSaid
  <2>8. AllIsSaid /\ "partial" \notin faults => entity.counters = device.counters
    <3> SUFFICES ASSUME AllIsSaid, "partial" \notin faults
                 PROVE  \A u \in Counted : entity.counters[u] = device.counters[u]
      BY <2>1 DEF Records, Devices
    <3> TAKE u \in Counted
    <3> DEFINE x == <<"counters", u>>
    <3>1. x \in Topics
      BY DEF Topics
    <3>2. Now(x) \in SettledOn(entity, {}, known, x)
      BY <2>6, <3>1
    <3>. QED  BY <2>1, <3>2 DEF SettledOn, IsKnown, Now
  <2>9. AllIsSaid => entity.values = device.values
    <3> SUFFICES ASSUME AllIsSaid PROVE \A c \in Controls : entity.values[c] = device.values[c]
      BY <2>1 DEF Records, Devices
    <3> TAKE c \in Controls
    <3> DEFINE x == <<"values", c>>
    <3>1. x \in Topics
      BY DEF Topics
    <3>2. Now(x) \in SettledOn(entity, {}, known, x)
      BY <2>6, <3>1
    <3>. QED  BY <2>1, <3>2 DEF SettledOn, IsKnown, Now
  <2>. QED  BY <2>2, <2>3, <2>4, <2>5, <2>7, <2>8, <2>9 DEF DiagnosticsAreCurrent
<1>. QED  BY <1>1, Invariant, PTL
=============================================================================
