---------------------------- MODULE MCEnumeration ----------------------------
(* Devices for Enumeration. *)
EXTENDS Enumeration

D(type, conf, index) == [type |-> type, conf |-> conf, index |-> index]
E == D("Entity", 0, 0)
C(c) == D("Configuration", c, 0)
\* A tree from the pairs of a descriptor and its children.
Tree(pairs) ==
  LET nodes == {E} \cup UNION {p[2] : p \in pairs}
  IN [n \in nodes |-> UNION {p[2] : p \in {x \in pairs : x[1] = n}}]

\* One descriptor of each type, in one configuration.
WholeDevice == Tree({
  <<E, {C(0)}>>,
  <<C(0), {D(t, 0, 0) : t \in ConfigurationChildren}>>,
  <<D("Locale", 0, 0), {D("Strings", 0, 0)}>>,
  <<D("AudioUnit", 0, 0), {D("StreamPortInput", 0, 0), D("StreamPortOutput", 0, 0)}>>,
  <<D("StreamPortInput", 0, 0), {D("AudioCluster", 0, 0)}>>,
  <<D("StreamPortOutput", 0, 0), {D("AudioCluster", 0, 1), D("AudioMap", 0, 0)}>>,
  <<D("JackInput", 0, 0), {D("Control", 0, 1)}>>,
  <<D("PtpInstance", 0, 0), {D("PtpPort", 0, 0)}>>})

\* A unit and an interface.
SmallDevice == Tree({
  <<E, {C(0)}>>,
  <<C(0), {D("Locale", 0, 0), D("AudioUnit", 0, 0), D("AvbInterface", 0, 0)}>>,
  <<D("Locale", 0, 0), {D("Strings", 0, 0)}>>,
  <<D("AudioUnit", 0, 0), {D("StreamPortInput", 0, 0)}>>})

\* Streams and a clock domain.
Streams == Tree({
  <<E, {C(0)}>>,
  <<C(0), {D("StreamInput", 0, 0), D("StreamOutput", 0, 0), D("ClockDomain", 0, 0)}>>})

\* Two configurations.
TwoConfigurations == Tree({
  <<E, {C(0), C(1)}>>,
  <<C(0), {D("AudioUnit", 0, 0)}>>,
  <<C(1), {D("AudioUnit", 1, 0), D("AvbInterface", 1, 0)}>>})

Setting(children, milan, packed, full, cached, restless, window, sessions, errors) ==
  [children |-> children, current |-> 0, milan |-> milan, mvu |-> TRUE,
   preferred |-> {n \in DOMAIN children : n.type = "Locale"},
   pages |-> 2, connections |-> 1, aem |-> {"TimedOut", "NotSupported", "NotAuthenticated"},
   mvuStatuses |-> {"TimedOut"}, acmp |-> {}, packed |-> packed, full |-> full,
   cached |-> cached, packet |-> 2, restless |-> restless, window |-> window,
   sessions |-> sessions, faults |-> errors]

\* Every descriptor and information, one by one, then from the cache;
Whole == Setting(WholeDevice, 13, FALSE, TRUE, TRUE, TRUE, 1, 2, 0)
\* answers late, missing and refused, packed, with a cache
Faults == Setting(SmallDevice, 12, TRUE, FALSE, TRUE, FALSE, 2, 2, 2)
\* and without one;
NoCache == Setting(SmallDevice, 12, TRUE, FALSE, FALSE, FALSE, 2, 2, 2)
\* streams and clocks, with ACMP and MVU answers refused or late;
Refusals == [Setting(Streams, 13, FALSE, TRUE, TRUE, TRUE, 1, 1, 2) EXCEPT
  !.pages = 1, !.aem = {"TimedOut", "EntityMisbehaving"},
  !.mvuStatuses = {"TimedOut", "BaseProtocolViolation", "NotImplemented"},
  !.acmp = {"TimedOut", "StateUnavailable", "NotConnected", "NotSupported"}]
\* two configurations, each read again.
Configured == Setting(TwoConfigurations, 12, FALSE, TRUE, FALSE, FALSE, 2, 2, 2)
All == {Whole, Faults, NoCache, Refusals, Configured}

OneRetry == {[Configured EXCEPT !.faults = 1, !.sessions = 1]}
OneFault == {[Faults EXCEPT !.faults = 1]}
=============================================================================
