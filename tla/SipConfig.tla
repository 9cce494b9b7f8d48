------------------------------ MODULE SipConfig ------------------------------
(***************************************************************************)
(* The SIP side of the configuration: transports, routing tables, users,   *)
(* trunks and queue members as the admin and the API let staff change them *)
(* (core/models.py, core/forms.py, core/signals.py), and what core/conf.py *)
(* makes of them in pjsip.conf, queues.conf and the local users' context.  *)
(* The generated text is a set of sections, each with the sections and     *)
(* contexts it names.  A primary key stands for the name of its row, except*)
(* for users and trunks, whose names share one name space in pjsip.conf.   *)
(***************************************************************************)
EXTENDS Naturals, FiniteSets, FiniteSetsExt, Maps

CONSTANTS
  Transport, Table,  \* the rows there can be
  Name,              \* usernames and names of trunks
  TransportRow,      \* the transports staff stores
  UserRow,           \* the users
  PeerRow,           \* the trunks
  MaxOps             \* bound: changes

Null == "null"       \* a foreign key that is not set

Protocol == {"udp", "tcp", "tls", "wss"}
CertFile == {"ca", "cert", "key"}

\* Of a SIPTransport, what the other files depend on.
TransportRows == [protocol : Protocol, certs : SUBSET CertFile]

\* Of a SIPUser: keys and an extension that old rows may lack.
UserRows == [transport : Transport \cup {Null}, table : Table \cup {Null},
             extension : BOOLEAN]

\* A field with a list of hosts is empty, begins with one, or begins with a comma.
Hosts == {"", "host", ",host"}

\* Of a SIPPeer: who registers where, which fields are filled in, and which lines
\* the section that identifies it is given by hand.
PeerRows ==
  [transport : Transport \cup {Null}, table : Table \cup {Null},
   there : BOOLEAN, here : BOOLEAN, username : BOOLEAN, secret : BOOLEAN,
   registration : Hosts, match : BOOLEAN,
   auth : BOOLEAN, aor : BOOLEAN,
   identify : {{}, {"text"}, {"text", "header"}, {"text", "ip"}, {"text", "header", "ip"}}]

ASSUME SipAssumption ==
  /\ Null \notin Transport \cup Table
  /\ Name # {}
  /\ TransportRow \subseteq TransportRows
  /\ UserRow \subseteq UserRows /\ PeerRow \subseteq PeerRows
  /\ MaxOps \in Nat

VARIABLES
  transports,  \* sip_transports, by key
  tables,      \* the routing tables
  users,       \* sip_users, by username
  peers,       \* sip_peers, by name
  members,     \* queue_members: the names in their interfaces
  settings,    \* whether the row with the templates exists
  ops,         \* how many changes were made
  loose        \* history: the interfaces that staff made to name no endpoint

sipVars == <<transports, tables, users, peers, members, settings, ops, loose>>

\* One invariant for the types of the variables.
SipTypeOK ==
  /\ DOMAIN transports \subseteq Transport
  /\ \A t \in DOMAIN transports : transports[t] \in TransportRows
  /\ tables \subseteq Table
  /\ DOMAIN users \subseteq Name /\ \A n \in DOMAIN users : users[n] \in UserRows
  /\ DOMAIN peers \subseteq Name /\ \A n \in DOMAIN peers : peers[n] \in PeerRows
  /\ \A rows \in {users, peers} : \A n \in DOMAIN rows :
       /\ rows[n].transport \in DOMAIN transports \cup {Null}
       /\ rows[n].table \in tables \cup {Null}
  /\ members \subseteq Name /\ loose \subseteq Name
  /\ settings \in BOOLEAN
  /\ ops \in 0 .. MaxOps

-----------------------------------------------------------------------------
(* The sections that are generated.  uses names the sections and contexts that *)
(* a section refers to, by type and name.                                      *)

Section(type, name, uses) == [type |-> type, name |-> name, uses |-> uses]

ProtocolOf(key) == IF key = Null THEN "none" ELSE transports[key].protocol

\* The first of the hosts, stripped, is one.
FirstHost(hosts) == hosts = "host"

\* __section_trunk_remote_registration: skipped without a host, a username or a
\* transport that can register.
Registration(n, p) ==
  IF /\ p.there /\ FirstHost(p.registration) /\ p.username
     /\ ProtocolOf(p.transport) \in {"udp", "tcp", "tls"}
  THEN {Section("registration", n, {<<"auth", n>>, <<"endpoint", n>>})}
  ELSE {}

\* __section_trunk_auth_userpass: what was written by hand, or the credentials.
PeerAuth(n, p) ==
  IF p.auth \/ (p.username /\ p.secret) THEN {Section("auth", n, {})} ELSE {}

\* __section_trunk_aor.
PeerAor(n, p) ==
  IF p.aor \/ p.transport # Null THEN {Section("aor", n, {})} ELSE {}

\* Mutant of IdentifyBy: a header is not asked for.
IdentifyByIp(p) == IF ~p.here /\ (p.match \/ "ip" \in p.identify) THEN {"ip"} ELSE {}

\* identify_by: by what is written by hand in [identify], or by the address.
IdentifyBy(p) ==
  IF p.identify # {}
  THEN (p.identify \ {"text"}) \cup IF p.here THEN {"username"} ELSE {}
  ELSE IF ~p.here /\ p.match THEN {"ip"} ELSE {}

\* __section_trunk_endpoint: skipped without a transport or a routing table.
\* auth= and outbound_auth= name one section.
PeerEndpoint(n, p) ==
  IF p.transport = Null \/ p.table = Null THEN {}
  ELSE {Section("endpoint", n,
          {<<"transport", p.transport>>, <<"context", p.table>>, <<"aor", n>>}
            \cup IF p.there \/ p.here \/ (p.username /\ p.secret) THEN {<<"auth", n>>}
                 ELSE {})}

\* The lines with which [identify] recognises a call.
IdentifyLines(p) ==
  IF p.identify # {} THEN p.identify \ {"text"}
  ELSE IF p.match THEN {"ip"} ELSE {}

\* __section_trunk_identify.
PeerIdentify(n, p) ==
  IF p.match \/ p.identify # {} THEN {Section("identify", n, {<<"endpoint", n>>})} ELSE {}

PeerSections(n, p) ==
  Registration(n, p) \cup PeerAuth(n, p) \cup PeerAor(n, p) \cup PeerEndpoint(n, p)
    \cup PeerIdentify(n, p)

\* Users without a transport or a routing table are left out.
Excluded == {n \in DOMAIN users : users[n].transport = Null \/ users[n].table = Null}

\* Mutant of UserSections: after the sections for a browser those for a phone follow
\* (no `continue`).
UserSectionsBoth(n, u) ==
  UNION {{Section("endpoint", n, {<<"template", <<kind, "endpoint">>>>}),
          Section("auth", n, {<<"template", <<kind, "auth">>>>}),
          Section("aor", n, {<<"template", <<kind, "aor">>>>})} : kind \in {"webrtc", "user"}}

\* The sections of a user are made from three templates: those for browsers, over
\* wss, or those for phones.
UserSections(n, u) ==
  LET web == ProtocolOf(u.transport) = "wss"
      Of(type) == <<"template", <<IF web THEN "webrtc" ELSE "user", type>>>>
  IN  {Section("endpoint", n, {Of("endpoint"), <<"transport", u.transport>>,
               <<"context", u.table>>, <<"auth", n>>, <<"aor", n>>}),
       Section("auth", n, {Of("auth")}),
       Section("aor", n, {Of("aor")})}

Templates(kind) == {Section("template", <<kind, type>>, {}) : type \in {"endpoint", "auth", "aor"}}

\* make_pjsip_webrtc_templates: only for a transport over wss, and from the settings.
WebTemplates ==
  IF settings /\ \E t \in DOMAIN transports : transports[t].protocol = "wss"
  THEN Templates("webrtc") ELSE {}

\* Certificates are named in the transport's section if it is tls.
CertsNamed(t) == IF transports[t].protocol = "tls" THEN transports[t].certs ELSE {}

TransportSections ==
  {Section("transport", t, {<<"file", <<t, c>>>> : c \in CertsNamed(t)}) :
     t \in DOMAIN transports}

\* Mutant of CertsWritten: only pairs of certificate and key are written.
CertsWrittenPairs ==
  {w \in (DOMAIN transports) \X CertFile :
     transports[w[1]].protocol = "tls" /\ w[2] \in transports[w[1]].certs
       /\ {"cert", "key"} \subseteq transports[w[1]].certs}

\* write_tls_cert_files.
CertsWritten ==
  {w \in (DOMAIN transports) \X CertFile :
     transports[w[1]].protocol = "tls" /\ w[2] \in transports[w[1]].certs}

\* make_pjsip_conf.
PjsipConf ==
  TransportSections \cup WebTemplates \cup Templates("user")
    \cup (UNION {PeerSections(n, peers[n]) : n \in DOMAIN peers})
    \cup (UNION {UserSections(n, users[n]) : n \in DOMAIN users \ Excluded})

\* Mutant of Dialled: users that are left out of pjsip.conf are dialled too.
DialledAll ==
  {[name |-> n, wakes |-> ProtocolOf(users[n].transport) = "wss"] :
     n \in {m \in DOMAIN users : users[m].extension}}

\* make_local_users_context: whom the extensions of the context dial, and whether
\* the browser is woken first.
Dialled ==
  {[name |-> n, wakes |-> ProtocolOf(users[n].transport) = "wss"] :
     n \in {m \in DOMAIN users \ Excluded : users[m].extension}}

-----------------------------------------------------------------------------
(* The changes. *)

Change == ops < MaxOps /\ ops' = ops + 1

Drop(f, ks) == [x \in DOMAIN f \ ks |-> f[x]]

\* Mutant of Holders: a row that others refer to may be deleted.
HoldersNone(rows, field, key) == {}

\* The rows that hold a key, which PROTECT it.
Holders(rows, field, key) == {n \in DOMAIN rows : rows[n][field] = key}

SaveTransport(t, row) ==
  /\ Change
  /\ transports' = With(transports, t, row)
  /\ UNCHANGED <<tables, users, peers, members, settings, loose>>

DeleteTransport(t) ==
  /\ t \in DOMAIN transports
  /\ Holders(users, "transport", t) = {} /\ Holders(peers, "transport", t) = {}
  /\ Change
  /\ transports' = Drop(transports, {t})
  /\ UNCHANGED <<tables, users, peers, members, settings, loose>>

SaveTable(x) ==
  /\ x \notin tables
  /\ Change
  /\ tables' = tables \cup {x}
  /\ UNCHANGED <<transports, users, peers, members, settings, loose>>

DeleteTable(x) ==
  /\ x \in tables
  /\ Holders(users, "table", x) = {} /\ Holders(peers, "table", x) = {}
  /\ Change
  /\ tables' = tables \ {x}
  /\ UNCHANGED <<transports, users, peers, members, settings, loose>>

\* The form and the API require both keys, and that the rows exist.
Complete(row) == row.transport \in DOMAIN transports /\ row.table \in tables

\* A user is created, or the one with the username old is changed; usernames are
\* unique.  Renaming leaves the queue members with the old name.
SaveUser(old, n, row) ==
  /\ Complete(row)
  /\ n \in DOMAIN users => n = old
  /\ Change
  /\ users' = With(Drop(users, {old} \ {Null}), n, row)
  /\ loose' = loose \cup IF old \in {Null, n} THEN {} ELSE {old}
  /\ UNCHANGED <<transports, tables, peers, members, settings>>

\* Mutant of Cleaned: the members are not looked at.
CleanedNot(n) == members

\* on_sipuser_post_delete: members with the user's interface go too, unless a trunk
\* has the name.
Cleaned(n) == IF n \in DOMAIN peers THEN members ELSE members \ {n}

DeleteUser(n) ==
  /\ n \in DOMAIN users
  /\ Change
  /\ users' = Drop(users, {n})
  /\ members' = Cleaned(n)
  /\ UNCHANGED <<transports, tables, peers, settings, loose>>

\* Mutant of Registrable: the username is not asked for.
RegistrableAnyhow(row) == row.there => row.registration # ""

\* SIPPeerForm.clean: a trunk that registers has an address and a username.
Registrable(row) == row.there => row.registration # "" /\ row.username

SavePeer(old, n, row) ==
  /\ Complete(row) /\ Registrable(row)
  /\ n \in DOMAIN peers => n = old
  /\ Change
  /\ peers' = With(Drop(peers, {old} \ {Null}), n, row)
  /\ loose' = loose \cup IF old \in {Null, n} THEN {} ELSE {old}
  /\ UNCHANGED <<transports, tables, users, members, settings>>

\* No queue member is looked at.
DeletePeer(n) ==
  /\ n \in DOMAIN peers
  /\ Change
  /\ peers' = Drop(peers, {n})
  /\ loose' = loose \cup {n}
  /\ UNCHANGED <<transports, tables, users, members, settings>>

\* QueueAdmin.save_related: chosen users become members, once.
AddMembers(ns) ==
  /\ ns # {} /\ ns \subseteq DOMAIN users
  /\ Change
  /\ members' = members \cup ns
  /\ UNCHANGED <<transports, tables, users, peers, settings, loose>>

\* A member whose interface is typed in, whatever it names.
TypeMember(n) ==
  /\ Change
  /\ members' = members \cup {n}
  /\ loose' = loose \cup {n}
  /\ UNCHANGED <<transports, tables, users, peers, settings>>

\* The settings are one row, which can be deleted and stored again.
SaveSettings ==
  /\ Change
  /\ settings' = ~settings
  /\ UNCHANGED <<transports, tables, users, peers, members, loose>>

SipNext ==
  \/ \E t \in Transport : DeleteTransport(t) \/ \E row \in TransportRow : SaveTransport(t, row)
  \/ \E x \in Table : SaveTable(x) \/ DeleteTable(x)
  \/ \E n \in Name :
       \/ DeleteUser(n) \/ DeletePeer(n) \/ TypeMember(n)
       \/ \E old \in DOMAIN users \cup {Null}, row \in UserRow : SaveUser(old, n, row)
       \/ \E old \in DOMAIN peers \cup {Null}, row \in PeerRow : SavePeer(old, n, row)
  \/ \E ns \in SUBSET Name : AddMembers(ns)
  \/ SaveSettings

\* Staff begins with a user, perhaps an old row that lacks something; or all is
\* done and there is one trunk, of any kind.
SipInit ==
  /\ transports \in [Transport -> TransportRow]
  /\ tables = Table
  /\ members = {} /\ loose = {}
  /\ settings = TRUE
  /\ \/ /\ \E n \in Name, row \in UserRows : users = With(<<>>, n, row)
        /\ peers = <<>> /\ ops = 0
     \/ /\ Cardinality({transports[t] : t \in Transport}) = Cardinality(TransportRow)
        /\ \E row \in PeerRows : peers = With(<<>>, CHOOSE n \in Name : TRUE, row)
        /\ users = <<>> /\ ops = MaxOps
     \/ users = <<>> /\ peers = <<>> /\ ops = MaxOps

SipSpec == SipInit /\ [][SipNext]_sipVars

-----------------------------------------------------------------------------
(* Properties. *)

Defined == {<<s.type, s.name>> : s \in PjsipConf} \cup {<<"context", x>> : x \in tables}
             \cup {<<"file", f>> : f \in CertsWritten}

\* A trunk that authenticates and has no credentials: the form lets it pass.
NoCredentials(p) ==
  (p.there \/ p.here) /\ ~p.auth /\ ~(p.username /\ p.secret)

\* A trunk that was stored without a transport or a routing table.
Half(p) == p.transport = Null \/ p.table = Null

\* What pjsip.conf names it defines, or routing defines it, or the certificate is
\* written: except the credentials of a trunk that has none, the endpoint of an old
\* row that lacks a key, and the templates for browsers when the settings are gone
\* (make_pjsip_conf).
ReferencesResolve ==
  LET defined == Defined IN
  \A s \in PjsipConf : \A r \in s.uses \ defined :
    \/ r[1] = "auth" /\ r[2] \in DOMAIN peers /\ NoCredentials(peers[r[2]])
    \/ r[1] = "endpoint" /\ r[2] \in DOMAIN peers /\ Half(peers[r[2]])
    \/ r[1] = "template" /\ ~settings

\* No two sections of one type have one name, if no trunk is named as a user.
SectionsUnique ==
  DOMAIN users \cap DOMAIN peers = {} =>
    LET sections == PjsipConf IN
    \A s, t \in sections : s.type = t.type /\ s.name = t.name => s = t

\* A trunk stored through the form registers: it is left out only if its transport
\* is wss or the address begins with a comma (SIPPeerForm.clean repeats the test of
\* the generator).
RegistersIfAccepted ==
  \A n \in DOMAIN peers :
    LET p == peers[n]
    IN  p.there /\ Registrable(p) /\ ~Half(p) /\ FirstHost(p.registration)
          /\ ProtocolOf(p.transport) # "wss"
        => \E s \in PjsipConf : s.type = "registration" /\ s.name = n

\* An endpoint is identified by what its [identify] has lines for, and a header that
\* is matched there is asked for (__section_trunk_endpoint).
IdentifiedAsOffered ==
  \A n \in DOMAIN peers :
    LET p == peers[n]
    IN  /\ IdentifyBy(p) \ {"username"} \subseteq IdentifyLines(p)
        /\ "header" \in IdentifyLines(p) => "header" \in IdentifyBy(p)

\* Whom the local users' context dials has an endpoint, over the transport that
\* decides whether the browser is woken (make_local_users_context and
\* make_pjsip_conf_users leave out the same users).
DialledHaveEndpoints ==
  LET sections == PjsipConf IN
  \A d \in Dialled : \E s \in sections :
    /\ s.type = "endpoint" /\ s.name = d.name
    /\ d.wakes => <<"template", <<"webrtc", "endpoint">>>> \in s.uses

\* A queue member names a user or trunk, unless staff typed its interface, renamed
\* what it named, or deleted a trunk that shared the name (on_sipuser_post_delete).
MembersHaveEndpoints == members \subseteq DOMAIN users \cup DOMAIN peers \cup loose
=============================================================================
