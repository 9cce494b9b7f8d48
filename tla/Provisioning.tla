---------------------------- MODULE Provisioning ----------------------------
(* Phone provisioning (apps/provision): PhoneDevice rows, saved by the admin's form or
   by the API, and the files in the TFTP directory, written only when somebody applies
   the configuration of a device (PhoneProvisioningManager.provision_device).  A phone
   fetches the file that has its MAC address in its name. *)
EXTENDS Naturals, FiniteSets, Functions

CONSTANTS
  Device,      \* primary keys of PhoneDevice
  Spelling,    \* MAC addresses as staff type them
  Mac(_),      \* the address a spelling stands for
  Model,       \* telephone types, with those that cannot be provisioned
  SipUser,     \* SIP users
  Secret,      \* their passwords
  Server,      \* addresses of SIP servers
  HostName,    \* those that are an IPv4 address or a host name
  Fallback,    \* the one a device gets without a Settings row
  DigitMacs,      \* the addresses without a letter
  Job,         \* requests that apply configurations
  MaxUpdates   \* bound: the changes of rows

CONSTANT Vendor   \* PhoneProvisioningManager.phone_mapping: model -> vendor

\* validate_mac_address: the address that a spelling stands for is one, and stands for itself.
ASSUME ProvAssumption ==
  /\ MaxUpdates \in Nat /\ Fallback \in Server
  /\ \A s \in Spelling : Mac(s) \in Spelling /\ Mac(Mac(s)) = Mac(s)

VARIABLES
  devices,   \* PhoneDevice rows
  secrets,   \* SIPUser rows: user -> password
  server,    \* Settings.ip_addr_for_provisioning, if there is such a row
  tftp,      \* the TFTP directory: file name -> content
  jobs,      \* where each request is
  fresh,     \* history: files written by a request that began after the last
                \*          change of what is in them
  updates    \* how many rows were changed

provVars == <<devices, secrets, server, tftp, jobs, fresh, updates>>

NoUser == "nobody"
NoServer == "none"
NoSettings == "no row"
NoRequest == [step |-> "idle"]

\* Mutant: the row keeps the address as it was typed.
CleanedMacNot(spelling) == spelling
\* PhoneDeviceForm.clean_mac_address, PhoneDeviceSerializer.validate_mac_address
CleanedMac(spelling) == Mac(spelling)

DeviceRow == [mac: Spelling, model: Model, user: SipUser \cup {NoUser},
              server: Server \cup {NoServer}]

\* The name of the file: the model's directory for Cisco, a prefix for Grandstream.
FileName(row) ==
  IF Vendor[row.model] = "cisco" THEN <<row.model, Mac(row.mac)>>
  ELSE <<"cfg", Mac(row.mac)>>

Provisionable(row) == row.model \in DOMAIN Vendor /\ row.user # NoUser

\* get_sip_server
SipServer == IF server = NoSettings THEN Fallback ELSE server

\* The device's own server comes before it.
ServerOf(row) == IF row.server # NoServer THEN row.server ELSE SipServer

ContentFor(row) ==
  [user |-> row.user, secret |-> secrets[row.user], server |-> ServerOf(row)]

\* Mutant: an empty server is not refused.
GeneratesAnyhow(row) == Provisionable(row) /\ row.user \in DOMAIN secrets

\* generate_config: both generators refuse an empty server; that of Grandstream refuses
\* an address of digits alone, which islower() is not true of, and a server it cannot
\* name.  A user's name and password are never empty.
Generates(row) ==
  /\ Provisionable(row) /\ row.user \in DOMAIN secrets /\ ServerOf(row) # NoServer
  /\ Vendor[row.model] = "grandstream" =>
       Mac(row.mac) \notin DigitMacs /\ ServerOf(row) \in HostName

FileNames == {FileName(r) : r \in {s \in DeviceRow : Provisionable(s)}}

ProvTypeOK ==
  /\ DOMAIN devices \subseteq Device /\ Range(devices) \subseteq DeviceRow
  /\ DOMAIN secrets \subseteq SipUser /\ Range(secrets) \subseteq Secret
  /\ server \in Server \cup {NoServer, NoSettings}
  /\ DOMAIN tftp \subseteq FileNames
  /\ \A f \in DOMAIN tftp : tftp[f] \in [user: SipUser, secret: Secret, server: Server]
  /\ \A j \in Job : jobs[j].step \in {"idle", "fetched", "made"}
  /\ fresh \subseteq DOMAIN tftp
  /\ updates \in 0..MaxUpdates

ProvInit ==
  /\ devices = << >>
  /\ secrets \in [SipUser -> Secret]
  /\ server = NoServer
  /\ tftp = << >>
  /\ jobs = [j \in Job |-> NoRequest]
  /\ fresh = {} /\ updates = 0

-----------------------------------------------------------------------------
(* Staff change rows.  No change writes or removes a file. *)

RowChange ==
  /\ updates < MaxUpdates
  /\ updates' = updates + 1
  /\ UNCHANGED <<tftp, jobs>>

\* Files whose device is not as it was, or has another user, password or server.
StaysFresh ==
  fresh' = {f \in fresh : \E d \in DOMAIN devices \cap DOMAIN devices' :
              /\ devices[d] = devices'[d]
              /\ Provisionable(devices[d]) /\ FileName(devices[d]) = f
              /\ devices[d].user \in DOMAIN secrets'
              /\ secrets'[devices[d].user] = secrets[devices[d].user]
              /\ (devices[d].server = NoServer => server' = server)}

\* The address is unique: the form, the API and the table's constraint see to that.
SaveDevice(d, row) ==
  /\ RowChange
  /\ \A e \in DOMAIN devices \ {d} : devices[e].mac # CleanedMac(row.mac)
  /\ row.user \in DOMAIN secrets \cup {NoUser}
  /\ devices' = [e \in DOMAIN devices \cup {d} |->
                   IF e = d THEN [row EXCEPT !.mac = CleanedMac(row.mac)] ELSE devices[e]]
  /\ UNCHANGED <<secrets, server>>
  /\ StaysFresh

DeleteDevice(d) ==
  /\ RowChange
  /\ d \in DOMAIN devices
  /\ devices' = Restrict(devices, DOMAIN devices \ {d})
  /\ UNCHANGED <<secrets, server>>
  /\ StaysFresh

ChangePassword(u, s) ==
  /\ RowChange
  /\ u \in DOMAIN secrets /\ secrets[u] # s
  /\ secrets' = [secrets EXCEPT ![u] = s]
  /\ UNCHANGED <<devices, server>>
  /\ StaysFresh

\* on_delete=CASCADE: the user's devices go with him.
DeleteSipUser(u) ==
  /\ RowChange
  /\ u \in DOMAIN secrets
  /\ secrets' = Restrict(secrets, DOMAIN secrets \ {u})
  /\ devices' = Restrict(devices, {d \in DOMAIN devices : devices[d].user # u})
  /\ UNCHANGED server
  /\ StaysFresh

\* The address is set or cleared, or the Settings row is deleted or added.
SetServer(s) ==
  /\ RowChange
  /\ s # server /\ server' = s
  /\ UNCHANGED <<devices, secrets>>
  /\ StaysFresh

-----------------------------------------------------------------------------
(* Applying a device's configuration *)

\* The queryset of the action, or get_object of the API, reads the row.
Fetch(j, d) ==
  /\ jobs[j] = NoRequest
  /\ d \in DOMAIN devices
  /\ jobs' = [jobs EXCEPT ![j] = [step |-> "fetched", row |-> devices[d],
                                     since |-> updates]]
  /\ UNCHANGED <<devices, secrets, server, tftp, fresh, updates>>

\* generate_config_for_device reads the user and Settings; an error is reported and
\* leaves the file as it is.
GenerateFile(j) ==
  /\ jobs[j].step = "fetched"
  /\ LET row == jobs[j].row IN
     jobs' = [jobs EXCEPT ![j] =
       IF Generates(row)
       THEN [step |-> "made", row |-> row, since |-> jobs[j].since,
             content |-> ContentFor(row)]
       ELSE NoRequest]
  /\ UNCHANGED <<devices, secrets, server, tftp, fresh, updates>>

\* Mutant: a file that is there is not written again.
WrittenOnce(file, content) ==
  [f \in DOMAIN tftp \cup {file} |-> IF f \in DOMAIN tftp THEN tftp[f] ELSE content]

\* save_config_file
Written(file, content) ==
  [f \in DOMAIN tftp \cup {file} |-> IF f = file THEN content ELSE tftp[f]]

StoreFile(j) ==
  /\ jobs[j].step = "made"
  /\ tftp' = Written(FileName(jobs[j].row), jobs[j].content)
  /\ fresh' = IF jobs[j].since = updates THEN fresh \cup {FileName(jobs[j].row)}
              ELSE fresh \ {FileName(jobs[j].row)}
  /\ jobs' = [jobs EXCEPT ![j] = NoRequest]
  /\ UNCHANGED <<devices, secrets, server, updates>>

ProvNext ==
  \/ \E d \in Device, row \in DeviceRow : SaveDevice(d, row)
  \/ \E d \in Device : DeleteDevice(d)
  \/ \E u \in SipUser, s \in Secret : ChangePassword(u, s)
  \/ \E u \in SipUser : DeleteSipUser(u)
  \/ \E s \in Server \cup {NoServer, NoSettings} : SetServer(s)
  \/ \E j \in Job, d \in Device : Fetch(j, d)
  \/ \E j \in Job : GenerateFile(j) \/ StoreFile(j)

ProvSpec == ProvInit /\ [][ProvNext]_provVars

-----------------------------------------------------------------------------
(* Properties *)

\* No two devices have their files under one name: the address is one of its device
\* however it was typed.
OneFilePerDevice ==
  \A d, e \in DOMAIN devices :
    d # e /\ Provisionable(devices[d]) /\ Provisionable(devices[e])
    => FileName(devices[d]) # FileName(devices[e])

\* What the file of a row should hold.
Wanted(row) ==
  [user |-> row.user, secret |-> secrets[row.user],
   server |-> IF row.server = NoServer THEN SipServer ELSE row.server]

\* A file written by a request that began after the last change of its device, of its
\* user and of Settings holds what they hold, and so it stays until one of them
\* changes or a request that began before such a change writes it.
FreshIsCurrent ==
  \A f \in fresh : \E d \in DOMAIN devices :
    /\ Provisionable(devices[d]) /\ FileName(devices[d]) = f
    /\ tftp[f] = Wanted(devices[d])
=============================================================================
