------------------------------ MODULE Provisioning ------------------------------
(***************************************************************************)
(* Tenants, members and devices: the bootstrap of the hub                  *)
(* (hub/server.py), the admin operations (hub/ledger.py, hub/api.py) and   *)
(* the start of the gateway's worker.                                      *)
(*                                                                         *)
(* The operator deploys a specification (TANDEM_BOOTSTRAP) and token       *)
(* files.  The hub reads both when it starts, makes the tables agree with  *)
(* them one statement at a time and then serves.  It may die between any   *)
(* two statements; the service manager starts it again.  Nothing else      *)
(* reads what the operator writes, so each start may find other contents.  *)
(* While it serves, admins use the HTTP API, each request in a thread of   *)
(* its own.                                                                *)
(*                                                                         *)
(* A token and its hash are not told apart.  A token that the hub makes up *)
(* is named by the device it was made for.  Left out: display_name,        *)
(* can_send, can_receive, last_seen_at.                                    *)
(***************************************************************************)
EXTENDS Integers, Sequences, FiniteSets

CONSTANTS Tenant,         \* tenants.name; UNIQUE, so it stands for the id
          Handle,         \* handles as people write them
          Norm,           \* handle.strip().lower()
          Name,           \* devices.name
          Credential,     \* names of token files
          Token,          \* what the operator writes into them
          Specs,          \* the specifications the operator deploys
          GatewayHandle,  \* TANDEM_GATEWAY_MEMBER
          MaxDevices,     \* bound: rows of the devices table
          MaxRequests,    \* bound: requests of admins in all
          None            \* no file; SQL NULL

Member == [tenant : Tenant, handle : Handle]   \* UNIQUE(tenant_id, handle)
Id == 1 .. MaxDevices
Specification == [tenant  : Tenant,
                  members : Seq([handle : Handle, admin : BOOLEAN]),
                  devices : Seq([member : Handle, name : Name, cred : Credential])]

ASSUME HandleAssumption == Norm \in [Handle -> Handle] /\ GatewayHandle \in Handle
ASSUME NameAssumption == "gateway" \in Name
ASSUME BoundAssumption == MaxDevices \in Nat /\ MaxRequests \in Nat
ASSUME TokenAssumption == None \notin Token \cup Id \cup Member /\ Token \cap Id = {}
\* A specification lists a device once.
ASSUME SpecsAssumption ==
  /\ Specs \subseteq Specification
  /\ \A s \in Specs : \A i, j \in DOMAIN s.devices :
       /\ s.devices[i].name = s.devices[j].name
       /\ Norm[s.devices[i].member] = Norm[s.devices[j].member]
       => i = j

VARIABLES tenants,   \* the tenants table
          members,   \* the members table
          admins,    \* the members with can_admin
          devices,   \* the devices table
          hub,       \* the process: where it is and what it read when it started
          gateway,   \* its worker: "off", "waiting" or "up"
          calls,     \* the admins with an authenticated request in progress
          asked      \* how many such requests there were

tables == <<tenants, members, admins, devices>>
vars == <<tables, hub, gateway, calls, asked>>

File == [Credential -> Token \cup {None}]
NoFiles == [c \in Credential |-> None]
Device == [member : Member \cup {None}, name : Name, hash : Token \cup Id \cup {None},
           revoked : BOOLEAN]
NoDevice == [member |-> None, name |-> "gateway", hash |-> None, revoked |-> FALSE]
NewDevice(m, n, t) == [member |-> m, name |-> n, hash |-> t, revoked |-> FALSE]

Down == [at |-> "down"]

Init ==
  /\ tenants = {} /\ members = {} /\ admins = {}
  /\ devices = [id \in Id |-> NoDevice]
  /\ hub = Down
  /\ gateway = "off"
  /\ calls = {} /\ asked = 0

-----------------------------------------------------------------------------
(***************************************************************************)
(* The devices table.                                                      *)
(***************************************************************************)
Used == {id \in Id : devices[id].member # None}

\* Slip: revoked rows are found as well.
RowsRevokedToo(m, n) == {id \in Used : devices[id].member = m /\ devices[id].name = n}

\* SELECT ... WHERE member_id = ? AND name = ? AND revoked_at IS NULL
Rows(m, n) ==
  {id \in Used : devices[id].member = m /\ devices[id].name = n /\ ~devices[id].revoked}

\* The row that a statement is about: the first that is found, or a new one.
\* Rows are found in the order of insertion.
First(ids) == {id \in ids : \A j \in ids : id <= j}
Target(m, n) == First(IF Rows(m, n) = {} THEN Id \ Used ELSE Rows(m, n))

\* UNIQUE(token_hash)
Free(t, id) == \A j \in Used : devices[j].hash = t => j = id

-----------------------------------------------------------------------------
(***************************************************************************)
(* bootstrap.                                                              *)
(***************************************************************************)
\* The process begins a phase with specification s and the token files f.
Phase(at, s, f) == [at |-> at, i |-> 1, spec |-> s, files |-> f]

\* main reads the specification.
StartHub ==
  /\ hub.at = "down"
  /\ \E s \in Specs : hub' = Phase("tenant", s, NoFiles)
  /\ UNCHANGED <<tables, gateway, calls, asked>>

EnsureTenant ==
  /\ hub.at = "tenant"
  /\ tenants' = tenants \cup {hub.spec.tenant}
  /\ hub' = Phase("members", hub.spec, NoFiles)
  /\ UNCHANGED <<members, admins, devices, gateway, calls, asked>>

MemberOf(s, h) == [tenant |-> s.tenant, handle |-> Norm[h]]

\* Slip: the row is written anew.
EnsureMemberReplaces ==
  LET e == hub.spec.members[hub.i]
      m == MemberOf(hub.spec, e.handle)
  IN  /\ hub.at = "members" /\ hub.i \in DOMAIN hub.spec.members
      /\ members' = members \cup {m}
      /\ admins' = IF e.admin THEN admins \cup {m} ELSE admins \ {m}
      /\ hub' = [hub EXCEPT !.i = @ + 1]
      /\ UNCHANGED <<tenants, devices, gateway, calls, asked>>

\* A member that exists keeps its row, whatever the specification says of it.
EnsureMember ==
  LET e == hub.spec.members[hub.i]
      m == MemberOf(hub.spec, e.handle)
  IN  /\ hub.at = "members" /\ hub.i \in DOMAIN hub.spec.members
      /\ members' = members \cup {m}
      /\ admins' = IF e.admin /\ m \notin members THEN admins \cup {m} ELSE admins
      /\ hub' = [hub EXCEPT !.i = @ + 1]
      /\ UNCHANGED <<tenants, devices, gateway, calls, asked>>

\* The token files, which the service manager has copied at the start
\* (LoadCredential), are read from now on.
MembersDone ==
  /\ hub.at = "members" /\ hub.i \notin DOMAIN hub.spec.members
  /\ \E f \in File : hub' = Phase("devices", hub.spec, f)
  /\ UNCHANGED <<tables, gateway, calls, asked>>

\* What the i-th device of the specification asks for.
Entry(i) == hub.spec.devices[i]
Owner(i) == MemberOf(hub.spec, Entry(i).member)
Secret(i) == hub.files[Entry(i).cred]
Wanted(i) == Owner(i) \in members /\ Secret(i) # None

AtDevice == hub.at = "devices" /\ hub.i \in DOMAIN hub.spec.devices

\* No member or no token file: the device is not provisioned.
SkipDevice ==
  /\ AtDevice /\ ~Wanted(hub.i)
  /\ hub' = [hub EXCEPT !.i = @ + 1]
  /\ UNCHANGED <<tables, gateway, calls, asked>>

\* Insert a row, or write the hash of the row in place.
EnsureDevice ==
  LET m == Owner(hub.i)
      n == Entry(hub.i).name
      t == Secret(hub.i)
  IN  /\ AtDevice /\ Wanted(hub.i)
      /\ \E id \in Target(m, n) :
           /\ Free(t, id)
           /\ devices' = [devices EXCEPT ![id] =
                            IF id \in Used THEN [@ EXCEPT !.hash = t] ELSE NewDevice(m, n, t)]
      /\ hub' = [hub EXCEPT !.i = @ + 1]
      /\ UNCHANGED <<tenants, members, admins, gateway, calls, asked>>

\* The IntegrityError is not caught and ends the process.
BootFails ==
  /\ AtDevice /\ Wanted(hub.i)
  /\ \E id \in Target(Owner(hub.i), Entry(hub.i).name) : ~Free(Secret(hub.i), id)
  /\ hub' = Down
  /\ UNCHANGED <<tables, gateway, calls, asked>>

\* main starts the gateway's worker and serves.
Serve ==
  /\ hub.at = "devices" /\ hub.i \notin DOMAIN hub.spec.devices
  /\ hub' = Phase("serving", hub.spec, NoFiles)
  /\ gateway' = "waiting"
  /\ UNCHANGED <<tables, calls, asked>>

\* The process dies or is restarted by the operator.
Die ==
  /\ hub.at # "down"
  /\ hub' = Down
  /\ gateway' = "off"
  /\ calls' = {}
  /\ UNCHANGED <<tables, asked>>

-----------------------------------------------------------------------------
(***************************************************************************)
(* run_gateway_worker, up to its loops.                                    *)
(***************************************************************************)
GatewayMember == [tenant |-> hub.spec.tenant, handle |-> GatewayHandle]

\* Slip: the worker ends when it does not find its member.
GatewayLooksOnce ==
  /\ gateway = "waiting"
  /\ gateway' = IF GatewayMember \in members THEN "up" ELSE "off"
  /\ UNCHANGED <<tables, hub, calls, asked>>

\* It looks for its member every 30 seconds, by the handle as it was given,
\* and then ensures a device without a token (ensure_gateway_device).
GatewayStarts ==
  /\ gateway = "waiting"
  /\ GatewayMember \in members
  /\ \E id \in Target(GatewayMember, "gateway") :
       devices' = IF id \in Used
                    THEN devices
                    ELSE [devices EXCEPT ![id] = NewDevice(GatewayMember, "gateway", None)]
  /\ gateway' = "up"
  /\ UNCHANGED <<tenants, members, admins, hub, calls, asked>>

-----------------------------------------------------------------------------
(***************************************************************************)
(* Admin requests.                                                         *)
(***************************************************************************)
\* authenticate, by the token of device id.  What the request may do is
\* decided here, once; the device may be revoked before it does it.
Authenticate(id) ==
  /\ hub.at = "serving" /\ asked < MaxRequests
  /\ id \in Used /\ ~devices[id].revoked /\ devices[id].hash # None
  /\ devices[id].member \in admins
  /\ calls' = calls \cup {devices[id].member}
  /\ asked' = asked + 1
  /\ UNCHANGED <<tables, hub, gateway>>

Answered(p) == p \in calls /\ calls' = calls \ {p}

\* The request is refused, or changes none of these tables.
NothingToDo(p) ==
  /\ Answered(p)
  /\ UNCHANGED <<tables, hub, gateway, asked>>

CreateTenant(p, n) ==
  /\ Answered(p) /\ n \notin tenants
  /\ tenants' = tenants \cup {n}
  /\ UNCHANGED <<members, admins, devices, hub, gateway, asked>>

\* In the tenant of the caller only.
CreateMember(p, h, admin) ==
  LET m == MemberOf(p, h)
  IN  /\ Answered(p) /\ m \notin members
      /\ members' = members \cup {m}
      /\ admins' = IF admin THEN admins \cup {m} ELSE admins
      /\ UNCHANGED <<tenants, devices, hub, gateway, asked>>

\* The token is new.
CreateDevice(p, m, n) ==
  /\ Answered(p) /\ m \in members /\ m.tenant = p.tenant
  /\ \E id \in First(Id \ Used) : devices' = [devices EXCEPT ![id] = NewDevice(m, n, id)]
  /\ UNCHANGED <<tenants, members, admins, hub, gateway, asked>>

\* Slips: the hash stays; the tenant of the device is not looked at.
RevokeKeepsHash(p, id) ==
  /\ Answered(p) /\ id \in Used
  /\ devices[id].member.tenant = p.tenant
  /\ ~devices[id].revoked
  /\ devices' = [devices EXCEPT ![id].revoked = TRUE]
  /\ UNCHANGED <<tenants, members, admins, hub, gateway, asked>>

RevokeAnyones(p, id) ==
  /\ Answered(p) /\ id \in Used
  /\ ~devices[id].revoked
  /\ devices' = [devices EXCEPT ![id].revoked = TRUE, ![id].hash = None]
  /\ UNCHANGED <<tenants, members, admins, hub, gateway, asked>>

\* A device of the caller's tenant that is not revoked.
RevokeDevice(p, id) ==
  /\ Answered(p) /\ id \in Used
  /\ devices[id].member.tenant = p.tenant
  /\ ~devices[id].revoked
  /\ devices' = [devices EXCEPT ![id].revoked = TRUE, ![id].hash = None]
  /\ UNCHANGED <<tenants, members, admins, hub, gateway, asked>>

-----------------------------------------------------------------------------
Boot == \/ StartHub \/ EnsureTenant \/ EnsureMember \/ MembersDone
        \/ SkipDevice \/ EnsureDevice \/ BootFails \/ Serve

Admin(p) ==
  \/ NothingToDo(p)
  \/ \E n \in Tenant : CreateTenant(p, n)
  \/ \E h \in Handle, admin \in BOOLEAN : CreateMember(p, h, admin)
  \/ \E m \in Member, n \in Name : CreateDevice(p, m, n)
  \/ \E id \in Id : RevokeDevice(p, id)

Next ==
  \/ Boot
  \/ Die
  \/ GatewayStarts
  \/ \E id \in Id : Authenticate(id)
  \/ \E p \in Member : Admin(p)

\* The service manager restarts the hub (Restart=always), the bootstrap goes
\* on, and so does the worker's loop.
Fairness == WF_vars(Boot) /\ WF_vars(GatewayStarts)

Spec == Init /\ [][Next]_vars /\ Fairness
-----------------------------------------------------------------------------
(***************************************************************************)
(*                              Properties                                 *)
(***************************************************************************)
\* Every variable holds a value of its type, a member has a tenant and a
\* device a member; a token is no two devices' and no revoked one's.
ProvisioningTypeOK ==
  /\ tenants \subseteq Tenant
  /\ members \subseteq Member /\ admins \subseteq members
  /\ \A m \in members : m.tenant \in tenants
  /\ devices \in [Id -> Device]
  /\ \A id \in Used : devices[id].member \in members
  /\ \A id \in Id : devices[id].hash # None =>
                     ~devices[id].revoked /\ Free(devices[id].hash, id)
  /\ hub \in {Down} \cup [at : {"tenant", "members", "devices", "serving"}, i : Nat,
                           spec : Specs, files : File]
  /\ gateway \in {"off", "waiting", "up"}
  /\ calls \subseteq admins /\ asked \in Nat

\* The token of the i-th device of the specification lets its owner in.
Held(i) == \E id \in Id : devices[id] = NewDevice(Owner(i), Entry(i).name, Secret(i))

\* When the hub serves, every device of the specification that it started on
\* has the token of the files that it started on: through interrupted starts,
\* rotations, devices of the same name that admins created, and revocations
\* (bootstrap).
Provisioned ==
  hub.at = "devices" /\ hub.i \notin DOMAIN hub.spec.devices =>
    \A i \in DOMAIN hub.spec.devices : Wanted(i) => Held(i)

\* A device once revoked is never touched again; a device that is provisioned
\* again is a new one (bootstrap, ensure_gateway_device, revoke_device).
RevokedForever ==
  [][\A id \in Id : devices[id].revoked => devices'[id] = devices[id]]_vars

\* While the hub serves, each change of a tenant's members or devices is the
\* work of a request of one of its own admins, in the step that ends the
\* request, or the start of its own gateway.
OfTenant(tn) ==
  <<{m \in members : m.tenant = tn}, {m \in admins : m.tenant = tn},
    [id \in {j \in Used : devices[j].member.tenant = tn} |-> devices[id]]>>

TenantsAreSeparate ==
  [][hub.at = "serving" =>
       \A tn \in Tenant :
         \/ UNCHANGED OfTenant(tn)
         \/ \E p \in calls \ calls' : p.tenant = tn
         \/ tn = hub.spec.tenant /\ gateway = "waiting" /\ gateway' = "up"]_vars

\* "Idempotently ensure": a start changes nothing when the tables have all
\* that the specification asks for, whoever put it there.
Agrees ==
  /\ hub.spec.tenant \in tenants
  /\ \A i \in DOMAIN hub.spec.members : MemberOf(hub.spec, hub.spec.members[i].handle) \in members
  /\ \A i \in DOMAIN hub.spec.devices : Wanted(i) => Held(i)

Idempotent ==
  [][hub.at \in {"tenant", "members", "devices"} /\ Agrees => UNCHANGED tables]_vars

\* Another device has the token that the bootstrap is about to write.
TokenTaken ==
  /\ AtDevice /\ Wanted(hub.i)
  /\ \E id \in Used : /\ devices[id].hash = Secret(hub.i) /\ ~devices[id].revoked
                      /\ \/ devices[id].member # Owner(hub.i)
                         \/ devices[id].name # Entry(hub.i).name

\* Unless it is killed again and again, the hub comes up from every crash and
\* restart, or finds a token that is another device's.
HubComesUp == <>[][Die => BootFails]_vars => (hub.at = "down" ~> (hub.at = "serving" \/ TokenTaken))

\* The gateway's side comes up once its member is there, whoever creates it
\* and whenever, unless the hub goes down.
GatewayComesUp ==
  (hub.at = "serving" /\ GatewayMember \in members) ~> (gateway = "up" \/ hub.at # "serving")
=============================================================================
