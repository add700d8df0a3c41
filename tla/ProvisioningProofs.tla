--------------------------- MODULE ProvisioningProofs ---------------------------
(***************************************************************************)
(* Theorems about Provisioning, for any specifications, token files and    *)
(* number of devices and requests.                                         *)
(***************************************************************************)
EXTENDS Provisioning, TLAPS

-----------------------------------------------------------------------------
(***************************************************************************)
(* The inductive invariant.  Rows fill the table from the front, so that   *)
(* the row that a statement finds is the oldest; a token that the operator *)
(* wrote is always on the oldest active row of its member and name.        *)
(***************************************************************************)
DevicesInv ==
  /\ devices \in [Id -> Device]
  /\ \A id \in Id \ Used : devices[id] = NoDevice
  /\ \A id \in Used, j \in Id : j < id => j \in Used
  /\ \A id \in Used : devices[id].hash # None =>
                        ~devices[id].revoked /\ Free(devices[id].hash, id)
  /\ \A id \in Used : devices[id].hash \in Id => devices[id].hash = id
  /\ \A id \in Used : devices[id].hash \in Token =>
                        \A j \in Rows(devices[id].member, devices[id].name) : id <= j

Running == [at : {"tenant", "members", "devices", "serving"}, i : Nat \ {0},
            spec : Specs, files : File]

\* Where the process is, and what it has done so far.
HubInv ==
  /\ hub \in {Down} \cup Running
  /\ gateway \in {"off", "waiting", "up"}
  /\ gateway # "off" => hub.at = "serving"
  /\ calls # {} => hub.at = "serving"
  /\ hub.at \in {"members", "devices", "serving"} => hub.spec.tenant \in tenants

TablesInv ==
  /\ tenants \subseteq Tenant
  /\ members \subseteq Member /\ admins \subseteq members
  /\ \A m \in members : m.tenant \in tenants
  /\ \A id \in Used : devices[id].member \in members
  /\ calls \subseteq admins /\ asked \in Nat

Progress ==
  hub.at = "devices" =>
    \A j \in DOMAIN hub.spec.devices : j < hub.i /\ Wanted(j) => Held(j)

IInv == DevicesInv /\ HubInv /\ TablesInv /\ Progress

-----------------------------------------------------------------------------
(***************************************************************************)
(* What a statement on the devices table does.                             *)
(***************************************************************************)
LEMMA IdIsInt == Id \subseteq Int /\ \A id \in Id : id >= 1
BY BoundAssumption DEF Id

\* A new row: with no token, with a new token, or the first of its name.
LEMMA Insertion ==
  ASSUME DevicesInv,
         NEW m \in Member, NEW n \in Name, NEW t \in Token \cup Id \cup {None},
         NEW id \in First(Id \ Used),
         t # None => Free(t, id),
         t \in Id => t = id,
         t \in Token => Rows(m, n) = {},
         devices' = [devices EXCEPT ![id] = NewDevice(m, n, t)]
  PROVE  DevicesInv' /\ Used' = Used \cup {id}
<1>1. id \in Id /\ id \notin Used /\ \A j \in Id \ Used : id <= j
  BY DEF First
<1>2. NewDevice(m, n, t) \in Device /\ m # None
  BY TokenAssumption DEF NewDevice, Device
<1>3. devices' \in [Id -> Device]
  BY <1>1, <1>2 DEF DevicesInv
<1>4. devices'[id] = NewDevice(m, n, t) /\ \A j \in Id : j # id => devices'[j] = devices[j]
  BY <1>1 DEF DevicesInv
<1>5. Used' = Used \cup {id}
  BY <1>1, <1>2, <1>4 DEF Used, NewDevice
<1>6. \A j \in Id \ Used' : devices'[j] = NoDevice
  BY <1>1, <1>4, <1>5 DEF DevicesInv
<1>7. \A i \in Used', j \in Id : j < i => j \in Used'
  BY <1>1, <1>5, IdIsInt DEF DevicesInv, Used
<1>8. (\A i \in Used : devices[i].hash # None =>
                        ~devices[i].revoked /\ Free(devices[i].hash, i))'
  <2>1. ASSUME NEW i \in Used', devices'[i].hash # None
        PROVE  ~devices'[i].revoked /\ \A j \in Used' : devices'[j].hash = devices'[i].hash => j = i
    <3>1. CASE i = id
      BY <3>1, <2>1, <1>1, <1>4, <1>5 DEF NewDevice, Free, Used
    <3>2. CASE i # id
      <4>1. i \in Used /\ devices'[i] = devices[i]
        BY <3>2, <1>4, <1>5 DEF Used
      <4>2. t = devices[i].hash => FALSE
        BY <4>1, <2>1, <3>2 DEF Free
      <4>3. ~devices[i].revoked /\ \A j \in Used : devices[j].hash = devices[i].hash => j = i
        BY <4>1, <2>1 DEF DevicesInv, Free
      <4> QED
        BY <4>1, <4>2, <4>3, <1>1, <1>4, <1>5 DEF NewDevice, Used
    <3> QED
      BY <3>1, <3>2
  <2> QED
    BY <2>1 DEF Free
<1>9. \A i \in Used' : devices'[i].hash \in Id => devices'[i].hash = i
  BY <1>1, <1>4, <1>5 DEF DevicesInv, NewDevice, Used
<1>10. (\A i \in Used : devices[i].hash \in Token =>
                        \A j \in Rows(devices[i].member, devices[i].name) : i <= j)'
  <2>1. SUFFICES ASSUME NEW i \in Used', devices'[i].hash \in Token,
                        NEW j \in Used', devices'[j].member = devices'[i].member,
                        devices'[j].name = devices'[i].name, ~devices'[j].revoked
                 PROVE  i <= j
    BY DEF Rows
  <2>2. i \in Int /\ j \in Int /\ i \in Id /\ j \in Id
    BY <2>1, IdIsInt DEF Used
  <2>3. CASE i = id
    <3>1. t \in Token /\ Rows(m, n) = {}
      BY <2>1, <2>3, <1>4 DEF NewDevice
    <3>2. j # id => j \in Rows(m, n)
      BY <2>1, <2>2, <2>3, <1>4, <1>5 DEF Rows, NewDevice
    <3> QED
      BY <3>1, <3>2, <2>2, <2>3
  <2>4. CASE i # id /\ j = id
    <3>1. i \in Used
      BY <2>1, <2>4, <1>5
    <3>2. ~(id < i)
      BY <3>1, <1>1 DEF DevicesInv
    <3> QED
      BY <3>2, <2>2, <2>4
  <2>5. CASE i # id /\ j # id
    <3>1. i \in Used /\ j \in Used /\ devices'[i] = devices[i] /\ devices'[j] = devices[j]
      BY <2>1, <2>2, <2>5, <1>4, <1>5
    <3>2. j \in Rows(devices[i].member, devices[i].name)
      BY <3>1, <2>1 DEF Rows
    <3> QED
      BY <3>1, <3>2, <2>1 DEF DevicesInv
  <2> QED
    BY <2>3, <2>4, <2>5
<1> QED
  BY <1>3, <1>5, <1>6, <1>7, <1>8, <1>9, <1>10 DEF DevicesInv

\* The oldest active row of a member and name gets a token.
LEMMA Rotation ==
  ASSUME DevicesInv, NEW m, NEW n, NEW t \in Token,
         NEW id \in First(Rows(m, n)), Free(t, id),
         devices' = [devices EXCEPT ![id].hash = t]
  PROVE  DevicesInv' /\ Used' = Used
<1>1. /\ id \in Id /\ id \in Used /\ \A j \in Rows(m, n) : id <= j
      /\ devices[id].member = m /\ devices[id].name = n /\ ~devices[id].revoked
  BY DEF First, Rows, Used
<1>2. t # None /\ t \notin Id
  BY TokenAssumption
<1>3. devices[id] \in Device /\ DOMAIN devices = Id
  BY <1>1 DEF DevicesInv
<1>4. /\ devices'[id] \in Device /\ devices'[id].hash = t
      /\ devices'[id].member = m /\ devices'[id].name = n /\ ~devices'[id].revoked
      /\ \A j \in Id : j # id => devices'[j] = devices[j]
  BY <1>1, <1>3 DEF Device
<1>5. devices' \in [Id -> Device]
  BY <1>1, <1>4 DEF DevicesInv
<1>6. Used' = Used
  BY <1>1, <1>4 DEF Used
<1>7. \A j \in Id \ Used' : devices'[j] = NoDevice
  BY <1>1, <1>4, <1>6 DEF DevicesInv
<1>8. (\A i \in Used : devices[i].hash # None =>
                        ~devices[i].revoked /\ Free(devices[i].hash, i))'
  <2>1. ASSUME NEW i \in Used', devices'[i].hash # None
        PROVE  ~devices'[i].revoked /\ \A j \in Used' : devices'[j].hash = devices'[i].hash => j = i
    <3>1. CASE i = id
      BY <3>1, <1>1, <1>4, <1>6 DEF Free, Used
    <3>2. CASE i # id
      <4>1. i \in Used /\ devices'[i] = devices[i]
        BY <3>2, <2>1, <1>4, <1>6 DEF Used
      <4>2. devices[i].hash # t
        BY <4>1, <3>2 DEF Free
      <4>3. ~devices[i].revoked /\ \A j \in Used : devices[j].hash = devices[i].hash => j = i
        BY <4>1, <2>1 DEF DevicesInv, Free
      <4> QED
        BY <4>1, <4>2, <4>3, <1>1, <1>4, <1>6 DEF Used
    <3> QED
      BY <3>1, <3>2
  <2> QED
    BY <2>1 DEF Free
<1>9. \A i \in Used' : devices'[i].hash \in Id => devices'[i].hash = i
  BY <1>1, <1>2, <1>4, <1>6 DEF DevicesInv, Used
<1>10. (\A i \in Used : devices[i].hash \in Token =>
                        \A j \in Rows(devices[i].member, devices[i].name) : i <= j)'
  <2>1. SUFFICES ASSUME NEW i \in Used, devices'[i].hash \in Token,
                        NEW j \in Used, devices'[j].member = devices'[i].member,
                        devices'[j].name = devices'[i].name, ~devices'[j].revoked
                 PROVE  i <= j
    BY <1>6 DEF Rows
  <2>2. /\ i \in Id /\ j \in Id
        /\ devices[i].member = devices'[i].member /\ devices[i].name = devices'[i].name
        /\ devices[j].member = devices'[j].member /\ devices[j].name = devices'[j].name
        /\ ~devices[j].revoked
    BY <2>1, <1>1, <1>4 DEF Used
  <2>3. CASE i = id
    BY <2>1, <2>2, <2>3, <1>1 DEF Rows
  <2>4. CASE i # id
    <3>1. devices[i].hash \in Token /\ j \in Rows(devices[i].member, devices[i].name)
      BY <2>1, <2>2, <2>4, <1>4 DEF Rows
    <3> QED
      BY <3>1, <2>1 DEF DevicesInv
  <2> QED
    BY <2>3, <2>4
<1> QED
  BY <1>1, <1>4, <1>5, <1>6, <1>7, <1>8, <1>9, <1>10 DEF DevicesInv

\* A row is revoked.
LEMMA Revocation ==
  ASSUME DevicesInv, NEW id \in Used,
         devices' = [devices EXCEPT ![id].revoked = TRUE, ![id].hash = None]
  PROVE  DevicesInv' /\ Used' = Used
<1>1. id \in Id /\ devices[id] \in Device /\ DOMAIN devices = Id
  BY DEF DevicesInv, Used
<1>2. /\ devices'[id] \in Device /\ devices'[id].hash = None
      /\ devices'[id].member = devices[id].member /\ devices'[id].name = devices[id].name
      /\ devices'[id].revoked
      /\ \A j \in Id : j # id => devices'[j] = devices[j]
  BY <1>1 DEF Device
<1>3. devices' \in [Id -> Device]
  BY <1>1, <1>2 DEF DevicesInv
<1>4. Used' = Used
  BY <1>1, <1>2 DEF Used
<1>5. \A j \in Id \ Used' : devices'[j] = NoDevice
  BY <1>1, <1>2, <1>4 DEF DevicesInv
<1>6. \A i \in Used' : devices'[i].hash # None => /\ i # id /\ i \in Used /\ i \in Id
                                                /\ devices'[i] = devices[i]
  BY <1>2, <1>4 DEF Used
<1>7. (\A i \in Used : devices[i].hash # None =>
                        ~devices[i].revoked /\ Free(devices[i].hash, i))'
  BY <1>2, <1>4, <1>6 DEF DevicesInv, Free, Used
<1>8. \A i \in Used' : devices'[i].hash \in Id => devices'[i].hash = i
  BY <1>6, TokenAssumption DEF DevicesInv
<1>9. (\A i \in Used : devices[i].hash \in Token =>
                        \A j \in Rows(devices[i].member, devices[i].name) : i <= j)'
  BY <1>2, <1>4, <1>6, TokenAssumption DEF DevicesInv, Rows, Used
<1> QED
  BY <1>1, <1>2, <1>3, <1>4, <1>5, <1>7, <1>8, <1>9 DEF DevicesInv

-----------------------------------------------------------------------------
(***************************************************************************)
(* The invariant is inductive.                                             *)
(***************************************************************************)
LEMMA SeqElement ==
  ASSUME NEW T, NEW s \in Seq(T), NEW i \in DOMAIN s
  PROVE  s[i] \in T
OBVIOUS

\* What the specification of a running hub asks for is well formed.
LEMMA EntryTypes ==
  ASSUME HubInv, hub.at # "down"
  PROVE  /\ hub.spec \in Specs /\ hub.spec.tenant \in Tenant /\ hub.files \in File
         /\ hub.i \in Nat \ {0}
         /\ DOMAIN hub.spec.devices \subseteq Nat /\ Len(hub.spec.devices) \in Nat
         /\ DOMAIN hub.spec.devices = 1 .. Len(hub.spec.devices)
         /\ GatewayMember \in Member
         /\ \A i \in DOMAIN hub.spec.members :
              MemberOf(hub.spec, hub.spec.members[i].handle) \in Member
         /\ \A i \in DOMAIN hub.spec.devices :
              /\ Owner(i) \in Member /\ Entry(i).name \in Name
              /\ Secret(i) \in Token \cup {None}
<1>1. /\ hub.spec \in Specs /\ hub.files \in File /\ hub.i \in Nat \ {0}
  BY DEF HubInv, Down, Running
<1>2. /\ hub.spec.tenant \in Tenant
      /\ hub.spec.members \in Seq([handle : Handle, admin : BOOLEAN])
      /\ hub.spec.devices \in Seq([member : Handle, name : Name, cred : Credential])
  BY <1>1, SpecsAssumption DEF Specification
<1>3. \A i \in DOMAIN hub.spec.members :
        MemberOf(hub.spec, hub.spec.members[i].handle) \in Member
  <2>1. \A i \in DOMAIN hub.spec.members :
          hub.spec.members[i] \in [handle : Handle, admin : BOOLEAN]
    BY <1>2, SeqElement
  <2> QED
    BY <1>2, <2>1, HandleAssumption DEF MemberOf, Member
<1>4. \A i \in DOMAIN hub.spec.devices :
        hub.spec.devices[i] \in [member : Handle, name : Name, cred : Credential]
  BY <1>2, SeqElement
<1>5. \A i \in DOMAIN hub.spec.devices :
        /\ Owner(i) \in Member /\ Entry(i).name \in Name
        /\ Secret(i) \in Token \cup {None}
  BY <1>1, <1>2, <1>4, HandleAssumption DEF MemberOf, Member, Owner, Entry, Secret, File
<1>6. GatewayMember \in Member
  BY <1>2, HandleAssumption DEF GatewayMember, Member
<1> QED
  BY <1>1, <1>2, <1>3, <1>5, <1>6

LEMMA InitIInv == Init => IInv
<1> SUFFICES ASSUME Init PROVE IInv
  OBVIOUS
<1>1. Used = {}
  BY DEF Init, Used, NoDevice
<1>2. DevicesInv
  BY <1>1, NameAssumption DEF Init, DevicesInv, NoDevice, Device
<1>3. HubInv
  BY DEF Init, HubInv, Down
<1>4. TablesInv
  BY <1>1 DEF Init, TablesInv
<1>5. Progress
  BY DEF Init, Progress, Down
<1> QED
  BY <1>2, <1>3, <1>4, <1>5 DEF IInv

\* Steps that leave the devices alone leave what was provisioned.
LEMMA SameDevices ==
  ASSUME DevicesInv, UNCHANGED devices
  PROVE  DevicesInv' /\ Used' = Used
BY DEF DevicesInv, Used, Free, Rows

LEMMA BootStep ==
  ASSUME IInv, StartHub \/ EnsureTenant \/ EnsureMember \/ MembersDone \/ Serve
  PROVE  IInv'
<1>1. DevicesInv' /\ Used' = Used /\ devices' = devices /\ asked' = asked /\ calls' = calls
  BY SameDevices DEF IInv, StartHub, EnsureTenant, EnsureMember, MembersDone, Serve, tables
<1>2. CASE StartHub
  <2>1. hub'.at = "tenant" /\ hub' \in Running
    BY <1>2 DEF StartHub, Running, Phase, File, NoFiles
  <2>2. gateway = "off" /\ calls = {}
    BY <1>2 DEF StartHub, IInv, HubInv
  <2> QED
    BY <1>1, <1>2, <2>1, <2>2 DEF StartHub, IInv, HubInv, TablesInv, Progress, tables
<1>3. CASE EnsureTenant
  <2>1. hub.at # "down" /\ hub.at = "tenant" /\ hub.spec.tenant \in Tenant
    BY <1>3, EntryTypes DEF EnsureTenant, IInv
  <2>2. /\ hub'.at = "members" /\ hub'.spec = hub.spec
        /\ hub' \in Running
    <3>1. hub \in Running /\ NoFiles \in File
      BY <2>1 DEF IInv, HubInv, Down, File, NoFiles
    <3> QED
      BY <3>1, <1>3, <2>1 DEF EnsureTenant, Running, Phase
  <2>3. gateway = "off" /\ calls = {}
    BY <2>1 DEF IInv, HubInv
  <2> QED
    BY <1>1, <1>3, <2>1, <2>2, <2>3 DEF EnsureTenant, IInv, HubInv, TablesInv, Progress
<1>4. CASE EnsureMember
  <2>1. /\ hub.at # "down" /\ hub.at = "members" /\ hub.i \in DOMAIN hub.spec.members
        /\ hub.spec.tenant \in tenants /\ hub.i \in Nat \ {0}
    BY <1>4, EntryTypes DEF EnsureMember, IInv, HubInv
  <2>2. /\ hub'.at = "members" /\ hub'.spec = hub.spec
        /\ hub' \in Running
    <3>1. hub \in Running
      BY <2>1 DEF IInv, HubInv, Down
    <3> QED
      BY <3>1, <1>4, <2>1 DEF EnsureMember, Running
  <2>3. gateway = "off" /\ calls = {}
    BY <2>1 DEF IInv, HubInv
  <2>4. PICK m \in Member : /\ m.tenant = hub.spec.tenant
                            /\ members' = members \cup {m}
                            /\ admins' = admins \/ admins' = admins \cup {m}
    BY <1>4, <2>1, EntryTypes DEF EnsureMember, IInv, MemberOf
  <2>5. tenants' = tenants /\ gateway' = gateway
    BY <1>4 DEF EnsureMember
  <2>6. HubInv'
    BY <1>1, <2>1, <2>2, <2>3, <2>5 DEF HubInv
  <2>7. TablesInv'
    BY <1>1, <2>1, <2>3, <2>4, <2>5 DEF IInv, TablesInv
  <2> QED
    BY <1>1, <2>2, <2>6, <2>7 DEF IInv, Progress
<1>5. CASE MembersDone
  <2>1. hub.at # "down" /\ hub.at = "members"
    BY <1>5 DEF MembersDone
  <2>2. /\ hub'.at = "devices" /\ hub'.spec = hub.spec /\ hub'.i = 1
        /\ hub' \in Running
    <3>1. hub \in Running /\ NoFiles \in File
      BY <2>1 DEF IInv, HubInv, Down, File, NoFiles
    <3> QED
      BY <3>1, <1>5, <2>1 DEF MembersDone, Running, Phase
  <2>3. gateway = "off" /\ calls = {}
    BY <2>1 DEF IInv, HubInv
  <2>4. HubInv' /\ TablesInv'
    BY <1>1, <1>5, <2>1, <2>2, <2>3 DEF MembersDone, IInv, HubInv, TablesInv, tables
  <2>5. \A j \in DOMAIN hub'.spec.devices : ~(j < hub'.i)
    BY <2>1, <2>2, EntryTypes DEF IInv
  <2> QED
    BY <1>1, <2>4, <2>5 DEF IInv, Progress
<1>6. CASE Serve
  <2>1. hub.at # "down" /\ hub.at = "devices"
    BY <1>6 DEF Serve
  <2>2. /\ hub'.at = "serving" /\ hub'.spec = hub.spec
        /\ hub' \in Running
    <3>1. hub \in Running /\ NoFiles \in File
      BY <2>1 DEF IInv, HubInv, Down, File, NoFiles
    <3> QED
      BY <3>1, <1>6, <2>1 DEF Serve, Running, Phase
  <2> QED
    BY <1>1, <1>6, <2>1, <2>2 DEF Serve, IInv, HubInv, TablesInv, Progress, tables
<1> QED
  BY <1>2, <1>3, <1>4, <1>5, <1>6

\* The process goes down.
LEMMA DownStep ==
  ASSUME IInv, Die \/ BootFails
  PROVE  IInv'
<1>1. DevicesInv' /\ Used' = Used /\ devices' = devices
  BY SameDevices DEF IInv, Die, BootFails, tables
<1>2. hub' = Down /\ hub'.at = "down"
  BY DEF Die, BootFails, Down
<1>3. calls' = {} /\ gateway' = "off"
  BY DEF Die, BootFails, AtDevice, IInv, HubInv
<1> QED
  BY <1>1, <1>2, <1>3 DEF Die, BootFails, IInv, HubInv, TablesInv, Progress, tables

\* The row that a device of the specification is written to: what happens to
\* the table, and that its owner then has the token.
LEMMA EnsureWrites ==
  ASSUME IInv, EnsureDevice
  PROVE  /\ DevicesInv' /\ Used \subseteq Used'
         /\ \E id \in Id : /\ id \notin Used \/ id \in Rows(Owner(hub.i), Entry(hub.i).name)
                           /\ devices'[id] = NewDevice(Owner(hub.i), Entry(hub.i).name, Secret(hub.i))
                           /\ \A j \in Id : j # id => devices'[j] = devices[j]
                           /\ Used' = Used \cup {id}
<1> DEFINE m == Owner(hub.i)
           n == Entry(hub.i).name
           t == Secret(hub.i)
<1>1. /\ m \in Member /\ n \in Name /\ t \in Token /\ hub.i \in DOMAIN hub.spec.devices
      /\ m # None
  BY EntryTypes, TokenAssumption DEF EnsureDevice, AtDevice, Wanted, IInv
<1>2. PICK id \in Target(m, n) :
        /\ Free(t, id)
        /\ devices' = [devices EXCEPT ![id] =
                         IF id \in Used THEN [@ EXCEPT !.hash = t] ELSE NewDevice(m, n, t)]
  BY DEF EnsureDevice
<1>3. CASE Rows(m, n) = {}
  <2>1. id \in First(Id \ Used) /\ id \notin Used /\ id \in Id
    BY <1>2, <1>3 DEF Target, First
  <2>2. devices' = [devices EXCEPT ![id] = NewDevice(m, n, t)]
    BY <1>2, <2>1
  <2>3. DevicesInv' /\ Used' = Used \cup {id}
    BY <1>1, <1>2, <1>3, <2>1, <2>2, Insertion, TokenAssumption DEF IInv
  <2> QED
    BY <2>1, <2>2, <2>3 DEF IInv, DevicesInv
<1>4. CASE Rows(m, n) # {}
  <2>1. id \in First(Rows(m, n)) /\ id \in Rows(m, n) /\ id \in Used /\ id \in Id
    BY <1>2, <1>4 DEF Target, First, Rows, Used
  <2>2. devices' = [devices EXCEPT ![id].hash = t]
    BY <1>2, <2>1
  <2>3. DevicesInv' /\ Used' = Used
    BY <1>1, <1>2, <2>1, <2>2, Rotation DEF IInv
  <2>4. devices[id] \in Device /\ DOMAIN devices = Id
    BY <2>1 DEF IInv, DevicesInv
  <2>5. devices'[id] = NewDevice(m, n, t)
    BY <2>1, <2>2, <2>4 DEF Rows, NewDevice, Device
  <2> QED
    BY <2>1, <2>2, <2>3, <2>4, <2>5
<1> QED
  BY <1>3, <1>4

\* A device of the specification is written or skipped: the earlier ones stay.
LEMMA DeviceStep ==
  ASSUME IInv, EnsureDevice \/ SkipDevice
  PROVE  IInv'
<1>1. /\ hub.at = "devices" /\ hub.at # "down" /\ hub.i \in DOMAIN hub.spec.devices
      /\ hub.i \in Nat \ {0}
      /\ tenants' = tenants /\ members' = members /\ admins' = admins
      /\ calls' = calls /\ asked' = asked /\ gateway' = gateway
  BY EntryTypes DEF EnsureDevice, SkipDevice, AtDevice, IInv, tables
<1>2. /\ hub'.at = "devices" /\ hub'.spec = hub.spec /\ hub'.files = hub.files
      /\ hub'.i = hub.i + 1
      /\ hub' \in Running
  <2>1. hub \in Running
    BY <1>1 DEF IInv, HubInv, Down
  <2> QED
    BY <2>1, <1>1 DEF EnsureDevice, SkipDevice, Running
<1>3. HubInv'
  BY <1>1, <1>2 DEF IInv, HubInv
<1>4. \A j \in DOMAIN hub.spec.devices :
        Wanted(j)' = Wanted(j) /\ Owner(j)' = Owner(j) /\ Entry(j)' = Entry(j)
        /\ Secret(j)' = Secret(j)
  BY <1>1, <1>2 DEF Wanted, Owner, Entry, Secret
<1>5. SUFFICES /\ DevicesInv' /\ (\A id \in Used' : devices'[id].member \in members)
               /\ \A j \in DOMAIN hub.spec.devices : j < hub.i + 1 /\ Wanted(j) => Held(j)'
  BY <1>1, <1>2, <1>3, <1>4 DEF IInv, TablesInv, Progress
<1>6. CASE SkipDevice
  <2>1. DevicesInv' /\ Used' = Used /\ devices' = devices /\ ~Wanted(hub.i)
    BY <1>6, SameDevices DEF IInv, SkipDevice, tables
  <2>2. ASSUME NEW j \in DOMAIN hub.spec.devices, j < hub.i + 1, Wanted(j)
        PROVE  Held(j)'
    <3>1. j < hub.i
      BY <2>1, <2>2, <1>1, EntryTypes DEF IInv
    <3>2. Held(j)
      BY <3>1, <2>2, <1>1 DEF IInv, Progress
    <3> QED
      BY <3>2, <2>1, <1>4 DEF Held
  <2> QED
    BY <2>1, <2>2 DEF IInv, TablesInv
<1>7. CASE EnsureDevice
  <2>1. PICK id \in Id :
          /\ id \notin Used \/ id \in Rows(Owner(hub.i), Entry(hub.i).name)
          /\ devices'[id] = NewDevice(Owner(hub.i), Entry(hub.i).name, Secret(hub.i))
          /\ \A j \in Id : j # id => devices'[j] = devices[j]
          /\ Used' = Used \cup {id}
    BY <1>7, EnsureWrites
  <2>2. DevicesInv' /\ Owner(hub.i) \in members
    BY <1>7, EnsureWrites DEF EnsureDevice, Wanted
  <2>3. \A j \in Used' : devices'[j].member \in members
    BY <2>1, <2>2 DEF IInv, TablesInv, NewDevice, Used
  <2>4. ASSUME NEW j \in DOMAIN hub.spec.devices, j < hub.i + 1, Wanted(j)
        PROVE  Held(j)'
    <3>1. CASE j = hub.i
      BY <3>1, <2>1, <1>1, <1>4 DEF Held
    <3>2. CASE j # hub.i
      <4>1. j < hub.i
        BY <3>2, <2>4, <1>1, EntryTypes DEF IInv
      <4>2. PICK u \in Id : devices[u] = NewDevice(Owner(j), Entry(j).name, Secret(j))
        BY <4>1, <2>4, <1>1 DEF IInv, Progress, Held
      <4>3. Owner(j) # Owner(hub.i) \/ Entry(j).name # Entry(hub.i).name
        BY <3>2, <2>4, <1>1, EntryTypes, SpecsAssumption DEF Owner, MemberOf, Entry, IInv
      <4>4. u \in Used
        BY <4>2, <2>4, EntryTypes, <1>1, TokenAssumption DEF Used, NewDevice, IInv
      <4>5. u # id
        BY <4>2, <4>3, <4>4, <2>1 DEF Rows, NewDevice
      <4> QED
        BY <4>2, <4>5, <2>1, <1>4 DEF Held
    <3> QED
      BY <3>1, <3>2
  <2> QED
    BY <2>2, <2>3, <2>4
<1> QED
  BY <1>6, <1>7

\* The gateway's worker: its device is there, or is new and has no token.
LEMMA GatewayStep ==
  ASSUME IInv, GatewayStarts
  PROVE  IInv' /\ \A id \in Used : devices'[id] = devices[id]
<1>1. /\ hub.at = "serving" /\ hub.at # "down" /\ GatewayMember \in members
      /\ hub' = hub /\ tenants' = tenants /\ members' = members /\ admins' = admins
      /\ calls' = calls /\ asked' = asked /\ gateway' = "up"
  BY DEF GatewayStarts, IInv, HubInv
<1>2. HubInv' /\ Progress'
  BY <1>1 DEF IInv, HubInv, Progress
<1>3. GatewayMember \in Member
  BY <1>1, EntryTypes DEF IInv
<1>4. PICK id \in Target(GatewayMember, "gateway") :
        devices' = IF id \in Used
                     THEN devices
                     ELSE [devices EXCEPT ![id] = NewDevice(GatewayMember, "gateway", None)]
  BY DEF GatewayStarts
<1>5. CASE id \in Used
  BY <1>1, <1>2, <1>4, <1>5, SameDevices DEF IInv, TablesInv
<1>6. CASE id \notin Used
  <2>1. id \in First(Id \ Used) /\ id \in Id
    BY <1>4, <1>6 DEF Target, First, Rows
  <2>2. DevicesInv' /\ Used' = Used \cup {id}
    BY <1>3, <1>4, <1>6, <2>1, Insertion, NameAssumption, TokenAssumption DEF IInv
  <2>3. /\ devices'[id].member = GatewayMember
        /\ \A j \in Used : devices'[j] = devices[j]
    BY <1>4, <1>6, <2>1 DEF IInv, DevicesInv, NewDevice, Used
  <2> QED
    BY <1>1, <1>2, <2>2, <2>3 DEF IInv, TablesInv
<1> QED
  BY <1>5, <1>6

\* Requests of admins that leave the devices alone.
LEMMA RequestStep ==
  ASSUME IInv,
         \/ \E id \in Id : Authenticate(id)
         \/ \E p \in Member : \/ NothingToDo(p)
                              \/ \E n \in Tenant : CreateTenant(p, n)
                              \/ \E h \in Handle, admin \in BOOLEAN : CreateMember(p, h, admin)
  PROVE  IInv'
<1>1. DevicesInv' /\ Used' = Used /\ devices' = devices /\ hub' = hub /\ gateway' = gateway
  BY SameDevices DEF IInv, Authenticate, NothingToDo, CreateTenant, CreateMember, tables
<1>2. hub.at = "serving"
  BY DEF IInv, HubInv, Authenticate, NothingToDo, CreateTenant, CreateMember, Answered
<1>3. CASE \E id \in Id : Authenticate(id)
  BY <1>1, <1>2, <1>3 DEF IInv, HubInv, TablesInv, Progress, Authenticate, tables
<1>4. CASE \E p \in Member : NothingToDo(p)
  BY <1>1, <1>2, <1>4 DEF IInv, HubInv, TablesInv, Progress, NothingToDo, Answered, tables
<1>5. CASE \E p \in Member, n \in Tenant : CreateTenant(p, n)
  BY <1>1, <1>2, <1>5 DEF IInv, HubInv, TablesInv, Progress, CreateTenant, Answered
<1>6. ASSUME NEW p \in Member, NEW h \in Handle, NEW admin \in BOOLEAN, CreateMember(p, h, admin)
      PROVE  IInv'
  <2>1. PICK m \in Member : /\ m.tenant = p.tenant
                            /\ members' = members \cup {m}
                            /\ admins' = admins \/ admins' = admins \cup {m}
    BY <1>6, HandleAssumption DEF CreateMember, MemberOf, Member
  <2>2. /\ p \in members /\ p.tenant \in tenants /\ tenants' = tenants
        /\ calls' = calls \ {p} /\ asked' = asked
    BY <1>6 DEF CreateMember, Answered, IInv, TablesInv
  <2>3. TablesInv'
    BY <1>1, <2>1, <2>2 DEF IInv, TablesInv
  <2>4. HubInv' /\ Progress'
    BY <1>1, <1>2, <2>2 DEF IInv, HubInv, Progress
  <2> QED
    BY <1>1, <2>3, <2>4 DEF IInv
<1> QED
  BY <1>3, <1>4, <1>5, <1>6

\* Requests of admins that write a device.
LEMMA DeviceRequestStep ==
  ASSUME IInv, NEW p \in Member,
         \/ \E m \in Member, n \in Name : CreateDevice(p, m, n)
         \/ \E id \in Id : RevokeDevice(p, id)
  PROVE  /\ IInv'
         /\ \A id \in Used : \/ devices'[id] = devices[id]
                             \/ ~devices[id].revoked /\ devices[id].member.tenant = p.tenant
         /\ \A id \in Used' : id \notin Used => devices'[id].member.tenant = p.tenant
         /\ \A id \in Used : devices'[id].member = devices[id].member
<1>1. /\ hub' = hub /\ gateway' = gateway /\ tenants' = tenants /\ members' = members
      /\ admins' = admins /\ asked' = asked /\ calls' = calls \ {p}
      /\ hub.at = "serving"
  BY DEF CreateDevice, RevokeDevice, Answered, IInv, HubInv
<1>2. HubInv' /\ Progress'
  BY <1>1 DEF IInv, HubInv, Progress
<1>3. ASSUME NEW m \in Member, NEW n \in Name, CreateDevice(p, m, n)
      PROVE  /\ IInv'
             /\ \A id \in Used : devices'[id] = devices[id]
             /\ \A id \in Used' : id \notin Used => devices'[id].member.tenant = p.tenant
  <2>1. PICK id \in First(Id \ Used) : devices' = [devices EXCEPT ![id] = NewDevice(m, n, id)]
    BY <1>3 DEF CreateDevice
  <2>2. id \in Id /\ id \notin Used /\ id # None /\ id \notin Token
    BY <2>1, TokenAssumption DEF First
  <2>3. Free(id, id)
    BY <2>2 DEF Free, IInv, DevicesInv
  <2>4. DevicesInv' /\ Used' = Used \cup {id}
    BY <2>1, <2>2, <2>3, Insertion DEF IInv
  <2>5. /\ devices'[id].member = m /\ m \in members /\ m.tenant = p.tenant
        /\ \A j \in Used : devices'[j] = devices[j]
    BY <1>3, <2>1, <2>2 DEF CreateDevice, IInv, DevicesInv, NewDevice, Used
  <2> QED
    BY <1>1, <1>2, <2>4, <2>5 DEF IInv, TablesInv
<1>4. ASSUME NEW id \in Id, RevokeDevice(p, id)
      PROVE  /\ IInv' /\ Used' = Used
             /\ \A j \in Used : devices'[j] = devices[j] \/ j = id
             /\ \A j \in Used : devices'[j].member = devices[j].member
  <2>1. id \in Used /\ devices' = [devices EXCEPT ![id].revoked = TRUE, ![id].hash = None]
    BY <1>4 DEF RevokeDevice
  <2>2. DevicesInv' /\ Used' = Used
    BY <2>1, Revocation DEF IInv
  <2>3. devices[id] \in Device /\ DOMAIN devices = Id
    BY <1>4 DEF IInv, DevicesInv
  <2>4. \A j \in Used : /\ devices'[j] = devices[j] \/ j = id
                        /\ devices'[j].member = devices[j].member
    BY <2>1, <2>3 DEF Device, Used
  <2> QED
    BY <1>1, <1>2, <2>2, <2>4 DEF IInv, TablesInv
<1> QED
  BY <1>3, <1>4 DEF RevokeDevice

LEMMA StutterStep ==
  ASSUME IInv, UNCHANGED vars
  PROVE  IInv'
<1>1. /\ DevicesInv' /\ Used' = Used /\ devices' = devices /\ hub' = hub /\ gateway' = gateway
      /\ tenants' = tenants /\ members' = members /\ admins' = admins
      /\ calls' = calls /\ asked' = asked
  BY SameDevices DEF IInv, vars, tables
<1>2. Progress'
  BY <1>1 DEF IInv, Progress, Wanted, Held, Owner, Entry, Secret
<1> QED
  BY <1>1, <1>2 DEF IInv, HubInv, TablesInv

LEMMA NextIInv == IInv /\ [Next]_vars => IInv'
<1> SUFFICES ASSUME IInv, [Next]_vars PROVE IInv'
  OBVIOUS
<1>1. CASE Boot
  BY <1>1, BootStep, DownStep, DeviceStep DEF Boot
<1>2. CASE Die
  BY <1>2, DownStep
<1>3. CASE GatewayStarts
  BY <1>3, GatewayStep
<1>4. CASE \E id \in Id : Authenticate(id)
  BY <1>4, RequestStep
<1>5. CASE \E p \in Member : Admin(p)
  BY <1>5, RequestStep, DeviceRequestStep DEF Admin
<1>6. CASE UNCHANGED vars
  BY <1>6, StutterStep
<1> QED
  BY <1>1, <1>2, <1>3, <1>4, <1>5, <1>6 DEF Next

LEMMA Invariance == Spec => []IInv
BY InitIInv, NextIInv, PTL DEF Spec

-----------------------------------------------------------------------------
(***************************************************************************)
(* The properties.                                                         *)
(***************************************************************************)
\* Every variable holds a value of its type; a member has a tenant and a
\* device a member; no token is two devices' (bootstrap, create_device).
THEOREM ProvisioningTypes == Spec => []ProvisioningTypeOK
<1>1. IInv => ProvisioningTypeOK
  <2> SUFFICES ASSUME IInv PROVE ProvisioningTypeOK
    OBVIOUS
  <2>1. \A id \in Id : devices[id].hash # None => ~devices[id].revoked /\ Free(devices[id].hash, id)
    BY DEF IInv, DevicesInv, NoDevice
  <2>2. hub \in {Down} \cup [at : {"tenant", "members", "devices", "serving"}, i : Nat,
                             spec : Specs, files : File]
    BY DEF IInv, HubInv, Running
  <2> QED
    BY <2>1, <2>2 DEF IInv, DevicesInv, HubInv, TablesInv, ProvisioningTypeOK
<1> QED
  BY <1>1, Invariance, PTL

\* When the hub begins to serve, every device of its specification is let in
\* with the token of its file (bootstrap).
THEOREM BootProvisions == Spec => []Provisioned
<1>1. IInv => Provisioned
  <2> SUFFICES ASSUME IInv, hub.at = "devices", hub.i \notin DOMAIN hub.spec.devices,
                      NEW j \in DOMAIN hub.spec.devices, Wanted(j)
               PROVE  Held(j)
    BY DEF Provisioned
  <2>1. j < hub.i
    BY EntryTypes DEF IInv
  <2> QED
    BY <2>1 DEF IInv, Progress
<1> QED
  BY <1>1, Invariance, PTL

\* No step touches a revoked row (bootstrap, ensure_gateway_device,
\* revoke_device).
THEOREM RevocationLasts == Spec => RevokedForever
<1>1. IInv /\ [Next]_vars =>
        [\A id \in Id : devices[id].revoked => devices'[id] = devices[id]]_vars
  <2> SUFFICES ASSUME IInv, Next, NEW id \in Id, devices[id].revoked
               PROVE  devices'[id] = devices[id]
    OBVIOUS
  <2>1. id \in Used
    BY DEF IInv, DevicesInv, NoDevice
  <2>2. CASE EnsureDevice
    <3>1. PICK u \in Id : /\ u \notin Used \/ u \in Rows(Owner(hub.i), Entry(hub.i).name)
                          /\ \A j \in Id : j # u => devices'[j] = devices[j]
      BY <2>2, EnsureWrites
    <3> QED
      BY <2>1, <3>1 DEF Rows
  <2>3. CASE GatewayStarts
    BY <2>1, <2>3, GatewayStep
  <2>4. CASE \E p \in Member : \/ \E m \in Member, n \in Name : CreateDevice(p, m, n)
                               \/ \E i \in Id : RevokeDevice(p, i)
    BY <2>1, <2>4, DeviceRequestStep
  <2>5. CASE UNCHANGED devices
    BY <2>5
  <2> QED
    BY <2>2, <2>3, <2>4, <2>5
       DEF Next, Boot, Admin, StartHub, EnsureTenant, EnsureMember, MembersDone, SkipDevice,
           BootFails, Serve, Die, Authenticate, NothingToDo, CreateTenant, CreateMember, tables
<1> QED
  BY <1>1, Invariance, PTL DEF Spec, RevokedForever

LEMMA OthersKept ==
  ASSUME NEW tn,
         \A m : m \in members /\ m.tenant = tn <=> m \in members' /\ m.tenant = tn,
         \A m : m \in admins /\ m.tenant = tn <=> m \in admins' /\ m.tenant = tn,
         \A id : id \in Used /\ devices[id].member.tenant = tn
                   <=> id \in Used' /\ devices'[id].member.tenant = tn,
         \A id \in Used : devices[id].member.tenant = tn => devices'[id] = devices[id]
  PROVE  UNCHANGED OfTenant(tn)
<1>1. {m \in members : m.tenant = tn}' = {m \in members : m.tenant = tn}
  OBVIOUS
<1>2. {m \in admins : m.tenant = tn}' = {m \in admins : m.tenant = tn}
  OBVIOUS
<1>3. {j \in Used : devices[j].member.tenant = tn}' = {j \in Used : devices[j].member.tenant = tn}
  OBVIOUS
<1>4. [id \in {j \in Used : devices[j].member.tenant = tn} |-> devices[id]]'
        = [id \in {j \in Used : devices[j].member.tenant = tn} |-> devices[id]]
  BY <1>3
<1> QED
  BY <1>1, <1>2, <1>4 DEF OfTenant

\* A tenant's members and devices change by the requests of its own admins
\* (the admin routes of hub/api.py) and by the start of its own gateway.
THEOREM TenantsStaySeparate == Spec => TenantsAreSeparate
<1>1. IInv /\ [Next]_vars =>
        [hub.at = "serving" =>
           \A tn \in Tenant :
             \/ UNCHANGED OfTenant(tn)
             \/ \E p \in calls \ calls' : p.tenant = tn
             \/ tn = hub.spec.tenant /\ gateway = "waiting" /\ gateway' = "up"]_vars
  <2> SUFFICES ASSUME IInv, IInv', Next, hub.at = "serving", NEW tn \in Tenant,
                      \A p \in calls \ calls' : p.tenant # tn,
                      ~(tn = hub.spec.tenant /\ gateway = "waiting" /\ gateway' = "up")
               PROVE  UNCHANGED OfTenant(tn)
    BY NextIInv
  <2>1. CASE UNCHANGED <<members, admins, devices>>
    BY <2>1, OthersKept DEF Used
  <2>2. CASE \E p \in Member, h \in Handle, admin \in BOOLEAN : CreateMember(p, h, admin)
    <3>1. PICK p \in calls \ calls', m \in Member :
            /\ m.tenant = p.tenant /\ devices' = devices
            /\ members' = members \cup {m} /\ (admins' = admins \/ admins' = admins \cup {m})
      BY <2>2, HandleAssumption DEF CreateMember, Answered, MemberOf, Member
    <3> QED
      BY <3>1, OthersKept DEF Used
  <2>3. CASE GatewayStarts
    <3>1. tn # hub.spec.tenant /\ GatewayMember.tenant = hub.spec.tenant
      BY <2>3 DEF GatewayStarts, GatewayMember
    <3>2. members' = members /\ admins' = admins /\ \A id \in Used : devices'[id] = devices[id]
      BY <2>3, GatewayStep DEF GatewayStarts
    <3>3. PICK id \in Target(GatewayMember, "gateway") :
            devices' = IF id \in Used
                         THEN devices
                         ELSE [devices EXCEPT ![id] = NewDevice(GatewayMember, "gateway", None)]
      BY <2>3 DEF GatewayStarts
    <3>4. id \in Id /\ DOMAIN devices = Id
      BY <3>3 DEF Target, First, Rows, Used, IInv, DevicesInv
    <3>5. \A j \in Used' : j \in Used \/ devices'[j].member = GatewayMember
      BY <3>3, <3>4 DEF Used, NewDevice
    <3>6. Used \subseteq Used'
      BY <3>2 DEF Used
    <3> QED
      BY <3>1, <3>2, <3>5, <3>6, OthersKept
  <2>4. ASSUME NEW p \in Member,
               \/ \E m \in Member, n \in Name : CreateDevice(p, m, n)
               \/ \E id \in Id : RevokeDevice(p, id)
        PROVE  UNCHANGED OfTenant(tn)
    <3>1. p.tenant # tn /\ members' = members /\ admins' = admins
      BY <2>4 DEF CreateDevice, RevokeDevice, Answered
    <3>2. /\ \A id \in Used : devices'[id] = devices[id] \/ devices[id].member.tenant = p.tenant
          /\ \A id \in Used' : id \notin Used => devices'[id].member.tenant = p.tenant
          /\ \A id \in Used : devices'[id].member = devices[id].member
      BY <2>4, DeviceRequestStep
    <3>3. Used \subseteq Used'
      BY <3>2 DEF Used
    <3> QED
      BY <3>1, <3>2, <3>3, OthersKept
  <2>5. ~EnsureTenant /\ ~EnsureMember /\ ~EnsureDevice
    BY DEF EnsureTenant, EnsureMember, EnsureDevice, AtDevice
  <2> QED
    BY <2>1, <2>2, <2>3, <2>4, <2>5
       DEF Next, Boot, Admin, StartHub, MembersDone, SkipDevice, BootFails, Serve, Die,
           Authenticate, NothingToDo, CreateTenant, tables
<1> QED
  BY <1>1, Invariance, PTL DEF Spec, TenantsAreSeparate

\* A start on tables that have what is asked for writes nothing new (the
\* docstring of bootstrap).
THEOREM StartIsIdempotent == Spec => Idempotent
<1>1. IInv /\ [Next]_vars =>
        [hub.at \in {"tenant", "members", "devices"} /\ Agrees => UNCHANGED tables]_vars
  <2> SUFFICES ASSUME IInv, Next, hub.at \in {"tenant", "members", "devices"}, Agrees
               PROVE  UNCHANGED tables
    OBVIOUS
  <2>1. gateway = "off" /\ calls = {} /\ hub.at # "down"
    BY DEF IInv, HubInv
  <2>2. CASE EnsureTenant
    BY <2>2 DEF EnsureTenant, Agrees, tables
  <2>3. CASE EnsureMember
    BY <2>3 DEF EnsureMember, Agrees, tables
  <2>4. CASE EnsureDevice
    <3> DEFINE m == Owner(hub.i)
               n == Entry(hub.i).name
               t == Secret(hub.i)
    <3>1. /\ m # None /\ t \in Token /\ hub.i \in DOMAIN hub.spec.devices
          /\ UNCHANGED <<tenants, members, admins>>
      BY <2>1, <2>4, EntryTypes, TokenAssumption DEF EnsureDevice, AtDevice, Wanted, IInv
    <3>2. PICK u \in Id : devices[u] = NewDevice(m, n, t)
      BY <2>4, <3>1 DEF EnsureDevice, Agrees, Held
    <3>3. u \in Rows(m, n) /\ u \in Used /\ \A j \in Rows(m, n) : u <= j
      BY <3>1, <3>2 DEF NewDevice, Rows, Used, IInv, DevicesInv
    <3>4. PICK id \in Target(m, n) :
            devices' = [devices EXCEPT ![id] =
                          IF id \in Used THEN [@ EXCEPT !.hash = t] ELSE NewDevice(m, n, t)]
      BY <2>4 DEF EnsureDevice
    <3>5. id \in Rows(m, n) /\ id <= u /\ id \in Id
      BY <3>3, <3>4 DEF Target, First, Rows, Used
    <3>6. id = u
      BY <3>3, <3>5, IdIsInt
    <3>7. id \in Used /\ devices' = [devices EXCEPT ![id].hash = t]
      BY <3>3, <3>4, <3>6
    <3>8. devices[id] \in Device /\ DOMAIN devices = Id
      BY <3>5 DEF IInv, DevicesInv
    <3>9. devices'[id] = NewDevice(m, n, t)
      BY <3>5, <3>7, <3>8 DEF Rows, NewDevice, Device
    <3>10. devices' = devices
      <4>1. \A x \in Id : devices'[x] = devices[x]
        BY <3>2, <3>6, <3>7, <3>8, <3>9
      <4> QED
        BY <4>1, <3>7 DEF IInv, DevicesInv
    <3> QED
      BY <3>1, <3>10 DEF tables
  <2>5. ~GatewayStarts /\ ~(\E p \in Member : Admin(p))
    BY <2>1 DEF GatewayStarts, Admin, NothingToDo, CreateTenant, CreateMember, CreateDevice,
                RevokeDevice, Answered
  <2> QED
    BY <2>2, <2>3, <2>4, <2>5
       DEF Next, Boot, StartHub, MembersDone, SkipDevice, BootFails, Serve, Die, Authenticate
<1> QED
  BY <1>1, Invariance, PTL DEF Spec, Idempotent
=============================================================================
