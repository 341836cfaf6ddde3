---------------------------- MODULE CfgMgrProofs ----------------------------
(***************************************************************************)
(* What holds of the configuration manager for any alarms, channels,       *)
(* settings, threads and clients, whatever fails and wherever it stops.    *)
(***************************************************************************)
EXTENDS CfgMgr, TLAPS

(* The lock says who is in an update, and nobody is when the server is     *)
(* down.                                                                   *)
LockInv ==
  /\ \A t \in Threads : at[t] # "idle" <=> lock = t
  /\ ~up => lock = "none"

(* What is in memory is one version.                                       *)
MemoryInv ==
  up => /\ json_str = root /\ running = root.cfg
        /\ in_mem_revision = root.revision

(* The temporary file at each step of an update.                           *)
TmpInv ==
  \A t \in Threads :
    /\ at[t] \in {"write", "sync", "rename"} => tmp.version = root
    /\ at[t] \in {"sync", "rename"} => tmp.whole
    /\ at[t] = "rename" => tmp.synced
    /\ at[t] = "return" /\ stored => file.version = root

(* What a power failure may bring back is complete and no newer than the   *)
(* file, and the file no newer than the memory.                            *)
FileInv ==
  /\ file \in entries
  /\ \A f \in entries : f.whole /\ f.synced
  /\ \A f \in entries :
       /\ f.version.revision <= file.version.revision
       /\ f.version.revision = file.version.revision => f.version = file.version
  /\ up => /\ file.version.revision <= root.revision
           /\ file.version.revision = root.revision => file.version = root
           /\ lock = "none" /\ stored => file.version = root

(* Revisions are counted from the latest update that returned.             *)
CountInv ==
  up => root.revision = IF lock = "none" THEN answered ELSE answered + 1

(* No client has a revision that is still to be given out, and what it has *)
(* under a revision is what the server and the files have under it.        *)
ClientInv ==
  \A c \in Clients :
    /\ client[c].at = "polling" => client[c].revision = client[c].got.revision
    /\ ~lost =>
         /\ client[c].got.revision <= answered
         /\ \A f \in entries :
              client[c].got.revision = f.version.revision =>
                client[c].got = f.version
         /\ up /\ client[c].got.revision = root.revision =>
              client[c].got = root

Inv == /\ TypeOK /\ LockInv /\ MemoryInv /\ TmpInv /\ FileInv /\ CountInv
       /\ ClientInv
-----------------------------------------------------------------------------
LEMMA InitInv == Init => Inv
<1> SUFFICES ASSUME Init
             PROVE  Inv
  OBVIOUS
<1>1. root \in Version /\ root.revision = 0
  BY DEF Init, Version
<1>2. /\ file \in File /\ file.version = root /\ file.whole /\ file.synced
      /\ tmp \in File /\ entries = {file}
  BY <1>1 DEF Init, File, Opened
<1>3. \A c \in Clients : client[c] = NewClient /\ client[c] \in ClientRecord
  BY <1>1 DEF Init, NewClient, ClientRecord
<1>4. TypeOK
  <2>1. client \in [Clients -> ClientRecord]
    BY <1>3 DEF Init
  <2>2. running \in Config /\ in_mem_revision \in Nat /\ answered \in Nat
    BY <1>1 DEF Init, Version
  <2> QED
    BY <1>1, <1>2, <2>1, <2>2 DEF Init, TypeOK, Ats
<1>5. LockInv
  BY CfgMgrAssumption DEF Init, LockInv
<1>6. MemoryInv /\ TmpInv /\ CountInv
  BY <1>1 DEF Init, MemoryInv, TmpInv, CountInv
<1>7. FileInv
  BY <1>1, <1>2 DEF Init, FileInv, Version
<1>8. ClientInv
  BY <1>1, <1>2, <1>3 DEF Init, ClientInv, NewClient
<1> QED
  BY <1>4, <1>5, <1>6, <1>7, <1>8 DEF Inv

(* The version that an update of item i to s makes of version v.           *)
LEMMA ChangedVersion ==
  ASSUME NEW v \in Version, NEW i \in Items, NEW s \in Settings
  PROVE  LET w == IncRevision([v EXCEPT !.cfg[i] = s])
         IN  /\ w \in Version
             /\ w.cfg = [v.cfg EXCEPT ![i] = s]
             /\ w.revision = v.revision + 1
<1> DEFINE c == [v.cfg EXCEPT ![i] = s]
<1>1. c \in Config /\ v.revision \in Nat
  BY DEF Version, Config
<1>2. v = [cfg |-> v.cfg, revision |-> v.revision]
  BY DEF Version
<1>3. [v EXCEPT !.cfg[i] = s] = [cfg |-> c, revision |-> v.revision]
  BY <1>2
<1> HIDE DEF c
<1>4. IncRevision([v EXCEPT !.cfg[i] = s]) = [cfg |-> c, revision |-> v.revision + 1]
  <2>1. IncRevision([cfg |-> c, revision |-> v.revision]) =
          [cfg |-> c, revision |-> v.revision + 1]
    BY DEF IncRevision
  <2> QED
    BY <1>3, <2>1
<1> QED
  BY <1>1, <1>4 DEF Version, c

(* An update in memory.                                                    *)
LEMMA UpdateInv ==
  ASSUME Inv, NEW t \in Threads, NEW i \in Items, NEW s \in Settings,
         Update(t, i, s)
  PROVE  Inv'
<1> USE DEF Inv
<1>0. root \in Version /\ running \in Config /\ lock = "none" /\ up
  BY DEF TypeOK, Update
<1>1. /\ root' \in Version /\ json_str' = root'
      /\ root'.cfg = [root.cfg EXCEPT ![i] = s]
      /\ root'.revision = root.revision + 1
      /\ in_mem_revision' = root'.revision
      /\ running' = [running EXCEPT ![i] = s]
  BY <1>0, ChangedVersion DEF Update, Regenerate
<1>2. /\ lock' = t /\ at' = [at EXCEPT ![t] = "open"]
      /\ up' = up /\ tmp' = tmp /\ file' = file /\ entries' = entries
      /\ client' = client /\ stored' = stored /\ answered' = answered
      /\ lost' = lost
  BY DEF Update, disk
<1>3. root.revision \in Nat /\ root'.revision \in Nat /\ running' \in Config
  BY <1>0, <1>1 DEF Version, Config
<1>4. TypeOK'
  BY <1>1, <1>2, <1>3 DEF TypeOK, Ats
<1>5. LockInv'
  BY <1>0, <1>2, CfgMgrAssumption DEF LockInv, TypeOK
<1>6. MemoryInv'
  BY <1>0, <1>1 DEF MemoryInv
<1>7. TmpInv'
  BY <1>0, <1>2, CfgMgrAssumption DEF LockInv, TmpInv, TypeOK
<1>8. FileInv'
  <2>1. /\ lock' # "none"
        /\ file.version.revision \in Nat
    BY <1>2, CfgMgrAssumption DEF TypeOK, File, Version
  <2> QED
    BY <1>0, <1>1, <1>2, <1>3, <2>1 DEF FileInv
<1>9. CountInv'
  BY <1>0, <1>1, <1>2, CfgMgrAssumption DEF CountInv
<1>10. ClientInv'
  <2>1. answered = root.revision /\ \A c \in Clients : client[c].got.revision \in Nat
    BY <1>0 DEF CountInv, TypeOK, ClientRecord, Version
  <2> QED
    BY <1>0, <1>1, <1>2, <1>3, <2>1 DEF ClientInv
<1> QED
  BY <1>4, <1>5, <1>6, <1>7, <1>8, <1>9, <1>10

(* A step of atomic_file_update leaves memory, lock and clients alone.     *)
LEMMA GoFrame ==
  ASSUME Inv, NEW t \in Threads, NEW from \in Ats \ {"idle"},
         NEW to \in Ats \ {"idle"}, Go(t, from, to)
  PROVE  /\ up /\ up' = up /\ lock = t /\ lock' = lock
         /\ at[t] = from /\ at' = [at EXCEPT ![t] = to] /\ at' \in [Threads -> Ats]
         /\ \A u \in Threads : at[u] # "idle" <=> u = t
         /\ root' = root /\ json_str' = json_str /\ running' = running
         /\ in_mem_revision' = in_mem_revision /\ client' = client
         /\ answered' = answered /\ lost' = lost
         /\ LockInv' /\ MemoryInv' /\ CountInv'
<1>1. /\ up /\ up' = up /\ lock' = lock
      /\ at[t] = from /\ at' = [at EXCEPT ![t] = to]
      /\ root' = root /\ json_str' = json_str /\ running' = running
      /\ in_mem_revision' = in_mem_revision /\ client' = client
      /\ answered' = answered /\ lost' = lost
  BY DEF Go, memory
<1>2. /\ lock = t /\ at' \in [Threads -> Ats]
      /\ \A u \in Threads : at[u] # "idle" <=> u = t
  BY <1>1 DEF Inv, LockInv, TypeOK, Ats
<1>3. LockInv' /\ MemoryInv' /\ CountInv'
  BY <1>1, <1>2 DEF Inv, TypeOK, LockInv, MemoryInv, CountInv
<1> QED
  BY <1>1, <1>2, <1>3

LEMMA OpenInv ==
  ASSUME Inv, NEW t \in Threads, Open(t)
  PROVE  Inv'
<1>1. Go(t, "open", "write")
  BY DEF Open
<1>2. /\ tmp' = Opened(json_str)
      /\ file' = file /\ entries' = entries /\ stored' = stored
  BY DEF Open
<1>3. tmp' \in File /\ tmp'.version = root
  BY <1>1, <1>2, GoFrame DEF Inv, TypeOK, MemoryInv, Opened, File, Ats
<1>4. TypeOK' /\ LockInv' /\ MemoryInv' /\ CountInv'
  BY <1>1, <1>2, <1>3, GoFrame DEF Inv, TypeOK, Ats
<1>5. TmpInv'
  BY <1>1, <1>2, <1>3, GoFrame DEF Inv, TmpInv, TypeOK, Ats
<1>6. FileInv' /\ ClientInv'
  BY <1>1, <1>2, GoFrame DEF Inv, FileInv, ClientInv, Ats
<1> QED
  BY <1>4, <1>5, <1>6 DEF Inv

LEMMA WriteInv ==
  ASSUME Inv, NEW t \in Threads, Write(t)
  PROVE  Inv'
<1>1. Go(t, "write", "sync")
  BY DEF Write
<1>2. /\ tmp' = [tmp EXCEPT !.whole = TRUE]
      /\ file' = file /\ entries' = entries /\ stored' = stored
  BY DEF Write
<1>3. tmp' \in File /\ tmp'.version = tmp.version /\ tmp'.whole
  BY <1>2 DEF Inv, TypeOK, File
<1>4. TypeOK' /\ LockInv' /\ MemoryInv' /\ CountInv'
  BY <1>1, <1>2, <1>3, GoFrame DEF Inv, TypeOK, Ats
<1>5. TmpInv'
  BY <1>1, <1>2, <1>3, GoFrame DEF Inv, TmpInv, TypeOK, Ats
<1>6. FileInv' /\ ClientInv'
  BY <1>1, <1>2, GoFrame DEF Inv, FileInv, ClientInv, Ats
<1> QED
  BY <1>4, <1>5, <1>6 DEF Inv

LEMMA SyncInv ==
  ASSUME Inv, NEW t \in Threads, Sync(t)
  PROVE  Inv'
<1>1. Go(t, "sync", "rename")
  BY DEF Sync
<1>2. /\ tmp' = [tmp EXCEPT !.synced = TRUE]
      /\ file' = file /\ entries' = entries /\ stored' = stored
  BY DEF Sync
<1>3. /\ tmp' \in File /\ tmp'.version = tmp.version
      /\ tmp'.whole = tmp.whole /\ tmp'.synced
  BY <1>2 DEF Inv, TypeOK, File
<1>4. TypeOK' /\ LockInv' /\ MemoryInv' /\ CountInv'
  BY <1>1, <1>2, <1>3, GoFrame DEF Inv, TypeOK, Ats
<1>5. TmpInv'
  BY <1>1, <1>2, <1>3, GoFrame DEF Inv, TmpInv, TypeOK, Ats
<1>6. FileInv' /\ ClientInv'
  BY <1>1, <1>2, GoFrame DEF Inv, FileInv, ClientInv, Ats
<1> QED
  BY <1>4, <1>5, <1>6 DEF Inv

LEMMA RenameInv ==
  ASSUME Inv, NEW t \in Threads, Rename(t)
  PROVE  Inv'
<1>1. Go(t, "rename", "return")
  BY DEF Rename
<1>2. /\ tmp' = tmp /\ file' = tmp /\ entries' = entries \cup {tmp}
      /\ stored' = TRUE
  BY DEF Rename
<1>3. tmp.version = root /\ tmp.whole /\ tmp.synced /\ tmp \in File
  BY <1>1, GoFrame DEF Inv, TmpInv, TypeOK, Ats
<1>4. TypeOK' /\ LockInv' /\ MemoryInv' /\ CountInv'
  BY <1>1, <1>2, <1>3, GoFrame DEF Inv, TypeOK, Ats
<1>5. TmpInv'
  BY <1>1, <1>2, <1>3, GoFrame DEF Inv, TmpInv, TypeOK, Ats
<1>6. FileInv'
  <2>1. \A f \in entries :
          /\ f.version.revision \in Nat
          /\ f.version.revision <= root.revision
          /\ f.version.revision = root.revision => f.version = root
    BY <1>1, GoFrame DEF Inv, FileInv, TypeOK, File, Version, Ats
  <2>2. root.revision \in Nat /\ root' = root /\ lock' # "none"
    BY <1>1, CfgMgrAssumption, GoFrame DEF Inv, TypeOK, Version, Ats
  <2>3. \A f \in entries' : f = tmp \/ f \in entries
    BY <1>2
  <2>4. \A f \in entries : f.whole /\ f.synced
    BY DEF Inv, FileInv
  <2>5. \A f \in entries' :
          /\ f.version.revision <= root.revision
          /\ f.version.revision = root.revision => f.version = root
          /\ f.whole /\ f.synced
    BY <1>3, <2>1, <2>2, <2>3, <2>4
  <2>6. file' \in entries' /\ file'.version = root /\ root.revision <= root.revision
    BY <1>2, <1>3, <2>2
  <2> QED
    BY <1>2, <1>3, <2>2, <2>5, <2>6 DEF FileInv
<1>7. ClientInv'
  <2>1. /\ up /\ up' = up /\ root' = root /\ client' = client
        /\ answered' = answered /\ lost' = lost
    BY <1>1, GoFrame DEF Ats
  <2>2. \A f \in entries' : f = tmp \/ f \in entries
    BY <1>2
  <2> QED
    BY <1>3, <2>1, <2>2 DEF Inv, ClientInv
<1> QED
  BY <1>4, <1>5, <1>6, <1>7 DEF Inv

LEMMA FailsInv ==
  ASSUME Inv, NEW t \in Threads, Fails(t)
  PROVE  Inv'
<1>1. PICK from \in {"open", "write", "sync", "rename"} : Go(t, from, "return")
  BY DEF Fails
<1>2. /\ tmp' = tmp /\ file' = file /\ entries' = entries /\ stored' = FALSE
  BY DEF Fails, disk
<1>3. TypeOK' /\ LockInv' /\ MemoryInv' /\ CountInv'
  BY <1>1, <1>2, GoFrame DEF Inv, TypeOK, Ats
<1>4. TmpInv'
  BY <1>1, <1>2, GoFrame DEF Inv, TmpInv, TypeOK, Ats
<1>5. FileInv' /\ ClientInv'
  BY <1>1, <1>2, GoFrame DEF Inv, FileInv, ClientInv, Ats
<1> QED
  BY <1>3, <1>4, <1>5 DEF Inv

LEMMA ReturnInv ==
  ASSUME Inv, NEW t \in Threads, Return(t)
  PROVE  Inv'
<1>1. /\ up /\ at[t] = "return" /\ at' = [at EXCEPT ![t] = "idle"]
      /\ lock' = "none" /\ answered' = root.revision /\ up' = up
      /\ root' = root /\ json_str' = json_str /\ running' = running
      /\ in_mem_revision' = in_mem_revision /\ client' = client
      /\ tmp' = tmp /\ file' = file /\ entries' = entries
      /\ stored' = stored /\ lost' = lost
  BY DEF Return, memory, disk
<1>2. /\ lock = t /\ root.revision = answered + 1
      /\ root.revision \in Nat /\ answered \in Nat
      /\ \A u \in Threads : at[u] # "idle" <=> u = t
  BY <1>1, CfgMgrAssumption DEF Inv, LockInv, CountInv, TypeOK, Version
<1>3. TypeOK' /\ LockInv' /\ MemoryInv' /\ CountInv'
  BY <1>1, <1>2, CfgMgrAssumption
     DEF Inv, TypeOK, Ats, LockInv, MemoryInv, CountInv
<1>4. TmpInv' /\ FileInv'
  BY <1>1, <1>2 DEF Inv, TmpInv, FileInv, TypeOK
<1>5. ClientInv'
  <2>1. \A c \in Clients : client[c].got.revision \in Nat
    BY DEF Inv, TypeOK, ClientRecord, Version
  <2> QED
    BY <1>1, <1>2, <2>1 DEF Inv, ClientInv
<1> QED
  BY <1>3, <1>4, <1>5 DEF Inv
-----------------------------------------------------------------------------
LEMMA StopInv ==
  ASSUME Inv, Stop, UNCHANGED <<tmp, stored>>,
         file' \in entries, entries' \in SUBSET entries, file' \in entries',
         \A f \in entries' :
           /\ f.version.revision <= file'.version.revision
           /\ f.version.revision = file'.version.revision =>
                f.version = file'.version
  PROVE  Inv'
<1>1. /\ up' = FALSE /\ lock' = "none" /\ at' = [t \in Threads |-> "idle"]
      /\ root' = root /\ json_str' = json_str /\ running' = running
      /\ in_mem_revision' = in_mem_revision /\ client' = client
      /\ answered' = answered /\ lost' = lost /\ tmp' = tmp /\ stored' = stored
  BY DEF Stop, memory
<1>2. TypeOK' /\ LockInv' /\ MemoryInv' /\ CountInv' /\ TmpInv'
  BY <1>1, CfgMgrAssumption
     DEF Inv, TypeOK, Ats, LockInv, MemoryInv, CountInv, TmpInv
<1>3. FileInv' /\ ClientInv'
  BY <1>1 DEF Inv, FileInv, ClientInv
<1> QED
  BY <1>2, <1>3 DEF Inv

LEMMA KillInv ==
  ASSUME Inv, Kill
  PROVE  Inv'
BY StopInv DEF Kill, disk, Inv, FileInv

LEMMA PowerFailsInv ==
  ASSUME Inv, PowerFails
  PROVE  Inv' /\ file' \in entries /\ entries' = {file'}
<1>1. file' \in entries /\ entries' = {file'}
  BY DEF PowerFails, Inv, FileInv
<1>2. file'.version.revision \in Nat
  BY <1>1 DEF Inv, TypeOK, File, Version
<1> QED
  BY <1>1, <1>2, StopInv DEF PowerFails

LEMMA DirectoryWrittenInv ==
  ASSUME Inv, DirectoryWritten
  PROVE  Inv'
<1>1. /\ up' = up /\ lock' = lock /\ at' = at /\ entries' = {file}
      /\ root' = root /\ json_str' = json_str /\ running' = running
      /\ in_mem_revision' = in_mem_revision /\ client' = client
      /\ answered' = answered /\ lost' = lost /\ tmp' = tmp /\ stored' = stored
      /\ file' = file
  BY DEF DirectoryWritten, memory
<1>2. TypeOK' /\ LockInv' /\ MemoryInv' /\ CountInv' /\ TmpInv'
  BY <1>1 DEF Inv, TypeOK, LockInv, MemoryInv, CountInv, TmpInv
<1>3. FileInv' /\ ClientInv'
  BY <1>1 DEF Inv, FileInv, ClientInv, TypeOK, File, Version
<1> QED
  BY <1>2, <1>3 DEF Inv

LEMMA LoadedItems ==
  ASSUME NEW v \in Version
  PROVE  LoadItems(v) = v.cfg
BY DEF LoadItems, ReadItem, Version, Config

LEMMA StartInv ==
  ASSUME Inv, Start
  PROVE  Inv'
<1>0. LoadItems(file.version) = file.version.cfg
  BY LoadedItems DEF Inv, TypeOK, File
<1>1. /\ up' = TRUE /\ root' = file.version /\ json_str' = file.version
      /\ running' = file.version.cfg
      /\ in_mem_revision' = file.version.revision
      /\ stored' = TRUE /\ answered' = file.version.revision
      /\ lost' = (lost \/ file.version.revision < answered)
      /\ lock' = lock /\ at' = at /\ client' = client
      /\ tmp' = tmp /\ file' = file /\ entries' = entries /\ ~up
  BY <1>0 DEF Start, disk
<1>2. /\ lock = "none" /\ \A t \in Threads : at[t] = "idle"
      /\ file.version \in Version /\ file.version.revision \in Nat
      /\ file.version.cfg \in Config /\ answered \in Nat
  BY <1>1, CfgMgrAssumption DEF Inv, LockInv, TypeOK, File, Version
<1>3. TypeOK' /\ LockInv' /\ MemoryInv' /\ CountInv' /\ TmpInv'
  BY <1>1, <1>2 DEF Inv, TypeOK, LockInv, MemoryInv, CountInv, TmpInv
<1>4. FileInv'
  BY <1>1, <1>2 DEF Inv, FileInv
<1>5. ClientInv'
  <2>1. \A c \in Clients : client[c].got.revision \in Nat
    BY DEF Inv, TypeOK, ClientRecord, Version
  <2>2. file \in entries
    BY DEF Inv, FileInv
  <2>3. ~lost' => ~lost /\ answered <= file.version.revision
    <3>1. ~lost' => ~lost /\ ~(file.version.revision < answered)
      BY <1>1
    <3> QED
      BY <1>2, <3>1
  <2> QED
    BY <1>1, <1>2, <2>1, <2>2, <2>3 DEF Inv, ClientInv
<1> QED
  BY <1>3, <1>4, <1>5 DEF Inv
-----------------------------------------------------------------------------
(* A step of a client changes its own record.                              *)
LEMMA BecomesInv ==
  ASSUME Inv, NEW c \in Clients, NEW r \in ClientRecord, Becomes(c, r),
         r.at = "polling" => r.revision = r.got.revision,
         r.got = client[c].got \/ (up /\ lock = "none" /\ r.got = root)
  PROVE  Inv'
<1>1. /\ up' = up /\ lock' = lock /\ at' = at /\ entries' = entries
      /\ root' = root /\ json_str' = json_str /\ running' = running
      /\ in_mem_revision' = in_mem_revision
      /\ client' = [client EXCEPT ![c] = r]
      /\ answered' = answered /\ lost' = lost /\ tmp' = tmp /\ stored' = stored
      /\ file' = file
  BY DEF Becomes, memory, disk
<1>2. TypeOK' /\ LockInv' /\ MemoryInv' /\ CountInv' /\ TmpInv' /\ FileInv'
  BY <1>1 DEF Inv, TypeOK, LockInv, MemoryInv, CountInv, TmpInv, FileInv
<1>3. ClientInv'
  <2>1. up /\ lock = "none" =>
          /\ root.revision = answered /\ answered \in Nat
          /\ \A f \in entries : f.version.revision = root.revision =>
                                f.version = root
    <3>1. file.version.revision \in Nat /\ root.revision \in Nat /\ answered \in Nat
      BY DEF Inv, TypeOK, File, Version
    <3>2. \A f \in entries : f.version.revision \in Nat
      BY DEF Inv, TypeOK, File, Version
    <3> QED
      BY <3>1, <3>2 DEF Inv, CountInv, FileInv
  <2>2. client' \in [Clients -> ClientRecord] /\ client \in [Clients -> ClientRecord]
    BY <1>2 DEF Inv, TypeOK
  <2> QED
    BY <1>1, <2>1, <2>2 DEF Inv, ClientInv
<1> QED
  BY <1>2, <1>3 DEF Inv

LEMMA ClientStepInv ==
  ASSUME Inv, NEW c \in Clients, Client(c) \/ LoadFails(c) \/ Retry(c)
  PROVE  Inv'
<1>0. client[c] \in ClientRecord /\ root \in Version
  BY DEF Inv, TypeOK
<1>1. CASE ServeConfig(c)
  <2> DEFINE r == [client[c] EXCEPT !.at = "populate", !.got = json_str]
  <2>1. json_str = root /\ up /\ lock = "none" /\ Becomes(c, r)
    BY <1>1 DEF ServeConfig, Inv, MemoryInv
  <2>2. r \in ClientRecord /\ r.at = "populate" /\ r.got = root
    BY <1>0, <2>1 DEF ClientRecord
  <2> QED
    BY <2>1, <2>2, BecomesInv
<1>2. CASE Populate(c)
  <2> DEFINE r == [client[c] EXCEPT !.at = "polling",
                                    !.revision = client[c].got.revision]
  <2>1. Becomes(c, r)
    BY <1>2 DEF Populate
  <2>2. r \in ClientRecord /\ r.revision = r.got.revision /\ r.got = client[c].got
    BY <1>0 DEF ClientRecord, Version
  <2> QED
    BY <2>1, <2>2, BecomesInv
<1>3. CASE ServeStatus(c) \/ LoadFails(c) \/ Retry(c)
  <2>1. PICK a \in {"loading", "failed"} : Becomes(c, [client[c] EXCEPT !.at = a])
    BY <1>3 DEF ServeStatus, LoadFails, Retry
  <2> DEFINE r == [client[c] EXCEPT !.at = a]
  <2>2. r \in ClientRecord /\ r.at # "polling" /\ r.got = client[c].got
    BY <1>0 DEF ClientRecord
  <2> QED
    BY <2>1, <2>2, BecomesInv
<1> QED
  BY <1>1, <1>2, <1>3 DEF Client
-----------------------------------------------------------------------------
LEMMA NextInv == Inv /\ [Next]_vars => Inv'
<1> SUFFICES ASSUME Inv, [Next]_vars
             PROVE  Inv'
  OBVIOUS
<1>1. ASSUME NEW t \in Threads, Steps(t)
      PROVE  Inv'
  BY <1>1, OpenInv, WriteInv, SyncInv, RenameInv, FailsInv, ReturnInv DEF Steps
<1>2. CASE UNCHANGED vars
  BY <1>2 DEF vars, Inv, TypeOK, LockInv, MemoryInv, TmpInv, FileInv, CountInv,
              ClientInv
<1> QED
  BY <1>1, <1>2, UpdateInv, KillInv, PowerFailsInv, DirectoryWrittenInv,
     StartInv, ClientStepInv DEF Next

LEMMA SpecInv == Spec => []Inv
BY InitInv, NextInv, PTL DEF Spec

(* Memory, files and clients keep their types.                             *)
THEOREM CfgMgrTyping == Spec => []TypeOK
<1>1. Inv => TypeOK
  BY DEF Inv
<1> QED
  BY <1>1, SpecInv, PTL

(* The file that the next start reads is complete, whatever step of an     *)
(* update fails and wherever the server stops or the power goes.           *)
THEOREM FileStaysWhole == Spec => []FileIsWhole
<1>1. Inv => FileIsWhole
  BY DEF Inv, FileInv, FileIsWhole
<1> QED
  BY <1>1, SpecInv, PTL

(* A save that succeeds saves the updates whose own save failed as well.   *)
THEOREM SaveIsComplete == Spec => []StoredIsComplete
<1>1. Inv => StoredIsComplete
  <2> SUFFICES ASSUME Inv, up, lock = "none", stored
               PROVE  file.version = [cfg |-> running, revision |-> in_mem_revision]
    BY DEF StoredIsComplete
  <2>1. file.version = root /\ running = root.cfg /\ in_mem_revision = root.revision
    BY DEF Inv, FileInv, MemoryInv
  <2>2. root \in Version
    BY DEF Inv, TypeOK
  <2> QED
    BY <2>1, <2>2 DEF Version
<1> QED
  BY <1>1, SpecInv, PTL

(* As long as no restart has undone an update that had returned, a client  *)
(* with the revision of the server has its configuration.                  *)
THEOREM RevisionsIdentify == Spec => []RevisionIdentifies
<1>1. Inv => RevisionIdentifies
  BY DEF Inv, MemoryInv, ClientInv, RevisionIdentifies
<1> QED
  BY <1>1, SpecInv, PTL
-----------------------------------------------------------------------------
Saved == {f.version.cfg : f \in entries}

(* The configuration manager implements ConfigStore: a restart brings back *)
(* a configuration that was in force as a whole.                           *)
THEOREM RestartsBringBackOne == Spec => StoreSpec
<1> USE DEF Saved
<1>1. Init => Store!Init
  BY DEF Init, Store!Init, Config
<1>2. Inv /\ Inv' /\ [Next]_vars => [Store!Next]_(Store!vars)
  <2> SUFFICES ASSUME Inv, Inv', [Next]_vars
               PROVE  [Store!Next]_(Store!vars)
    OBVIOUS
  <2>1. ASSUME NEW t \in Threads, NEW i \in Items, NEW s \in Settings,
               Update(t, i, s)
        PROVE  Store!Update(i, s)
    BY <2>1 DEF Update, disk, Store!Update
  <2>2. ASSUME NEW t \in Threads, Rename(t)
        PROVE  Store!Save
    <3>1. /\ running' = running /\ entries' = entries \cup {tmp}
          /\ tmp.version = root /\ running = root.cfg
      BY <2>2 DEF Rename, Go, memory, Inv, TmpInv, MemoryInv
    <3>2. Saved' = Saved \cup {running}
      BY <3>1
    <3> QED
      BY <3>1, <3>2 DEF Store!Save
  <2>3. ASSUME NEW t \in Threads,
               Open(t) \/ Write(t) \/ Sync(t) \/ Fails(t) \/ Return(t)
        PROVE  UNCHANGED Store!vars
    BY <2>3 DEF Open, Write, Sync, Fails, Return, Go, memory, disk, Store!vars
  <2>4. CASE Kill
    BY <2>4 DEF Kill, Stop, memory, disk, Store!vars
  <2>5. CASE PowerFails \/ DirectoryWritten
    <3>1. /\ running' = running
          /\ entries' \in SUBSET entries /\ entries' # {}
      BY <2>5, PowerFailsInv
         DEF PowerFails, Stop, DirectoryWritten, memory, Inv, FileInv
    <3>2. Saved' \in (SUBSET Saved) \ {{}}
      BY <3>1
    <3>3. Store!Settle
      BY <3>1, <3>2 DEF Store!Settle
    <3> QED
      BY <3>3 DEF Store!Next
  <2>6. CASE Start
    <3>1. /\ running' = file.version.cfg /\ entries' = entries
          /\ file \in entries
      BY <2>6, LoadedItems DEF Start, disk, Inv, FileInv, TypeOK, File
    <3>2. Store!Restart
      BY <3>1 DEF Store!Restart
    <3> QED
      BY <3>2 DEF Store!Next
  <2>7. ASSUME NEW c \in Clients, Client(c) \/ LoadFails(c) \/ Retry(c)
        PROVE  UNCHANGED Store!vars
    BY <2>7 DEF Client, ServeConfig, Populate, ServeStatus, LoadFails, Retry,
                Becomes, memory, disk, Store!vars
  <2>8. CASE UNCHANGED vars
    BY <2>8 DEF vars, Store!vars
  <2> QED
    BY <2>1, <2>2, <2>3, <2>4, <2>5, <2>6, <2>7, <2>8
       DEF Next, Steps, Store!Next
<1> QED
  BY <1>1, <1>2, SpecInv, PTL DEF Spec, StoreSpec, Store!Spec
=============================================================================
