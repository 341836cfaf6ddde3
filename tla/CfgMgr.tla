------------------------------- MODULE CfgMgr -------------------------------
(***************************************************************************)
(* The configuration manager, src/main/cfg_mgr.c with                      *)
(* src/utils/atomic_file_update.c, and the clients that hold a copy of the *)
(* configuration, the HMI of src/hmi_base.  An update, by the web or the   *)
(* main thread, runs under the write lock of _jroot: the JSON tree, the    *)
(* running alarm or channel, the revision and the printed string change in *)
(* memory, which nobody can look at before the lock is released; the steps *)
(* of atomic_file_update follow, each of which may fail, and the server or *)
(* the machine may stop after each of them.                                *)
(***************************************************************************)
EXTENDS Integers

CONSTANTS
  Items,        (* the alarms and channels that can be configured          *)
  Settings,     (* the configurations of one of them                       *)
  Threads,      (* the threads that update: web and main                   *)
  Clients,      (* HMIs                                                    *)
  MaxRevision   (* bound on the revision                                   *)

ASSUME CfgMgrAssumption ==
  /\ MaxRevision \in Nat
  /\ "none" \notin Threads

VARIABLES
  root,      (* _jroot, a version: the configuration and its revision      *)
  json_str,  (* _json_str, the version that was printed last               *)
  in_mem_revision,
  running,   (* the configuration of the alarm and channel managers        *)
  lock,      (* who holds _jroot_lock for writing, or "none"               *)
  at,        (* where each thread is in its update                         *)
  up,        (* is the server running?                                     *)
  tmp,       (* the temporary file                                         *)
  file,      (* the configuration file                                     *)
  entries,   (* the files the directory may show after a power failure     *)
  client,    (* what each client has and does                              *)
  stored,    (* history: did atomic_file_update succeed the last time?     *)
  answered,  (* history: the revision of the latest update that returned   *)
  lost       (* history: has a restart undone an update that had returned? *)

memory == <<root, json_str, in_mem_revision, running>>
disk   == <<tmp, file, entries>>
vars   == <<root, json_str, in_mem_revision, running, lock, at, up, tmp, file,
            entries, client, stored, answered, lost>>

Config  == [Items -> Settings]
Version == [cfg : Config, revision : Nat]

(* A file: the version that was to be written to it, whether all of it has *)
(* been written, and whether that would survive a power failure.           *)
File == [version : Version, whole : BOOLEAN, synced : BOOLEAN]

Opened(v) == [version |-> v, whole |-> FALSE, synced |-> FALSE]

(* The HMI first loads a configuration.  No revision is -1.                *)
NewClient == [at |-> "loading", revision |-> -1, got |-> root]

Init ==
  /\ \E c \in Config : root = [cfg |-> c, revision |-> 0]
  /\ json_str = root /\ in_mem_revision = 0 /\ running = root.cfg
  /\ lock = "none" /\ at = [t \in Threads |-> "idle"]
  /\ up = TRUE
  /\ tmp = Opened(root)
  /\ file = [version |-> root, whole |-> TRUE, synced |-> TRUE]
  /\ entries = {file}
  /\ client = [c \in Clients |-> NewClient]
  /\ stored = TRUE /\ answered = 0 /\ lost = FALSE
-----------------------------------------------------------------------------
(* The part of an update that happens in memory.                           *)

(* Mutant: the revision is not counted up.                                 *)
IncRevisionForgotten(v) == v

(* cfg_mgr_inc_revision                                                    *)
IncRevision(v) == [v EXCEPT !.revision = @ + 1]

(* Mutant: the string that is saved and served is printed only afterwards. *)
RegenerateTooEarly(v) == root

(* cfg_mgr_regenerate_in_memory_string                                     *)
Regenerate(v) == v

(* cfg_mgr_update_alarm_cfg, cfg_mgr_update_channel_cfg and                *)
(* cfg_mgr_update_lookup_table, up to the call of atomic_file_update.  An  *)
(* unknown alarm or channel changes nothing.                               *)
Update(t, i, s) ==
  LET changed == IncRevision([root EXCEPT !.cfg[i] = s])
  IN  /\ up /\ lock = "none" /\ at[t] = "idle"
      /\ root.revision < MaxRevision
      /\ lock' = t /\ at' = [at EXCEPT ![t] = "open"]
      /\ root' = changed
      /\ running' = [running EXCEPT ![i] = s]
      /\ in_mem_revision' = changed.revision
      /\ json_str' = Regenerate(changed)
      /\ UNCHANGED <<up, disk, client, stored, answered, lost>>
-----------------------------------------------------------------------------
(* atomic_file_update                                                      *)

Go(t, from, to) ==
  /\ up /\ at[t] = from
  /\ at' = [at EXCEPT ![t] = to]
  /\ UNCHANGED <<memory, lock, up, client, answered, lost>>

(* unlink and open                                                         *)
Open(t) ==
  /\ Go(t, "open", "write")
  /\ tmp' = Opened(json_str)
  /\ UNCHANGED <<file, entries, stored>>

(* cfg_mgr_atomic_file_update_cb writes all of the string ...              *)
Write(t) ==
  /\ Go(t, "write", "sync")
  /\ tmp' = [tmp EXCEPT !.whole = TRUE]
  /\ UNCHANGED <<file, entries, stored>>

(* Mutant: the file takes its place before it is on disk.                  *)
SyncSkipped(t) ==
  /\ Go(t, "sync", "rename")
  /\ UNCHANGED <<disk, stored>>

Sync(t) ==
  /\ Go(t, "sync", "rename")
  /\ tmp' = [tmp EXCEPT !.synced = TRUE]
  /\ UNCHANGED <<file, entries, stored>>

(* rename.  The directory is not synced: until it is written, a power      *)
(* failure may bring back the file that was there before.                  *)
Rename(t) ==
  /\ Go(t, "rename", "return")
  /\ file' = tmp /\ entries' = entries \cup {tmp}
  /\ stored' = TRUE
  /\ UNCHANGED tmp

(* Mutant: the result of the callback is not looked at.                    *)
FailsUnseen(t) ==
  /\ \/ Go(t, "open", "return")
     \/ Go(t, "write", "sync")
     \/ Go(t, "sync", "return")
     \/ Go(t, "rename", "return")
  /\ stored' = FALSE
  /\ UNCHANGED disk

(* ... or one of the calls fails, and the rest is given up.                *)
Fails(t) ==
  /\ \E from \in {"open", "write", "sync", "rename"} : Go(t, from, "return")
  /\ stored' = FALSE
  /\ UNCHANGED disk

(* Mutant: the lock is released before the file is saved.                  *)
ReturnEarly(t) ==
  /\ up /\ \/ at[t] = "open" /\ at' = at /\ lock = t
           \/ at[t] = "return" /\ at' = [at EXCEPT ![t] = "idle"]
  /\ lock' = "none"
  /\ answered' = root.revision
  /\ UNCHANGED <<memory, up, disk, client, stored, lost>>

(* The update returns TRUE, whatever became of the file.                   *)
Return(t) ==
  /\ up /\ at[t] = "return"
  /\ at' = [at EXCEPT ![t] = "idle"]
  /\ lock' = "none"
  /\ answered' = root.revision
  /\ UNCHANGED <<memory, up, disk, client, stored, lost>>

Steps(t) == Open(t) \/ Write(t) \/ Sync(t) \/ Rename(t) \/ Fails(t) \/ Return(t)
-----------------------------------------------------------------------------
(* The server and the machine.                                             *)

Stop ==
  /\ up' = FALSE
  /\ lock' = "none" /\ at' = [t \in Threads |-> "idle"]
  /\ UNCHANGED <<memory, client, answered, lost>>

(* The server is stopped or ends; the operating system keeps the files.    *)
Kill ==
  /\ up
  /\ Stop
  /\ UNCHANGED <<disk, stored>>

(* The power fails: the directory shows one of its entries, and data that  *)
(* was not synced may be gone.                                             *)
PowerFails ==
  /\ Stop
  /\ \E f \in entries :
       \/ file' = f
       \/ ~f.synced /\ file' = [f EXCEPT !.whole = FALSE]
  /\ entries' = {file'}
  /\ UNCHANGED <<tmp, stored>>

(* The operating system writes the directory.                              *)
DirectoryWritten ==
  /\ entries # {file}
  /\ entries' = {file}
  /\ UNCHANGED <<memory, lock, at, up, tmp, file, client, stored, answered, lost>>

(* What the JSON tree says of one alarm or channel, cfg_mgr_get_alarm_at,  *)
(* cfg_mgr_get_channel_at and cfg_mgr_get_lookup_table_of_channel_at.      *)
ReadItem(v, i) == v.cfg[i]

(* core_driver_init creates every channel and alarm from the tree.         *)
LoadItems(v) == [i \in Items |-> ReadItem(v, i)]

(* cfg_mgr_init.  Without a file that it can read the server exits.        *)
Start ==
  /\ ~up /\ file.whole
  /\ up' = TRUE
  /\ root' = file.version /\ json_str' = file.version
  /\ running' = LoadItems(file.version)
  /\ in_mem_revision' = file.version.revision
  /\ stored' = TRUE
  /\ lost' = (lost \/ file.version.revision < answered)
  /\ answered' = file.version.revision
  /\ UNCHANGED <<lock, at, disk, client>>
-----------------------------------------------------------------------------
(* A client, SystemLoadingView.vue and server_poller/index.js.  A status   *)
(* request that fails is repeated and changes nothing.                     *)

Becomes(c, r) ==
  /\ client' = [client EXCEPT ![c] = r]
  /\ UNCHANGED <<memory, lock, at, up, disk, stored, answered, lost>>

(* webapi_get_config_base sends the printed string under the read lock.    *)
ServeConfig(c) ==
  /\ up /\ lock = "none" /\ client[c].at = "loading"
  /\ Becomes(c, [client[c] EXCEPT !.at = "populate", !.got = json_str])

(* The request fails, and a dialog asks the user to try again.             *)
LoadFails(c) ==
  /\ client[c].at = "loading"
  /\ Becomes(c, [client[c] EXCEPT !.at = "failed"])

Retry(c) ==
  /\ client[c].at = "failed"
  /\ Becomes(c, [client[c] EXCEPT !.at = "loading"])

(* Mutant: the revision is not kept with the configuration.                *)
PopulateForgets(c) ==
  /\ client[c].at = "populate"
  /\ Becomes(c, [client[c] EXCEPT !.at = "polling"])

Populate(c) ==
  /\ client[c].at = "populate"
  /\ Becomes(c, [client[c] EXCEPT !.at = "polling",
                                  !.revision = client[c].got.revision])

(* The revision in the answer to a status request is read under the lock,  *)
(* cfg_mgr_get_revision, and compared by the client when the answer        *)
(* arrives: a change makes the client load the configuration again.        *)
ServeStatus(c) ==
  /\ up /\ lock = "none" /\ client[c].at = "polling"
  /\ in_mem_revision # client[c].revision
  /\ Becomes(c, [client[c] EXCEPT !.at = "loading"])

Client(c) == ServeConfig(c) \/ Populate(c) \/ ServeStatus(c)

Next ==
  \/ \E t \in Threads :
       \/ \E i \in Items, s \in Settings : Update(t, i, s)
       \/ Steps(t)
  \/ Kill \/ PowerFails \/ DirectoryWritten \/ Start
  \/ \E c \in Clients : Client(c) \/ LoadFails(c) \/ Retry(c)

Spec == Init /\ [][Next]_vars

(* A thread that has begun an update goes on, the event loop of the web    *)
(* thread serves every request, and the timers of the client fire.         *)
Fairness ==
  /\ \A t \in Threads : WF_vars(Steps(t))
  /\ \A c \in Clients : WF_vars(Client(c))

FairSpec == Spec /\ Fairness
-----------------------------------------------------------------------------
Ats == {"idle", "open", "write", "sync", "rename", "return"}

ClientRecord ==
  [at : {"loading", "failed", "populate", "polling"}, revision : Nat \cup {-1},
   got : Version]

TypeOK ==
  /\ root \in Version /\ json_str \in Version
  /\ in_mem_revision \in Nat /\ running \in Config
  /\ lock \in Threads \cup {"none"} /\ at \in [Threads -> Ats]
  /\ up \in BOOLEAN
  /\ tmp \in File /\ file \in File /\ entries \in SUBSET File
  /\ client \in [Clients -> ClientRecord]
  /\ stored \in BOOLEAN /\ answered \in Nat /\ lost \in BOOLEAN

(***************************************************************************)
(* Whatever step of an update fails, and wherever the server stops or the  *)
(* power goes, the file that the next start reads is complete.             *)
(***************************************************************************)
FileIsWhole == file.whole

(***************************************************************************)
(* When the save of the latest update succeeded, the file has everything   *)
(* that is in force, also the updates before it whose own save failed.     *)
(***************************************************************************)
StoredIsComplete ==
  up /\ lock = "none" /\ stored =>
    file.version = [cfg |-> running, revision |-> in_mem_revision]

(***************************************************************************)
(* A client that has the revision of the server has its configuration,     *)
(* through any number of updates and restarts, a restart in the middle of  *)
(* an update included.  It is only when an update that had returned is     *)
(* undone by a restart that its revision is given out again.               *)
(***************************************************************************)
RevisionIdentifies ==
  up /\ lock = "none" /\ ~lost =>
    \A c \in Clients :
      client[c].at = "polling" /\ client[c].revision = in_mem_revision
        => client[c].got.cfg = running

(***************************************************************************)
(* What a restart brings back is a configuration as it once was in force.  *)
(***************************************************************************)
Store == INSTANCE ConfigStore
           WITH current <- running, saved <- {f.version.cfg : f \in entries}

StoreSpec == Store!Spec

(***************************************************************************)
(* When the server stays up, no update was undone and its requests stop    *)
(* failing, a client ends up with the configuration of the server.         *)
(***************************************************************************)
ClientsCatchUp ==
  \A c \in Clients :
    <>[](up /\ client[c].at # "failed") /\ []~lost =>
      <>[](client[c].at = "polling" /\ client[c].got.cfg = running)
=============================================================================
