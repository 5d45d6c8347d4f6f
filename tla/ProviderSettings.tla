-------------------------- MODULE ProviderSettings --------------------------
(***************************************************************************)
(* The settings file the agents of one provider share                      *)
(* (~/.gemini/settings.json, ~/.grok/config.toml): each spawn merges its   *)
(* MCP servers into it by name (providers/config.rs), each exit removes    *)
(* those names (session.rs finalize_exit), and the cleanup ledger of the   *)
(* store lets the next boot remove what a crash left behind                *)
(* (Manager::reconcile_cleanups_on_boot).                                  *)
(***************************************************************************)
EXTENDS Integers

CONSTANTS
  Agents,        \* sessions spawned with servers of their own
  Names,         \* the names of MCP servers
  Wants,         \* the names each agent's servers have
  UserNames,     \* the names the user's own servers have
  NoEntry, User, \* entries that are no agent's
  MaxCrashes     \* bound of the model: crashes of the daemon

ASSUME SettingsAssumption ==
  /\ Wants \in [Agents -> SUBSET Names] /\ UserNames \subseteq Names
  /\ NoEntry \notin Agents /\ User \notin Agents /\ NoEntry # User
  /\ MaxCrashes \in Nat

VARIABLES
  file,     \* the file: whose entry each name has
  ledger,   \* the cleanup ledger: sessions whose row is in the store
  mode,     \* the daemon: down, replaying the ledger at boot, or up
  crashes,
  stage,       \* where each session is
  editors,  \* sessions that hold the lock of the file
  copy,     \* what each editor read
  parses,   \* whether the file can be read and parsed
  blind,    \* editors that could not read it
  skipped   \* history: sessions a removal for whom failed

settingsVars ==
  <<file, ledger, mode, crashes, stage, editors, copy, parses, blind, skipped>>

Empty == [n \in Names |-> NoEntry]

SettingsInit ==
  /\ file = [n \in Names |-> IF n \in UserNames THEN User ELSE NoEntry]
  /\ ledger = {} /\ mode = "up" /\ crashes = 0
  /\ stage = [a \in Agents |-> "new"]
  /\ editors = {} /\ copy = [a \in Agents |-> Empty]
  /\ parses = TRUE /\ blind = {} /\ skipped = {}

At(a, step) == stage' = [stage EXCEPT ![a] = step]

-----------------------------------------------------------------------------
(* Edits of the file, under its lock.                                      *)

NoLock == TRUE
LockFree == editors = {}

Lock(a) ==
  /\ LockFree
  /\ editors' = editors \cup {a}
  /\ copy' = [copy EXCEPT ![a] = file]
  /\ blind' = IF parses THEN blind ELSE blind \cup {a}

Unlock(a) ==
  /\ editors' = editors \ {a} /\ blind' = blind \ {a}
  /\ copy' = [copy EXCEPT ![a] = Empty]

\* What is written parses.
Write(a, entries) == file' = entries /\ parses' = TRUE /\ Unlock(a)

GiveUp(a) == Unlock(a) /\ UNCHANGED <<file, parses>>

Merged(a) == [n \in Names |-> IF n \in Wants[a] THEN a ELSE copy[a][n]]
Removed(a) == [n \in Names |-> IF n \in Wants[a] THEN NoEntry ELSE copy[a][n]]
StartedOver(a) == [n \in Names |-> IF n \in Wants[a] THEN a ELSE Empty[n]]

\* The user breaks the file's syntax or access, or repairs it, at any time.
UserEdits ==
  /\ parses' = ~parses
  /\ UNCHANGED <<file, ledger, mode, crashes, stage, editors, copy, blind, skipped>>

-----------------------------------------------------------------------------
(* spawn_agent.                                                            *)

BeginMerge(a) ==
  /\ mode = "up" /\ stage[a] = "new"
  /\ Lock(a) /\ At(a, "merging")
  /\ UNCHANGED <<file, ledger, mode, crashes, parses, skipped>>

Merge(a) ==
  /\ stage[a] = "merging" /\ a \notin blind
  /\ Write(a, Merged(a)) /\ At(a, "built")
  /\ UNCHANGED <<ledger, mode, crashes, skipped>>

\* A JSON file that cannot be read or parsed, and a TOML file that cannot be read,
\* are started over; a TOML file that cannot be parsed makes the merge fail.
MergeBlind(a) ==
  /\ stage[a] = "merging" /\ a \in blind
  /\ Write(a, StartedOver(a)) /\ At(a, "built")
  /\ UNCHANGED <<ledger, mode, crashes, skipped>>

MergeFails(a) ==
  /\ stage[a] = "merging"
  /\ GiveUp(a) /\ At(a, "failed")
  /\ UNCHANGED <<ledger, mode, crashes, skipped>>

RecordCleanup(a) ==
  /\ stage[a] = "built"
  /\ ledger' = ledger \cup {a} /\ At(a, "recorded")
  /\ UNCHANGED <<file, mode, crashes, editors, copy, parses, blind, skipped>>

SpawnPty(a) ==
  /\ stage[a] = "recorded"
  /\ At(a, "live")
  /\ UNCHANGED <<file, ledger, mode, crashes, editors, copy, parses, blind, skipped>>

\* No session: the row and the entries stay until the next boot.
SpawnPtyFails(a) ==
  /\ stage[a] = "recorded"
  /\ At(a, "failed")
  /\ UNCHANGED <<file, ledger, mode, crashes, editors, copy, parses, blind, skipped>>

-----------------------------------------------------------------------------
(* finalize_exit.                                                          *)

ExitDropsRow(a) ==
  /\ stage[a] = "live"
  /\ At(a, "exited") /\ ledger' = ledger \ {a}
  /\ UNCHANGED <<file, mode, crashes, editors, copy, parses, blind, skipped>>

SessionExits(a) ==
  /\ stage[a] = "live"
  /\ At(a, "exited")
  /\ UNCHANGED <<file, ledger, mode, crashes, editors, copy, parses, blind, skipped>>

BeginRemove(a) ==
  /\ stage[a] = "exited"
  /\ Lock(a) /\ At(a, "removing")
  /\ UNCHANGED <<file, ledger, mode, crashes, parses, skipped>>

RemoveHeld(a) ==
  /\ stage[a] = "removing"
  /\ file' = Removed(a) /\ At(a, "removed")
  /\ UNCHANGED <<ledger, mode, crashes, editors, copy, parses, blind, skipped>>

Remove(a) ==
  /\ stage[a] = "removing" /\ a \notin blind
  /\ Write(a, Removed(a)) /\ At(a, "removed")
  /\ UNCHANGED <<ledger, mode, crashes, skipped>>

\* A failed removal, and one of a file that does not parse, is skipped:
\* "best-effort".
RemoveFails(a) ==
  /\ stage[a] = "removing"
  /\ GiveUp(a) /\ At(a, "removed")
  /\ skipped' = skipped \cup {a}
  /\ UNCHANGED <<ledger, mode, crashes>>

DropRow(a) ==
  /\ stage[a] = "removed"
  /\ ledger' = ledger \ {a} /\ At(a, "done")
  /\ UNCHANGED <<file, mode, crashes, editors, copy, parses, blind, skipped>>

-----------------------------------------------------------------------------
(* A crash of the daemon, and the boot that follows.                       *)

\* The sessions go with the process; what is on disk stays.
Crash ==
  /\ mode # "down" /\ crashes < MaxCrashes
  /\ mode' = "down" /\ crashes' = crashes + 1
  /\ stage' = [a \in Agents |->
              CASE stage[a] = "built" -> "orphan"
                [] stage[a] \in {"new", "failed", "done", "orphan"} -> stage[a]
                [] OTHER -> "lost"]
  /\ editors' = {} /\ blind' = {} /\ copy' = [a \in Agents |-> Empty]
  /\ UNCHANGED <<file, ledger, parses, skipped>>

Boot ==
  /\ mode = "down"
  /\ mode' = "boot"
  /\ UNCHANGED <<file, ledger, crashes, stage, editors, copy, parses, blind, skipped>>

Replaying == {a \in Agents : stage[a] \in {"exited", "removing", "removed"}}

\* reconcile_cleanups_on_boot takes the rows one after the other, each through
\* the removal and the deletion of its row.
Replay(a) ==
  /\ mode = "boot" /\ Replaying = {}
  /\ a \in ledger /\ At(a, "exited")
  /\ UNCHANGED <<file, ledger, mode, crashes, editors, copy, parses, blind, skipped>>

Booted ==
  /\ mode = "boot" /\ Replaying = {} /\ ledger = {}
  /\ mode' = "up"
  /\ UNCHANGED <<file, ledger, crashes, stage, editors, copy, parses, blind, skipped>>

-----------------------------------------------------------------------------
Session(a) ==
  \/ Merge(a) \/ MergeBlind(a) \/ MergeFails(a)
  \/ RecordCleanup(a) \/ SpawnPty(a) \/ SpawnPtyFails(a)
  \/ BeginRemove(a) \/ Remove(a) \/ RemoveFails(a) \/ DropRow(a) \/ Replay(a)

SettingsNext ==
  \/ Crash \/ Boot \/ Booted \/ UserEdits
  \/ \E a \in Agents : BeginMerge(a) \/ SessionExits(a) \/ Session(a)

SettingsSpec == SettingsInit /\ [][SettingsNext]_settingsVars

\* Started code runs on (flock waits, it does not poll, and is fair enough for
\* finitely many sessions), a daemon is started again, agents exit some day.
SettingsFairness ==
  /\ WF_settingsVars(Boot) /\ WF_settingsVars(Booted)
  /\ \A a \in Agents : SF_settingsVars(Session(a)) /\ WF_settingsVars(SessionExits(a))

FairSpec == SettingsSpec /\ SettingsFairness

-----------------------------------------------------------------------------
(* Properties.                                                             *)

Entries == Agents \cup {NoEntry, User}
Steps == {"new", "merging", "built", "recorded", "live", "exited", "removing", "removed",
          "done", "failed", "lost", "orphan"}

\* Types; and whoever holds the lock is in the middle of an edit.
SettingsTypeOK ==
  /\ file \in [Names -> Entries] /\ copy \in [Agents -> [Names -> Entries]]
  /\ ledger \subseteq Agents /\ mode \in {"down", "boot", "up"} /\ crashes \in Nat
  /\ stage \in [Agents -> Steps] /\ skipped \subseteq Agents
  /\ parses \in BOOLEAN /\ blind \subseteq editors
  /\ editors = {a \in Agents : stage[a] \in {"merging", "removing"}}

\* An edit that could parse the file changes no entry but those of the names it
\* merges or removes, however many sessions edit at once (lock_settings): what
\* another wrote under another name since, and the user's servers of other names,
\* stay. The protection is by name: sessions that share a name overwrite and
\* remove each other's entry, and the user's own server of that name goes too.
\* A merge that could not parse the file may drop everything in it.
OthersKept ==
  [][\A n \in Names : file'[n] # file[n] =>
       \E a \in editors : n \in Wants[a] \/ a \in blind]_settingsVars

\* What an agent left in the file is owed by a row of the ledger, unless its
\* spawn has not come (or, crashing, never came) to write the row, or a removal
\* for it failed.
EntryIsOwed ==
  \A n \in Names : file[n] \in Agents =>
    file[n] \in ledger \cup skipped \/ stage[file[n]] \in {"built", "orphan"}

\* A booted daemon without sessions has no agent's entry in the file, crashes
\* between a merge and its row and failed removals apart.
QuietMeansClean ==
  mode = "up" /\ (\A a \in Agents : stage[a] \in {"new", "done", "lost"}) =>
    \A n \in Names : file[n] \notin Agents \ skipped

\* Whatever crashes there are, the row of a spawned session is worked off.
RowWorkedOff == \A a \in Agents : stage[a] = "live" ~> a \notin ledger
=============================================================================
