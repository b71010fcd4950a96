--------------------------- MODULE SettingsStore ----------------------------
(***************************************************************************)
(* The persisted runtime settings (runtime_settings_store.py), and the     *)
(* commands that use them (cli_app/runtime_settings_support.py).  A command*)
(* resolves the settings: it takes the first of two files with a valid     *)
(* record, the current and the last known good one, and looks at both to   *)
(* report on them.  It may then persist its record to the current file and,*)
(* if that is asked for and allowed, to the last known good one, each      *)
(* through a temp file with a fixed name that it renames, and look at both *)
(* again.                                                                  *)
(*                                                                         *)
(* Commands that persist at the same time share the temp files.  A rename  *)
(* moves the file a writer holds open, so files are modelled behind their  *)
(* names.                                                                  *)
(***************************************************************************)
EXTENDS Naturals, FiniteSets

CONSTANTS Commands,    \* processes that run one command after the other
          MaxPersists, \* bound on the commands that persist and those killed
          MaxKills     \* bound on the commands killed

ASSUME SettingsConstants ==
    /\ MaxPersists \in Nat
    /\ MaxKills \in Nat
    /\ IsFiniteSet(Commands)

Names == {"current", "last known good"}

(* What is in a file: a valid record; what no load takes, as nothing yet,  *)
(* bytes that do not parse or a record without its fingerprint; or bytes   *)
(* that end or begin within a character, which are no UTF-8.               *)
Whole == "whole"
Cut == "cut"
Garbled == "garbled"

VARIABLES at,        \* name -> the file it names
          temp,      \* name -> the file its .tmp names, 0 for none
          bytes,     \* file -> what is in it
          filled,    \* files written to since they were last truncated
          step,      \* command -> where it is
          fd,        \* command -> the file it has open for writing, 0 for none
          persists,  \* number of commands that came to persist
          kills,     \* number of commands killed
          crossings, \* history: how often a command came to persist beside
                     \* another, since both files were whole and none persisted
          seen       \* history: command -> the same, since both files were
                     \* whole and none persisted before it began

fileVars == <<at, temp, bytes, filled, fd>>
settingsVars == <<fileVars, step, persists, kills, crossings, seen>>

(* Two files have a name of their own, two a temp name, and each command   *)
(* has at most one more open.                                              *)
Inodes == 1 .. 4 + Cardinality(Commands)

SettingsInit ==
    /\ at = [n \in Names |-> IF n = "current" THEN 1 ELSE 2]
    /\ temp = [n \in Names |-> 0]
    /\ bytes = [i \in Inodes |-> IF i <= 2 THEN Whole ELSE Cut]
    /\ filled = {1, 2}
    /\ step = [c \in Commands |-> <<"idle", "current">>]
    /\ fd = [c \in Commands |-> 0]
    /\ persists = 0
    /\ kills = 0
    /\ crossings = 0
    /\ seen = [c \in Commands |-> 0]

Goes(c, s) == step' = [step EXCEPT ![c] = s]

-----------------------------------------------------------------------------
(* resolve_runtime_settings_bundle.                                        *)
StartCommand(c) ==
    /\ step[c][1] = "idle"
    /\ Goes(c, <<"load", "current">>)
    /\ seen' = [seen EXCEPT ![c] = crossings]
    /\ UNCHANGED <<fileVars, persists, kills, crossings>>

(* A file that a writer has open may be seen half written.                 *)
Readings(n) ==
    {bytes[at[n]]} \cup
    IF \E c \in Commands : fd[c] = at[n] THEN {Cut, Garbled} ELSE {}

(* load_runtime_settings_with_fallback, one file after the other.  Bytes   *)
(* that are no UTF-8 raise UnicodeDecodeError, which no load catches.      *)
LoadSettings(c, n) ==
    /\ step[c] = <<"load", n>>
    /\ \E b \in Readings(n) :
          \/ b = Whole /\ Goes(c, <<"check", "current">>)
          \/ b = Cut /\ n = "current" /\ Goes(c, <<"load", "last known good">>)
          \/ b = Cut /\ n # "current" /\ Goes(c, <<"nothing", n>>)
          \/ b = Garbled /\ Goes(c, <<"raised", n>>)
    /\ UNCHANGED <<fileVars, persists, kills, crossings, seen>>

(* Without a record the defaults are used.                                 *)
UseDefaults(c) ==
    /\ step[c][1] = "nothing"
    /\ Goes(c, <<"check", "current">>)
    /\ UNCHANGED <<fileVars, persists, kills, crossings, seen>>

(* build_runtime_settings_governance_payload, before and after a command   *)
(* persists: it reads both files, one after the other, and once more (how  *)
(* often makes no difference).                                             *)
CheckSettings(c, n) ==
    \E look \in {"check", "report"} :
       /\ step[c] = <<look, n>>
       /\ \E b \in Readings(n) :
             \/ b = Garbled /\ Goes(c, <<"raised", n>>)
             \/ b # Garbled /\ n = "current" /\ Goes(c, <<look, "last known good">>)
             \/ b # Garbled /\ n # "current"
                   /\ \/ Goes(c, <<look, "current">>)
                      \/ look = "check" /\ Goes(c, <<"resolved", n>>)
                      \/ look = "report" /\ Goes(c, <<"idle", "current">>)
       /\ UNCHANGED <<fileVars, persists, kills, crossings, seen>>

(* A command that only shows the settings ends here.                       *)
EndCommand(c) ==
    /\ step[c][1] \in {"resolved", "raised"}
    /\ Goes(c, <<"idle", "current">>)
    /\ UNCHANGED <<fileVars, persists, kills, crossings, seen>>

-----------------------------------------------------------------------------
(* persist_runtime_settings_record.                                        *)
Persisting(c) == step[c][1] \in {"open", "write", "replace"}

Bounded == persists + kills < MaxPersists

Persist(c) ==
    /\ step[c][1] = "resolved"
    /\ Bounded
    /\ persists' = persists + 1
    /\ Goes(c, <<"open", "current">>)
    /\ IF \E d \in Commands : Persisting(d)
       THEN /\ crossings' = crossings + 1
            /\ seen' = [d \in Commands |->
                          IF step[d][1] = "idle" THEN seen[d] ELSE seen[d] + 1]
       ELSE UNCHANGED <<crossings, seen>>
    /\ UNCHANGED <<fileVars, kills>>

(* _atomic_write_json.  Opening the temp file truncates it; if there is    *)
(* none it is made: the first unused file, as they are alike.              *)
FreeFiles == {i \in Inodes : /\ \A n \in Names : i \notin {at[n], temp[n]}
                          /\ \A c \in Commands : fd[c] # i}

Temps(n) ==
    IF temp[n] # 0 THEN {temp[n]} ELSE {i \in FreeFiles : \A j \in FreeFiles : i <= j}

(* Mutant: the record is written over the file itself. *)
OpenInPlace(c, n) ==
    /\ step[c] = <<"open", n>>
    /\ fd' = [fd EXCEPT ![c] = at[n]]
    /\ bytes' = [bytes EXCEPT ![at[n]] = Cut]
    /\ filled' = filled \ {at[n]}
    /\ Goes(c, <<"write", n>>)
    /\ UNCHANGED <<at, temp, persists, kills, crossings, seen>>

Open(c, n) ==
    /\ step[c] = <<"open", n>>
    /\ \E i \in Temps(n) :
          /\ temp' = [temp EXCEPT ![n] = i]
          /\ fd' = [fd EXCEPT ![c] = i]
          /\ bytes' = [bytes EXCEPT ![i] = Cut]
          /\ filled' = filled \ {i}
    /\ Goes(c, <<"write", n>>)
    /\ UNCHANGED <<at, persists, kills, crossings, seen>>

(* The record goes to the file held open, whatever its name is by now.     *)
(* Over a longer record of another command it leaves the rest of it, which *)
(* may begin within a character.                                           *)
Write(c, n) ==
    /\ step[c] = <<"write", n>>
    /\ \E b \in {Whole} \cup IF fd[c] \in filled THEN {Cut, Garbled} ELSE {} :
          bytes' = [bytes EXCEPT ![fd[c]] = b]
    /\ filled' = filled \cup {fd[c]}
    /\ fd' = [fd EXCEPT ![c] = 0]
    /\ Goes(c, <<"replace", n>>)
    /\ UNCHANGED <<at, temp, persists, kills, crossings, seen>>

(* After the current file comes the last known good one, if its update was *)
(* asked for and is allowed.                                               *)
After(n) ==
    {<<"report", "current">>} \cup
    IF n = "current" THEN {<<"open", "last known good">>} ELSE {}

Rename(n) ==
    /\ temp[n] # 0
    /\ at' = [at EXCEPT ![n] = temp[n]]
    /\ temp' = [temp EXCEPT ![n] = 0]

(* Once no command persists and both files are whole, the count starts anew.*)
Sound ==
    /\ \A c \in Commands : ~ Persisting(c)
    /\ \A n \in Names : bytes[at[n]] = Whole

Recount == crossings' = IF Sound' THEN 0 ELSE crossings

(* os.replace raises when another command has renamed the temp file, which *)
(* ends the command.                                                       *)
Replace(c, n) ==
    /\ step[c] = <<"replace", n>>
    /\ \/ /\ Rename(n)
          /\ \E s \in After(n) : Goes(c, s)
       \/ /\ temp[n] = 0
          /\ Goes(c, <<"idle", "current">>)
          /\ UNCHANGED <<at, temp>>
    /\ UNCHANGED <<bytes, filled, fd, persists, kills, seen>>
    /\ Recount

(* A command killed while it writes leaves part of its record.             *)
KillPersist(c) ==
    /\ Persisting(c)
    /\ Bounded /\ kills < MaxKills
    /\ kills' = kills + 1
    /\ Goes(c, <<"idle", "current">>)
    /\ fd' = [fd EXCEPT ![c] = 0]
    /\ \/ UNCHANGED <<bytes, filled>>
       \/ /\ fd[c] # 0
          /\ \E b \in {Cut, Garbled} : bytes' = [bytes EXCEPT ![fd[c]] = b]
          /\ filled' = filled \cup {fd[c]}
    /\ UNCHANGED <<at, temp, persists, seen>>
    /\ Recount

SettingsNext ==
    \E c \in Commands :
       \/ StartCommand(c) \/ UseDefaults(c) \/ EndCommand(c)
       \/ Persist(c) \/ KillPersist(c)
       \/ \E n \in Names :
             \/ LoadSettings(c, n) \/ CheckSettings(c, n)
             \/ Open(c, n) \/ Write(c, n) \/ Replace(c, n)

SettingsSpec == SettingsInit /\ [][SettingsNext]_settingsVars

-----------------------------------------------------------------------------
(* What the last known good record is good for.  Whatever commands are     *)
(* killed wherever, a command finds a valid record unless commands crossed *)
(* in persisting; and if they crossed once since both files were whole, it *)
(* still finds one or raises on bytes that are no UTF-8: of the two files  *)
(* one crossing ruins one, because the command that finds its temp file    *)
(* gone stops there.                                                       *)
SettingsReadable ==
    \A c \in Commands :
       /\ step[c][1] = "raised" => seen[c] >= 1
       /\ step[c][1] = "nothing" => seen[c] >= 2
=============================================================================
