---------------------------- MODULE ConfigReload ----------------------------
(***************************************************************************)
(* How the daemon's rules and script come into force and follow the files  *)
(* they were read from: main's start-up, LoadRules, ReloadRules,           *)
(* LoadScript and ReloadScript (crates/daemon/src/state.rs, load_rules_from*)
(* to reload_rules), and the script watcher (script_watch.rs).             *)
(*                                                                         *)
(* Each of these reads a file, compiles it, and only then takes the locks, *)
(* one after the other.  Workers are main, the watcher's task and the IPC  *)
(* connections; they run in parallel.                                      *)
(*                                                                         *)
(* A file's text is a model value; Good are the texts that compile.  The   *)
(* file system and its change notification (inotify, the notify crate) are *)
(* external: a change is reported some time after it, in order.            *)
(***************************************************************************)
EXTENDS Naturals

CONSTANTS
  RulesFile, ScriptFile,  \* paths of rules and of scripts
  Default,     \* the rules file main loads
  Watched,     \* the script main loads and the watcher watches
  Text, Good,  \* contents; those that compile
  Missing,     \* stands for a file that is not there
  None,        \* stands for Option::None
  Client,      \* IPC connections
  ClientFiles, \* paths clients name, or have reloaded
  MaxSaves,    \* bound: changes of files
  MaxEarly,    \* bound: of those, changes before the watcher watches
  MaxCalls     \* bound: requests of all clients

Main == "main"
Watcher == "watcher"
Worker == Client \cup {Main, Watcher}

ASSUME ReloadAssumption ==
  /\ Default \in RulesFile
  /\ Watched \in ScriptFile
  /\ RulesFile \cap ScriptFile = {}
  /\ Good \subseteq Text
  /\ Missing \notin Text
  /\ ClientFiles \subseteq RulesFile \cup ScriptFile
  /\ Main \notin Client /\ Watcher \notin Client
  /\ None \notin RulesFile /\ None \notin ScriptFile
  /\ MaxSaves \in Nat /\ MaxEarly \in 0..MaxSaves /\ MaxCalls \in Nat

VARIABLES
  file,       \* what is on disk
  saves,      \* changes left
  rules,      \* DaemonState.rules: the text in force
  rulesFrom,  \* history: the path that text was read from
  rulesPath,  \* DaemonState.rules_path
  script,     \* text of DaemonState.script, or None
  scriptPath, \* its source_path, or None
  at,         \* where each worker is
  path, text, \* what it is loading, what it has read
  boot,       \* main: "rules", "script", "watch", "serving"
  unseen,     \* changes of Watched not yet reported by the system
  pinged,     \* the watcher's channel holds a message
  calls,      \* requests left
  watching,   \* the watcher's task runs
  disturbed   \* history: the script in force is a text Watched had lost before it was
              \* installed by another than the watcher, or before the watch began

disk      == <<file, saves, unseen>>
rulesVars == <<rules, rulesFrom, rulesPath>>
scriptVars == <<script, scriptPath>>
jobVars   == <<at, path, text>>
vars == <<disk, rulesVars, scriptVars, jobVars, boot, watching, pinged, calls, disturbed>>

File == RulesFile \cup ScriptFile

TypeOK ==
  /\ file \in [File -> Text \cup {Missing}]
  /\ saves \in 0..MaxSaves
  /\ rules \in Good \cup {None}
  /\ rulesFrom \in RulesFile \cup {None}
  /\ rulesPath \in RulesFile \cup {None}
  /\ script \in Good \cup {None}
  /\ scriptPath \in ScriptFile \cup {None}
  /\ at \in [Worker -> {"idle", "read", "install", "record", "settle", "drain", "look"}]
  /\ path \in [Worker -> File \cup {None}]
  /\ text \in [Worker -> Text \cup {Missing, None}]
  /\ boot \in {"rules", "script", "watch", "serving"}
  /\ watching \in BOOLEAN
  /\ unseen \in BOOLEAN
  /\ pinged \in BOOLEAN
  /\ calls \in 0..MaxCalls
  /\ disturbed \in BOOLEAN

Init ==
  /\ file \in [File -> Text \cup {Missing}]
  /\ saves = MaxSaves
  /\ rules = None /\ rulesFrom = None /\ rulesPath = None
  /\ script = None /\ scriptPath = None
  /\ at = [w \in Worker |-> "idle"]
  /\ path = [w \in Worker |-> None]
  /\ text = [w \in Worker |-> None]
  /\ boot = "rules"
  /\ watching = FALSE
  /\ unseen = FALSE
  /\ pinged = FALSE
  /\ calls = MaxCalls
  /\ disturbed = FALSE

-----------------------------------------------------------------------------
(***************************************************************************)
(* Files change under the daemon; an editor that saves in several writes   *)
(* changes a file several times.  Only Watched is watched.                 *)
(***************************************************************************)
Save(f, new) ==
  /\ saves > 0
  /\ boot # "serving" => saves > MaxSaves - MaxEarly
  /\ new # file[f]
  /\ file' = [file EXCEPT ![f] = new]
  /\ saves' = saves - 1
  /\ unseen' = (unseen \/ (f = Watched /\ watching))
  /\ disturbed' = IF f = Watched THEN ~watching /\ scriptPath = Watched ELSE disturbed
  /\ UNCHANGED <<rulesVars, scriptVars, jobVars, boot, watching, pinged, calls>>

\* The watcher's callback: sends on the channel for any change of the target.
Report ==
  /\ unseen
  /\ unseen' = FALSE
  /\ pinged' = TRUE
  /\ UNCHANGED <<file, saves, rulesVars, scriptVars, jobVars, boot, watching, calls, disturbed>>

-----------------------------------------------------------------------------
(***************************************************************************)
(* Loading, for any worker.                                                *)
(***************************************************************************)
Goto(w, place) == at' = [at EXCEPT ![w] = place]

Load(w, f) ==
  /\ Goto(w, "read")
  /\ path' = [path EXCEPT ![w] = f]
  /\ UNCHANGED text

\* Slip: what was read is installed whether or not it compiles.
ReadUnchecked(w) ==
  /\ at[w] = "read"
  /\ Goto(w, "install")
  /\ text' = [text EXCEPT ![w] = file[path[w]]]
  /\ UNCHANGED <<disk, rulesVars, scriptVars, path, boot, watching, pinged, calls, disturbed>>

\* Read and compile; whatever goes wrong, nothing is replaced.
ReadFile(w) ==
  /\ at[w] = "read"
  /\ IF file[path[w]] \in Good
     THEN Goto(w, "install") /\ text' = [text EXCEPT ![w] = file[path[w]]]
     ELSE Goto(w, "idle") /\ UNCHANGED text
  /\ UNCHANGED <<disk, rulesVars, scriptVars, path, boot, watching, pinged, calls, disturbed>>

\* The rules and the path they came from are under two locks.
InstallRules(w) ==
  /\ at[w] = "install"
  /\ path[w] \in RulesFile
  /\ rules' = text[w]
  /\ rulesFrom' = path[w]
  /\ Goto(w, "record")
  /\ UNCHANGED <<disk, rulesPath, scriptVars, path, text, boot, watching, pinged, calls, disturbed>>

RecordPath(w) ==
  /\ at[w] = "record"
  /\ rulesPath' = path[w]
  /\ Goto(w, "idle")
  /\ UNCHANGED <<disk, rules, rulesFrom, scriptVars, path, text, boot, watching, pinged, calls, disturbed>>

\* What another than the watcher is about to install, Watched no longer holds.
Outdated(w) == w # Watcher /\ path[w] = Watched /\ text[w] # file[Watched]

\* Slip: the channel is drained after the reload, not before.
InstallAndDrain(w) ==
  /\ at[w] = "install"
  /\ path[w] \in ScriptFile
  /\ script' = text[w]
  /\ scriptPath' = path[w]
  /\ pinged' = (pinged /\ w # Watcher)
  /\ disturbed' = Outdated(w)
  /\ Goto(w, "idle")
  /\ UNCHANGED <<disk, rulesVars, path, text, boot, watching, calls>>

InstallScript(w) ==
  /\ at[w] = "install"
  /\ path[w] \in ScriptFile
  /\ script' = text[w]
  /\ scriptPath' = path[w]
  /\ disturbed' = Outdated(w)
  /\ Goto(w, "idle")
  /\ UNCHANGED <<disk, rulesVars, path, text, boot, watching, pinged, calls>>

Work(w) == ReadFile(w) \/ InstallRules(w) \/ RecordPath(w) \/ InstallScript(w)

-----------------------------------------------------------------------------
(***************************************************************************)
(* main: the rules file, then the script, each only if it exists, then the *)
(* watcher, then the IPC server.                                           *)
(***************************************************************************)
LoadIfThere(f) == IF file[f] = Missing THEN UNCHANGED jobVars ELSE Load(Main, f)

BootLoad ==
  /\ at[Main] = "idle"
  /\ \/ boot = "rules" /\ boot' = "script" /\ LoadIfThere(Default)
     \/ boot = "script" /\ boot' = "watch" /\ LoadIfThere(Watched)
  /\ UNCHANGED <<disk, rulesVars, scriptVars, watching, pinged, calls, disturbed>>

\* The watcher may fail to start (no inotify watches left, no such directory);
\* the daemon then serves without it.
StartWatching ==
  /\ at[Main] = "idle"
  /\ boot = "watch"
  /\ boot' = "serving"
  /\ watching' \in BOOLEAN
  /\ UNCHANGED <<disk, rulesVars, scriptVars, jobVars, pinged, calls, disturbed>>

(***************************************************************************)
(* Requests.                                                               *)
(***************************************************************************)
Request(c) ==
  /\ boot = "serving"
  /\ at[c] = "idle"
  /\ calls > 0
  /\ calls' = calls - 1
  /\ UNCHANGED <<disk, rulesVars, scriptVars, boot, watching, pinged, disturbed>>

\* LoadRules and LoadScript.
LoadFile(c, f) ==
  /\ Request(c)
  /\ Load(c, f)

ReloadRules(c) ==
  /\ Request(c)
  /\ rulesPath \in ClientFiles
  /\ Load(c, rulesPath)

\* reload_script looks the path up and releases the lock before it reads.
ReloadScript(c) ==
  /\ Request(c)
  /\ scriptPath \in ClientFiles
  /\ Load(c, scriptPath)

(***************************************************************************)
(* The watcher's task: wait for a message, sleep for the debounce time,    *)
(* drain what came meanwhile, reload.                                      *)
(***************************************************************************)
Notice ==
  /\ at[Watcher] = "idle"
  /\ pinged
  /\ pinged' = FALSE
  /\ Goto(Watcher, "settle")
  /\ UNCHANGED <<disk, rulesVars, scriptVars, path, text, boot, watching, calls, disturbed>>

Settle ==
  /\ at[Watcher] = "settle"
  /\ Goto(Watcher, "drain")
  /\ UNCHANGED <<disk, rulesVars, scriptVars, path, text, boot, watching, pinged, calls, disturbed>>

Drain ==
  /\ at[Watcher] = "drain"
  /\ pinged' = FALSE
  /\ Goto(Watcher, "look")
  /\ UNCHANGED <<disk, rulesVars, scriptVars, path, text, boot, watching, calls, disturbed>>

\* The file that is reloaded is the script's own, not the one that changed.
LookUp ==
  /\ at[Watcher] = "look"
  /\ IF scriptPath = None THEN Goto(Watcher, "idle") /\ UNCHANGED <<path, text>>
     ELSE Load(Watcher, scriptPath)
  /\ UNCHANGED <<disk, rulesVars, scriptVars, boot, watching, pinged, calls, disturbed>>

Watch == Notice \/ Settle \/ Drain \/ LookUp

Next ==
  \/ \E f \in File, new \in Text \cup {Missing} : Save(f, new)
  \/ Report
  \/ \E w \in Worker : Work(w)
  \/ BootLoad \/ StartWatching
  \/ \E c \in Client : \/ \E f \in ClientFiles : LoadFile(c, f)
                       \/ ReloadRules(c) \/ ReloadScript(c)
  \/ Watch

Spec == Init /\ [][Next]_vars

-----------------------------------------------------------------------------
(***************************************************************************)
(* Properties.                                                             *)
(***************************************************************************)
\* rules_path's comment: the last successfully loaded rules path.  When no
\* load is between its two locks, the rules in force came from rules_path.
RulesComeFromPath ==
  (\A w \in Worker : at[w] # "record") => rulesFrom = rulesPath

\* The script in force is out of date with the file it came from.
Stale == scriptPath = Watched /\ file[Watched] \in Good /\ script # file[Watched]

\* The watcher is about to read the file, or has read what it now holds.
Reloading ==
  \/ at[Watcher] \in {"settle", "drain", "look"}
  \/ at[Watcher] = "read" /\ path[Watcher] = Watched
  \/ at[Watcher] = "install" /\ path[Watcher] = Watched /\ text[Watcher] = file[Watched]

\* No save of the watched script is missed, whatever clients load meanwhile:
\* while the script in force is out of date, a notification or a reload that
\* will see the change is under way (script_watch.rs drains its channel, then
\* reloads).  Not so where the watcher failed to start, nor where the text in
\* force was out of date when main or a client installed it.
NoSaveMissed ==
  watching /\ ~disturbed /\ Stale => unseen \/ pinged \/ Reloading

\* Files owe no change and clients no request; the runtime polls the tasks,
\* and changes get reported.
Fairness ==
  /\ WF_vars(Report)
  /\ WF_vars(BootLoad \/ StartWatching)
  /\ WF_vars(Watch)
  /\ \A w \in Worker : WF_vars(Work(w))

FairSpec == Spec /\ Fairness

\* scripting.md: the script hot-reloads on save.  Where the watcher started, once
\* the file stays as it is and compiles, it is the script in force, if the
\* script in force is one from that file.
ScriptFollowsFile ==
  []<>(~watching \/ disturbed \/ ~Stale)

=============================================================================
