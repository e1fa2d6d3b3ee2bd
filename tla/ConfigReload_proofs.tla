------------------------ MODULE ConfigReload_proofs ------------------------
(***************************************************************************)
(* Proofs about ConfigReload: type correctness, and that the watcher       *)
(* misses no save, whoever loads whatever meanwhile.                       *)
(***************************************************************************)
EXTENDS ConfigReload, TLAPS

\* What one worker may be doing: only the watcher debounces, and a load that
\* got past reading holds a text that compiles.
WorkersOK ==
  /\ \A w \in Worker : at[w] \in {"settle", "drain", "look"} => w = Watcher
  /\ \A w \in Worker : at[w] \in {"read", "install", "record"} => path[w] \in File
  /\ \A w \in Worker : at[w] = "record" => path[w] \in RulesFile
  /\ \A w \in Worker : at[w] = "install" => text[w] \in Good

Typed == TypeOK /\ WorkersOK

LEMMA TypedInit == Init => Typed
<1> SUFFICES ASSUME Init PROVE Typed
  OBVIOUS
<1>1. TypeOK
  <2>1. unseen \in BOOLEAN /\ pinged \in BOOLEAN /\ watching \in BOOLEAN
    BY DEF Init
  <2>2. saves \in 0..MaxSaves /\ calls \in 0..MaxCalls
    BY ReloadAssumption DEF Init
  <2>3. /\ at \in [Worker -> {"idle", "read", "install", "record", "settle", "drain", "look"}]
        /\ path \in [Worker -> File \cup {None}]
        /\ text \in [Worker -> Text \cup {Missing, None}]
    BY DEF Init
  <2> QED
    BY <2>1, <2>2, <2>3 DEF Init, TypeOK
<1>2. WorkersOK
  BY DEF Init, WorkersOK
<1> QED
  BY <1>1, <1>2 DEF Typed

LEMMA TypedNext == Typed /\ [Next]_vars => Typed'
<1> SUFFICES ASSUME Typed, [Next]_vars PROVE Typed'
  OBVIOUS
<1> USE ReloadAssumption DEF Typed, TypeOK, WorkersOK, File
<1> USE DEF disk, rulesVars, scriptVars, jobVars
<1>1. ASSUME NEW f \in File, NEW new \in Text \cup {Missing}, Save(f, new) PROVE Typed'
  <2>1. disturbed' \in BOOLEAN /\ unseen' \in BOOLEAN
    BY <1>1, Zenon DEF Save
  <2>2. saves' \in 0..MaxSaves /\ file' \in [File -> Text \cup {Missing}]
    BY <1>1 DEF Save
  <2>3. UNCHANGED <<rulesVars, scriptVars, jobVars, boot, watching, pinged, calls>>
    BY <1>1 DEF Save
  <2> QED
    BY <2>1, <2>2, <2>3
<1>2. CASE Report
  BY <1>2 DEF Report
<1>3. ASSUME NEW w \in Worker, Work(w) PROVE Typed'
  <2>1. CASE ReadFile(w)
    BY <2>1 DEF ReadFile, Goto
  <2>2. CASE InstallRules(w)
    BY <2>2 DEF InstallRules, Goto
  <2>3. CASE RecordPath(w)
    BY <2>3 DEF RecordPath, Goto
  <2>4. CASE InstallScript(w)
    BY <2>4 DEF InstallScript, Outdated, Goto
  <2> QED
    BY <1>3, <2>1, <2>2, <2>3, <2>4 DEF Work
<1>4. CASE BootLoad
  BY <1>4 DEF BootLoad, LoadIfThere, Load, Goto, Worker
<1>5. CASE StartWatching
  BY <1>5 DEF StartWatching
<1>6. ASSUME NEW c \in Client, NEW f \in ClientFiles, LoadFile(c, f) PROVE Typed'
  BY <1>6 DEF LoadFile, Request, Load, Goto, Worker
<1>7. ASSUME NEW c \in Client, ReloadRules(c) PROVE Typed'
  BY <1>7 DEF ReloadRules, Request, Load, Goto, Worker
<1>8. ASSUME NEW c \in Client, ReloadScript(c) PROVE Typed'
  BY <1>8 DEF ReloadScript, Request, Load, Goto, Worker
<1>9. CASE Watch
  <2>1. CASE Notice
    BY <2>1 DEF Notice, Goto
  <2>2. CASE Settle
    BY <2>2 DEF Settle, Goto
  <2>3. CASE Drain
    BY <2>3 DEF Drain, Goto
  <2>4. CASE LookUp
    <3>1. CASE scriptPath = None
      BY <2>4, <3>1 DEF LookUp, Goto
    <3>2. CASE scriptPath # None
      BY <2>4, <3>2 DEF LookUp, Load, Goto, Worker
    <3> QED
      BY <3>1, <3>2
  <2> QED
    BY <1>9, <2>1, <2>2, <2>3, <2>4 DEF Watch
<1>10. CASE UNCHANGED vars
  BY <1>10 DEF vars
<1> QED
  BY <1>1, <1>2, <1>3, <1>4, <1>5, <1>6, <1>7, <1>8, <1>9, <1>10 DEF Next

\* Loading and reloading keep every variable within its type (state.rs,
\* script_watch.rs).
THEOREM ConfigTypeCorrect == Spec => []TypeOK
<1>1. Typed => TypeOK
  BY DEF Typed
<1> QED
  BY <1>1, TypedInit, TypedNext, PTL DEF Spec

-----------------------------------------------------------------------------
(***************************************************************************)
(* The watcher.  InOrder: it works only once it started, and then finds no *)
(* script that is out of date, unless one was installed so.                *)
(* FreshOrNoticed: a text of Watched in the watcher's hands is what the    *)
(* file holds, or the change that came after it has still to be noticed.   *)
(***************************************************************************)
InOrder ==
  /\ boot # "serving" => ~watching
  /\ ~watching => at[Watcher] = "idle" /\ ~unseen /\ ~pinged
  /\ boot # "serving" /\ ~disturbed => ~Stale

FreshOrNoticed ==
  at[Watcher] = "install" /\ path[Watcher] = Watched /\ text[Watcher] # file[Watched]
    => unseen \/ pinged

WatchInv == Typed /\ InOrder /\ FreshOrNoticed /\ NoSaveMissed

LEMMA WatchInit == Init => WatchInv
BY TypedInit, ReloadAssumption
DEF Init, WatchInv, InOrder, FreshOrNoticed, NoSaveMissed, Stale, Worker

LEMMA WatchNext ==
  ASSUME WatchInv, [Next]_vars
  PROVE  WatchInv'
<1>0. Typed'
  BY TypedNext DEF WatchInv
<1> DEFINE Kept == InOrder /\ FreshOrNoticed /\ NoSaveMissed
<1> SUFFICES Kept'
  BY <1>0 DEF WatchInv
<1>b. Typed /\ Kept
  BY DEF WatchInv
<1> USE ReloadAssumption, <1>b DEF InOrder, FreshOrNoticed, NoSaveMissed, Stale, Reloading
<1> USE DEF disk, rulesVars, scriptVars, jobVars, Typed, TypeOK, WorkersOK, File, Worker
<1>1. ASSUME NEW f \in File, NEW new \in Text \cup {Missing}, Save(f, new) PROVE Kept'
  <2>1. UNCHANGED <<rulesVars, scriptVars, jobVars, boot, watching, pinged, calls>>
    BY <1>1 DEF Save
  <2>2. CASE f = Watched /\ watching
    <3>1. unseen'
      BY <1>1, <2>2 DEF Save
    <3> QED
      BY <2>1, <2>2, <3>1
  <2>3. CASE f = Watched /\ ~watching
    <3>1. unseen' = unseen /\ (scriptPath = Watched => disturbed')
      BY <1>1, <2>3 DEF Save
    <3> QED
      BY <2>1, <2>3, <3>1
  <2>4. CASE f # Watched
    <3>1. file'[Watched] = file[Watched] /\ unseen' = unseen /\ disturbed' = disturbed
      BY <1>1, <2>4 DEF Save
    <3> QED
      BY <2>1, <3>1
  <2> QED
    BY <2>2, <2>3, <2>4
<1>2. CASE Report
  BY <1>2 DEF Report
<1>3. ASSUME NEW w \in Worker, Work(w) PROVE Kept'
  <2>1. CASE ReadFile(w)
    BY <2>1 DEF ReadFile, Goto
  <2>2. CASE InstallRules(w)
    BY <2>2 DEF InstallRules, Goto
  <2>3. CASE RecordPath(w)
    BY <2>3 DEF RecordPath, Goto
  <2>4. CASE InstallScript(w)
    <3>1. CASE w = Watcher
      BY <2>4, <3>1 DEF InstallScript, Outdated, Goto
    <3>2. CASE w # Watcher
      BY <2>4, <3>2 DEF InstallScript, Outdated, Goto
    <3> QED
      BY <3>1, <3>2
  <2> QED
    BY <1>3, <2>1, <2>2, <2>3, <2>4 DEF Work
<1>4. CASE BootLoad
  <2>1. UNCHANGED <<disk, rulesVars, scriptVars, watching, pinged, calls, disturbed, text>>
    BY <1>4 DEF BootLoad, LoadIfThere, Load
  <2>2. at'[Watcher] = at[Watcher] /\ path'[Watcher] = path[Watcher]
    BY <1>4 DEF BootLoad, LoadIfThere, Load, Goto, Main, Watcher
  <2>3. boot # "serving" /\ boot' # "serving"
    BY <1>4 DEF BootLoad
  <2> QED
    BY <2>1, <2>2, <2>3
<1>5. CASE StartWatching
  BY <1>5 DEF StartWatching
<1>6. ASSUME NEW c \in Client,
             (\E f \in ClientFiles : LoadFile(c, f)) \/ ReloadRules(c) \/ ReloadScript(c)
      PROVE  Kept'
  <2>1. UNCHANGED <<disk, rulesVars, scriptVars, boot, watching, pinged, disturbed, text>>
    BY <1>6 DEF LoadFile, ReloadRules, ReloadScript, Request, Load
  <2>2. at'[Watcher] = at[Watcher] /\ path'[Watcher] = path[Watcher]
    BY <1>6 DEF LoadFile, ReloadRules, ReloadScript, Load, Goto
  <2> QED
    BY <2>1, <2>2
<1>7. CASE Watch
  <2>1. CASE Notice
    BY <2>1 DEF Notice, Goto
  <2>2. CASE Settle
    BY <2>2 DEF Settle, Goto
  <2>3. CASE Drain
    BY <2>3 DEF Drain, Goto
  <2>4. CASE LookUp
    <3>1. CASE scriptPath = None
      BY <2>4, <3>1 DEF LookUp, Goto
    <3>2. CASE scriptPath # None
      BY <2>4, <3>2 DEF LookUp, Load, Goto
    <3> QED
      BY <3>1, <3>2
  <2> QED
    BY <1>7, <2>1, <2>2, <2>3, <2>4 DEF Watch
<1>8. CASE UNCHANGED vars
  BY <1>8 DEF vars
<1> QED
  BY <1>1, <1>2, <1>3, <1>4, <1>5, <1>6, <1>7, <1>8 DEF Next

\* The script watcher misses no save (script_watch.rs: drain, then reload),
\* whatever clients load meanwhile, where it started and where the text in
\* force was not out of date already when main or a client installed it.
THEOREM WatcherMissesNoSave == Spec => []NoSaveMissed
<1>1. WatchInv /\ [Next]_vars => WatchInv'
  BY WatchNext
<1>2. WatchInv => NoSaveMissed
  BY DEF WatchInv
<1> QED
  BY <1>1, <1>2, WatchInit, PTL DEF Spec

=============================================================================
