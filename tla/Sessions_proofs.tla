-------------------------- MODULE Sessions_proofs --------------------------
(***************************************************************************)
(* Proofs about Sessions: type correctness, that Restore applies nothing   *)
(* but what a Snapshot of that name captured, and that an acknowledged     *)
(* snapshot stays as it is until another save opens its file; for any      *)
(* number of clients, names and links, any crashes and restarts.           *)
(*                                                                         *)
(* The invariants are those of the steps alone; fairness is not used.      *)
(***************************************************************************)
EXTENDS SessionProperties, FiniteSetTheorems, TLAPS

States == {"idle", "captured", "open", "written", "restoring"}

LEMMA ConnectionFields ==
  ASSUME NEW x \in Connection
  PROVE  /\ x.at \in States
         /\ x.at # "idle" => x.name \in Name /\ x.links \in SUBSET Link
         /\ x.at = "restoring" => x.todo \in SUBSET Link /\ x.applied \in SUBSET Link
BY DEF Connection, Idle, States

LEMMA SavingFields ==
  ASSUME NEW x \in Connection, NEW at \in {"open", "written"},
         x.at \in {"captured", "open", "written"}
  PROVE  /\ [x EXCEPT !.at = at] \in Connection
         /\ [x EXCEPT !.at = at].at = at
         /\ [x EXCEPT !.at = at].name = x.name
         /\ [x EXCEPT !.at = at].links = x.links
BY DEF Connection, Idle

LEMMA ApplyingFields ==
  ASSUME NEW x \in Connection, x.at = "restoring",
         NEW T \in SUBSET Link, NEW A \in SUBSET Link
  PROVE  /\ [x EXCEPT !.todo = T, !.applied = A] \in Connection
         /\ [x EXCEPT !.todo = T, !.applied = A].at = "restoring"
         /\ [x EXCEPT !.todo = T, !.applied = A].name = x.name
         /\ [x EXCEPT !.todo = T, !.applied = A].links = x.links
BY DEF Connection, Idle

LEMMA AppliedFields ==
  ASSUME SavesOK, NEW c \in Client, NEW l \in Link, ApplyLink(c, l)
  PROVE  \E T \in SUBSET Link, A \in SUBSET Link :
           Becomes(c, [conn[c] EXCEPT !.todo = T, !.applied = A])
<1>1. conn[c] \in Connection /\ conn[c].at = "restoring"
  BY DEF ApplyLink, SavesOK
<1>2. conn[c].todo \in SUBSET Link /\ conn[c].applied \in SUBSET Link
  BY <1>1, ConnectionFields
<1> DEFINE A == IF loop = "closed" THEN conn[c].applied ELSE conn[c].applied \cup {l}
           T == conn[c].todo \ {l}
<1>3. Becomes(c, [conn[c] EXCEPT !.todo = T, !.applied = A])
  BY <1>1 DEF ApplyLink
<1>4. T \in SUBSET Link /\ A \in SUBSET Link
  BY <1>2
<1> QED
  BY <1>3, <1>4

-----------------------------------------------------------------------------
(***************************************************************************)
(* Types.                                                                  *)
(***************************************************************************)
LEMMA TypeInit == Init => TypeOK
<1> SUFFICES ASSUME Init PROVE TypeOK
  OBVIOUS
<1>1. LinksOK
  <2>1. <<>> \in Seq(Link) /\ <<>> \in Seq(Change)
    OBVIOUS
  <2> QED
    BY <2>1 DEF Init, LinksOK
<1>2. ProcessOK
  <2>1. notified \in BOOLEAN
    BY DEF Init
  <2>2. changes \in 0..MaxChanges /\ requests \in 0..MaxRequests /\ faults \in 0..MaxFaults
    BY SessionsAssumption DEF Init
  <2> QED
    BY <2>1, <2>2 DEF Init, ProcessOK
<1>3. SavesOK
  <2>1. Useless("absent") \in File
    BY DEF File
  <2>2. Idle \in Connection
    BY DEF Connection
  <2> QED
    BY <2>1, <2>2 DEF Init, SavesOK
<1> QED
  BY <1>1, <1>2, <1>3 DEF TypeOK

\* The two ways in which a link changes.
LEMMA TellTypes ==
  ASSUME LinksOK, NEW type \in {"LinkAppeared", "LinkRemoved"}, NEW l \in Link,
         Tell(type, l) \/ UNCHANGED news
  PROVE  news' \in Seq(Change)
<1>1. [type |-> type, link |-> l] \in Change
  BY DEF Change
<1>2. news \in Seq(Change)
  BY DEF LinksOK
<1>3. Append(news, [type |-> type, link |-> l]) \in Seq(Change)
  BY <1>1, <1>2
<1> QED
  BY <1>2, <1>3 DEF Tell

LEMMA WireTypes ==
  ASSUME LinksOK, NEW l \in ports, Wire(l)
  PROVE  wired' \subseteq ports /\ news' \in Seq(Change)
<1>1. l \in Link /\ wired' \subseteq ports
  BY DEF LinksOK, Wire
<1>2. Tell("LinkAppeared", l) \/ UNCHANGED news
  BY DEF Wire
<1> QED
  BY <1>1, <1>2, TellTypes

LEMMA UnwireTypes ==
  ASSUME LinksOK, NEW l \in Link, Unwire(l)
  PROVE  wired' \subseteq ports \ {l} /\ news' \in Seq(Change)
<1>1. wired' \subseteq ports \ {l}
  BY DEF LinksOK, Unwire
<1>2. Tell("LinkRemoved", l) \/ UNCHANGED news
  BY DEF Unwire
<1> QED
  BY <1>1, <1>2, TellTypes

LEMMA ReplayTypes ==
  ASSUME NEW S \in SUBSET Link, NEW s \in SetToSeqs(S)
  PROVE  [i \in DOMAIN s |-> [type |-> "LinkAppeared", link |-> s[i]]] \in Seq(Change)
<1>1. Cardinality(S) \in Nat
  BY SessionsAssumption, FS_Subset, FS_CardinalityType
<1>2. s \in [1..Cardinality(S) -> S]
  BY DEF SetToSeqs
<1>3. [i \in 1..Cardinality(S) |-> [type |-> "LinkAppeared", link |-> s[i]]]
        \in [1..Cardinality(S) -> Change]
  BY <1>2 DEF Change
<1> QED
  BY <1>1, <1>2, <1>3

\* No step creates a link without its ports, or puts anything else into a
\* channel or the graph.
LEMMA LinksNext == LinksOK /\ SavesOK /\ [Next]_vars => LinksOK'
<1> SUFFICES ASSUME LinksOK, SavesOK, [Next]_vars PROVE LinksOK'
  OBVIOUS
<1>1. ASSUME PipeWireRestarts PROVE LinksOK'
  BY <1>1 DEF PipeWireRestarts, LinksOK
<1>2. ASSUME NEW l \in Link, OthersChange(l) PROVE LinksOK'
  <2>1. CASE l \in ports \ wired /\ Wire(l) /\ UNCHANGED ports
    BY <1>2, <2>1, WireTypes DEF OthersChange, LinksOK
  <2>2. CASE Unwire(l) /\ ports' \in {ports, ports \ {l}}
    BY <1>2, <2>2, UnwireTypes DEF OthersChange, LinksOK
  <2> QED
    BY <1>2, <2>1, <2>2 DEF OthersChange
<1>3. ASSUME Start PROVE LinksOK'
  <2>1. news' \in Seq(Change)
    <3>1. CASE news' = <<>>
      BY <3>1
    <3>2. CASE \E S \in SUBSET wired : \E s \in SetToSeqs(S) :
                 news' = [i \in DOMAIN s |-> [type |-> "LinkAppeared", link |-> s[i]]]
      BY <3>2, ReplayTypes DEF LinksOK
    <3> QED
      BY <1>3, <3>1, <3>2 DEF Start
  <2> QED
    BY <1>3, <2>1 DEF Start, pipewire, LinksOK
<1>4. ASSUME Execute PROVE LinksOK'
  <2>1. Head(cmds) \in Link /\ cmds' \in Seq(Link)
    BY <1>4 DEF Execute, LinksOK
  <2>2. CASE Creatable(Head(cmds)) /\ Wire(Head(cmds))
    BY <1>4, <2>1, <2>2, WireTypes DEF Execute, Creatable, LinksOK
  <2>3. CASE UNCHANGED <<wired, news>>
    BY <1>4, <2>1, <2>3 DEF Execute, LinksOK
  <2> QED
    BY <1>4, <2>2, <2>3 DEF Execute
<1>5. ASSUME Pump PROVE LinksOK'
  <2>1. Head(news) \in Change /\ news' \in Seq(Change)
    BY <1>5 DEF Pump, LinksOK
  <2>2. graph' \subseteq Link
    BY <1>5, <2>1 DEF Pump, Applied, Change, LinksOK
  <2> QED
    BY <1>5, <2>1, <2>2 DEF Pump, pipewire, LinksOK
<1>6. ASSUME NEW c \in Client, NEW l \in Link, ApplyLink(c, l) PROVE LinksOK'
  <2>1. cmds' \in Seq(Link)
    BY <1>6 DEF ApplyLink, LinksOK
  <2> QED
    BY <1>6, <2>1 DEF ApplyLink, pipewire, LinksOK
<1>7. CASE UNCHANGED <<ports, wired, cmds, news, graph>> /\ refused' \subseteq refused
            /\ loop' \in {loop, "up"}
  BY <1>7 DEF LinksOK
<1> QED
  BY <1>1, <1>2, <1>3, <1>4, <1>5, <1>6, <1>7
     DEF Next, Life, Requests, Connections, Replayed, Select, ServeEnds, Wake, Exit, Crash,
         Gone, BuildSnapshot, OpenFile, WriteFile, SaveFails, Answer, Load, AnswerRestore,
         Shutdown, vars, pipewire, backend

LEMMA ProcessNext == ProcessOK /\ [Next]_vars => ProcessOK'
<1> SUFFICES ASSUME ProcessOK, [Next]_vars PROVE ProcessOK'
  OBVIOUS
<1>1. /\ changes' \in 0..MaxChanges
      /\ requests' \in 0..MaxRequests
      /\ faults' \in 0..MaxFaults
  <2>1. \/ UNCHANGED bounds \/ Fault
        \/ \E l \in Link : OthersChange(l)
        \/ \E c \in Client : Request(c)
    BY DEF Next, Life, Requests, Connections, PipeWireRestarts, Start, Replayed, Select,
           ServeEnds, Wake, Exit, Crash, Execute, Pump, BuildSnapshot, OpenFile, WriteFile,
           SaveFails, Answer, Load, ApplyLink, AnswerRestore, Shutdown, vars
  <2>2. /\ changes \in 0..MaxChanges /\ requests \in 0..MaxRequests /\ faults \in 0..MaxFaults
        /\ MaxChanges \in Nat /\ MaxRequests \in Nat /\ MaxFaults \in Nat
    BY SessionsAssumption DEF ProcessOK
  <2>3. CASE UNCHANGED bounds
    BY <2>2, <2>3 DEF bounds
  <2>4. CASE Fault
    BY <2>2, <2>4 DEF Fault
  <2>5. ASSUME NEW l \in Link, OthersChange(l)
        PROVE  changes > 0 /\ changes' = changes - 1 /\ UNCHANGED <<requests, faults>>
    BY <2>5 DEF OthersChange
  <2>6. ASSUME NEW c \in Client, Request(c)
        PROVE  requests > 0 /\ requests' = requests - 1 /\ UNCHANGED <<changes, faults>>
    BY <2>6 DEF Request
  <2> QED
    BY <2>1, <2>2, <2>3, <2>4, <2>5, <2>6
<1>2. notified' \in BOOLEAN
  <2>1. UNCHANGED notified \/ Start \/ \E c \in Client : Shutdown(c)
    BY DEF Next, Life, Requests, Connections, PipeWireRestarts, OthersChange, Replayed,
           Select, ServeEnds, Wake, Exit, Crash, Gone, Execute, Pump, BuildSnapshot, OpenFile,
           WriteFile, SaveFails, Answer, Load, ApplyLink, AnswerRestore, vars, process
  <2>2. CASE UNCHANGED notified
    BY <2>2, Zenon DEF ProcessOK
  <2>3. CASE Start
    BY <2>3, Zenon DEF Start
  <2>4. ASSUME NEW c \in Client, Shutdown(c) PROVE notified' \in BOOLEAN
    BY <2>4, Zenon DEF Shutdown, ProcessOK
  <2> QED
    BY <2>1, <2>2, <2>3, <2>4, Zenon
<1>3. daemon' \in {"down", "serving", "ready", "leaving", "exited"}
  BY DEF Next, Life, Requests, Connections, PipeWireRestarts, OthersChange, Start, Replayed,
         Select, ServeEnds, Wake, Exit, Crash, Gone, Execute, Pump, BuildSnapshot, OpenFile,
         WriteFile, SaveFails, Answer, Load, ApplyLink, AnswerRestore, Shutdown, vars, process,
         ProcessOK
<1> QED
  BY <1>1, <1>2, <1>3 DEF ProcessOK

\* What touches the connections and the files; everything else leaves them
\* alone.
Quiet == UNCHANGED <<conn, file, history>>

SaveStep(c) ==
  \/ OpenFile(c) \/ WriteFile(c) \/ SaveFails(c) \/ Answer(c) \/ AnswerRestore(c)
  \/ \E n \in Name : BuildSnapshot(c, n) \/ Load(c, n)
  \/ \E l \in Link : ApplyLink(c, l)

LEMMA SaveSteps == [Next]_vars => Quiet \/ Gone \/ \E c \in Client : SaveStep(c)
BY DEF Next, Life, Requests, Connections, PipeWireRestarts, OthersChange, Start, Replayed,
       Select, ServeEnds, Wake, Exit, Crash, Execute, Pump, Shutdown, vars, Quiet, SaveStep,
       history

\* A connection goes on to another state.
LEMMA Becoming ==
  ASSUME SavesOK, NEW c \in Client, NEW x \in Connection, Becomes(c, x)
  PROVE  /\ conn' \in [Client -> Connection]
         /\ conn'[c] = x
         /\ \A d \in Client \ {c} : conn'[d] = conn[d]
BY DEF SavesOK, Becomes

\* A save on its way goes on with the name and the links it started with.
LEMMA SavingGoesOn ==
  ASSUME SavesOK, NEW c \in Client, NEW at \in {"open", "written"},
         conn[c].at \in {"captured", "open"}, Becomes(c, [conn[c] EXCEPT !.at = at])
  PROVE  /\ conn'[c].at = at
         /\ conn'[c].links = conn[c].links /\ conn'[c].name = conn[c].name
         /\ \A d \in Client \ {c} : conn'[d] = conn[d]
<1>1. conn[c] \in Connection
  BY DEF SavesOK
<1>2. PICK y \in Connection :
        /\ y = [conn[c] EXCEPT !.at = at]
        /\ y.at = at /\ y.name = conn[c].name /\ y.links = conn[c].links
  BY <1>1, SavingFields
<1>3. Becomes(c, y)
  BY <1>2
<1> QED
  BY <1>2, <1>3, Becoming

\* So does a restore.
LEMMA RestoringGoesOn ==
  ASSUME SavesOK, NEW c \in Client, NEW l \in Link, ApplyLink(c, l)
  PROVE  /\ conn[c].at = "restoring" /\ conn'[c].at = "restoring"
         /\ conn'[c].links = conn[c].links /\ conn'[c].name = conn[c].name
         /\ \A d \in Client \ {c} : conn'[d] = conn[d]
<1>1. conn[c] \in Connection /\ conn[c].at = "restoring"
  BY DEF ApplyLink, SavesOK
<1>2. PICK T \in SUBSET Link, A \in SUBSET Link :
        Becomes(c, [conn[c] EXCEPT !.todo = T, !.applied = A])
  BY AppliedFields
<1> DEFINE y == [conn[c] EXCEPT !.todo = T, !.applied = A]
<1>3. y \in Connection /\ y.at = "restoring" /\ y.name = conn[c].name /\ y.links = conn[c].links
  BY <1>1 DEF Connection, Idle
<1>4. Becomes(c, y)
  BY <1>2
<1> HIDE DEF y
<1> QED
  BY <1>1, <1>3, <1>4, Becoming

LEMMA KnownStates == Idle \in Connection /\ \A s \in {"absent", "empty", "torn"} : Useless(s) \in File
BY DEF Connection, File

LEMMA SavesNext == LinksOK /\ SavesOK /\ [Next]_vars => SavesOK'
<1> SUFFICES ASSUME LinksOK, SavesOK, [Next]_vars PROVE SavesOK'
  OBVIOUS
<1>1. CASE Quiet
  BY <1>1 DEF Quiet, history, SavesOK
<1>2. CASE Gone
  BY <1>2, KnownStates DEF Gone, SavesOK
<1>3. ASSUME NEW c \in Client, OpenFile(c) PROVE SavesOK'
  <2>1. conn[c] \in Connection /\ conn[c].at = "captured"
    BY <1>3 DEF SavesOK, OpenFile
  <2>2. conn' \in [Client -> Connection]
    BY <1>3, <2>1, SavingFields, Becoming DEF OpenFile
  <2>3. conn[c].name \in Name
    BY <2>1, ConnectionFields
  <2> QED
    BY <1>3, <2>2, <2>3, KnownStates DEF OpenFile, SavesOK
<1>4. ASSUME NEW c \in Client, WriteFile(c) PROVE SavesOK'
  <2>1. conn[c] \in Connection /\ conn[c].at = "open"
    BY <1>4 DEF SavesOK, WriteFile
  <2>2. conn' \in [Client -> Connection]
    BY <1>4, <2>1, SavingFields, Becoming DEF WriteFile
  <2>3. conn[c].name \in Name /\ conn[c].links \in SUBSET Link
    BY <2>1, ConnectionFields
  <2>4. Overlay(file[conn[c].name], conn[c].links) \subseteq File
    BY <2>3, KnownStates DEF Overlay, File
  <2> QED
    BY <1>4, <2>2, <2>3, <2>4 DEF WriteFile, history, SavesOK
<1>5. ASSUME NEW c \in Client, SaveFails(c) PROVE SavesOK'
  <2>1. conn' \in [Client -> Connection]
    BY <1>5, KnownStates, Becoming DEF SaveFails
  <2>2. file' \in [Name -> File]
    BY <1>5, KnownStates DEF SaveFails, SavesOK
  <2> QED
    BY <1>5, <2>1, <2>2 DEF SaveFails, SavesOK
<1>6. ASSUME NEW c \in Client, Answer(c) PROVE SavesOK'
  <2>1. conn' \in [Client -> Connection]
    BY <1>6, KnownStates, Becoming DEF Answer
  <2>2. conn[c].name \in Name /\ conn[c].links \in SUBSET Link
    BY <1>6, ConnectionFields DEF Answer, Written, SavesOK
  <2>3. Whole(conn[c].links) \in File
    BY <2>2 DEF File
  <2> QED
    BY <1>6, <2>1, <2>2, <2>3 DEF Answer, SavesOK
<1>7. ASSUME NEW c \in Client, AnswerRestore(c) PROVE SavesOK'
  <2>1. conn' \in [Client -> Connection]
    BY <1>7, KnownStates, Becoming DEF AnswerRestore
  <2> QED
    BY <1>7, <2>1 DEF AnswerRestore, history, SavesOK
<1>8. ASSUME NEW c \in Client, NEW n \in Name, BuildSnapshot(c, n) PROVE SavesOK'
  <2>1. graph \in SUBSET Link
    BY DEF LinksOK
  <2>2. Saving("captured", n, graph) \in Connection
    BY <2>1 DEF Saving, Connection
  <2>3. conn' \in [Client -> Connection]
    BY <1>8, <2>2, Becoming DEF BuildSnapshot
  <2> QED
    BY <1>8, <2>1, <2>3 DEF BuildSnapshot, SavesOK
<1>9. ASSUME NEW c \in Client, NEW n \in Name, Load(c, n) PROVE SavesOK'
  <2>1. PICK S \in Readable(file[n]) : Becomes(c, Restoring(n, S, ToApply(S)))
    BY <1>9 DEF Load
  <2>2. S \in SUBSET Link
    BY <2>1 DEF Readable, SavesOK, File, Whole, Useless
  <2>3. Restoring(n, S, ToApply(S)) \in Connection
    BY <2>2 DEF Restoring, ToApply, Connection
  <2>4. conn' \in [Client -> Connection]
    BY <2>1, <2>3, Becoming
  <2> QED
    BY <1>9, <2>4 DEF Load, history, SavesOK
<1>10. ASSUME NEW c \in Client, NEW l \in Link, ApplyLink(c, l) PROVE SavesOK'
  <2>1. PICK T \in SUBSET Link, A \in SUBSET Link :
          Becomes(c, [conn[c] EXCEPT !.todo = T, !.applied = A])
    BY <1>10, AppliedFields
  <2>2. conn' \in [Client -> Connection]
    BY <1>10, <2>1, ApplyingFields, Becoming DEF ApplyLink, SavesOK
  <2> QED
    BY <1>10, <2>2 DEF ApplyLink, history, SavesOK
<1> QED
  BY <1>1, <1>2, <1>3, <1>4, <1>5, <1>6, <1>7, <1>8, <1>9, <1>10, SaveSteps DEF SaveStep

\* Every variable keeps to its type, the bounds of changes, requests and
\* faults included: channels hold links, files hold sets of links or nothing
\* that parses, and no link is there without its ports.
THEOREM SessionsTypeCorrect == Spec => []TypeOK
<1>1. TypeOK /\ [Next]_vars => TypeOK'
  BY LinksNext, ProcessNext, SavesNext DEF TypeOK
<1> QED
  BY TypeInit, <1>1, PTL DEF Spec

-----------------------------------------------------------------------------
(***************************************************************************)
(* What a snapshot holds was captured under its name: on its way into the  *)
(* file, in the file, and on its way out of it.                            *)
(***************************************************************************)
LinksSaved == \A c \in Client : conn[c].at # "idle" => conn[c].links \in saved[conn[c].name]
FilesSaved == \A n \in Name : file[n].state = "whole" => file[n].links \in saved[n]

SavedInv == LinksSaved /\ FilesSaved

LEMMA SavedInit == Init => SavedInv
BY DEF Init, SavedInv, LinksSaved, FilesSaved, Idle, Useless

LEMMA SavedNext == SavesOK /\ LinksOK /\ SavedInv /\ [Next]_vars => SavedInv'
<1> SUFFICES ASSUME SavesOK, LinksOK, SavedInv, [Next]_vars PROVE SavedInv'
  OBVIOUS
<1> USE DEF SavedInv
<1>0. SavesOK'
  BY SavesNext
<1>1. CASE Quiet
  BY <1>1 DEF Quiet, history, LinksSaved, FilesSaved
<1>2. CASE Gone
  BY <1>2 DEF Gone, Idle, LinksSaved, FilesSaved
<1>3. ASSUME NEW c \in Client, OpenFile(c) PROVE SavedInv'
  <2>1. conn[c] \in Connection /\ conn[c].at = "captured"
    BY <1>3 DEF SavesOK, OpenFile
  <2>2. /\ conn'[c].links = conn[c].links /\ conn'[c].name = conn[c].name
        /\ \A d \in Client \ {c} : conn'[d] = conn[d]
    BY <1>3, <2>1, SavingGoesOn DEF OpenFile
  <2>3. LinksSaved'
    BY <1>3, <2>1, <2>2 DEF OpenFile, LinksSaved
  <2>4. FilesSaved'
    BY <1>3 DEF OpenFile, FilesSaved, SavesOK, Useless
  <2> QED
    BY <2>3, <2>4
<1>4. ASSUME NEW c \in Client, WriteFile(c) PROVE SavedInv'
  <2>1. conn[c] \in Connection /\ conn[c].at = "open" /\ UNCHANGED saved
    BY <1>4 DEF SavesOK, WriteFile, history
  <2>2. /\ conn'[c].links = conn[c].links /\ conn'[c].name = conn[c].name
        /\ \A d \in Client \ {c} : conn'[d] = conn[d]
    BY <1>4, <2>1, SavingGoesOn DEF WriteFile
  <2>3. LinksSaved'
    BY <2>1, <2>2 DEF LinksSaved
  <2>4. \A f \in Overlay(file[conn[c].name], conn[c].links) :
          f.state = "whole" => f.links = conn[c].links
    BY DEF Overlay, Whole, Useless
  <2>5. FilesSaved'
    BY <1>4, <2>1, <2>4 DEF WriteFile, LinksSaved, FilesSaved, SavesOK
  <2> QED
    BY <2>3, <2>5
<1>5. ASSUME NEW c \in Client, Becomes(c, Idle), UNCHANGED saved,
             \A n \in Name : file'[n] = file[n] \/ file'[n].state = "torn"
      PROVE  SavedInv'
  <2>1. conn'[c] = Idle /\ \A d \in Client \ {c} : conn'[d] = conn[d]
    BY <1>5, KnownStates, Becoming
  <2> QED
    BY <1>5, <2>1 DEF Idle, LinksSaved, FilesSaved
<1>9. ASSUME NEW c \in Client, SaveFails(c)
      PROVE  \A n \in Name : file'[n] = file[n] \/ file'[n].state = "torn"
  BY <1>9 DEF SaveFails, SavesOK, Useless
<1>6. ASSUME NEW c \in Client, NEW n \in Name, BuildSnapshot(c, n) PROVE SavedInv'
  <2>1. Saving("captured", n, graph) \in Connection
    BY DEF LinksOK, Saving, Connection
  <2>2. /\ conn'[c] = Saving("captured", n, graph)
        /\ \A d \in Client \ {c} : conn'[d] = conn[d]
    BY <1>6, <2>1, Becoming DEF BuildSnapshot
  <2>3. graph \in saved'[n] /\ \A k \in Name : saved[k] \subseteq saved'[k]
    BY <1>6 DEF BuildSnapshot, SavesOK
  <2>4. LinksSaved'
    <3>1. ASSUME NEW d \in Client, conn'[d].at # "idle"
          PROVE  conn'[d].links \in saved'[conn'[d].name]
      <4>1. CASE d = c
        BY <2>2, <2>3, <4>1 DEF Saving
      <4>2. CASE d # c
        <5>1. conn[d] \in Connection /\ conn'[d] = conn[d]
          BY <2>2, <4>2 DEF SavesOK
        <5>2. conn[d].name \in Name
          BY <3>1, <5>1, ConnectionFields
        <5> QED
          BY <2>3, <3>1, <5>1, <5>2 DEF LinksSaved
      <4> QED
        BY <4>1, <4>2
    <3> QED
      BY <3>1 DEF LinksSaved
  <2>5. FilesSaved'
    BY <1>6, <2>3 DEF BuildSnapshot, FilesSaved
  <2> QED
    BY <2>4, <2>5
<1>7. ASSUME NEW c \in Client, NEW n \in Name, Load(c, n) PROVE SavedInv'
  <2>1. PICK S \in Readable(file[n]) : Becomes(c, Restoring(n, S, ToApply(S)))
    BY <1>7 DEF Load
  <2>2. S \in SUBSET Link /\ S \in saved[n]
    BY <2>1 DEF Readable, SavesOK, File, Whole, Useless, FilesSaved
  <2>3. Restoring(n, S, ToApply(S)) \in Connection
    BY <2>2 DEF Restoring, ToApply, Connection
  <2>4. /\ conn'[c] = Restoring(n, S, ToApply(S))
        /\ \A d \in Client \ {c} : conn'[d] = conn[d]
    BY <2>1, <2>3, Becoming
  <2>5. UNCHANGED <<file, saved>>
    BY <1>7 DEF Load, history
  <2> QED
    BY <2>2, <2>4, <2>5 DEF Restoring, LinksSaved, FilesSaved
<1>8. ASSUME NEW c \in Client, NEW l \in Link, ApplyLink(c, l) PROVE SavedInv'
  <2>1. /\ conn[c].at = "restoring"
        /\ conn'[c].links = conn[c].links /\ conn'[c].name = conn[c].name
        /\ \A d \in Client \ {c} : conn'[d] = conn[d]
    BY <1>8, RestoringGoesOn
  <2>2. UNCHANGED <<file, saved>>
    BY <1>8 DEF ApplyLink, history
  <2> QED
    BY <2>1, <2>2 DEF LinksSaved, FilesSaved
<1> QED
  BY <1>1, <1>2, <1>3, <1>4, <1>5, <1>6, <1>7, <1>8, <1>9, SaveSteps
     DEF SaveStep, SaveFails, Answer, AnswerRestore, history

\* Restore applies nothing but a set of links that some Snapshot of that name
\* captured: a file that parses was written whole by one save (load).
THEOREM RestoreLoadsOnlySaved == Spec => []LoadsOnlySaved
<1>1. TypeOK /\ SavedInv /\ [Next]_vars => SavedInv'
  BY SavedNext DEF TypeOK
<1>2. SavedInv => LoadsOnlySaved
  BY DEF SavedInv, LinksSaved, LoadsOnlySaved
<1> QED
  BY SessionsTypeCorrect, SavedInit, <1>1, <1>2, PTL DEF Spec

-----------------------------------------------------------------------------
(***************************************************************************)
(* While one save alone has a file open, the file is as that save left it; *)
(* once it is acknowledged, nobody has the file open.                      *)
(***************************************************************************)
OnlyOne(c, n) == \A d \in Client \ {c} : ~HasOpen(d, n)

InProgress(c, n) ==
  /\ conn[c].at \in {"open", "written"} /\ conn[c].name = n
  /\ conn[c].at = "open" => file[n].state = "empty"
  /\ conn[c].at = "written" => file[n] = Whole(conn[c].links)
  /\ OnlyOne(c, n)

OwnerInv == \A n \in Name : owner[n] \in Client => InProgress(owner[n], n)
AckedInv ==
  \A n \in Name : acked[n].state = "whole" =>
    file[n] = acked[n] /\ \A d \in Client : ~HasOpen(d, n)

AckInv == OwnerInv /\ AckedInv

LEMMA AckInit == Init => AckInv
BY SessionsAssumption DEF Init, AckInv, OwnerInv, AckedInv, Useless

\* A connection that saves nothing, before or after, is nobody's concern.
LEMMA NotSaving ==
  ASSUME SavesOK, AckInv, NEW c \in Client,
         conn[c].at \notin {"open", "written"}, conn'[c].at # "open",
         \A d \in Client \ {c} : conn'[d] = conn[d],
         UNCHANGED <<file, owner, acked>>
  PROVE  AckInv'
<1>1. \A d \in Client, n \in Name : HasOpen(d, n)' => HasOpen(d, n)
  BY DEF HasOpen
<1>2. ASSUME NEW n \in Name, owner[n] \in Client PROVE InProgress(owner[n], n)'
  <2>1. InProgress(owner[n], n) /\ owner[n] # c
    BY <1>2 DEF AckInv, OwnerInv, InProgress
  <2> QED
    BY <1>1, <1>2, <2>1 DEF InProgress, OnlyOne
<1>3. OwnerInv'
  BY <1>2 DEF OwnerInv
<1>4. AckedInv'
  BY <1>1 DEF AckInv, AckedInv
<1> QED
  BY <1>3, <1>4 DEF AckInv

LEMMA AckOpen ==
  ASSUME SavesOK, AckInv, NEW c \in Client, OpenFile(c)
  PROVE  AckInv'
<1> DEFINE m == conn[c].name
<1>1. conn[c] \in Connection /\ conn[c].at = "captured" /\ m \in Name
  BY ConnectionFields DEF SavesOK, OpenFile
<1>2. /\ conn'[c].at = "open" /\ conn'[c].name = m
      /\ \A d \in Client \ {c} : conn'[d] = conn[d]
  BY <1>1, SavingGoesOn DEF OpenFile
<1>3. /\ file'[m].state = "empty" /\ acked'[m].state = "absent"
      /\ \A n \in Name \ {m} : file'[n] = file[n] /\ owner'[n] = owner[n] /\ acked'[n] = acked[n]
  BY <1>1 DEF OpenFile, SavesOK, Useless
<1>4. owner'[m] \in Client => owner'[m] = c /\ \A d \in Client : ~HasOpen(d, m)
  BY <1>1, SessionsAssumption DEF OpenFile, SavesOK
<1> HIDE DEF m
<1>5. \A d \in Client \ {c}, n \in Name : HasOpen(d, n)' <=> HasOpen(d, n)
  BY <1>2 DEF HasOpen
<1>6. \A n \in Name \ {m} : ~HasOpen(c, n)'
  BY <1>2 DEF HasOpen
<1>7. ASSUME NEW n \in Name, owner'[n] \in Client PROVE InProgress(owner[n], n)'
  <2>1. CASE n = m
    BY <1>2, <1>3, <1>4, <1>5, <1>7, <2>1 DEF InProgress, OnlyOne
  <2>2. CASE n # m
    <3>1. owner'[n] = owner[n] /\ InProgress(owner[n], n) /\ owner[n] # c /\ owner[n] \in Client
      BY <1>1, <1>3, <1>7, <2>2 DEF AckInv, OwnerInv, InProgress
    <3>2. conn'[owner[n]] = conn[owner[n]] /\ file'[n] = file[n]
      BY <1>2, <1>3, <2>2, <3>1
    <3>3. OnlyOne(owner[n], n)'
      BY <1>5, <1>6, <2>2, <3>1 DEF InProgress, OnlyOne
    <3> QED
      BY <3>1, <3>2, <3>3 DEF InProgress, OnlyOne
  <2> QED
    BY <2>1, <2>2
<1>8. OwnerInv'
  BY <1>7 DEF OwnerInv
<1>9. AckedInv'
  BY <1>3, <1>5, <1>6 DEF AckInv, AckedInv
<1> QED
  BY <1>8, <1>9 DEF AckInv

LEMMA AckWrite ==
  ASSUME SavesOK, AckInv, NEW c \in Client, WriteFile(c)
  PROVE  AckInv'
<1> DEFINE m == conn[c].name
<1>1. conn[c] \in Connection /\ conn[c].at = "open" /\ m \in Name
  BY ConnectionFields DEF SavesOK, WriteFile
<1>2. /\ conn'[c].at = "written" /\ conn'[c].name = m /\ conn'[c].links = conn[c].links
      /\ \A d \in Client \ {c} : conn'[d] = conn[d]
  BY <1>1, SavingGoesOn DEF WriteFile
<1>3. UNCHANGED <<owner, acked>>
  BY DEF WriteFile, history
<1>4. file[m].state = "empty" => file'[m] = Whole(conn[c].links)
  BY <1>1 DEF WriteFile, Overlay, SticksOut, SavesOK
<1>5. \A n \in Name \ {m} : file'[n] = file[n]
  BY <1>1 DEF WriteFile, SavesOK
<1>6. HasOpen(c, m)
  BY <1>1 DEF HasOpen
<1> HIDE DEF m
<1>7. \A d \in Client, n \in Name : HasOpen(d, n)' => HasOpen(d, n)
  BY <1>2 DEF HasOpen
<1>8. ASSUME NEW n \in Name, owner[n] \in Client PROVE InProgress(owner[n], n)'
  <2>1. InProgress(owner[n], n)
    BY <1>8 DEF AckInv, OwnerInv
  <2>2. OnlyOne(owner[n], n)'
    BY <1>7, <1>3, <2>1 DEF InProgress, OnlyOne
  <2>3. CASE owner[n] = c
    <3>1. n = m /\ file[m].state = "empty"
      BY <1>1, <2>1, <2>3 DEF InProgress, m
    <3> QED
      BY <1>2, <1>3, <1>4, <2>2, <2>3, <3>1 DEF InProgress
  <2>4. CASE owner[n] # c
    <3>1. n # m
      BY <1>6, <2>1, <2>4 DEF InProgress, OnlyOne
    <3>2. conn'[owner[n]] = conn[owner[n]] /\ file'[n] = file[n]
      BY <1>2, <1>5, <1>8, <2>4, <3>1
    <3> QED
      BY <1>3, <2>1, <2>2, <3>2 DEF InProgress
  <2> QED
    BY <2>3, <2>4
<1>9. OwnerInv'
  BY <1>3, <1>8 DEF OwnerInv
<1>10. AckedInv'
  BY <1>3, <1>5, <1>6, <1>7 DEF AckInv, AckedInv
<1> QED
  BY <1>9, <1>10 DEF AckInv

LEMMA AckEnds ==
  ASSUME SavesOK, AckInv, NEW c \in Client, Becomes(c, Idle),
         \A n \in Name : file'[n] = file[n] \/ HasOpen(c, n),
         \A n \in Name : owner'[n] = None \/ (owner'[n] = owner[n] /\ owner[n] # c),
         \A n \in Name : acked'[n] = acked[n]
                         \/ (acked'[n] = file'[n] /\ owner[n] = c)
  PROVE  AckInv'
<1>1. conn'[c].at = "idle" /\ \A d \in Client \ {c} : conn'[d] = conn[d]
  BY KnownStates, Becoming DEF Idle
<1>2. \A d \in Client, n \in Name : HasOpen(d, n)' => HasOpen(d, n) /\ d # c
  BY <1>1 DEF HasOpen
<1>3. ASSUME NEW n \in Name, owner'[n] \in Client PROVE InProgress(owner[n], n)'
  <2>1. owner'[n] = owner[n] /\ owner[n] # c /\ InProgress(owner[n], n)
    BY <1>3, SessionsAssumption DEF AckInv, OwnerInv
  <2>2. conn'[owner[n]] = conn[owner[n]] /\ file'[n] = file[n]
    BY <1>1, <1>3, <2>1 DEF InProgress, OnlyOne
  <2>3. OnlyOne(owner[n], n)'
    BY <1>2, <2>1 DEF InProgress, OnlyOne
  <2> QED
    BY <2>1, <2>2, <2>3 DEF InProgress, OnlyOne
<1>4. OwnerInv'
  BY <1>3 DEF OwnerInv
<1>5. ASSUME NEW n \in Name, acked'[n].state = "whole"
      PROVE  file'[n] = acked'[n] /\ \A d \in Client : ~HasOpen(d, n)'
  <2>1. CASE acked'[n] = acked[n]
    BY <1>2, <1>5, <2>1 DEF AckInv, AckedInv
  <2>2. CASE acked'[n] = file'[n] /\ owner[n] = c
    BY <1>2, <2>2 DEF AckInv, OwnerInv, InProgress, OnlyOne
  <2> QED
    BY <2>1, <2>2
<1>6. AckedInv'
  BY <1>5 DEF AckedInv
<1> QED
  BY <1>4, <1>6 DEF AckInv

LEMMA AckNext == SavesOK /\ LinksOK /\ AckInv /\ [Next]_vars => AckInv'
<1> SUFFICES ASSUME SavesOK, LinksOK, AckInv, [Next]_vars PROVE AckInv'
  OBVIOUS
<1>1. CASE Quiet
  BY <1>1 DEF Quiet, history, AckInv, OwnerInv, AckedInv, InProgress, OnlyOne, HasOpen
<1>2. CASE Gone
  BY <1>2, SessionsAssumption DEF Gone, Idle, AckInv, OwnerInv, AckedInv, HasOpen
<1>3. ASSUME NEW c \in Client, OpenFile(c) PROVE AckInv'
  BY <1>3, AckOpen
<1>4. ASSUME NEW c \in Client, WriteFile(c) PROVE AckInv'
  BY <1>4, AckWrite
<1>5. ASSUME NEW c \in Client, SaveFails(c) PROVE AckInv'
  <2>1. \A n \in Name : owner'[n] = None \/ (owner'[n] = owner[n] /\ owner[n] # c)
    BY <1>5 DEF SaveFails
  <2>2. /\ Becomes(c, Idle) /\ UNCHANGED acked
        /\ \A n \in Name : file'[n] = file[n] \/ HasOpen(c, n)
    BY <1>5 DEF SaveFails, HasOpen, SavesOK
  <2> QED
    BY <2>1, <2>2, AckEnds
<1>6. ASSUME NEW c \in Client, Answer(c) PROVE AckInv'
  <2>1. conn[c].at = "written"
    BY <1>6 DEF Answer, Written
  <2>2. \A n \in Name : owner[n] = c => n = conn[c].name /\ file[n] = Whole(conn[c].links)
    BY <2>1 DEF AckInv, OwnerInv, InProgress
  <2>3. \A n \in Name : owner'[n] = None \/ (owner'[n] = owner[n] /\ owner[n] # c)
    BY <1>6, <2>2 DEF Answer, SavesOK
  <2>4. \A n \in Name : acked'[n] = acked[n] \/ (acked'[n] = file'[n] /\ owner[n] = c)
    BY <1>6, <2>2 DEF Answer, SavesOK
  <2>5. Becomes(c, Idle) /\ UNCHANGED file
    BY <1>6 DEF Answer
  <2> QED
    BY <2>3, <2>4, <2>5, AckEnds
<1>7. ASSUME NEW c \in Client, AnswerRestore(c) PROVE AckInv'
  <2>1. conn'[c].at = "idle" /\ \A d \in Client \ {c} : conn'[d] = conn[d]
    BY <1>7, KnownStates, Becoming DEF AnswerRestore, Idle
  <2> QED
    BY <1>7, <2>1, NotSaving DEF AnswerRestore, history
<1>8. ASSUME NEW c \in Client, NEW n \in Name, BuildSnapshot(c, n) PROVE AckInv'
  <2>1. Saving("captured", n, graph) \in Connection
    BY DEF LinksOK, Saving, Connection
  <2>2. conn'[c].at = "captured" /\ \A d \in Client \ {c} : conn'[d] = conn[d]
    BY <1>8, <2>1, Becoming DEF BuildSnapshot, Saving
  <2> QED
    BY <1>8, <2>2, NotSaving DEF BuildSnapshot, Request, Idle
<1>9. ASSUME NEW c \in Client, NEW n \in Name, Load(c, n) PROVE AckInv'
  <2>1. PICK S \in Readable(file[n]) : Becomes(c, Restoring(n, S, ToApply(S)))
    BY <1>9 DEF Load
  <2>2. S \in SUBSET Link
    BY <2>1 DEF Readable, SavesOK, File, Whole, Useless
  <2>3. Restoring(n, S, ToApply(S)) \in Connection
    BY <2>2 DEF Restoring, ToApply, Connection
  <2>4. conn'[c].at = "restoring" /\ \A d \in Client \ {c} : conn'[d] = conn[d]
    BY <2>1, <2>3, Becoming DEF Restoring
  <2> QED
    BY <1>9, <2>4, NotSaving DEF Load, Request, Idle, history
<1>10. ASSUME NEW c \in Client, NEW l \in Link, ApplyLink(c, l) PROVE AckInv'
  <2>1. UNCHANGED <<file, owner, acked>>
    BY <1>10 DEF ApplyLink, history
  <2> QED
    BY <1>10, <2>1, RestoringGoesOn, NotSaving
<1> QED
  BY <1>1, <1>2, <1>3, <1>4, <1>5, <1>6, <1>7, <1>8, <1>9, <1>10, SaveSteps DEF SaveStep

\* The snapshot a client was told of stays in its file until another save
\* opens it, whatever crashes, fails or is restarted (save, do_snapshot).
THEOREM AcknowledgedSnapshotStays == Spec => []SavedSnapshotLoads
<1>1. TypeOK /\ AckInv /\ [Next]_vars => AckInv'
  BY AckNext DEF TypeOK
<1>2. AckInv => SavedSnapshotLoads
  BY DEF AckInv, AckedInv, SavedSnapshotLoads
<1> QED
  BY SessionsTypeCorrect, AckInit, <1>1, <1>2, PTL DEF Spec

=============================================================================
