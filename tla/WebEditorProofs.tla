--------------------------- MODULE WebEditorProofs ---------------------------
(***************************************************************************)
(* The web editor, for any number of files, tabs, requests in flight and   *)
(* changes by other programs: what counts as saved reached the file, and a *)
(* verdict is not about an older text than the one sent.                   *)
(***************************************************************************)
EXTENDS WebEditor, TLAPS

Tab == [open : Nat, text : Nat, saved : Nat]
Verdict == [path : Paths \cup {None}, text : Nat, since : Nat]
RequestSet ==
    [kind : {"open", "save", "prove", "reload", "click"}, path : Paths,
     text : Nat, open : Nat, step : {"sent", "writing", "written", "answered"},
     read : Nat, since : Nat, rest : SUBSET Paths, id : Nat \ {0}]

InFile(p, x) == \E k \in 1..Len(history[p]) : history[p][k] = x
InFileSince(p, x, since) == \E k \in since..Len(history[p]) : history[p][k] = x

FilesOK ==
    /\ texts \in Nat /\ sent \in Nat
    /\ disk \in [Paths -> Nat]
    /\ history \in [Paths -> Seq(Nat)]
    /\ \A p \in Paths : /\ disk[p] <= texts
                        /\ Len(history[p]) > 0
                        /\ disk[p] = history[p][Len(history[p])]

WatcherOK ==
    /\ pendingSaves \subseteq Paths /\ bars \subseteq Paths /\ modified \subseteq Paths
    /\ events \in Seq(Paths) /\ Len(events) <= MaxEvents

(* What an open tab counts as saved was in its file.                       *)
TabsOK ==
    /\ tabs \in [Paths -> Tab]
    /\ \A p \in Paths : /\ tabs[p].text <= texts /\ tabs[p].saved <= texts
                        /\ tabs[p].open # 0 => InFile(p, tabs[p].saved)

ActiveOK ==
    /\ activeTab \in Paths \cup {None}
    /\ activeTab # None => IsOpen(activeTab)
    /\ activeTab = None => OpenTabs = {}

(* A request that has written knows a text of the file, one that has read  *)
(* knows another; a run's answer is no older than what the run wrote.      *)
Recorded(r) ==
    /\ r.text <= texts /\ r.read <= texts
    /\ r.step = "answered" =>
          InFile(r.path, IF r.kind = "save" THEN r.text ELSE r.read)
    /\ r.kind = "prove" /\ r.step \in {"written", "answered"} =>
          r.since \in 1..Len(history[r.path]) /\ InFile(r.path, r.text)
    /\ r.kind = "prove" /\ r.step = "answered" => InFileSince(r.path, r.read, r.since)

RequestsOK == requests \subseteq RequestSet /\ \A r \in requests : Recorded(r)

Supported(v) == v.path \in Paths /\ v.since # 0 /\ InFileSince(v.path, v.text, v.since)

ResultsOK ==
    /\ hopResults \in [Paths \cup {None} -> Verdict]
    /\ \A p \in Paths \cup {None} : hopResults[p] # NoResults => Supported(hopResults[p])
    /\ \A p \in Paths : hopResults[p] # NoResults => IsOpen(p)

IInv == FilesOK /\ WatcherOK /\ TabsOK /\ ActiveOK /\ RequestsOK /\ ResultsOK

(* The contents a file had are not forgotten.                              *)
Grows ==
    /\ texts' \in Nat /\ texts <= texts'
    /\ \A p \in Paths : /\ Len(history'[p]) \in Nat /\ Len(history[p]) <= Len(history'[p])
                        /\ \A k \in 1..Len(history[p]) : history'[p][k] = history[p][k]

-------------------------------------------------------------------------------
(* What was in a file stays in its history.                                *)

LEMMA InFileKept ==
    ASSUME FilesOK, Grows, NEW p \in Paths, NEW x, NEW since \in Nat
    PROVE  /\ InFile(p, x) => InFile(p, x)'
           /\ since # 0 /\ InFileSince(p, x, since) => InFileSince(p, x, since)'
<1>1. Len(history[p]) \in Nat
  BY DEF FilesOK
<1>2. /\ Len(history'[p]) \in Nat /\ Len(history[p]) <= Len(history'[p])
      /\ \A k \in 1..Len(history[p]) : history'[p][k] = history[p][k]
  BY DEF Grows
<1>3. ASSUME InFile(p, x) PROVE InFile(p, x)'
  <2>1. PICK k \in 1..Len(history[p]) : history[p][k] = x
    BY <1>3 DEF InFile
  <2>2. k \in 1..Len(history'[p]) /\ history'[p][k] = x
    BY <1>1, <1>2, <2>1
  <2>3. QED BY <2>2 DEF InFile
<1>4. ASSUME since # 0, InFileSince(p, x, since) PROVE InFileSince(p, x, since)'
  <2>1. PICK k \in since..Len(history[p]) : history[p][k] = x
    BY <1>4 DEF InFileSince
  <2>2. k \in 1..Len(history[p])
    BY <1>1, <1>4
  <2>3. k \in since..Len(history'[p]) /\ history'[p][k] = x
    BY <1>1, <1>2, <2>1, <2>2
  <2>4. QED BY <2>3 DEF InFileSince
<1>5. QED BY <1>3, <1>4

LEMMA UnchangedGrows ==
    ASSUME FilesOK, UNCHANGED history, texts' \in Nat, texts <= texts'
    PROVE  Grows
BY DEF FilesOK, Grows

LEMMA RecordedKept ==
    ASSUME FilesOK, Grows, NEW r \in RequestSet, Recorded(r)
    PROVE  Recorded(r)'
<1>1. r.path \in Paths /\ r.since \in Nat /\ r.text \in Nat /\ r.read \in Nat
  BY DEF RequestSet
<1>2. r.text <= texts' /\ r.read <= texts'
  BY <1>1 DEF Recorded, Grows, FilesOK
<1>3. r.step = "answered" => InFile(r.path, IF r.kind = "save" THEN r.text ELSE r.read)'
  BY <1>1, InFileKept DEF Recorded
<1>4. ASSUME r.kind = "prove", r.step \in {"written", "answered"}
      PROVE  r.since \in 1..Len(history'[r.path]) /\ InFile(r.path, r.text)'
  <2>1. r.since \in 1..Len(history[r.path]) /\ InFile(r.path, r.text)
    BY <1>4 DEF Recorded
  <2>2. /\ Len(history[r.path]) \in Nat /\ Len(history'[r.path]) \in Nat
        /\ Len(history[r.path]) <= Len(history'[r.path])
    BY <1>1 DEF Grows, FilesOK
  <2>3. r.since \in 1..Len(history'[r.path])
    BY <2>1, <2>2
  <2>4. InFile(r.path, r.text)'
    BY <1>1, <2>1, InFileKept
  <2>5. QED BY <2>3, <2>4
<1>5. ASSUME r.kind = "prove", r.step = "answered"
      PROVE  InFileSince(r.path, r.read, r.since)'
  <2>1. r.since # 0 /\ InFileSince(r.path, r.read, r.since)
    <3>1. Len(history[r.path]) \in Nat
      BY <1>1 DEF FilesOK
    <3>2. QED BY <1>1, <1>5, <3>1 DEF Recorded
  <2>2. QED BY <1>1, <2>1, InFileKept
<1>6. QED BY <1>2, <1>3, <1>4, <1>5 DEF Recorded

(* Requests end, and new ones begin or take the place of old ones.         *)
LEMMA RequestsStep ==
    ASSUME FilesOK, Grows, RequestsOK, NEW S \in SUBSET RequestSet,
           requests' \subseteq requests \cup S, \A r \in S : Recorded(r)'
    PROVE  RequestsOK'
<1>1. \A r \in requests : Recorded(r)'
  BY RecordedKept DEF RequestsOK
<1>2. QED BY <1>1 DEF RequestsOK

LEMMA TabsStep ==
    ASSUME FilesOK, Grows, TabsOK, NEW p \in Paths, NEW t \in Tab,
           t.text <= texts', t.saved <= texts', t.open # 0 => InFile(p, t.saved)',
           tabs' = [tabs EXCEPT ![p] = t]
    PROVE  TabsOK'
<1>1. tabs' \in [Paths -> Tab]
  BY DEF TabsOK
<1>2. ASSUME NEW q \in Paths
      PROVE  (/\ tabs[q].text <= texts /\ tabs[q].saved <= texts
              /\ tabs[q].open # 0 => InFile(q, tabs[q].saved))'
  <2>1. CASE q = p
    BY <1>1, <2>1 DEF TabsOK
  <2>2. CASE q # p
    <3>1. tabs'[q] = tabs[q] /\ tabs[q].text \in Nat /\ tabs[q].saved \in Nat
      BY <2>2 DEF TabsOK, Tab
    <3>2. tabs[q].open # 0 => InFile(q, tabs[q].saved)
      BY DEF TabsOK
    <3>3. PICK x : x = tabs[q].saved
      OBVIOUS
    <3>4. tabs[q].open # 0 => InFile(q, x)'
      BY <3>2, <3>3, InFileKept
    <3>5. tabs[q].text <= texts' /\ tabs[q].saved <= texts'
      BY <3>1 DEF TabsOK, Grows, FilesOK
    <3>6. QED BY <3>1, <3>3, <3>4, <3>5
  <2>3. QED BY <2>1, <2>2
<1>3. QED BY <1>1, <1>2 DEF TabsOK

LEMMA TabsKept ==
    ASSUME FilesOK, Grows, TabsOK, UNCHANGED tabs
    PROVE  TabsOK'
<1>1. ASSUME NEW q \in Paths
      PROVE  (/\ tabs[q].text <= texts /\ tabs[q].saved <= texts
              /\ tabs[q].open # 0 => InFile(q, tabs[q].saved))'
  <2>1. PICK x : x = tabs[q].saved
    OBVIOUS
  <2>2. tabs[q].open # 0 => InFile(q, x)'
    BY <2>1, InFileKept DEF TabsOK
  <2>3. tabs[q].text \in Nat /\ tabs[q].saved \in Nat
    BY DEF TabsOK, Tab
  <2>4. QED BY <2>1, <2>2, <2>3 DEF TabsOK, Grows, FilesOK
<1>2. QED BY <1>1 DEF TabsOK

LEMMA SupportedKept ==
    ASSUME FilesOK, Grows, NEW v \in Verdict, Supported(v)
    PROVE  Supported(v)'
BY InFileKept DEF Supported, Verdict

LEMMA ResultsKept ==
    ASSUME FilesOK, Grows, ResultsOK, UNCHANGED hopResults,
           \A p \in Paths : hopResults[p] # NoResults => IsOpen(p)'
    PROVE  ResultsOK'
<1>1. ASSUME NEW p \in Paths \cup {None}, hopResults[p] # NoResults
      PROVE  Supported(hopResults[p])'
  <2>1. PICK v \in Verdict : v = hopResults[p]
    BY DEF ResultsOK
  <2>2. Supported(v)'
    BY <1>1, <2>1, SupportedKept DEF ResultsOK
  <2>3. QED BY <2>1, <2>2
<1>2. NoResults' = NoResults
  BY DEF NoResults
<1>3. QED BY <1>1, <1>2 DEF ResultsOK

-------------------------------------------------------------------------------
(* The actions of the user.                                                *)

LEMMA InitIInv == Init => IInv
<1> SUFFICES ASSUME Init PROVE IInv
  OBVIOUS
<1>1. FilesOK
  <2>1. <<1>> \in Seq(Nat) /\ Len(<<1>>) = 1 /\ <<1>>[1] = 1
    OBVIOUS
  <2>2. history = [p \in Paths |-> <<1>>] /\ disk = [p \in Paths |-> 1]
        /\ texts = 1 /\ sent = 0
    BY DEF Init
  <2>3. history \in [Paths -> Seq(Nat)]
    BY <2>1, <2>2
  <2>4. \A p \in Paths : disk[p] = 1 /\ history[p] = <<1>>
    BY <2>2
  <2>5. QED BY <2>1, <2>2, <2>3, <2>4 DEF FilesOK
<1>2. WatcherOK
  <2>1. MaxEvents \in Nat
    BY BoundsAssumption
  <2>2. events = <<>> /\ pendingSaves = {} /\ bars = {} /\ modified = {}
    BY DEF Init
  <2>3. Len(<<>>) = 0 /\ <<>> \in Seq(Paths)
    OBVIOUS
  <2>4. QED BY <2>1, <2>2, <2>3 DEF WatcherOK
<1>3. TabsOK
  <2>1. Closed \in Tab /\ Closed.open = 0 /\ Closed.text = 0 /\ Closed.saved = 0
    BY DEF Closed, Tab
  <2>2. tabs \in [Paths -> Tab] /\ (\A p \in Paths : tabs[p] = Closed) /\ texts = 1
    BY <2>1 DEF Init
  <2>3. QED BY <2>1, <2>2 DEF TabsOK
<1>4. ActiveOK
  BY DEF Init, ActiveOK, OpenTabs, IsOpen, Closed
<1>5. RequestsOK /\ ResultsOK
  BY DEF Init, RequestsOK, ResultsOK, NoResults, Verdict
<1>6. QED BY <1>1, <1>2, <1>3, <1>4, <1>5 DEF IInv

(* A request that is sent carries the text of its tab and knows nothing    *)
(* of the file.                                                            *)
LEMMA NewRequest ==
    ASSUME FilesOK, TabsOK, NEW p \in Paths, NEW rest \in SUBSET Paths,
           NEW kind \in {"open", "save", "prove", "reload", "click"}, NEW id \in Nat \ {0},
           NEW r, r = [kind |-> kind, path |-> p, text |-> tabs[p].text, open |-> tabs[p].open,
                       step |-> "sent", read |-> 0, since |-> 0, rest |-> rest, id |-> id]
    PROVE  r \in RequestSet /\ r.step = "sent" /\ r.text <= texts /\ r.read = 0
<1>1. tabs[p] \in Tab /\ tabs[p].text <= texts
  BY DEF TabsOK
<1>2. QED BY <1>1 DEF RequestSet, Tab

LEMMA SentIsRecorded ==
    ASSUME FilesOK, Grows, NEW r \in RequestSet, r.step = "sent", r.text <= texts, r.read = 0
    PROVE  Recorded(r)'
<1>1. r.text \in Nat /\ texts \in Nat /\ texts' \in Nat /\ texts <= texts'
  BY DEF RequestSet, FilesOK, Grows
<1>2. r.text <= texts' /\ r.read <= texts'
  BY <1>1
<1>3. QED BY <1>2 DEF Recorded

LEMMA SendStep ==
    ASSUME IInv, UNCHANGED <<texts, server>>, NEW p \in Paths, NEW rest \in SUBSET Paths,
           NEW kind \in {"open", "save", "prove", "reload", "click"}, Send(Request(kind, p, rest))
    PROVE  RequestsOK' /\ FilesOK'
<1>1. FilesOK /\ TabsOK /\ RequestsOK /\ Grows
  BY UnchangedGrows DEF IInv, server, FilesOK
<1>2. sent' = sent + 1 /\ requests' = requests \cup {Request(kind, p, rest)}
  BY DEF Send
<1>3. sent + 1 \in Nat \ {0}
  BY <1>1 DEF FilesOK
<1>4. PICK r : r = Request(kind, p, rest)
  OBVIOUS
<1>5. r = [kind |-> kind, path |-> p, text |-> tabs[p].text, open |-> tabs[p].open,
           step |-> "sent", read |-> 0, since |-> 0, rest |-> rest, id |-> sent + 1]
  BY <1>4 DEF Request
<1>6. r \in RequestSet /\ r.step = "sent" /\ r.text <= texts /\ r.read = 0
  BY <1>1, <1>3, <1>5, NewRequest
<1>7. Recorded(r)'
  BY <1>1, <1>6, SentIsRecorded
<1>8. RequestsOK'
  <2>1. requests' \subseteq requests \cup {r} /\ {r} \in SUBSET RequestSet
        /\ \A q \in {r} : Recorded(q)'
    BY <1>2, <1>4, <1>6, <1>7
  <2>2. QED BY <1>1, <2>1, RequestsStep
<1>9. FilesOK'
  BY <1>1, <1>2 DEF FilesOK, server
<1>10. QED BY <1>8, <1>9

(* A step that leaves the files, the requests or the page alone.           *)
LEMMA FilesKept ==
    ASSUME FilesOK, UNCHANGED <<server, texts, sent>>
    PROVE  FilesOK' /\ Grows
<1>1. FilesOK'
  BY DEF FilesOK, server
<1>2. QED BY <1>1, UnchangedGrows DEF FilesOK, server

LEMMA RequestsKept ==
    ASSUME FilesOK, Grows, RequestsOK, requests' \subseteq requests
    PROVE  RequestsOK'
<1>1. requests' \subseteq requests \cup {} /\ {} \in SUBSET RequestSet
      /\ \A r \in {} : Recorded(r)'
  OBVIOUS
<1>2. QED BY <1>1, RequestsStep

LEMMA PageKept ==
    ASSUME IInv, Grows, UNCHANGED <<tabs, activeTab, hopResults>>
    PROVE  TabsOK' /\ ActiveOK' /\ ResultsOK'
<1>1. TabsOK'
  BY TabsKept DEF IInv
<1>2. ActiveOK'
  BY DEF IInv, ActiveOK, IsOpen, OpenTabs
<1>3. ResultsOK'
  BY ResultsKept DEF IInv, ResultsOK, IsOpen
<1>4. QED BY <1>1, <1>2, <1>3

LEMMA ActiveIsPath ==
    ASSUME IInv, activeTab # None
    PROVE  activeTab \in Paths
BY DEF IInv, ActiveOK

(* A step that only sends, ends or drops something.                        *)
LEMMA PageAlone ==
    ASSUME IInv, UNCHANGED <<tabs, activeTab, hopResults, texts, disk, history>>,
           sent' \in Nat, WatcherOK', RequestsOK' \/ requests' \subseteq requests
    PROVE  IInv'
<1>1. FilesOK' /\ Grows
  BY UnchangedGrows DEF IInv, FilesOK
<1>2. RequestsOK'
  BY <1>1, RequestsKept DEF IInv
<1>3. QED BY <1>1, <1>2, PageKept DEF IInv

LEMMA SendingSteps ==
    ASSUME IInv,
           \/ \E p \in Paths : OpenFile(p) \/ ClickReload(p)
           \/ SaveFile \/ SaveAllDirtyTabs \/ RunCommand
    PROVE  IInv'
<1>1. PICK p \in Paths, rest \in SUBSET Paths, kind \in {"open", "save", "prove", "reload", "click"} :
          /\ Send(Request(kind, p, rest))
          /\ pendingSaves' \in {pendingSaves, pendingSaves \cup {p}}
          /\ UNCHANGED <<tabs, activeTab, hopResults, bars, texts, server, watcher>>
  <2>1. CASE \E p \in Paths : OpenFile(p) \/ ClickReload(p)
    BY <2>1 DEF OpenFile, ClickReload, page
  <2>2. CASE SaveFile
    BY <2>2, ActiveIsPath DEF SaveFile
  <2>3. CASE SaveAllDirtyTabs
    <3>1. PICK p \in OpenTabs :
              /\ Send(Request("save", p, {q \in OpenTabs \ {p} : IsModified(q)}))
              /\ pendingSaves' = pendingSaves \cup {p}
      BY <2>3 DEF SaveAllDirtyTabs
    <3>2. p \in Paths /\ {q \in OpenTabs \ {p} : IsModified(q)} \in SUBSET Paths
      BY DEF OpenTabs
    <3>3. QED BY <2>3, <3>1, <3>2 DEF SaveAllDirtyTabs
  <2>4. CASE RunCommand
    BY <2>4, ActiveIsPath DEF RunCommand
  <2>5. QED BY <2>1, <2>2, <2>3, <2>4
<1>2. RequestsOK' /\ FilesOK'
  BY <1>1, SendStep
<1>3. WatcherOK'
  BY <1>1 DEF IInv, WatcherOK, server, watcher
<1>4. QED BY <1>1, <1>2, <1>3, PageAlone DEF FilesOK, server

LEMMA OnMessageStep ==
    ASSUME IInv, OnMessage
    PROVE  IInv'
<1> DEFINE p == Head(events)
           heard == p \notin pendingSaves /\ IsOpen(p)
<1>1. p \in Paths /\ Tail(events) \in Seq(Paths) /\ Len(Tail(events)) <= MaxEvents
  BY BoundsAssumption DEF IInv, WatcherOK, OnMessage
<1>2. /\ pendingSaves' = pendingSaves \ {p} /\ bars' \subseteq bars \cup {p}
      /\ events' = Tail(events)
      /\ IF heard /\ ~IsModified(p) THEN Send(Request("reload", p, {})) ELSE UNCHANGED <<requests, sent>>
      /\ UNCHANGED <<tabs, activeTab, hopResults, texts, server>>
  BY DEF OnMessage
<1> HIDE DEF p, heard
<1>3. WatcherOK'
  BY <1>1, <1>2 DEF IInv, WatcherOK, server
<1>4. CASE heard /\ ~IsModified(p)
  <2>1. Send(Request("reload", p, {})) /\ {} \in SUBSET Paths
    BY <1>2, <1>4
  <2>2. RequestsOK' /\ FilesOK'
    BY <1>1, <1>2, <2>1, SendStep
  <2>3. QED BY <1>2, <1>3, <2>2, PageAlone DEF FilesOK, server
<1>5. CASE ~(heard /\ ~IsModified(p))
  <2>1. UNCHANGED <<requests, sent>>
    BY <1>2, <1>5
  <2>2. sent' \in Nat
    BY <2>1 DEF IInv, FilesOK
  <2>3. QED BY <1>2, <1>3, <2>1, <2>2, PageAlone DEF server
<1>6. QED BY <1>4, <1>5

LEMMA DroppingSteps ==
    ASSUME IInv,
           \/ \E r \in requests : Failed(r)
           \/ \E p \in Paths : \/ ClickDismiss(p) \/ SuppressionEnds(p)
                               \/ Debounced(p) \/ DebounceEnds(p)
           \/ Reconnect \/ UNCHANGED vars
    PROVE  IInv'
<1>1. UNCHANGED <<tabs, activeTab, hopResults, texts, sent, disk, history>>
      /\ requests' \subseteq requests
  BY DEF Failed, ClickDismiss, SuppressionEnds, Debounced, DebounceEnds, Reconnect, vars,
         page, server, watcher
<1>2. /\ pendingSaves' \subseteq pendingSaves /\ bars' \subseteq bars
      /\ modified' \subseteq modified
  BY DEF Failed, ClickDismiss, SuppressionEnds, Debounced, DebounceEnds, Reconnect, vars,
         page, server, watcher
<1>3. events' \in Seq(Paths) /\ Len(events') <= MaxEvents
  <2>1. events \in Seq(Paths) /\ Len(events) <= MaxEvents /\ MaxEvents \in Nat
    BY BoundsAssumption DEF IInv, WatcherOK
  <2>2. CASE UNCHANGED events
    BY <2>1, <2>2
  <2>3. CASE events' = <<>>
    <3>1. <<>> \in Seq(Paths) /\ Len(<<>>) = 0
      OBVIOUS
    <3>2. QED BY <2>1, <2>3, <3>1
  <2>4. CASE \E p \in Paths : Len(events) < MaxEvents /\ events' = Append(events, p)
    BY <2>1, <2>4
  <2>5. UNCHANGED events \/ events' = <<>>
        \/ \E p \in Paths : Len(events) < MaxEvents /\ events' = Append(events, p)
    BY DEF Failed, ClickDismiss, SuppressionEnds, Debounced, DebounceEnds, Reconnect, vars,
           page, server, watcher
  <2>6. QED BY <2>2, <2>3, <2>4, <2>5
<1>4. WatcherOK'
  BY <1>2, <1>3 DEF IInv, WatcherOK
<1>5. sent' \in Nat
  BY <1>1 DEF IInv, FilesOK
<1>6. QED BY <1>1, <1>4, <1>5, PageAlone

LEMMA ActivateTabStep ==
    ASSUME IInv, NEW p \in Paths, ActivateTab(p)
    PROVE  IInv'
<1>1. /\ IsOpen(p) /\ activeTab' = p
      /\ UNCHANGED <<tabs, hopResults, pendingSaves, bars, requests, texts, sent, server, watcher>>
  BY DEF ActivateTab
<1>2. FilesOK' /\ Grows
  BY <1>1, FilesKept DEF IInv
<1>3. WatcherOK'
  BY <1>1 DEF IInv, WatcherOK, server, watcher
<1>4. TabsOK'
  BY <1>1, <1>2, TabsKept DEF IInv
<1>5. ActiveOK'
  <2>1. p # None
    BY BoundsAssumption
  <2>2. QED BY <1>1, <2>1 DEF ActiveOK, IsOpen
<1>6. RequestsOK'
  BY <1>1, <1>2, RequestsKept DEF IInv
<1>7. ResultsOK'
  BY <1>1, <1>2, ResultsKept DEF IInv, ResultsOK, IsOpen
<1>8. QED BY <1>2, <1>3, <1>4, <1>5, <1>6, <1>7 DEF IInv

(* The results go with the tab, and another open tab is shown.             *)
LEMMA CloseTabStep ==
    ASSUME IInv, NEW p \in Paths, CloseTab(p)
    PROVE  IInv'
<1>1. /\ tabs' = [tabs EXCEPT ![p] = Closed] /\ bars' = bars \ {p}
      /\ hopResults' = [hopResults EXCEPT ![p] = NoResults]
      /\ activeTab' \in IF activeTab # p THEN {activeTab}
                        ELSE IF OpenTabs = {p} THEN {None} ELSE OpenTabs \ {p}
      /\ UNCHANGED <<pendingSaves, requests, texts, sent, server, watcher>>
  BY DEF CloseTab
<1>2. FilesOK' /\ Grows
  BY <1>1, FilesKept DEF IInv
<1>3. WatcherOK'
  BY <1>1 DEF IInv, WatcherOK, server, watcher
<1>4. TabsOK'
  <2>1. Closed \in Tab /\ Closed.open = 0 /\ Closed.text <= texts' /\ Closed.saved <= texts'
    BY <1>2 DEF Closed, Tab, Grows
  <2>2. QED BY <1>1, <1>2, <2>1, TabsStep DEF IInv
<1>5. /\ tabs'[p] = Closed /\ Closed.open = 0
      /\ \A q \in Paths : q # p => tabs'[q] = tabs[q]
  BY <1>1 DEF IInv, TabsOK, Closed
<1>6. ActiveOK'
  <2>1. activeTab \in Paths \cup {None} /\ (activeTab # None => activeTab \in OpenTabs)
        /\ OpenTabs \subseteq Paths
    BY DEF IInv, ActiveOK, OpenTabs
  <2>2. OpenTabs' = OpenTabs \ {p}
    BY <1>5 DEF OpenTabs, IsOpen
  <2>3. p \in OpenTabs /\ p # None
    BY BoundsAssumption DEF CloseTab, OpenTabs
  <2>4. CASE activeTab # p
    <3>1. activeTab' = activeTab
      BY <1>1, <2>4
    <3>2. activeTab # None
      BY <2>3 DEF IInv, ActiveOK
    <3>3. QED BY <2>1, <2>2, <2>4, <3>1, <3>2 DEF ActiveOK, OpenTabs
  <2>5. CASE activeTab = p /\ OpenTabs = {p}
    BY <1>1, <2>2, <2>5 DEF ActiveOK
  <2>6. CASE activeTab = p /\ OpenTabs # {p}
    <3>1. activeTab' \in OpenTabs' /\ activeTab' \in Paths
      BY <1>1, <2>1, <2>2, <2>6
    <3>2. activeTab' # None
      BY <3>1, BoundsAssumption
    <3>3. QED BY <3>1, <3>2 DEF ActiveOK, OpenTabs
  <2>7. QED BY <2>4, <2>5, <2>6
<1>7. RequestsOK'
  BY <1>1, <1>2, RequestsKept DEF IInv
<1>8. ResultsOK'
  <2>1. NoResults \in Verdict /\ NoResults' = NoResults
    BY DEF NoResults, Verdict
  <2>2. hopResults' \in [Paths \cup {None} -> Verdict] /\ hopResults'[p] = NoResults
        /\ \A q \in Paths \cup {None} : q # p => hopResults'[q] = hopResults[q]
    BY <1>1, <2>1 DEF IInv, ResultsOK
  <2>3. ASSUME NEW q \in Paths \cup {None}, hopResults'[q] # NoResults
        PROVE  (q \in Paths => IsOpen(q)') /\ Supported(hopResults[q])'
    <3>1. q # p /\ hopResults'[q] = hopResults[q]
      BY <2>2, <2>3
    <3>2. (q \in Paths => IsOpen(q)) /\ Supported(hopResults[q])
      BY <2>3, <3>1 DEF IInv, ResultsOK
    <3>3. PICK v \in Verdict : v = hopResults[q]
      BY DEF IInv, ResultsOK
    <3>4. Supported(v)'
      BY <1>2, <3>2, <3>3, SupportedKept DEF IInv
    <3>5. QED BY <1>5, <3>1, <3>2, <3>3, <3>4 DEF IsOpen
  <2>4. QED BY <2>1, <2>2, <2>3 DEF ResultsOK
<1>9. QED BY <1>2, <1>3, <1>4, <1>6, <1>7, <1>8 DEF IInv

(* Replacing what a tab holds, open as it was.                             *)
LEMMA TabChanges ==
    ASSUME IInv, Grows, NEW p \in Paths, NEW t \in Tab, tabs' = [tabs EXCEPT ![p] = t],
           t.open = tabs[p].open, t.text <= texts', t.saved <= texts',
           t.open # 0 => InFile(p, t.saved)'
    PROVE  TabsOK' /\ \A q \in Paths : IsOpen(q)' <=> IsOpen(q)
<1>1. TabsOK'
  BY TabsStep DEF IInv
<1>2. QED BY <1>1 DEF IInv, TabsOK, IsOpen

LEMMA ActiveKept ==
    ASSUME IInv, UNCHANGED activeTab, \A q \in Paths : IsOpen(q)' <=> IsOpen(q)
    PROVE  ActiveOK'
BY DEF IInv, ActiveOK, OpenTabs

LEMMA TypeStep ==
    ASSUME IInv, Type
    PROVE  IInv'
<1>1. activeTab \in Paths
  BY ActiveIsPath DEF Type
<1>2. /\ texts' = texts + 1
      /\ tabs' = [tabs EXCEPT ![activeTab].text = texts + 1]
      /\ UNCHANGED <<activeTab, hopResults, pendingSaves, bars, requests, sent, server, watcher>>
  BY DEF Type
<1>3. Grows
  BY <1>2, UnchangedGrows DEF IInv, FilesOK, server
<1>4. FilesOK'
  <2>1. \A p \in Paths : disk[p] \in Nat /\ disk[p] <= texts
    BY DEF IInv, FilesOK
  <2>2. \A p \in Paths : disk[p] <= texts + 1
    BY <2>1 DEF IInv, FilesOK
  <2>3. QED BY <1>2, <2>2 DEF IInv, FilesOK, server
<1>5. WatcherOK'
  BY <1>2 DEF IInv, WatcherOK, server, watcher
<1>6. PICK q \in Paths : q = activeTab
  BY <1>1
<1>7. tabs[q] \in Tab /\ tabs[q].saved <= texts /\ texts \in Nat
      /\ (tabs[q].open # 0 => InFile(q, tabs[q].saved))
  BY DEF IInv, TabsOK, FilesOK
<1>8. PICK t \in Tab : /\ t = [tabs[q] EXCEPT !.text = texts + 1]
                       /\ t.open = tabs[q].open /\ t.saved = tabs[q].saved
                       /\ t.text = texts + 1
  <2>1. [tabs[q] EXCEPT !.text = texts + 1] \in Tab
    BY <1>7 DEF Tab
  <2>2. QED BY <1>7, <2>1 DEF Tab
<1>9. tabs' = [tabs EXCEPT ![q] = t]
  BY <1>2, <1>6, <1>8
<1>10. t.open # 0 => InFile(q, t.saved)'
  <2>1. t.open # 0 => InFile(q, t.saved)
    BY <1>7, <1>8
  <2>2. QED BY <1>3, <2>1, InFileKept DEF IInv
<1>11. t.text <= texts' /\ t.saved <= texts'
  BY <1>2, <1>7, <1>8 DEF Tab
<1>12. TabsOK' /\ \A p \in Paths : IsOpen(p)' <=> IsOpen(p)
  BY <1>3, <1>8, <1>9, <1>10, <1>11, TabChanges
<1>13. ActiveOK'
  BY <1>2, <1>12, ActiveKept
<1>14. RequestsOK'
  BY <1>2, <1>3, RequestsKept DEF IInv
<1>15. ResultsOK'
  BY <1>2, <1>3, <1>12, ResultsKept DEF IInv, ResultsOK
<1>16. QED BY <1>4, <1>5, <1>12, <1>13, <1>14, <1>15 DEF IInv

-------------------------------------------------------------------------------
(* Answers.                                                                *)

(* An answer that was in the file becomes what the tab counts as saved,    *)
(* and with a reload also what it shows.                                   *)
LEMMA TabSaved ==
    ASSUME IInv, Grows, NEW p \in Paths, NEW x \in Nat, x <= texts, InFile(p, x),
           tabs' \in {tabs, [tabs EXCEPT ![p].saved = x],
                      [tabs EXCEPT ![p].text = x, ![p].saved = x]}
    PROVE  TabsOK' /\ \A q \in Paths : IsOpen(q)' <=> IsOpen(q)
<1>1. tabs[p] \in Tab /\ tabs[p].text <= texts /\ texts \in Nat
  BY DEF IInv, TabsOK, FilesOK
<1>2. InFile(p, x)' /\ texts' \in Nat /\ texts <= texts'
  BY InFileKept DEF IInv, Grows
<1>3. CASE tabs' = tabs
  <2>1. TabsOK'
    BY <1>3, TabsKept DEF IInv
  <2>2. QED BY <1>3, <2>1 DEF IsOpen
<1>4. CASE tabs' = [tabs EXCEPT ![p].saved = x]
  <2>1. PICK t \in Tab : t = [tabs[p] EXCEPT !.saved = x] /\ t.open = tabs[p].open
                         /\ t.text = tabs[p].text /\ t.saved = x
    <3>1. [tabs[p] EXCEPT !.saved = x] \in Tab
      BY <1>1 DEF Tab
    <3>2. QED BY <1>1, <3>1 DEF Tab
  <2>2. tabs' = [tabs EXCEPT ![p] = t]
    BY <1>4, <2>1
  <2>3. t.text <= texts' /\ t.saved <= texts' /\ InFile(p, t.saved)'
    BY <1>1, <1>2, <2>1 DEF Tab
  <2>4. QED BY <2>1, <2>2, <2>3, TabChanges
<1>5. CASE tabs' = [tabs EXCEPT ![p].text = x, ![p].saved = x]
  <2>1. PICK t \in Tab : t = [tabs[p] EXCEPT !.text = x, !.saved = x]
                         /\ t.open = tabs[p].open /\ t.text = x /\ t.saved = x
    <3>1. [tabs[p] EXCEPT !.text = x, !.saved = x] \in Tab
      BY <1>1 DEF Tab
    <3>2. QED BY <1>1, <3>1 DEF Tab
  <2>2. tabs' = [tabs EXCEPT ![p] = t]
    BY <1>1, <1>5, <2>1 DEF IInv, TabsOK
  <2>3. t.text <= texts' /\ t.saved <= texts' /\ InFile(p, t.saved)'
    BY <1>1, <1>2, <2>1
  <2>4. QED BY <2>1, <2>2, <2>3, TabChanges
<1>6. QED BY <1>3, <1>4, <1>5

LEMMA AnswerFacts ==
    ASSUME IInv, NEW r \in requests, r.step = "answered"
    PROVE  /\ r \in RequestSet /\ r.path \in Paths /\ r.text \in Nat /\ r.read \in Nat
           /\ r.text <= texts /\ r.read <= texts
           /\ r.kind # "save" => InFile(r.path, r.read)
           /\ r.kind \in {"save", "prove"} => InFile(r.path, r.text)
BY DEF IInv, RequestsOK, RequestSet, Recorded

LEMMA ReloadedStep ==
    ASSUME IInv, NEW r \in requests, Reloaded(r)
    PROVE  IInv'
<1>1. /\ r.step = "answered" /\ r.kind \in {"reload", "click"}
      /\ tabs' \in {tabs, [tabs EXCEPT ![r.path].text = r.read, ![r.path].saved = r.read]}
      /\ requests' \subseteq requests /\ bars' \subseteq bars
      /\ UNCHANGED <<activeTab, hopResults, pendingSaves, texts, sent, server, watcher>>
  BY DEF Reloaded, Answered
<1>2. r.path \in Paths /\ r.read \in Nat /\ r.read <= texts /\ InFile(r.path, r.read)
  BY <1>1, AnswerFacts
<1>3. FilesOK' /\ Grows
  BY <1>1, FilesKept DEF IInv
<1>4. TabsOK' /\ \A q \in Paths : IsOpen(q)' <=> IsOpen(q)
  BY <1>1, <1>2, <1>3, TabSaved
<1>5. WatcherOK'
  BY <1>1 DEF IInv, WatcherOK, server, watcher
<1>6. ActiveOK'
  BY <1>1, <1>4, ActiveKept
<1>7. RequestsOK'
  BY <1>1, <1>3, RequestsKept DEF IInv
<1>8. ResultsOK'
  BY <1>1, <1>3, <1>4, ResultsKept DEF IInv, ResultsOK
<1>9. QED BY <1>3, <1>4, <1>5, <1>6, <1>7, <1>8 DEF IInv

(* The results go to the active tab, which is open, or under null.         *)
LEMMA RunAnsweredStep ==
    ASSUME IInv, NEW r \in requests, RunAnswered(r)
    PROVE  IInv'
<1>1. /\ r.step = "answered" /\ r.kind = "prove"
      /\ tabs' \in {tabs, [tabs EXCEPT ![r.path].saved = r.text]}
      /\ requests' \subseteq requests
      /\ hopResults' = [hopResults EXCEPT ![activeTab] =
                           [path |-> r.path, text |-> r.read, since |-> r.since]]
      /\ UNCHANGED <<activeTab, pendingSaves, bars, texts, sent, server, watcher>>
  BY DEF RunAnswered, Answered
<1>2. r \in RequestSet /\ r.path \in Paths /\ r.text \in Nat /\ r.text <= texts
      /\ InFile(r.path, r.text)
  BY <1>1, AnswerFacts
<1>3. FilesOK' /\ Grows
  BY <1>1, FilesKept DEF IInv
<1>4. TabsOK' /\ \A q \in Paths : IsOpen(q)' <=> IsOpen(q)
  BY <1>1, <1>2, <1>3, TabSaved
<1>5. WatcherOK'
  BY <1>1 DEF IInv, WatcherOK, server, watcher
<1>6. ActiveOK'
  BY <1>1, <1>4, ActiveKept
<1>7. RequestsOK'
  BY <1>1, <1>3, RequestsKept DEF IInv
<1>8. ResultsOK'
  <2>1. PICK q \in Paths \cup {None} : q = activeTab /\ (q \in Paths => IsOpen(q))
    BY BoundsAssumption DEF IInv, ActiveOK
  <2>2. PICK v : v = [path |-> r.path, text |-> r.read, since |-> r.since]
    OBVIOUS
  <2>3. v \in Verdict /\ v.path = r.path /\ v.text = r.read /\ v.since = r.since
    BY <1>2, <2>2 DEF Verdict, RequestSet
  <2>4. r.since # 0 /\ InFileSince(r.path, r.read, r.since)
    <3>1. Recorded(r) /\ Len(history[r.path]) \in Nat
      BY <1>2 DEF IInv, RequestsOK, FilesOK
    <3>2. QED BY <1>1, <3>1 DEF Recorded
  <2>5. Supported(v)'
    <3>1. Supported(v)
      BY <1>2, <2>3, <2>4 DEF Supported
    <3>2. QED BY <1>3, <2>3, <3>1, SupportedKept DEF IInv
  <2>6. hopResults' \in [Paths \cup {None} -> Verdict] /\ hopResults'[q] = v
        /\ \A p \in Paths \cup {None} : p # q => hopResults'[p] = hopResults[p]
    BY <1>1, <2>1, <2>2, <2>3 DEF IInv, ResultsOK
  <2>7. ASSUME NEW p \in Paths \cup {None}, hopResults'[p] # NoResults
        PROVE  (p \in Paths => IsOpen(p)') /\ Supported(hopResults[p])'
    <3>1. CASE p = q
      BY <1>4, <2>1, <2>5, <2>6, <3>1
    <3>2. CASE p # q
      <4>1. /\ (p \in Paths => IsOpen(p)) /\ Supported(hopResults[p])
            /\ hopResults'[p] = hopResults[p]
        BY <2>6, <2>7, <3>2 DEF IInv, ResultsOK
      <4>2. PICK w \in Verdict : w = hopResults[p]
        BY DEF IInv, ResultsOK
      <4>3. Supported(w)'
        BY <1>3, <4>1, <4>2, SupportedKept DEF IInv
      <4>4. QED BY <1>4, <4>1, <4>2, <4>3
    <3>3. QED BY <3>1, <3>2
  <2>8. NoResults' = NoResults
    BY DEF NoResults
  <2>9. QED BY <2>6, <2>7, <2>8 DEF ResultsOK
<1>9. QED BY <1>3, <1>4, <1>5, <1>6, <1>7, <1>8 DEF IInv

LEMMA OpenedStep ==
    ASSUME IInv, NEW r \in requests, Opened(r)
    PROVE  IInv'
<1>1. /\ r.step = "answered" /\ r.kind = "open"
      /\ tabs' = [tabs EXCEPT ![r.path] = [open |-> r.id, text |-> r.read, saved |-> r.read]]
      /\ requests' \subseteq requests /\ activeTab' = r.path
      /\ UNCHANGED <<hopResults, pendingSaves, bars, texts, sent, server, watcher>>
  BY DEF Opened, Answered
<1>2. r \in RequestSet /\ r.path \in Paths /\ r.read \in Nat /\ r.read <= texts
      /\ InFile(r.path, r.read)
  BY <1>1, AnswerFacts
<1>3. FilesOK' /\ Grows
  BY <1>1, FilesKept DEF IInv
<1>4. PICK t \in Tab : /\ t = [open |-> r.id, text |-> r.read, saved |-> r.read]
                       /\ t.open # 0 /\ t.text = r.read /\ t.saved = r.read
  <2>1. r.id \in Nat \ {0}
    BY <1>2 DEF RequestSet
  <2>2. [open |-> r.id, text |-> r.read, saved |-> r.read] \in Tab
    BY <1>2, <2>1 DEF Tab
  <2>3. QED BY <2>1, <2>2
<1>5. TabsOK'
  <2>1. InFile(r.path, r.read)' /\ r.read <= texts'
    BY <1>1, <1>2, <1>3, InFileKept DEF IInv
  <2>2. tabs' = [tabs EXCEPT ![r.path] = t]
    BY <1>1, <1>4
  <2>3. t.text <= texts' /\ t.saved <= texts' /\ InFile(r.path, t.saved)'
    BY <1>4, <2>1
  <2>4. QED BY <1>2, <1>3, <2>2, <2>3, TabsStep DEF IInv
<1>6. IsOpen(r.path)' /\ \A q \in Paths : IsOpen(q) => IsOpen(q)'
  BY <1>1, <1>2, <1>4 DEF IInv, TabsOK, IsOpen
<1>7. ActiveOK'
  <2>1. r.path # None
    BY <1>2, BoundsAssumption
  <2>2. QED BY <1>1, <1>2, <1>6, <2>1 DEF ActiveOK, IsOpen
<1>8. WatcherOK'
  BY <1>1 DEF IInv, WatcherOK, server, watcher
<1>9. RequestsOK'
  BY <1>1, <1>3, RequestsKept DEF IInv
<1>10. ResultsOK'
  BY <1>1, <1>3, <1>6, ResultsKept DEF IInv, ResultsOK
<1>11. QED BY <1>3, <1>5, <1>7, <1>8, <1>9, <1>10 DEF IInv

(* The text sent counts as saved, not what the tab holds by now.           *)
LEMMA SavedStep ==
    ASSUME IInv, NEW r \in requests, Saved(r)
    PROVE  IInv'
<1>1. /\ r.step = "answered" /\ r.kind = "save"
      /\ tabs' \in {tabs, [tabs EXCEPT ![r.path].saved = r.text]}
      /\ UNCHANGED <<activeTab, hopResults, bars, texts, sent, server, watcher>>
  BY DEF Saved, Answered
<1>2. r \in RequestSet /\ r.path \in Paths /\ r.text \in Nat /\ r.text <= texts
      /\ InFile(r.path, r.text)
  BY <1>1, AnswerFacts
<1>3. FilesOK' /\ Grows
  BY <1>1, FilesKept DEF IInv
<1>4. TabsOK' /\ \A q \in Paths : IsOpen(q)' <=> IsOpen(q)
  BY <1>1, <1>2, <1>3, TabSaved
<1>5. ActiveOK'
  BY <1>1, <1>4, ActiveKept
<1>6. ResultsOK'
  BY <1>1, <1>3, <1>4, ResultsKept DEF IInv, ResultsOK
<1>7. WatcherOK' /\ RequestsOK'
  <2>1. CASE r.rest = {} /\ requests' = requests \ {r} /\ UNCHANGED pendingSaves
    <3>1. WatcherOK'
      BY <1>1, <2>1 DEF IInv, WatcherOK, server, watcher
    <3>2. requests' \subseteq requests
      BY <2>1
    <3>3. QED BY <1>3, <3>1, <3>2, RequestsKept DEF IInv
  <2>2. CASE \E q \in r.rest :
            /\ pendingSaves' = pendingSaves \cup {q}
            /\ requests' = (requests \ {r}) \cup
                   (IF IsOpen(q)
                    THEN {[Request("save", q, r.rest \ {q}) EXCEPT !.id = r.id]} ELSE {})
    <3>1. PICK q \in r.rest :
            /\ pendingSaves' = pendingSaves \cup {q}
            /\ requests' = (requests \ {r}) \cup
                   (IF IsOpen(q)
                    THEN {[Request("save", q, r.rest \ {q}) EXCEPT !.id = r.id]} ELSE {})
      BY <2>2
    <3>2. q \in Paths /\ r.rest \ {q} \in SUBSET Paths /\ r.id \in Nat \ {0}
      BY <1>2 DEF RequestSet
    <3>3. WatcherOK'
      BY <1>1, <3>1, <3>2 DEF IInv, WatcherOK, server, watcher
    <3>4. PICK s : s = [Request("save", q, r.rest \ {q}) EXCEPT !.id = r.id]
      OBVIOUS
    <3>5. s = [kind |-> "save", path |-> q, text |-> tabs[q].text, open |-> tabs[q].open,
               step |-> "sent", read |-> 0, since |-> 0, rest |-> r.rest \ {q}, id |-> r.id]
      BY <3>4 DEF Request
    <3>6. s \in RequestSet /\ s.step = "sent" /\ s.text <= texts /\ s.read = 0
      BY <3>2, <3>5, NewRequest DEF IInv
    <3>7. Recorded(s)'
      BY <1>3, <3>6, SentIsRecorded DEF IInv
    <3>8. requests' \subseteq requests \cup {s} /\ {s} \in SUBSET RequestSet
          /\ \A x \in {s} : Recorded(x)'
      BY <3>1, <3>4, <3>6, <3>7
    <3>9. RequestsOK'
      BY <1>3, <3>8, RequestsStep DEF IInv
    <3>10. QED BY <3>3, <3>9
  <2>3. QED BY <2>1, <2>2 DEF Saved
<1>8. QED BY <1>3, <1>4, <1>5, <1>6, <1>7 DEF IInv

-------------------------------------------------------------------------------
(* The server and other programs.                                          *)

LEMMA AppendFacts ==
    ASSUME NEW s \in Seq(Nat), NEW x \in Nat
    PROVE  /\ Append(s, x) \in Seq(Nat)
           /\ Len(s) \in Nat /\ Len(Append(s, x)) = Len(s) + 1
           /\ Append(s, x)[Len(s) + 1] = x
           /\ \A k \in 1..Len(s) : Append(s, x)[k] = s[k]
OBVIOUS

LEMMA PutStep ==
    ASSUME IInv, NEW p \in Paths, NEW x \in Nat, Put(p, x), x <= texts',
           texts' \in Nat, texts <= texts', UNCHANGED sent
    PROVE  /\ FilesOK' /\ Grows
           /\ Len(history[p]) \in Nat /\ Len(history'[p]) = Len(history[p]) + 1
           /\ history'[p][Len(history[p]) + 1] = x
<1>1. /\ disk' = [disk EXCEPT ![p] = x]
      /\ history' = [history EXCEPT ![p] = Append(@, x)]
  BY DEF Put
<1>2. history[p] \in Seq(Nat) /\ history \in [Paths -> Seq(Nat)] /\ disk \in [Paths -> Nat]
  BY DEF IInv, FilesOK
<1>3. PICK h \in Seq(Nat) : h = Append(history[p], x)
  BY <1>2, AppendFacts
<1>4. /\ Len(history[p]) \in Nat /\ Len(h) = Len(history[p]) + 1
      /\ h[Len(history[p]) + 1] = x
      /\ \A k \in 1..Len(history[p]) : h[k] = history[p][k]
  BY <1>2, <1>3, AppendFacts
<1>5. /\ history' \in [Paths -> Seq(Nat)] /\ history'[p] = h
      /\ \A q \in Paths : q # p => history'[q] = history[q]
      /\ disk' \in [Paths -> Nat] /\ disk'[p] = x
      /\ \A q \in Paths : q # p => disk'[q] = disk[q]
  BY <1>1, <1>2, <1>3
<1>6. ASSUME NEW q \in Paths
      PROVE  /\ disk'[q] <= texts'
             /\ Len(history'[q]) > 0
             /\ disk'[q] = history'[q][Len(history'[q])]
  <2>1. CASE q = p
    BY <1>4, <1>5, <2>1
  <2>2. CASE q # p
    <3>1. disk[q] \in Nat /\ disk[q] <= texts /\ texts \in Nat
      BY <1>2 DEF IInv, FilesOK
    <3>2. QED BY <1>5, <2>2, <3>1 DEF IInv, FilesOK
  <2>3. QED BY <2>1, <2>2
<1>7. FilesOK'
  BY <1>5, <1>6 DEF IInv, FilesOK
<1>8. ASSUME NEW q \in Paths
      PROVE  /\ Len(history'[q]) \in Nat /\ Len(history[q]) <= Len(history'[q])
             /\ \A k \in 1..Len(history[q]) : history'[q][k] = history[q][k]
  <2>1. CASE q = p
    BY <1>4, <1>5, <2>1
  <2>2. CASE q # p
    BY <1>2, <1>5, <2>2
  <2>3. QED BY <2>1, <2>2
<1>9. QED BY <1>4, <1>5, <1>7, <1>8 DEF Grows

LEMMA PutWatched ==
    ASSUME IInv, NEW p \in Paths, NEW x, Put(p, x), UNCHANGED <<pendingSaves, bars, watcher>>
    PROVE  WatcherOK'
BY DEF IInv, WatcherOK, Put, watcher

LEMMA ExternalChangeStep ==
    ASSUME IInv, NEW p \in Paths, ExternalChange(p)
    PROVE  IInv'
<1>1. texts' = texts + 1 /\ Put(p, texts + 1) /\ texts \in Nat
      /\ UNCHANGED <<page, requests, sent, watcher>>
  BY DEF ExternalChange, IInv, FilesOK
<1>2. PICK x \in Nat : x = texts + 1
  BY <1>1
<1>3. FilesOK' /\ Grows
  BY <1>1, <1>2, PutStep
<1>4. WatcherOK'
  BY <1>1, PutWatched DEF page
<1>5. RequestsOK'
  BY <1>1, <1>3, RequestsKept DEF IInv
<1>6. QED BY <1>1, <1>3, <1>4, <1>5, PageKept DEF IInv, page

(* A request that has written is the last thing in its file's history; a   *)
(* request the server moves on takes the place of the one it was.          *)
LEMMA Moved ==
    ASSUME IInv, FilesOK', Grows, NEW r \in requests, NEW new \in RequestSet, Becomes(r, new),
           Recorded(new)'
    PROVE  RequestsOK'
<1>1. requests' \subseteq requests \cup {new} /\ {new} \in SUBSET RequestSet
      /\ \A x \in {new} : Recorded(x)'
  BY DEF Becomes
<1>2. QED BY <1>1, RequestsStep DEF IInv

LEMMA RequestFacts ==
    ASSUME IInv, NEW r \in requests
    PROVE  /\ r \in RequestSet /\ r.path \in Paths /\ r.text \in Nat /\ r.read \in Nat
           /\ r.text <= texts /\ r.read <= texts /\ Recorded(r)
           /\ texts \in Nat /\ Len(history[r.path]) \in Nat
BY DEF IInv, RequestsOK, RequestSet, Recorded, FilesOK

LEMMA TruncateStep ==
    ASSUME IInv, NEW r \in requests, Truncate(r)
    PROVE  IInv'
<1>1. /\ Put(r.path, 0) /\ Becomes(r, [r EXCEPT !.step = "writing"])
      /\ UNCHANGED <<page, texts, sent, watcher>>
  BY DEF Truncate
<1>2. /\ r \in RequestSet /\ r.path \in Paths /\ texts \in Nat
      /\ r.text \in Nat /\ r.read \in Nat /\ r.text <= texts /\ r.read <= texts
  BY RequestFacts
<1>3. 0 \in Nat /\ 0 <= texts' /\ texts' \in Nat /\ texts <= texts'
  BY <1>1, <1>2
<1>4. FilesOK' /\ Grows
  BY <1>1, <1>2, <1>3, PutStep
<1>5. WatcherOK'
  BY <1>1, <1>2, PutWatched DEF page
<1>6. [r EXCEPT !.step = "writing"] \in RequestSet
  BY <1>2 DEF RequestSet
<1>7. PICK n \in RequestSet : n = [r EXCEPT !.step = "writing"]
  BY <1>6
<1>8. n.step = "writing" /\ n.text = r.text /\ n.read = r.read
  BY <1>2, <1>7 DEF RequestSet
<1>9. Recorded(n)'
  BY <1>1, <1>2, <1>8 DEF Recorded
<1>10. RequestsOK'
  BY <1>1, <1>4, <1>7, <1>9, Moved
<1>11. QED BY <1>1, <1>4, <1>5, <1>10, PageKept DEF IInv, page

LEMMA WriteStep ==
    ASSUME IInv, NEW r \in requests, Write(r)
    PROVE  IInv'
<1> DEFINE st == IF r.kind = "save" THEN "answered" ELSE "written"
           at == Len(history[r.path]) + 1
<1>1. /\ Put(r.path, r.text) /\ Becomes(r, [r EXCEPT !.step = st, !.since = at])
      /\ UNCHANGED <<page, texts, sent, watcher>>
  BY DEF Write
<1>2. /\ r \in RequestSet /\ r.path \in Paths /\ texts \in Nat /\ at \in Nat
      /\ r.text \in Nat /\ r.read \in Nat /\ r.text <= texts /\ r.read <= texts
  BY RequestFacts
<1>3. r.text <= texts' /\ texts' \in Nat /\ texts <= texts'
  BY <1>1, <1>2
<1>4. /\ FilesOK' /\ Grows
      /\ Len(history'[r.path]) = at /\ history'[r.path][at] = r.text
  BY <1>1, <1>2, <1>3, PutStep
<1>5. WatcherOK'
  BY <1>1, <1>2, PutWatched DEF page
<1>6. PICK a \in Nat : a = at
  BY <1>2
<1>7. PICK z \in {"answered", "written"} : z = st
  OBVIOUS
<1>8. [r EXCEPT !.step = z, !.since = a] \in RequestSet
  BY <1>2 DEF RequestSet
<1>9. PICK n \in RequestSet : n = [r EXCEPT !.step = z, !.since = a]
  BY <1>8
<1>10. n.step = z /\ n.since = a /\ n.text = r.text /\ n.read = r.read /\ n.kind = r.kind
       /\ n.path = r.path
  BY <1>2, <1>9 DEF RequestSet
<1>11. a \in 1..Len(history'[n.path]) /\ history'[n.path][a] = n.text
  BY <1>2, <1>4, <1>6, <1>10
<1>12. InFile(n.path, n.text)'
  BY <1>11 DEF InFile
<1>13. n.text <= texts' /\ n.read <= texts'
  BY <1>1, <1>2, <1>10
<1>14. n.step = "answered" => n.kind = "save"
  BY <1>7, <1>10
<1>15. Recorded(n)'
  BY <1>10, <1>11, <1>12, <1>13, <1>14 DEF Recorded
<1>16. Becomes(r, n)
  BY <1>1, <1>6, <1>7, <1>9
<1>17. RequestsOK'
  BY <1>4, <1>15, <1>16, Moved
<1>18. QED BY <1>1, <1>4, <1>5, <1>17, PageKept DEF IInv, page

(* A run reads what it wrote, or what somebody wrote after it.             *)
LEMMA ReadStep ==
    ASSUME IInv, NEW r \in requests, Read(r)
    PROVE  IInv'
<1>1. /\ r.step = IF r.kind = "prove" THEN "written" ELSE "sent"
      /\ r.kind # "save"
      /\ Becomes(r, [r EXCEPT !.read = disk[r.path], !.step = "answered"])
      /\ UNCHANGED <<page, texts, sent, server, watcher>>
  BY DEF Read
<1>2. /\ r \in RequestSet /\ r.path \in Paths /\ texts \in Nat
      /\ r.text \in Nat /\ r.text <= texts /\ Recorded(r)
  BY RequestFacts
<1>3. FilesOK' /\ Grows
  BY <1>1, FilesKept DEF IInv
<1>4. PICK p \in Paths : p = r.path
  BY <1>2
<1>5. PICK x \in Nat : x = disk[p]
  BY DEF IInv, FilesOK
<1>6. /\ x <= texts /\ Len(history[p]) \in Nat /\ Len(history[p]) > 0
      /\ history[p][Len(history[p])] = x
  BY <1>5 DEF IInv, FilesOK
<1>7. [r EXCEPT !.read = x, !.step = "answered"] \in RequestSet
  BY <1>2 DEF RequestSet
<1>8. PICK n \in RequestSet : n = [r EXCEPT !.read = x, !.step = "answered"]
  BY <1>7
<1>9. n.step = "answered" /\ n.since = r.since /\ n.text = r.text /\ n.read = x
      /\ n.kind = r.kind /\ n.path = p
  BY <1>2, <1>4, <1>8 DEF RequestSet
<1>10. InFile(p, x)
  BY <1>6 DEF InFile
<1>11. ASSUME n.kind = "prove"
       PROVE  n.since \in 1..Len(history[p]) /\ InFile(p, n.text) /\ InFileSince(p, x, n.since)
  <2>1. n.since \in 1..Len(history[p]) /\ InFile(p, n.text)
    BY <1>1, <1>2, <1>4, <1>9, <1>11 DEF Recorded
  <2>2. Len(history[p]) \in n.since..Len(history[p])
    BY <1>6, <2>1
  <2>3. QED BY <1>6, <2>1, <2>2 DEF InFileSince
<1>12. Recorded(n)
  BY <1>1, <1>2, <1>6, <1>9, <1>10, <1>11 DEF Recorded
<1>13. Recorded(n)'
  BY <1>3, <1>12, RecordedKept DEF IInv
<1>14. Becomes(r, n)
  BY <1>1, <1>4, <1>5, <1>8
<1>15. RequestsOK'
  BY <1>3, <1>13, <1>14, Moved
<1>16. WatcherOK'
  BY <1>1 DEF IInv, WatcherOK, page, server, watcher
<1>17. QED BY <1>1, <1>3, <1>15, <1>16, PageKept DEF IInv, page

-------------------------------------------------------------------------------

LEMMA NextIInv == IInv /\ [Next]_vars => IInv'
<1> SUFFICES ASSUME IInv, [Next]_vars PROVE IInv'
  OBVIOUS
<1>1. CASE UNCHANGED vars
  BY <1>1, DroppingSteps
<1>2. CASE User
  <2>1. CASE \E p \in Paths : OpenFile(p) \/ ClickReload(p)
    BY <2>1, SendingSteps
  <2>2. CASE \E p \in Paths : ActivateTab(p)
    BY <2>2, ActivateTabStep
  <2>3. CASE \E p \in Paths : CloseTab(p)
    BY <2>3, CloseTabStep
  <2>4. CASE \E p \in Paths : ClickDismiss(p)
    BY <2>4, DroppingSteps
  <2>5. CASE Type
    BY <2>5, TypeStep
  <2>6. CASE SaveFile \/ SaveAllDirtyTabs \/ RunCommand
    BY <2>6, SendingSteps
  <2>7. QED BY <1>2, <2>1, <2>2, <2>3, <2>4, <2>5, <2>6 DEF User
<1>3. CASE Page
  <2>1. CASE \E r \in requests : Opened(r)
    BY <2>1, OpenedStep
  <2>2. CASE \E r \in requests : Saved(r)
    BY <2>2, SavedStep
  <2>3. CASE \E r \in requests : RunAnswered(r)
    BY <2>3, RunAnsweredStep
  <2>4. CASE \E r \in requests : Reloaded(r)
    BY <2>4, ReloadedStep
  <2>5. CASE (\E r \in requests : Failed(r)) \/ (\E p \in Paths : SuppressionEnds(p))
    BY <2>5, DroppingSteps
  <2>6. CASE OnMessage
    BY <2>6, OnMessageStep
  <2>7. QED BY <1>3, <2>1, <2>2, <2>3, <2>4, <2>5, <2>6 DEF Page
<1>4. CASE Server
  <2>1. CASE \E r \in requests : Truncate(r)
    BY <2>1, TruncateStep
  <2>2. CASE \E r \in requests : Write(r)
    BY <2>2, WriteStep
  <2>3. CASE \E r \in requests : Read(r)
    BY <2>3, ReadStep
  <2>4. CASE \E p \in Paths : ExternalChange(p)
    BY <2>4, ExternalChangeStep
  <2>5. CASE Reconnect \/ (\E p \in Paths : Debounced(p) \/ DebounceEnds(p))
    BY <2>5, DroppingSteps
  <2>6. QED BY <1>4, <2>1, <2>2, <2>3, <2>4, <2>5 DEF Server
<1>5. QED BY <1>1, <1>2, <1>3, <1>4 DEF Next

LEMMA TypeFollows == IInv => TypeOK
<1> SUFFICES ASSUME IInv PROVE TypeOK
  OBVIOUS
<1>1. activeTab \in OpenTabs \cup {None} /\ ((activeTab = None) <=> (OpenTabs = {}))
  BY DEF IInv, ActiveOK, OpenTabs
<1>2. ASSUME NEW p \in Paths
      PROVE  {tabs[p].text, tabs[p].saved, disk[p]} \subseteq 0..texts
  BY DEF IInv, FilesOK, TabsOK, Tab
<1>3. ASSUME NEW r \in requests
      PROVE  {r.text, r.read} \subseteq 0..texts
  BY RequestFacts
<1>4. QED BY <1>1, <1>2, <1>3 DEF TypeOK, IInv, WatcherOK

LEMMA SavedFollows == IInv => SavedReachedDisk
<1> SUFFICES ASSUME IInv, NEW p \in OpenTabs PROVE tabs[p].saved \in Range(history[p])
  BY DEF SavedReachedDisk
<1>1. InFile(p, tabs[p].saved) /\ history[p] \in Seq(Nat)
  BY DEF OpenTabs, IsOpen, IInv, TabsOK, FilesOK
<1>2. PICK k \in 1..Len(history[p]) : history[p][k] = tabs[p].saved
  BY <1>1 DEF InFile
<1>3. k \in DOMAIN history[p]
  BY <1>1, <1>2
<1>4. QED BY <1>2, <1>3 DEF Range

LEMMA ResultsFollow == IInv => ResultsOfOpenTabs /\ VerdictNotStale
BY DEF IInv, ResultsOK, ResultsOfOpenTabs, VerdictNotStale, Supported, InFileSince

LEMMA IInvHolds == Spec => []IInv
BY InitIInv, NextIInv, PTL DEF Spec

(* The active tab is open, and none is active only while no tab is open,   *)
(* whatever the user, the answers and the events do in between; answers    *)
(* and tabs name texts there are.                                          *)
THEOREM TypeCorrect == Spec => []TypeOK
BY IInvHolds, TypeFollows, PTL

(* What the page shows as saved was in the file: no text typed while a     *)
(* save, a run or a reload was on its way is taken for saved.              *)
THEOREM SavedCorrect == Spec => []SavedReachedDisk
BY IInvHolds, SavedFollows, PTL

(* However runs overlap with opening and closing tabs, a file without a    *)
(* tab has no results waiting for it; a run that answers while no tab is   *)
(* open puts its results under null.                                       *)
THEOREM ResultsCorrect == Spec => []ResultsOfOpenTabs
BY IInvHolds, ResultsFollow, PTL

(* A verdict is about the text that was sent or one written after it,      *)
(* however many requests write the same file at once.                      *)
THEOREM VerdictFresh == Spec => []VerdictNotStale
BY IInvHolds, ResultsFollow, PTL
=============================================================================
