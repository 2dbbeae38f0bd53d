-------------------------------- MODULE WebEditor --------------------------------
(***************************************************************************)
(* The web editor: the page with its tabs (web/editor.js,                  *)
(* web/live-reload.js), the server's request threads and the file watcher  *)
(* (web_server.py).  A text is a number, a new one whenever somebody       *)
(* types; 0 is the empty file a write leaves before it has written.        *)
(* history keeps the contents each file had: no part of the program.       *)
(***************************************************************************)
EXTENDS Naturals, Sequences, FiniteSets, SequencesExt

CONSTANTS
    Paths,
    None,           \* no tab (null)
    MaxTexts,       \* texts typed or written by another program
    MaxRequests,    \* requests in flight
    MaxSent,        \* requests sent
    MaxEvents       \* events on their way to the page

ASSUME BoundsAssumption ==
    /\ None \notin Paths
    /\ {MaxTexts, MaxRequests, MaxSent, MaxEvents} \subseteq Nat

VARIABLES
    tabs,           \* state.tabs: open tabs with their text and savedContent
    activeTab,      \* state.activeTab
    hopResults,     \* state.hopResultsByPath; the key can be null
    disabled,       \* buttons that are disabled
    pendingSaves,
    bars,           \* files with a "changed on disk" bar
    requests,       \* requests in flight, with what they read
    texts,          \* how many texts there are
    sent,           \* how many requests were sent
    disk,
    history,
    modified,       \* changes the watcher has not handled yet
    recent,         \* changes published within _DEBOUNCE_SECONDS
    events          \* the subscriber's queue and the event stream

page == <<tabs, activeTab, hopResults, disabled, pendingSaves, bars>>
server == <<disk, history, modified>>
watcher == <<recent, events>>
vars == <<page, requests, texts, sent, server, watcher>>

Closed == [open |-> 0, text |-> 0, saved |-> 0]
IsOpen(p) == tabs[p].open # 0
OpenTabs == {p \in Paths : IsOpen(p)}
IsModified(p) == tabs[p].text # tabs[p].saved
NoResults == [path |-> None, text |-> 0, since |-> 0]

(* A request of a tab: `open` tells one tab object from the next one of    *)
(* its file, `rest` is what Save All has still to save.                    *)
Request(kind, p, rest) ==
    [kind |-> kind, path |-> p, text |-> tabs[p].text, open |-> tabs[p].open,
     step |-> "sent", read |-> 0, since |-> 0, rest |-> rest, id |-> sent + 1]

Send(r) ==
    /\ Cardinality(requests) < MaxRequests
    /\ sent < MaxSent
    /\ sent' = sent + 1
    /\ requests' = requests \cup {r}

Init ==
    /\ tabs = [p \in Paths |-> Closed]
    /\ activeTab = None
    /\ hopResults = [p \in Paths \cup {None} |-> NoResults]
    /\ disabled = {"run", "save all"}
    /\ pendingSaves = {}
    /\ bars = {}
    /\ requests = {}
    /\ texts = 1
    /\ sent = 0
    /\ disk = [p \in Paths |-> 1]
    /\ history = [p \in Paths |-> <<1>>]
    /\ modified = {}
    /\ recent = {}
    /\ events = <<>>

-------------------------------------------------------------------------------
(* The page: what the user does.                                           *)

OpenFile(p) ==
    /\ ~IsOpen(p)
    /\ Send(Request("open", p, {}))
    /\ UNCHANGED <<page, texts, server, watcher>>

(* updateToolbar enables the buttons, whatever is running.  Save All is    *)
(* also enabled whenever a tab changes or is saved (updateTabEl).          *)
Toolbar(tab) == IF tab = None THEN {"run"} ELSE {}

ActivateTab(p) ==
    /\ IsOpen(p)
    /\ activeTab # p
    /\ activeTab' = p
    /\ disabled' = {}
    /\ UNCHANGED <<tabs, hopResults, pendingSaves, bars, requests, texts, sent,
                   server, watcher>>

(* Mutant of CloseTab: no other tab is shown in place of the closed one.   *)
CloseTabShowsNone(p) ==
    /\ IsOpen(p)
    /\ tabs' = [tabs EXCEPT ![p] = Closed]
    /\ bars' = bars \ {p}
    /\ hopResults' = [hopResults EXCEPT ![p] = NoResults]
    /\ activeTab' = IF activeTab # p THEN activeTab ELSE None
    /\ disabled' = Toolbar(activeTab')
    /\ UNCHANGED <<pendingSaves, requests, texts, sent, server, watcher>>

(* Mutant of CloseTab: the results of the closed proof stay.               *)
CloseTabOnly(p) ==
    /\ IsOpen(p)
    /\ tabs' = [tabs EXCEPT ![p] = Closed]
    /\ bars' = bars \ {p}
    /\ activeTab' = IF activeTab # p THEN activeTab
                    ELSE IF OpenTabs = {p} THEN None ELSE CHOOSE q \in OpenTabs : q # p
    /\ disabled' = Toolbar(activeTab')
    /\ UNCHANGED <<hopResults, pendingSaves, requests, texts, sent, server, watcher>>

CloseTab(p) ==
    /\ IsOpen(p)
    /\ tabs' = [tabs EXCEPT ![p] = Closed]
    /\ bars' = bars \ {p}
    /\ hopResults' = [hopResults EXCEPT ![p] = NoResults]
    /\ activeTab' \in IF activeTab # p THEN {activeTab}
                      ELSE IF OpenTabs = {p} THEN {None} ELSE OpenTabs \ {p}
    /\ disabled' = Toolbar(activeTab')
    /\ UNCHANGED <<pendingSaves, requests, texts, sent, server, watcher>>

Type ==
    /\ activeTab # None
    /\ texts < MaxTexts
    /\ texts' = texts + 1
    /\ tabs' = [tabs EXCEPT ![activeTab].text = texts + 1]
    /\ disabled' = disabled \ {"save all"}
    /\ UNCHANGED <<activeTab, hopResults, pendingSaves, bars, requests, sent,
                   server, watcher>>

(* Ctrl-S saves whether or not the buttons are disabled.                   *)
SaveFile ==
    /\ activeTab # None
    /\ Send(Request("save", activeTab, {}))
    /\ pendingSaves' = pendingSaves \cup {activeTab}
    /\ UNCHANGED <<tabs, activeTab, hopResults, disabled, bars, texts, server, watcher>>

(* Save All takes the modified tabs and saves one after the other.         *)
SaveAllDirtyTabs ==
    /\ "save all" \notin disabled
    /\ \E p \in OpenTabs :
          /\ IsModified(p)
          /\ Send(Request("save", p, {q \in OpenTabs \ {p} : IsModified(q)}))
          /\ pendingSaves' = pendingSaves \cup {p}
    /\ UNCHANGED <<tabs, activeTab, hopResults, disabled, bars, texts, server, watcher>>

RunCommand ==
    /\ activeTab # None
    /\ "run" \notin disabled
    /\ Send(Request("prove", activeTab, {}))
    /\ disabled' = {"run", "save all"}
    /\ pendingSaves' = pendingSaves \cup {activeTab}
    /\ UNCHANGED <<tabs, activeTab, hopResults, bars, texts, server, watcher>>

ClickReload(p) ==
    /\ p \in bars
    /\ Send(Request("click", p, {}))
    /\ UNCHANGED <<page, texts, server, watcher>>

ClickDismiss(p) ==
    /\ p \in bars
    /\ bars' = bars \ {p}
    /\ UNCHANGED <<tabs, activeTab, hopResults, disabled, pendingSaves, requests, texts,
                   sent, server, watcher>>

-------------------------------------------------------------------------------
(* The page: answers, events and timers.                                   *)

Answered(kind, r) == r \in requests /\ r.kind = kind /\ r.step = "answered"

(* A second answer for a file opens its tab anew.                          *)
Opened(r) ==
    /\ Answered("open", r)
    /\ requests' = requests \ {r}
    /\ tabs' = [tabs EXCEPT ![r.path] = [open |-> r.id, text |-> r.read, saved |-> r.read]]
    /\ activeTab' = r.path
    /\ disabled' = IF activeTab = r.path THEN disabled ELSE {}
    /\ UNCHANGED <<hopResults, pendingSaves, bars, texts, sent, server, watcher>>

(* Mutant of Saved: what is in the tab now counts as saved.                *)
SavedCurrentText(r) ==
    /\ Answered("save", r)
    /\ tabs' = IF IsOpen(r.path) THEN [tabs EXCEPT ![r.path].saved = tabs[r.path].text] ELSE tabs
    /\ requests' = requests \ {r}
    /\ disabled' = disabled \ {"save all"}
    /\ UNCHANGED <<activeTab, hopResults, pendingSaves, bars, texts, sent,
                   server, watcher>>

(* saveFile after its answer; Save All goes on with the next tab, and      *)
(* stops with an error at one that was closed.                             *)
Saved(r) ==
    /\ Answered("save", r)
    /\ tabs' = IF IsOpen(r.path) THEN [tabs EXCEPT ![r.path].saved = r.text] ELSE tabs
    /\ \/ r.rest = {} /\ requests' = requests \ {r} /\ UNCHANGED pendingSaves
       \/ \E q \in r.rest :
             /\ pendingSaves' = pendingSaves \cup {q}
             /\ requests' = (requests \ {r}) \cup
                    (IF IsOpen(q)
                     THEN {[Request("save", q, r.rest \ {q}) EXCEPT !.id = r.id]} ELSE {})
    /\ disabled' = disabled \ {"save all"}
    /\ UNCHANGED <<activeTab, hopResults, bars, texts, sent, server, watcher>>

(* runCommand after its answer: the tab is the one it was started in, the  *)
(* results go to the tab that is active now, and under null without one.   *)
RunAnswered(r) ==
    /\ Answered("prove", r)
    /\ requests' = requests \ {r}
    /\ tabs' = IF tabs[r.path].open = r.open THEN [tabs EXCEPT ![r.path].saved = r.text] ELSE tabs
    /\ hopResults' = [hopResults EXCEPT ![activeTab] =
                         [path |-> r.path, text |-> r.read, since |-> r.since]]
    /\ disabled' = Toolbar(activeTab)
    /\ UNCHANGED <<activeTab, pendingSaves, bars, texts, sent, server, watcher>>

(* reloadTab after its answer.                                             *)
Reloaded(r) ==
    /\ Answered("reload", r) \/ Answered("click", r)
    /\ requests' = requests \ {r}
    /\ tabs' = IF tabs[r.path].open = r.open
               THEN [tabs EXCEPT ![r.path].text = r.read, ![r.path].saved = r.read] ELSE tabs
    /\ bars' = bars \ {r.path}
    /\ disabled' = disabled \ {"save all"}
    /\ UNCHANGED <<activeTab, hopResults, pendingSaves, texts, sent, server, watcher>>

(* A request that fails, or whose answer is lost; after runCommand the     *)
(* buttons are enabled again, and the bar's button removes its bar.        *)
Failed(r) ==
    /\ r \in requests /\ r.step \in {"sent", "answered"}
    /\ requests' = requests \ {r}
    /\ disabled' = IF r.kind = "prove" THEN Toolbar(activeTab) ELSE disabled
    /\ bars' = IF r.kind = "click" /\ tabs[r.path].open = r.open
               THEN bars \ {r.path} ELSE bars
    /\ UNCHANGED <<tabs, activeTab, hopResults, pendingSaves, texts, sent,
                   server, watcher>>

(* eventSource.onmessage.                                                  *)
OnMessage ==
    /\ events # <<>>
    /\ LET p == Head(events)
           heard == p \notin pendingSaves /\ IsOpen(p)
       IN /\ pendingSaves' = pendingSaves \ {p}
          /\ bars' = IF heard /\ IsModified(p) THEN bars \cup {p} ELSE bars
          /\ IF heard /\ ~IsModified(p)
             THEN Send(Request("reload", p, {})) ELSE UNCHANGED <<requests, sent>>
    /\ events' = Tail(events)
    /\ UNCHANGED <<tabs, activeTab, hopResults, disabled, texts, server, recent>>

(* The timer of suppressFileChange.                                        *)
SuppressionEnds(p) ==
    /\ p \in pendingSaves
    /\ pendingSaves' = pendingSaves \ {p}
    /\ UNCHANGED <<tabs, activeTab, hopResults, disabled, bars, requests, texts, sent,
                   server, watcher>>

-------------------------------------------------------------------------------
(* The server: one thread per request.                                     *)

Becomes(r, new) == requests' = (requests \ {r}) \cup {new}
Put(p, text) ==
    /\ disk' = [disk EXCEPT ![p] = text]
    /\ history' = [history EXCEPT ![p] = Append(@, text)]
    /\ modified' = modified \cup {p}

Writes(r) == r.kind \in {"save", "prove"}

(* write_text opens the file, which empties it ...                         *)
Truncate(r) ==
    /\ r \in requests /\ Writes(r) /\ r.step = "sent"
    /\ Put(r.path, 0)
    /\ Becomes(r, [r EXCEPT !.step = "writing"])
    /\ UNCHANGED <<page, texts, sent, watcher>>

(* ... and writes.                                                         *)
Write(r) ==
    /\ r \in requests /\ r.step = "writing"
    /\ Put(r.path, r.text)
    /\ Becomes(r, [r EXCEPT !.step = IF r.kind = "save" THEN "answered" ELSE "written",
                            !.since = Len(history[r.path]) + 1])
    /\ UNCHANGED <<page, texts, sent, watcher>>

(* Mutant of Read: the file is read before it is written.                  *)
ReadFirst(r) ==
    /\ r \in requests
    /\ r.step = "sent"
    /\ ~(r.kind = "save")
    /\ Becomes(r, [r EXCEPT !.read = disk[r.path], !.step = "answered",
                            !.since = Len(history[r.path]) + 1])
    /\ UNCHANGED <<page, texts, sent, server, watcher>>

(* get_file reads the file; a run reads back what it wrote.                *)
Read(r) ==
    /\ r \in requests
    /\ r.step = IF r.kind = "prove" THEN "written" ELSE "sent"
    /\ ~(r.kind = "save")
    /\ Becomes(r, [r EXCEPT !.read = disk[r.path], !.step = "answered"])
    /\ UNCHANGED <<page, texts, sent, server, watcher>>

(* Another program saves the file.                                         *)
ExternalChange(p) ==
    /\ texts < MaxTexts
    /\ texts' = texts + 1
    /\ Put(p, texts + 1)
    /\ UNCHANGED <<page, requests, sent, watcher>>

(* on_modified: a change right after a published one is dropped.           *)
Debounced(p) ==
    /\ p \in modified
    /\ modified' = modified \ {p}
    /\ IF p \in recent THEN UNCHANGED watcher
       ELSE /\ Len(events) < MaxEvents
            /\ recent' = recent \cup {p}
            /\ events' = Append(events, p)
    /\ UNCHANGED <<page, requests, texts, sent, disk, history>>

DebounceEnds(p) ==
    /\ p \in recent
    /\ recent' = recent \ {p}
    /\ UNCHANGED <<page, requests, texts, sent, server, events>>

(* The page connects again: the new queue has none of the old events.      *)
Reconnect ==
    /\ events # <<>>
    /\ events' = <<>>
    /\ UNCHANGED <<page, requests, texts, sent, server, recent>>

-------------------------------------------------------------------------------

User ==
    \/ \E p \in Paths : OpenFile(p) \/ ActivateTab(p) \/ CloseTab(p)
                          \/ ClickReload(p) \/ ClickDismiss(p)
    \/ Type \/ SaveFile \/ SaveAllDirtyTabs \/ RunCommand

Page ==
    \/ \E r \in requests : Opened(r) \/ Saved(r) \/ RunAnswered(r) \/ Reloaded(r) \/ Failed(r)
    \/ OnMessage
    \/ \E p \in Paths : SuppressionEnds(p)

Server ==
    \/ \E r \in requests : Truncate(r) \/ Write(r) \/ Read(r)
    \/ \E p \in Paths : ExternalChange(p) \/ Debounced(p) \/ DebounceEnds(p)
    \/ Reconnect

Next == User \/ Page \/ Server

Spec == Init /\ [][Next]_vars

-------------------------------------------------------------------------------
(* Properties.                                                             *)

(* The active tab is open, and while a tab is open one is active; tabs,    *)
(* files and answers hold texts there are.                                 *)
TypeOK ==
    /\ activeTab \in OpenTabs \cup {None}
    /\ (activeTab = None) <=> (OpenTabs = {})
    /\ \A p \in Paths : {tabs[p].text, tabs[p].saved, disk[p]} \subseteq 0..texts
    /\ \A r \in requests : {r.text, r.read} \subseteq 0..texts
    /\ Len(events) <= MaxEvents

(* What a tab counts as saved was in the file at some time: text typed     *)
(* while a save, a run or a reload is on its way stays unsaved.            *)
SavedReachedDisk ==
    \A p \in OpenTabs : tabs[p].saved \in Range(history[p])

(* A file without a tab has no results waiting for it, also when its tab   *)
(* was closed while its proof ran: opened again, it shows none until a run *)
(* answers.  (Results can wait under null, where the panel never looks.)   *)
ResultsOfOpenTabs ==
    \A p \in Paths : hopResults[p] # NoResults => IsOpen(p)

(* A verdict is never about an older text than the one sent: about that    *)
(* text, or one that somebody wrote after it.                              *)
VerdictNotStale ==
    \A p \in Paths \cup {None} : hopResults[p] # NoResults =>
        LET v == hopResults[p] IN
        \E k \in v.since..Len(history[v.path]) : history[v.path][k] = v.text
=============================================================================
