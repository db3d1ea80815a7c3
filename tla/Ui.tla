----------------------------------- MODULE Ui ----------------------------------
(* Getting access, as the user interface sees it: the UserInterface object    *)
(* (ui.ts), its CoreConnector and the browser's port to the core              *)
(* (core_connector.ts, chrome_core_connector.ts), the proxy setting of the    *)
(* browser (chrome_browser_api.ts), and on the other side the core, which     *)
(* answers commands and sends an update after each change of state            *)
(* (ui_connector.ts, remote-connection.ts).                                   *)
(*                                                                            *)
(* Each instance belongs to a user of its own.  An endpoint is known by the   *)
(* instance it leads to.  In the core an attempt ends with its last update    *)
(* (module Remote has what happens when the end of an old one comes late).    *)
EXTENDS Naturals, Sequences, FiniteSetsExt

CONSTANTS
  Instance,    \* the instances that offer access
  None,        \* null
  MaxToUi,     \* bound: updates and answers under way to the interface
  MaxToCore,   \* bound: commands under way to the core
  Slow,        \* whether anything may happen while chrome.proxy.settings.get runs
  Hasty        \* whether the user acts while updates are under way

VARIABLES
  \* the core
  getting,     \* localGettingFromRemote of each instance
  starting,    \* whether the command that started it is unanswered
  \* the interface
  ui,          \* fields of UserInterface
  shown,       \* the state of each instance on display
  \* the browser
  proxy,       \* its proxy setting, and what ChromeBrowserApi knows of it
  \* the connection
  connected, queue_, toCore, toUi,
  lost         \* what was lost: nothing, the port to the core, or the core too (once)

coreVars == <<getting, starting>>
linkVars == <<connected, queue_, lost>>
vars == <<coreVars, ui, shown, proxy, linkVars, toCore, toUi>>

GettingState == {"NONE", "TRYING_TO_GET_ACCESS", "RETRYING", "FAILED", "GETTING_ACCESS"}
AccessMode == {"NONE", "IN_APP"}
Command == [type : {"start", "stop"}, of : Instance, mode : AccessMode] \cup [type : {"getFullState"}]
Update == [type : {"user"}, of : Instance, state : GettingState]
     \cup [type : {"fulfilled", "rejected"}, of : Instance, mode : AccessMode]
     \cup [type : {"fullState"}, states : [Instance -> GettingState], roster : SUBSET Instance]

TypeOK ==
  /\ getting \in [Instance -> GettingState]
  /\ starting \in [Instance -> AccessMode \cup {None}]
  /\ ui \in [gettingFrom : Instance \cup {None}, trying : Instance \cup {None},
             disconnected : Instance \cup {None}, mode : AccessMode]
  /\ shown \in [Instance -> GettingState]
  /\ proxy \in [running : BOOLEAN, setting : Instance \cup {None}, reading : Seq(Instance)]
  /\ connected \in BOOLEAN /\ lost \in {"no", "port", "core"}
  /\ queue_ \in Seq(Command) /\ toCore \in Seq(Command) /\ toUi \in Seq(Update)

Init ==
  /\ getting = [i \in Instance |-> "NONE"] /\ starting = [i \in Instance |-> None]
  /\ ui = [gettingFrom |-> None, trying |-> None, disconnected |-> None, mode |-> "NONE"]
  /\ shown = [i \in Instance |-> "NONE"]
  /\ proxy = [running |-> FALSE, setting |-> None, reading |-> <<>>]
  /\ connected = TRUE /\ queue_ = <<>> /\ toCore = <<>> /\ toUi = <<>>
  /\ lost = "no"

------------------------------------------------------------------------------
(* ChromeBrowserApi: the old setting is read before the new one is written.   *)
startUsingProxy(p, i) ==
  IF Slow THEN [p EXCEPT !.running = TRUE, !.reading = Append(@, i)]
          ELSE [p EXCEPT !.running = TRUE, !.setting = i]

stopUsingProxyInBrowser(p) ==
  IF p.running THEN [p EXCEPT !.running = FALSE, !.setting = None] ELSE p

SettingRead ==
  /\ proxy.reading # <<>>
  /\ proxy' = [proxy EXCEPT !.setting = Head(proxy.reading), !.reading = Tail(@)]
  /\ UNCHANGED <<coreVars, ui, shown, linkVars, toCore, toUi>>

(* What a handler of the interface works on: the fields, the proxy, and the   *)
(* commands it sends.                                                         *)
Now == [ui |-> ui, proxy |-> proxy, out |-> <<>>]
Sends(w, c) == [w EXCEPT !.out = Append(@, c)]
Start(i, mode) == [type |-> "start", of |-> i, mode |-> mode]
Stop(i) == [type |-> "stop", of |-> i, mode |-> "NONE"]

(* send: at once, or when the port is there. *)
Done(w) ==
  /\ ui' = w.ui /\ proxy' = w.proxy
  /\ Len(toCore \o queue_ \o w.out) <= MaxToCore /\ Len(w.proxy.reading) <= 1
  /\ IF connected THEN toCore' = toCore \o w.out /\ UNCHANGED queue_
                  ELSE queue_' = queue_ \o w.out /\ UNCHANGED toCore

stopGettingFromInstance(w, i) == Sends(w, Stop(i))

stopUsingProxy(w) ==
  LET x == [w EXCEPT !.proxy = stopUsingProxyInBrowser(@)] IN
  IF x.ui.trying # None THEN stopGettingFromInstance(x, x.ui.trying)
  ELSE IF x.ui.disconnected # None THEN stopGettingFromInstance(x, x.ui.disconnected)
  ELSE x

startGettingFromInstance(w, i, mode) ==
  LET x == IF w.ui.trying # None THEN Sends(w, Stop(w.ui.trying)) ELSE w
  IN  Sends(x, Start(i, mode))

startGettingInUiAndConfig(w, i, mode) ==
  LET x == [w EXCEPT !.ui.gettingFrom = i]
  IN  IF mode = "NONE" THEN x ELSE [x EXCEPT !.proxy = startUsingProxy(@, i)]

(* i is the instance that stopped, or None for the one access comes from. *)
stoppedGetting(w, i, error) ==
  LET x == IF i \in {None, w.ui.gettingFrom} THEN [w EXCEPT !.ui.gettingFrom = None] ELSE w
  IN  IF ~error /\ x.ui.gettingFrom = None /\ x.ui.trying = None
        THEN [x EXCEPT !.proxy = stopUsingProxyInBrowser(@)] ELSE x

syncGettingState_(w, i, s) ==
  IF s = "GETTING_ACCESS" THEN startGettingInUiAndConfig(w, i, w.ui.mode)
  ELSE IF w.ui.gettingFrom = i /\ s # "TRYING_TO_GET_ACCESS" THEN stoppedGetting(w, i, s # "NONE")
  ELSE w

syncTryingToGetState_(w, i, s) ==
  IF s \in {"TRYING_TO_GET_ACCESS", "RETRYING"} THEN [w EXCEPT !.ui.trying = i]
  ELSE IF w.ui.trying = i THEN [w EXCEPT !.ui.trying = None]
  ELSE w

(* Mutant: the end of the retries is not noticed. *)
syncDisconnectedState__stays(w, i, s) ==
  IF s \in {"FAILED", "RETRYING"} THEN [w EXCEPT !.ui.disconnected = i] ELSE w

syncDisconnectedState_(w, i, s) ==
  IF s \in {"FAILED", "RETRYING"} THEN [w EXCEPT !.ui.disconnected = i]
  ELSE IF w.ui.disconnected = i THEN [w EXCEPT !.ui.disconnected = None]
  ELSE w

(* syncUser, as far as getting access goes. *)
syncUser(w, i, s) ==
  syncDisconnectedState_(syncTryingToGetState_(syncGettingState_(w, i, s), i, s), i, s)

------------------------------------------------------------------------------
(* The user.  Which buttons there are depends on what is on display, and   *)
(* the dialog about a lost connection covers them all.                         *)
UserActs == Hasty \/ toUi = <<>>

StartGetting(i) ==
  /\ UserActs
  /\ shown[i] = "NONE" /\ ui.disconnected = None
  /\ Done(startGettingFromInstance(Now, i, "IN_APP"))
  /\ UNCHANGED <<coreVars, shown, connected, lost, toUi>>

StopGetting(i) ==
  /\ UserActs
  /\ shown[i] \in {"TRYING_TO_GET_ACCESS", "GETTING_ACCESS"} /\ ui.disconnected = None
  /\ Done(stopGettingFromInstance(stopUsingProxy(Now), i))
  /\ UNCHANGED <<coreVars, shown, connected, lost, toUi>>

(* The dialog that asks what to do when access was lost. *)
restartProxying ==
  /\ UserActs
  /\ ui.disconnected # None /\ ui.trying = None
  /\ Done(startGettingFromInstance(Now, ui.disconnected, ui.mode))
  /\ UNCHANGED <<coreVars, shown, connected, lost, toUi>>

revertProxySettings ==
  /\ UserActs
  /\ ui.disconnected # None
  /\ Done(stopUsingProxy(Now))
  /\ UNCHANGED <<coreVars, shown, connected, lost, toUi>>

(* Something else takes the proxy setting of the browser. *)
proxyDisconnected ==
  /\ proxy.running /\ ui.gettingFrom # None /\ proxy.setting # None
  /\ Done(stopGettingFromInstance([Now EXCEPT !.proxy.setting = None], ui.gettingFrom))
  /\ UNCHANGED <<coreVars, shown, connected, lost, toUi>>

------------------------------------------------------------------------------
(* An update of a user, and the answers to commands. *)
ReadUpdate ==
  /\ toUi # <<>> /\ toUi' = Tail(toUi)
  /\ LET m == Head(toUi) IN
       /\ m.type = "user"
       /\ Done(syncUser(Now, m.of, m.state))
       /\ shown' = [shown EXCEPT ![m.of] = m.state]
  /\ UNCHANGED <<coreVars, connected, lost>>

(* The start of an instance succeeded. *)
Fulfilled(w, i, mode) ==
  LET x == IF w.ui.gettingFrom \notin {None, i} THEN Sends(w, Stop(w.ui.gettingFrom)) ELSE w
  IN  startGettingInUiAndConfig([x EXCEPT !.ui.mode = mode], i, mode)

ReadAnswer ==
  /\ toUi # <<>> /\ toUi' = Tail(toUi)
  /\ LET m == Head(toUi) IN
       /\ m.type \in {"fulfilled", "rejected"}
       /\ Done(IF m.type = "fulfilled" THEN Fulfilled(Now, m.of, m.mode) ELSE Now)
  /\ UNCHANGED <<coreVars, shown, connected, lost>>

(* updateInitialState: the users of the networks that are online. *)
SyncAll(w, S, states) == FoldSet(LAMBDA i, x : syncUser(x, i, states[i]), w, S)

ReadFullState ==
  /\ toUi # <<>> /\ toUi' = Tail(toUi)
  /\ LET m == Head(toUi) IN
       /\ m.type = "fullState"
       /\ Done(SyncAll(Now, m.roster, m.states))
       /\ shown' = [i \in Instance |-> IF i \in m.roster THEN m.states[i] ELSE "NONE"]
  /\ UNCHANGED <<coreVars, connected, lost>>

------------------------------------------------------------------------------
(* The core. *)
Tells(s) == Len(toUi \o s) <= MaxToUi /\ toUi' = toUi \o s
User(i, s) == [type |-> "user", of |-> i, state |-> s]
Answer(i, t) ==
  IF starting[i] = None THEN <<>> ELSE <<[type |-> t, of |-> i, mode |-> starting[i]]>>

(* A connection changes its state, says so, and answers the command that      *)
(* started it if this is what it waited for.                                  *)
Changes(i, s, answer) ==
  /\ connected
  /\ getting' = [getting EXCEPT ![i] = s]
  /\ Tells(<<User(i, s)>> \o answer)
  /\ starting' = IF answer = <<>> THEN starting ELSE [starting EXCEPT ![i] = None]

ReadStart ==
  /\ connected /\ toCore # <<>> /\ toCore' = Tail(toCore)
  /\ LET c == Head(toCore) IN
       /\ c.type = "start"
       /\ IF getting[c.of] \in {"NONE", "FAILED"} /\ starting[c.of] = None
            THEN LET s == IF getting[c.of] = "NONE" THEN "TRYING_TO_GET_ACCESS" ELSE "RETRYING" IN
                 /\ getting' = [getting EXCEPT ![c.of] = s]
                 /\ starting' = [starting EXCEPT ![c.of] = c.mode]
                 /\ Tells(<<User(c.of, s)>>)
            ELSE /\ Tells(<<[type |-> "rejected", of |-> c.of, mode |-> c.mode]>>)
                 /\ UNCHANGED coreVars
  /\ UNCHANGED <<ui, shown, proxy, linkVars>>

ReadStop ==
  /\ connected /\ toCore # <<>> /\ toCore' = Tail(toCore)
  /\ LET c == Head(toCore) IN
       /\ c.type = "stop"
       /\ IF getting[c.of] = "NONE" THEN UNCHANGED <<coreVars, toUi>>
                                    ELSE Changes(c.of, "NONE", <<>>)
  /\ UNCHANGED <<ui, shown, proxy, linkVars>>

ReadGetFullState ==
  /\ connected /\ toCore # <<>> /\ toCore' = Tail(toCore)
  /\ Head(toCore).type = "getFullState"
  /\ \E r \in {{}, Instance} :
       /\ r = {} => lost = "core" /\ \A i \in Instance : getting[i] = "NONE"
       /\ Tells(<<[type |-> "fullState", states |-> getting, roster |-> r]>>)
  /\ UNCHANGED <<coreVars, ui, shown, proxy, linkVars>>

CoreStep(i) ==
  /\ \/ getting[i] \in {"TRYING_TO_GET_ACCESS", "RETRYING"} /\ Changes(i, "GETTING_ACCESS", Answer(i, "fulfilled"))
     \/ getting[i] = "TRYING_TO_GET_ACCESS" /\ Changes(i, "NONE", Answer(i, "rejected"))
     \/ getting[i] = "RETRYING" /\ Changes(i, "FAILED", Answer(i, "rejected"))
     \/ getting[i] = "NONE" /\ starting[i] # None /\ Changes(i, "NONE", Answer(i, "rejected"))
     \/ getting[i] = "GETTING_ACCESS" /\ Changes(i, "FAILED", <<>>)
     \/ getting[i] = "FAILED" /\ Changes(i, "RETRYING", <<>>)
     \/ getting[i] = "GETTING_ACCESS" /\ Changes(i, "GETTING_ACCESS", <<>>)       \* bytes were counted
  /\ UNCHANGED <<ui, shown, proxy, linkVars, toCore>>

------------------------------------------------------------------------------
(* The port to the core ends, with or without the core: what was under way    *)
(* is lost, and the interface that was getting access no longer does.         *)
Disconnect ==
  /\ connected /\ lost = "no"
  /\ connected' = FALSE /\ lost' \in {"port", "core"}
  /\ toCore' = <<>> /\ toUi' = <<>>
  /\ LET w == IF ui.gettingFrom # None THEN stoppedGetting(Now, None, TRUE) ELSE Now
     IN  ui' = w.ui /\ proxy' = w.proxy
  /\ getting' = IF lost' = "core" THEN [i \in Instance |-> "NONE"] ELSE getting
  /\ starting' = [i \in Instance |-> None]
  /\ UNCHANGED <<queue_, shown>>

(* connect: what was to be sent is sent, and the state is asked for.          *)
Connect ==
  /\ ~connected /\ connected' = TRUE
  /\ Len(queue_) < MaxToCore
  /\ toCore' = Append(queue_, [type |-> "getFullState"]) /\ queue_' = <<>>
  /\ UNCHANGED <<coreVars, ui, shown, proxy, lost, toUi>>

Next ==
  \/ SettingRead
  \/ \E i \in Instance : StartGetting(i) \/ StopGetting(i) \/ CoreStep(i)
  \/ restartProxying \/ revertProxySettings \/ proxyDisconnected
  \/ ReadUpdate \/ ReadAnswer \/ ReadFullState
  \/ ReadStart \/ ReadStop \/ ReadGetFullState
  \/ Disconnect \/ Connect

Spec == Init /\ [][Next]_vars

------------------------------------------------------------------------------
(* What is promised of getting access, from each instance. *)
Getting(i) == INSTANCE Access WITH state <- getting[i]

Quiet == connected /\ toUi = <<>> /\ toCore = <<>> /\ proxy.reading = <<>>

(* Once everything that was said has been read, a browser that sends its      *)
(* traffic to a proxy of the core sends it to one the core still keeps.       *)
ProxyIsKept ==
  Quiet /\ lost = "no" /\ proxy.setting # None => \E i \in Instance : getting[i] # "NONE"

(* ... and the interface asks about a lost connection, or shows that one is   *)
(* tried, only while there is one.                                            *)
ShowsWhatIs ==
  Quiet /\ lost # "core" =>
    /\ ui.disconnected # None => getting[ui.disconnected] \in {"FAILED", "RETRYING"}
    /\ ui.trying # None => getting[ui.trying] \in {"TRYING_TO_GET_ACCESS", "RETRYING"}
    /\ ui.gettingFrom # None => getting[ui.gettingFrom] \in {"GETTING_ACCESS", "TRYING_TO_GET_ACCESS"}

(* ... "If we were getting access from some other instance turn down the      *)
(* connection" (ui.ts:694-695).                                               *)
OneGetting ==
  Quiet => \A i, j \in Instance : getting[i] = "GETTING_ACCESS" /\ getting[j] = "GETTING_ACCESS" => i = j
================================================================================
