------------------------------- MODULE Settings -------------------------------
(* The global settings: the copy of the user interface, the copy of the core,  *)
(* and the one in storage (generic_core/globals.ts and uproxy_core.ts,         *)
(* generic_ui/scripts/model.ts and polymer/advanced-settings.ts).  A setting   *)
(* is here the description, a list (the STUN servers) or the policy.           *)
EXTENDS Integers, Sequences

CONSTANTS
  Description, Policy,
  Servers,               \* lists of STUN servers a user enters
  DEFAULT_STUN_SERVERS,
  None,
  MaxChanges, MaxRestarts    \* bounds

VARIABLES
  ui,            \* model.globalSettings
  panel,         \* the text of the advanced settings, taken when they are opened
  core,          \* globals.settings
  read,          \* what loadSettings found in storage, while it is pending
  loaded, disk,
  toCore, toUi,  \* in order
  asked, started, \* getFullState is called, and answered
  told,          \* the description in the last handshakes
  changes, restarts

vars == <<ui, panel, core, read, loaded, disk, toCore, toUi, asked, started, told, changes, restarts>>
counts == <<changes, restarts>>
asking == <<asked, started>>

Setting == [description : Description, policy : Policy, servers : Seq(UNION {
              {l[i] : i \in DOMAIN l} : l \in Servers \union {DEFAULT_STUN_SERVERS}})]

TypeOK ==
  /\ ui \in Setting /\ core \in Setting /\ panel \in Setting \union {None}
  /\ disk \in Setting \union {None} /\ read \in Setting \union {None}
  /\ loaded \in BOOLEAN /\ asked \in BOOLEAN /\ started \in BOOLEAN /\ told \in Description
  /\ \A i \in DOMAIN toUi : toUi[i] \in Setting
  /\ changes \in 0..MaxChanges /\ restarts \in 0..MaxRestarts

Default == [description |-> "", policy |-> "", servers |-> DEFAULT_STUN_SERVERS]
UiDefault == [Default EXCEPT !.servers = <<>>]

Init ==
  /\ ui = UiDefault /\ core = Default /\ told = ""
  /\ panel = None /\ read = None /\ loaded = FALSE /\ disk = None
  /\ toCore = <<>> /\ toUi = <<>> /\ asked = FALSE /\ started = FALSE /\ changes = 0 /\ restarts = 0

(* _.merge, called with a function for its third argument.  It takes no such   *)
(* argument since version 4, and lists are merged place by place.              *)
mergeLists(a, b) ==
  [i \in 1..(IF Len(a) > Len(b) THEN Len(a) ELSE Len(b)) |->
     IF i <= Len(b) THEN b[i] ELSE a[i]]
merge(a, b) == [b EXCEPT !.servers = mergeLists(a.servers, b.servers)]

(* loadSettings. *)
Loads ==
  /\ ~loaded /\ loaded' = TRUE /\ read' = None
  /\ core' = IF read = None THEN core ELSE merge(core, read)
  /\ UNCHANGED <<ui, panel, disk, toCore, toUi, asking, told, counts>>

(* uProxyCore.updateGlobalSettings, of the settings the core now has in memory *)
(* and the new ones: what is saved is the new ones, not the outcome.           *)
updateGlobalSettings(now, new) ==
  LET n == IF new.servers = <<>> THEN [new EXCEPT !.servers = DEFAULT_STUN_SERVERS] ELSE new
  IN  /\ disk' = n /\ core' = merge(now, n)
      /\ told' = IF core'.description # now.description THEN core'.description ELSE told

(* Mutant: a change of one setting does not wait for the stored ones. *)
updateGlobalSetting_early ==
  /\ toCore # <<>> /\ Head(toCore).one
  /\ toCore' = Tail(toCore)
  /\ LET changed == [core EXCEPT !.description = Head(toCore).settings.description]
     IN  updateGlobalSettings(changed, changed)
  /\ UNCHANGED <<ui, panel, read, loaded, toUi, asking, counts>>

(* uProxyCore.updateGlobalSetting: the settings in memory are changed first,   *)
(* so that updateGlobalSettings never finds another description.               *)
updateGlobalSetting ==
  /\ loaded /\ toCore # <<>> /\ Head(toCore).one
  /\ toCore' = Tail(toCore)
  /\ LET changed == [core EXCEPT !.description = Head(toCore).settings.description]
     IN  updateGlobalSettings(changed, changed)
  /\ UNCHANGED <<ui, panel, read, loaded, toUi, asking, counts>>

(* The command of the advanced settings. *)
UpdateAll ==
  /\ loaded /\ toCore # <<>> /\ ~Head(toCore).one
  /\ toCore' = Tail(toCore)
  /\ updateGlobalSettings(core, Head(toCore).settings)
  /\ UNCHANGED <<ui, panel, read, loaded, toUi, asking, counts>>

(* updateOrgPolicy: REFRESH_GLOBAL_SETTINGS carries all the settings. *)
updateOrgPolicy(p) ==
  /\ loaded /\ changes < MaxChanges /\ changes' = changes + 1
  /\ LET changed == [core EXCEPT !.policy = p]
     IN  updateGlobalSettings(changed, changed) /\ toUi' = Append(toUi, core')
  /\ UNCHANGED <<ui, panel, read, loaded, toCore, asking, restarts>>

(* getFullState, asked once by an interface that starts. *)
getFullState ==
  /\ loaded /\ ~asked /\ asked' = TRUE
  /\ toUi' = Append(toUi, core)
  /\ UNCHANGED <<ui, panel, core, read, loaded, disk, toCore, started, told, counts>>

(* Model.updateGlobalSettings, of an initial state or a refresh. *)
UiUpdates ==
  /\ toUi # <<>>
  /\ ui' = merge(ui, Head(toUi)) /\ toUi' = Tail(toUi) /\ started' = TRUE
  /\ UNCHANGED <<panel, core, read, loaded, disk, toCore, asked, told, counts>>

(* UserInterface.updateGlobalSetting, also before the initial state is there. *)
SetOne(d) ==
  /\ changes < MaxChanges /\ changes' = changes + 1
  /\ ui' = [ui EXCEPT !.description = d]
  /\ toCore' = Append(toCore, [one |-> TRUE, settings |-> ui'])
  /\ UNCHANGED <<panel, core, read, loaded, disk, toUi, asking, told, restarts>>

(* advanced-settings.ts, open: the text is of the settings at that time. *)
open ==
  /\ started /\ panel = None /\ panel' = ui
  /\ UNCHANGED <<ui, core, read, loaded, disk, toCore, toUi, asking, told, counts>>

(* setAdvancedSettings, of a text that has the keys of the settings. *)
setAdvancedSettings(list) ==
  /\ panel # None /\ changes < MaxChanges /\ changes' = changes + 1
  /\ ui' = [panel EXCEPT !.servers = list] /\ panel' = None
  /\ toCore' = Append(toCore, [one |-> FALSE, settings |-> ui'])
  /\ UNCHANGED <<core, read, loaded, disk, toUi, asking, told, restarts>>

(* The browser starts again: what is under way is lost. *)
Restart ==
  /\ restarts < MaxRestarts /\ restarts' = restarts + 1
  /\ ui' = UiDefault /\ core' = Default
  /\ panel' = None /\ read' = disk /\ loaded' = FALSE
  /\ toCore' = <<>> /\ toUi' = <<>> /\ asked' = FALSE /\ started' = FALSE
  /\ UNCHANGED <<disk, told, changes>>

Next ==
  \/ Loads \/ updateGlobalSetting \/ UpdateAll \/ getFullState \/ UiUpdates \/ open \/ Restart
  \/ \E p \in Policy : updateOrgPolicy(p)
  \/ \E d \in Description : SetOne(d)
  \/ \E list \in Servers : setAdvancedSettings(list)

Spec == Init /\ [][Next]_vars

(* Once the stored settings were read, the description and the policy the core *)
(* goes by are the stored ones, so that a restart keeps them, in whatever      *)
(* order loads, changes, policies and restarts come.                           *)
SavedIsUsed ==
  loaded /\ disk # None =>
    disk.description = core.description /\ disk.policy = core.policy

(* "arrays should be replaced instead of combined" (globals.ts:69): not so, a  *)
(* shorter list leaves the end of the longer one.                              *)
SavedListIsUsed == loaded /\ disk # None => disk.servers = core.servers

(* "Sends UI new canonical version of global settings"                         *)
(* (uproxy_core_api.ts:173): when nothing is under way, the two sides agree.   *)
(* A refresh that crosses a change sets the interface back.                    *)
AgreeWhenQuiet ==
  started /\ toUi = <<>> /\ toCore = <<>> /\ loaded => ui.description = core.description

(* "Updates user's description ... propogate their description update to all   *)
(* instances" (uproxy_core.ts:218-223): a change of one setting tells nobody.  *)
ChangeIsTold == [][loaded /\ core'.description # core.description /\ loaded' =>
                    told' = core'.description]_vars
===============================================================================
