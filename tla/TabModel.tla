------------------------------- MODULE TabModel -------------------------------
(***************************************************************************)
(* The page of the JDBC drivers in the options of LibreOffice, written in  *)
(* Python: jdbcdriver/options/tab2/tabmodel.py, with the calls that        *)
(* tabmanager.py and optionsmanager.py make of it.  The page edits a copy  *)
(* of the configuration of the drivers and stages the archives (jar files) *)
(* the user picks in a temporary folder; to save is to write the copy back *)
(* and to copy what is staged into the folder of the extension.  A thread *)
(* reads the versions of the drivers and tells the page.                   *)
(*                                                                         *)
(* Of the properties of a driver two are kept: its class path and another  *)
(* one.  A driver is its key; the one a user adds has the key New, whose   *)
(* sub-protocol _getSubProtocol() finds empty, since _getProtocol() makes  *)
(* 'juda::*x' of it, so its archives go to the top folder.                 *)
(***************************************************************************)
EXTENDS Integers, FiniteSets

CONSTANTS Root, Old, New,  \* the drivers: the root, installed ones, a new one
          Jar,             \* the archives a user can pick
          MaxPicks         \* bound: the times archives are picked

ASSUME DriversAssumption == {Root, New} \cap Old = {} /\ Root # New
ASSUME JarAssumption == IsFiniteSet(Jar)
ASSUME PicksAssumption == MaxPicks \in Nat

Driver == Old \union {Root, New}
Top == New                 \* the sub-folder of New is the top folder itself

VARIABLES
  config,    \* [Driver -> entry], the configuration of LibreOffice
  drivers,   \* [Driver -> entry of the page], _drivers
  tmp, lib,  \* sets of files [dir, jar]: the staged ones, the extension's
  folder,    \* _folder is known: something was staged in this page
  url,       \* _url is known
  path,      \* _path, the class path of the driver being added
  selected,  \* the driver selected in the page, or NoDriver
  shown,     \* the page shows a version, not the default text
  thread,    \* the thread of the versions: "no", "running", "found", "told", "done"
  found,     \* the drivers it has found in the configuration
  versions,  \* _versions
  edited,    \* history: the page was edited since it was loaded or saved
  readded,   \* history: drivers removed and added again
  staged,    \* history: the files staged by this page that are there
  wiped,     \* history: the staged files that adding a driver deleted
  picks      \* number of times archives were picked, bounded

files == <<tmp, lib, folder, url, staged, wiped, picks>>
page == <<config, drivers, path, edited, readded>>
shownVars == <<selected, shown>>
versionVars == <<thread, found, versions>>
vars == <<files, page, shownVars, versionVars>>

NoPath == [multi |-> FALSE, at |-> "none"]
NoDriver == "none"
Values == {"none", "gone", "x"}  \* not there, None (removed), a value
NotThere == [there |-> FALSE, path |-> NoPath, extra |-> "none"]
Lazy == [st |-> "lazy", path |-> NoPath, extra |-> "none"]
Absent == [Lazy EXCEPT !.st = "absent"]
Removed == [Lazy EXCEPT !.st = "removed"]

\* _getJavaClassPath(): the sub-folder of several archives, or the archive
ClassPath(k, jars) == IF Cardinality(jars) > 1
                      THEN {[multi |-> TRUE, at |-> k]}
                      ELSE {[multi |-> FALSE, at |-> j] : j \in jars}

\* What the loader finds under a class path
Under(p, set) == IF p.multi THEN {f \in set : f.dir = p.at}
                            ELSE {f \in set : f.dir = Top /\ f.jar = p.at}

\* _getDriverConfigurations(): the groups are loaded when they are needed
Loaded(conf) == [k \in Driver |-> IF conf[k].there THEN Lazy ELSE Absent]

Listed == {k \in Driver : drivers[k].st \in {"lazy", "loaded"}}

\* The dialog of a new driver is modal: nothing else is done while it has a path
Adding == path # NoPath

Init ==
  /\ \E x \in [Old -> {"none", "x"}] :
       config = [k \in Driver |->
                   [there |-> k # New, path |-> NoPath,
                    extra |-> IF k \in Old THEN x[k] ELSE "none"]]
  /\ drivers = Loaded(config)
  /\ tmp = {} /\ lib = {} /\ wiped = {} /\ picks = 0
  /\ folder = FALSE /\ url = FALSE /\ path = NoPath
  /\ selected = Root /\ shown = FALSE
  /\ thread = "no" /\ found = {} /\ versions = {}
  /\ edited = FALSE /\ readded = {} /\ staged = {}

WipedForGood == UNION {Under(config[k].path, wiped) : k \in Driver}

\* The dialog is closed and opened again: __init__() of a new model and page
Reopen ==
  /\ ~Adding
  /\ drivers' = Loaded(config)
  /\ folder' = FALSE /\ url' = FALSE /\ path' = NoPath
  /\ selected' = Root /\ shown' = FALSE
  /\ thread' = "no" /\ found' = {} /\ versions' = {}
  /\ edited' = FALSE /\ readded' = {} /\ staged' = {}
  /\ wiped' = WipedForGood
  /\ UNCHANGED <<config, tmp, lib, picks>>

--------------------------------------------------------------------------------
\* Archives

\* A mutant: what an earlier page left is kept
KeptTmp == tmp

\* A mutant: every use of the folder empties it
AlwaysEmptied == {}

\* _getExtensionUrl(): the first use of the folder empties it
EmptiedTmp == IF folder THEN tmp ELSE {}

\* _updateArchive(): several archives go to a sub-folder that is emptied first,
\* one goes to the top folder
Staged(k, jars) ==
  [dir : {IF Cardinality(jars) > 1 THEN k ELSE Top}, jar : jars]
Emptied(k, jars) == IF Cardinality(jars) = 1 THEN {}
                    ELSE {f \in EmptiedTmp : k = Top \/ f.dir = k}

Stage(k, jars) ==
  /\ tmp' = (EmptiedTmp \ Emptied(k, jars)) \union Staged(k, jars)
  /\ staged' = (staged \cap tmp') \union Staged(k, jars)
  /\ wiped' = wiped \union (IF k = New THEN Emptied(k, jars) \ lib ELSE {})
  /\ folder' = TRUE /\ url' = TRUE
  /\ picks < MaxPicks /\ picks' = picks + 1
  /\ UNCHANGED lib

Archives == (SUBSET Jar) \ {{}}

\* _getGroup(), or _getProperties() of the configuration when not yet loaded
Properties(k) ==
  IF drivers[k].st = "loaded" THEN drivers[k]
  ELSE [st |-> "loaded", path |-> config[k].path, extra |-> config[k].extra]

\* updateArchive(): of the driver selected, which is not the root
UpdateArchive(jars) ==
  /\ ~Adding /\ selected \in Listed \ {Root}
  /\ Stage(selected, jars)
  /\ \E p \in ClassPath(selected, jars) :
       drivers' = [drivers EXCEPT ![selected] = [Properties(selected) EXCEPT !.path = p]]
  /\ edited' = TRUE
  /\ UNCHANGED <<config, path, readded, shownVars, versionVars>>

\* setArchive(), in the dialog of a new driver
SetArchive(jars) ==
  /\ New \notin Listed
  /\ Stage(New, jars)
  /\ path' \in ClassPath(New, jars)
  /\ UNCHANGED <<config, drivers, edited, readded, shownVars, versionVars>>

\* viewArchive(): getArchivePath() asks for the url
ViewArchive == url' = TRUE /\ UNCHANGED <<tmp, lib, folder, staged, wiped, picks,
                                          page, shownVars, versionVars>>

--------------------------------------------------------------------------------
\* Drivers and properties

\* _getDriverVersion()
Select(k) == selected' = k /\ shown' = (k \in versions)

\* setDriver() of the manager
SetDriver(k) ==
  /\ ~Adding /\ k \in Listed
  /\ Select(k)
  /\ UNCHANGED <<files, page, versionVars>>

\* setGroup() of the manager, getProperties(): the group is loaded; the one of
\* the root, which nothing changes or saves, is left out
SetGroup ==
  /\ ~Adding /\ selected \in Listed \ {Root}
  /\ drivers' = [drivers EXCEPT ![selected] = Properties(selected)]
  /\ UNCHANGED <<files, config, path, edited, readded, shownVars, versionVars>>

\* cancelDriver(), and the dialog closed: its next use calls clearJarPath()
CancelDriver ==
  /\ path' = NoPath
  /\ UNCHANGED <<files, config, drivers, edited, readded, shownVars, versionVars>>

\* addDriver(): isDriverValid() wants a path and a protocol not in use
AddDriver ==
  /\ Adding /\ New \notin Listed
  /\ drivers' = [drivers EXCEPT ![New] =
                   [st |-> "loaded", path |-> path, extra |-> "none"]]
  /\ path' = NoPath
  /\ edited' = TRUE
  /\ readded' = IF config[New].there THEN readded \union {New} ELSE readded
  /\ Select(New)
  /\ UNCHANGED <<files, config, versionVars>>

\* removeDriver(): the first one is selected
RemoveDriver ==
  /\ ~Adding /\ selected \in Listed \ {Root}
  /\ drivers' = [drivers EXCEPT ![selected] = Removed]
  /\ edited' = TRUE
  /\ Select(Root)
  /\ UNCHANGED <<files, config, path, readded, versionVars>>

\* addProperty(), editProperty(), setPropertyValue(), removeProperty() and the
\* changes of a list of values, of the driver shown, whose group is loaded
SetProperty(x) ==
  /\ ~Adding /\ selected \in Listed \ {Root} /\ drivers[selected].st = "loaded"
  /\ drivers[selected].extra # x /\ x \in {"gone", "x"}
  /\ x = "gone" => drivers[selected].extra = "x"
  /\ drivers' = [drivers EXCEPT ![selected].extra = x]
  /\ edited' = TRUE
  /\ UNCHANGED <<files, config, path, readded, shownVars, versionVars>>

--------------------------------------------------------------------------------
\* Saving and loading

\* A mutant: a property removed in the page stays in the configuration
SavedKeeping(k) ==
  LET d == drivers[k] IN
  CASE d.st = "absent"  -> config[k]
    [] d.st = "removed" -> NotThere
    [] d.st = "lazy"    -> [config[k] EXCEPT !.there = TRUE]
    [] d.st = "loaded"  -> [there |-> TRUE, path |-> d.path,
                            extra |-> IF d.extra = "x" THEN "x" ELSE config[k].extra]

\* _saveConfiguration(): the groups that are loaded are written, property by
\* property; what the page does not know of stays
Saved(k) ==
  LET d == drivers[k] IN
  IF k = Root THEN config[k] ELSE
  CASE d.st = "absent"  -> config[k]
    [] d.st = "removed" -> NotThere
    [] d.st = "lazy"    -> [config[k] EXCEPT !.there = TRUE]
    [] d.st = "loaded"  -> [there |-> TRUE, path |-> d.path,
                            extra |-> CASE d.extra = "none" -> config[k].extra
                                        [] d.extra = "gone" -> "none"
                                        [] OTHER            -> d.extra]

\* A mutant: what was copied stays staged
CopiedStay == tmp

\* _deleteFolderContent()
LeftInTmp == {}

\* saveSetting(): the configuration, then what is staged is copied and deleted;
\* _url is forgotten, _folder is not: a second save writes the configuration and
\* then throws, with nothing left to copy.  A failing copy is not modelled.
SaveSetting ==
  /\ ~Adding
  /\ config' = [k \in Driver |-> Saved(k)]
  /\ edited' = FALSE
  /\ IF folder THEN /\ lib' = lib \union tmp
                    /\ tmp' = LeftInTmp /\ url' = FALSE
              ELSE UNCHANGED <<lib, tmp, url>>
  /\ wiped' = IF folder THEN wiped \ tmp ELSE wiped
  /\ staged' = staged \cap tmp'
  /\ UNCHANGED <<folder, picks, drivers, path, readded, shownVars, versionVars>>

\* loadSetting(): what was staged is deleted.  After a save that copied, it
\* fails, for _url is None: nothing happens.
LoadSetting ==
  /\ ~Adding /\ (folder => url)
  /\ tmp' = IF folder THEN {} ELSE tmp
  /\ folder' = FALSE
  /\ drivers' = Loaded(config)
  /\ edited' = FALSE /\ readded' = {}
  /\ staged' = {} /\ wiped' = WipedForGood
  /\ IF selected # NoDriver /\ config[selected].there
     THEN Select(selected)
     ELSE selected' = NoDriver /\ UNCHANGED shown
  /\ UNCHANGED <<lib, url, picks, config, path, versionVars>>

--------------------------------------------------------------------------------
\* The thread of the versions

\* activateTab2(), once
SetDriverVersions ==
  /\ thread = "no"
  /\ thread' = "running"
  /\ UNCHANGED <<found, versions, files, page, shownVars>>

\* _setDriverVersions(): the drivers of the configuration are asked
FindVersions ==
  /\ thread = "running"
  /\ found' = {k \in Driver : config[k].there}
  /\ thread' = "found"
  /\ UNCHANGED <<versions, files, page, shownVars>>

\* with the lock, _versions; then the callback is asked for
TellVersions ==
  /\ thread = "found"
  /\ versions' = found
  /\ thread' = "told"
  /\ UNCHANGED <<found, files, page, shownVars>>

\* A mutant: the driver selected is not looked for in the versions
ShownAfter(k) == TRUE

\* _notify(), in the main thread
Known(k) == IF k \in found THEN TRUE ELSE shown

Notify ==
  /\ thread = "told"
  /\ shown' = Known(selected)
  /\ thread' = "done"
  /\ UNCHANGED <<selected, found, versions, files, page>>

Next ==
  \/ Reopen
  \/ \E jars \in Archives : UpdateArchive(jars) \/ SetArchive(jars)
  \/ ViewArchive
  \/ \E k \in Driver : SetDriver(k)
  \/ SetGroup
  \/ CancelDriver
  \/ AddDriver
  \/ RemoveDriver
  \/ \E x \in Values : SetProperty(x)
  \/ SaveSetting
  \/ LoadSetting
  \/ SetDriverVersions
  \/ FindVersions
  \/ TellVersions
  \/ Notify

Spec == Init /\ [][Next]_vars

--------------------------------------------------------------------------------
\* Properties

\* A page that has lost its url has nothing staged: the next archive is staged
\* without emptying the folder (tabmodel.py:330, 401).
TypeOK ==
  /\ config \in [Driver -> [there : BOOLEAN, extra : {"none", "x"},
                            path : [multi : BOOLEAN, at : Driver \union Jar \union {"none"}]]]
  /\ tmp \union lib \union staged \union wiped \subseteq [dir : Driver, jar : Jar]
  /\ drivers[Root].st \in {"lazy", "loaded"} /\ config[Root].there
  /\ selected \in Listed \union {NoDriver}
  /\ folder /\ ~url => tmp = {}

\* A class path that was saved names archives that are installed: "Jar files
\* have been copied, we need to save the configuration" (tabmodel.py:259); but
\* for the archives that the dialog of a new driver has deleted from the folder.
SavedPathsExist ==
  \A k \in Driver :
    config[k].there /\ config[k].path # NoPath
      => Under(config[k].path, lib \union wiped) # {}

\* What the page shows, driver by driver and property by property, whatever
\* part of it was loaded, is what is configured once it is saved or loaded
\* again; but for a driver removed and added again before it was saved
\* (tabmodel.py:429).
PageIsConfigured ==
  ~edited => \A k \in Driver \ readded :
    LET d == drivers[k] IN
    /\ config[k].there <=> k \in Listed
    /\ d.st = "loaded" => /\ d.path = config[k].path
                          /\ d.extra = "x" <=> config[k].extra = "x"

\* Once the thread has told the page, the version shown is the one of the
\* driver selected, whichever was selected meanwhile (tabmanager.py:399,
\* tabmodel.py:285).
VersionShown ==
  thread = "done" /\ selected # NoDriver => shown = (selected \in versions)

\* Only archives that this page has staged are installed, whatever an earlier
\* page, closed without saving, has left in the folder (tabmodel.py:401).
OnlyStagedInstalled == [][lib' \ lib \subseteq staged]_vars
================================================================================
