---------------------------- MODULE TabModelProofs ----------------------------
(***************************************************************************)
(* What holds of the options page of the drivers for any drivers and       *)
(* archives and any number of picks, whatever the order of the calls of    *)
(* the page and of the steps of the thread of the versions.                *)
(*                                                                         *)
(* Typed is the inductive form of TypeOK; each property has an invariant   *)
(* of its own beside it, which says what the page knows of the             *)
(* configuration and the folder while it is being edited.                  *)
(***************************************************************************)
EXTENDS TabModel, FiniteSetTheorems, TLAPS

File == [dir : Driver, jar : Jar]
PathType == [multi : BOOLEAN, at : Driver \union Jar \union {"none"}]
EntryType == [there : BOOLEAN, path : PathType, extra : {"none", "x"}]
PageType == [st : {"lazy", "loaded", "absent", "removed"},
             path : PathType, extra : Values]

Typed ==
  /\ config \in [Driver -> EntryType] /\ drivers \in [Driver -> PageType]
  /\ path \in PathType
  /\ tmp \in SUBSET File /\ lib \in SUBSET File
  /\ staged \in SUBSET File /\ wiped \in SUBSET File
  /\ folder \in BOOLEAN /\ url \in BOOLEAN /\ shown \in BOOLEAN /\ edited \in BOOLEAN
  /\ drivers[Root].st = "lazy" /\ config[Root].there
  /\ selected \in Listed \union {NoDriver}
  /\ folder /\ ~url => tmp = {}

--------------------------------------------------------------------------------
(* The operators of the page. *)

\* A user picks some archives, finitely many: one, or several.
LEMMA JarsCounted ==
    ASSUME NEW jars \in Archives
    PROVE  /\ Cardinality(jars) \in Nat
           /\ Cardinality(jars) > 1 \/ Cardinality(jars) = 1
           /\ jars \subseteq Jar /\ jars # {}
<1>1. IsFiniteSet(jars)
    BY JarAssumption, FS_Subset DEF Archives
<1>2. Cardinality(jars) \in Nat /\ Cardinality(jars) # 0
    BY <1>1, FS_CardinalityType, FS_EmptySet DEF Archives
<1> QED BY <1>2 DEF Archives

\* The class path of archives is one of a driver, and there is one.
LEMMA ClassPathType ==
    ASSUME NEW k \in Driver, NEW jars \in Archives
    PROVE  ClassPath(k, jars) \subseteq PathType /\ ClassPath(k, jars) # {}
<1>1. jars \subseteq Jar /\ jars # {}
    BY JarsCounted
<1>2. [multi |-> TRUE, at |-> k] \in PathType
    BY DEF PathType
<1>3. \A j \in jars : [multi |-> FALSE, at |-> j] \in PathType
    BY <1>1 DEF PathType
<1> QED BY <1>1, <1>2, <1>3 DEF ClassPath

\* Archives are staged in a folder of their driver, or in the top one.
LEMMA StagedType ==
    ASSUME NEW k \in Driver, NEW jars \in Archives
    PROVE  Staged(k, jars) \subseteq File
BY JarsCounted DEF Staged, File, Top, Driver

\* The page loaded from the configuration has its type and lists the drivers
\* that are there.
LEMMA LoadedType ==
    ASSUME NEW conf \in [Driver -> EntryType]
    PROVE  /\ Loaded(conf) \in [Driver -> PageType]
           /\ \A k \in Driver : Loaded(conf)[k] = IF conf[k].there THEN Lazy ELSE Absent
<1>1. Lazy \in PageType /\ Absent \in PageType
    BY DEF Lazy, Absent, PageType, NoPath, PathType, Values
<1> QED BY <1>1 DEF Loaded

\* A group loaded from the configuration has the type of the page.
LEMMA PropertiesType ==
    ASSUME Typed, NEW k \in Driver
    PROVE  Properties(k) \in PageType /\ Properties(k).st = "loaded"
<1>1. config[k] \in EntryType /\ drivers[k] \in PageType
    BY DEF Typed
<1> QED BY <1>1 DEF Properties, PageType, EntryType, Values

\* What is saved of a driver has the type of the configuration.
LEMMA SavedType ==
    ASSUME Typed, NEW k \in Driver
    PROVE  Saved(k) \in EntryType
<1>1. config[k] \in EntryType /\ drivers[k] \in PageType
    BY DEF Typed
<1> QED BY <1>1, ZenonT(30) DEF Saved, PageType, EntryType, Values, NotThere, NoPath, PathType

--------------------------------------------------------------------------------
(* Types. *)

\* The page starts on the root, with nothing staged.
LEMMA InitTyped == Init => Typed
<1> SUFFICES ASSUME Init PROVE Typed
    OBVIOUS
<1>1. Root \in Driver /\ Root # New
    BY DriversAssumption DEF Driver
<1>2. PICK x \in [Old -> {"none", "x"}] :
        config = [k \in Driver |->
                    [there |-> k # New, path |-> NoPath,
                     extra |-> IF k \in Old THEN x[k] ELSE "none"]]
    BY DEF Init
<1>3. NoPath \in PathType
    BY DEF NoPath, PathType
<1>4. config \in [Driver -> EntryType] /\ config[Root].there
  <2>1. \A k \in Driver : (IF k \in Old THEN x[k] ELSE "none") \in {"none", "x"}
      OBVIOUS
  <2> QED BY <1>1, <1>2, <1>3, <2>1 DEF EntryType
<1>5. /\ drivers \in [Driver -> PageType]
      /\ drivers[Root].st = "lazy" /\ Root \in Listed
    BY <1>1, <1>4, LoadedType DEF Init, Lazy, Listed
<1> QED BY <1>3, <1>4, <1>5 DEF Init, Typed

\* Staging archives keeps the types of the folders.
LEMMA StageTyped ==
    ASSUME Typed, NEW k \in Driver, NEW jars \in Archives, Stage(k, jars)
    PROVE  /\ tmp' \in SUBSET File /\ lib' \in SUBSET File
           /\ staged' \in SUBSET File /\ wiped' \in SUBSET File
           /\ folder' = TRUE /\ url' = TRUE
BY StagedType DEF Typed, Stage, EmptiedTmp, Emptied

\* Every call of the page and every step of the thread keeps the types.
LEMMA TypedStep == Typed /\ [Next]_vars => Typed'
<1> SUFFICES ASSUME Typed, [Next]_vars PROVE Typed'
    OBVIOUS
<1> USE DEF files, page, shownVars, versionVars
<1>0. Root \in Driver /\ New \in Driver /\ Root # New /\ Root \in Listed
    BY DriversAssumption DEF Driver, Typed, Listed
<1>1. CASE Reopen
  <2>1. drivers' \in [Driver -> PageType] /\ drivers'[Root] = Lazy
      BY <1>0, <1>1, LoadedType DEF Typed, Reopen
  <2>2. WipedForGood \in SUBSET File
      BY DEF WipedForGood, Under, Typed
  <2>3. Root \in Listed' /\ path' \in PathType
      BY <1>0, <1>1, <2>1 DEF Reopen, Listed, Lazy, NoPath, PathType
  <2>4. drivers'[Root].st = "lazy"
      BY <2>1 DEF Lazy
  <2>5. /\ config' = config /\ tmp' = tmp /\ lib' = lib /\ staged' = {}
        /\ wiped' = WipedForGood /\ selected' = Root
        /\ ~folder' /\ url' = FALSE /\ shown' = FALSE /\ edited' = FALSE
        /\ folder' \in BOOLEAN
      BY <1>1 DEF Reopen
  <2> QED BY <2>1, <2>2, <2>3, <2>4, <2>5 DEF Typed
<1>2. ASSUME NEW jars \in Archives, UpdateArchive(jars) PROVE Typed'
  <2>1. selected \in Driver /\ selected # Root /\ drivers[selected].st # "absent"
      BY <1>2 DEF UpdateArchive, Listed
  <2>2. PICK p \in ClassPath(selected, jars) :
          drivers' = [drivers EXCEPT ![selected] = [Properties(selected) EXCEPT !.path = p]]
      BY <1>2 DEF UpdateArchive
  <2>3. [Properties(selected) EXCEPT !.path = p] \in PageType
        /\ [Properties(selected) EXCEPT !.path = p].st = "loaded"
      BY <2>1, PropertiesType, ClassPathType DEF PageType
  <2>4. /\ drivers' \in [Driver -> PageType] /\ drivers'[Root] = drivers[Root]
        /\ selected \in Listed'
      BY <1>0, <2>1, <2>2, <2>3 DEF Typed, Listed
  <2> QED BY <1>2, <2>1, <2>4, StageTyped DEF Typed, UpdateArchive
<1>3. ASSUME NEW jars \in Archives, SetArchive(jars) PROVE Typed'
    BY <1>0, <1>3, StageTyped, ClassPathType DEF Typed, SetArchive, Listed
<1>4. CASE ViewArchive
    BY <1>4 DEF Typed, ViewArchive, Listed
<1>5. ASSUME NEW k \in Driver, SetDriver(k) PROVE Typed'
    BY <1>5 DEF Typed, SetDriver, Select, Listed
<1>6. CASE SetGroup
  <2>1. selected \in Driver /\ selected # Root
      BY <1>6 DEF SetGroup, Listed
  <2>2. /\ drivers' \in [Driver -> PageType] /\ drivers'[Root] = drivers[Root]
        /\ selected \in Listed'
      BY <1>0, <1>6, <2>1, PropertiesType DEF Typed, SetGroup, Listed
  <2> QED BY <1>6, <2>2 DEF Typed, SetGroup
<1>7. CASE CancelDriver
    BY <1>7 DEF Typed, CancelDriver, Listed, NoPath, PathType
<1>8. CASE AddDriver
  <2>1. /\ drivers' \in [Driver -> PageType] /\ drivers'[Root] = drivers[Root]
        /\ New \in Listed'
    <3>1. [st |-> "loaded", path |-> path, extra |-> "none"] \in PageType
        BY DEF Typed, PageType, Values
    <3> QED BY <1>0, <1>8, <3>1 DEF Typed, AddDriver, Listed
  <2> QED BY <1>8, <2>1 DEF Typed, AddDriver, Select, NoPath, PathType
<1>9. CASE RemoveDriver
  <2>1. Removed \in PageType
      BY DEF Removed, Lazy, PageType, NoPath, PathType, Values
  <2>2. /\ drivers' \in [Driver -> PageType] /\ drivers'[Root] = drivers[Root]
        /\ Root \in Listed'
      BY <1>0, <1>9, <2>1 DEF Typed, RemoveDriver, Listed
  <2> QED BY <1>9, <2>2 DEF Typed, RemoveDriver, Select
<1>10. ASSUME NEW x \in Values, SetProperty(x) PROVE Typed'
  <2>1. selected \in Driver /\ selected # Root /\ drivers[selected] \in PageType
      BY <1>10 DEF SetProperty, Listed, Typed
  <2>2. /\ [drivers[selected] EXCEPT !.extra = x] \in PageType
        /\ [drivers[selected] EXCEPT !.extra = x].st = drivers[selected].st
      BY <2>1 DEF PageType
  <2>3. /\ drivers' \in [Driver -> PageType] /\ drivers'[Root] = drivers[Root]
        /\ selected \in Listed'
      BY <1>0, <1>10, <2>1, <2>2 DEF Typed, SetProperty, Listed
  <2> QED BY <1>10, <2>3 DEF Typed, SetProperty
<1>11. CASE SaveSetting
  <2>1. config' \in [Driver -> EntryType]
      BY <1>11, SavedType DEF SaveSetting
  <2>2. config'[Root] = config[Root]
      BY <1>0, <1>11 DEF SaveSetting, Saved
  <2>3. /\ tmp' \in SUBSET File /\ lib' \in SUBSET File
        /\ staged' \in SUBSET File /\ wiped' \in SUBSET File
        /\ url' \in BOOLEAN /\ (folder' /\ ~url' => tmp' = {})
      BY <1>11 DEF Typed, SaveSetting, LeftInTmp
  <2> QED BY <1>11, <2>1, <2>2, <2>3 DEF Typed, SaveSetting, Listed
<1>12. CASE LoadSetting
  <2>1. /\ drivers' \in [Driver -> PageType] /\ drivers'[Root] = Lazy
        /\ \A k \in Driver : config[k].there => k \in Listed'
      BY <1>0, <1>12, LoadedType DEF Typed, LoadSetting, Listed, Lazy
  <2>2. WipedForGood \in SUBSET File
      BY DEF WipedForGood, Under, Typed
  <2>3. selected' \in Listed' \union {NoDriver} /\ shown' \in BOOLEAN
    <3>1. CASE selected # NoDriver /\ config[selected].there
        BY <1>12, <2>1, <3>1 DEF Typed, LoadSetting, Select, Listed
    <3>2. CASE ~(selected # NoDriver /\ config[selected].there)
        BY <1>12, <3>2 DEF Typed, LoadSetting
    <3> QED BY <3>1, <3>2
  <2>4. drivers'[Root].st = "lazy"
      BY <2>1 DEF Lazy
  <2>5. /\ config' = config /\ lib' = lib /\ path' = path /\ staged' = {}
        /\ tmp' \in SUBSET File /\ wiped' = WipedForGood
        /\ ~folder' /\ folder' \in BOOLEAN /\ url' = url /\ edited' = FALSE
      BY <1>12 DEF LoadSetting, Typed
  <2> QED BY <2>1, <2>2, <2>3, <2>4, <2>5 DEF Typed
<1>13. CASE SetDriverVersions \/ FindVersions \/ TellVersions
    BY <1>13 DEF Typed, SetDriverVersions, FindVersions, TellVersions, Listed
<1>14. CASE Notify
    BY <1>14 DEF Typed, Notify, Known, Listed
<1>15. CASE UNCHANGED vars
    BY <1>15 DEF Typed, vars, Listed
<1> QED BY <1>1, <1>2, <1>3, <1>4, <1>5, <1>6, <1>7, <1>8, <1>9, <1>10,
           <1>11, <1>12, <1>13, <1>14, <1>15 DEF Next

\* The types hold in every reachable state.
THEOREM TypedInvariant == Spec => []Typed
<1>1. Typed /\ [Next]_vars => Typed'
    BY TypedStep
<1> QED BY InitTyped, <1>1, PTL DEF Spec

(* The page keeps its types, shows a driver it lists, and a page that has   *)
(* lost its url has nothing staged.                                         *)
THEOREM TypeCorrect == Spec => []TypeOK
<1>1. Typed => TypeOK
    BY DEF Typed, TypeOK, EntryType, PathType, File
<1> QED BY <1>1, TypedInvariant, PTL

--------------------------------------------------------------------------------
(* The versions. *)

\* No version is known before the thread tells them, then those it has found;
\* a version is shown of a driver whose version is known.
VersionsKnown ==
  /\ thread \in {"no", "running", "found"} => versions = {}
  /\ selected # NoDriver /\ shown => selected \in versions
  /\ thread \in {"told", "done"} => versions = found
  /\ thread = "done" /\ selected # NoDriver => shown = (selected \in versions)

\* The driver selected is looked for in the versions there are: a selection
\* keeps what is known of the versions.
LEMMA SelectKnows ==
    ASSUME Typed, VersionsKnown, NEW k, Select(k), UNCHANGED versionVars
    PROVE  VersionsKnown'
BY DEF VersionsKnown, Select, versionVars, Typed

\* Every step keeps what is known of the versions, whichever driver was
\* selected between the steps of the thread.
LEMMA VersionsStep == Typed /\ VersionsKnown /\ [Next]_vars => VersionsKnown'
<1> SUFFICES ASSUME Typed, VersionsKnown, [Next]_vars PROVE VersionsKnown'
    OBVIOUS
<1> USE DEF shownVars, versionVars
<1>1. CASE Reopen
    BY <1>1 DEF Reopen, VersionsKnown
<1>2. CASE UNCHANGED <<shownVars, versionVars>>
    BY <1>2 DEF VersionsKnown
<1>3. ASSUME NEW k \in Driver, SetDriver(k) PROVE VersionsKnown'
    BY <1>3, SelectKnows DEF SetDriver
<1>4. CASE AddDriver
    BY <1>4, SelectKnows DEF AddDriver
<1>5. CASE RemoveDriver
    BY <1>5, SelectKnows DEF RemoveDriver
<1>6. CASE LoadSetting
  <2>1. CASE selected # NoDriver /\ config[selected].there
      BY <1>6, <2>1, SelectKnows DEF LoadSetting
  <2>2. CASE ~(selected # NoDriver /\ config[selected].there)
      BY <1>6, <2>2 DEF LoadSetting, VersionsKnown
  <2> QED BY <2>1, <2>2
<1>7. CASE SetDriverVersions
    BY <1>7 DEF SetDriverVersions, VersionsKnown
<1>8. CASE FindVersions
    BY <1>8 DEF FindVersions, VersionsKnown
<1>9. CASE TellVersions
    BY <1>9 DEF TellVersions, VersionsKnown
<1>10. CASE Notify
  <2>1. /\ selected' = selected /\ versions' = versions /\ found' = found
        /\ thread' = "done" /\ versions = found /\ shown \in BOOLEAN
      BY <1>10 DEF Notify, VersionsKnown, Typed
  <2>2. CASE selected \in found
    <3>1. shown' = TRUE
        BY <1>10, <2>2 DEF Notify, Known
    <3> QED BY <2>1, <2>2, <3>1 DEF VersionsKnown
  <2>3. CASE selected \notin found
    <3>1. shown' = shown
        BY <1>10, <2>3 DEF Notify, Known
    <3>2. selected # NoDriver => shown = FALSE
        BY <2>1, <2>3 DEF VersionsKnown
    <3> QED BY <2>1, <2>3, <3>1, <3>2 DEF VersionsKnown
  <2> QED BY <2>2, <2>3
<1> QED BY <1>1, <1>2, <1>3, <1>4, <1>5, <1>6, <1>7, <1>8, <1>9, <1>10
        DEF Next, vars, UpdateArchive, SetArchive, ViewArchive, SetGroup,
            CancelDriver, SetProperty, SaveSetting

(* Once the thread has told the page, the version shown is the one of the   *)
(* driver selected, whichever was selected while the thread was running.    *)
THEOREM VersionShownInvariant == Spec => []VersionShown
<1>1. Init => VersionsKnown
    BY DEF Init, VersionsKnown
<1>2. Typed /\ VersionsKnown /\ [Next]_vars => VersionsKnown'
    BY VersionsStep
<1>3. VersionsKnown => VersionShown
    BY DEF VersionsKnown, VersionShown
<1> QED BY <1>1, <1>2, <1>3, TypedInvariant, PTL DEF Spec

--------------------------------------------------------------------------------
(* What is installed. *)

\* Once the page has used the folder, what is in it was staged by this page.
OwnFolder == folder => tmp \subseteq staged

\* Archives of a page that used the folder are its own; one that had not used
\* it has emptied it first.
LEMMA StageOwn ==
    ASSUME OwnFolder, NEW k, NEW jars, Stage(k, jars)
    PROVE  OwnFolder' /\ lib' = lib
BY DEF OwnFolder, Stage, EmptiedTmp

\* The folder stays the page's own, and a step installs nothing but what was
\* staged.
LEMMA OwnStep ==
    ASSUME OwnFolder, [Next]_vars
    PROVE  OwnFolder' /\ lib' \ lib \subseteq staged
<1> USE DEF files
<1>1. CASE Reopen
    BY <1>1 DEF Reopen, OwnFolder
<1>2. ASSUME NEW jars, NEW k, Stage(k, jars)
      PROVE  OwnFolder' /\ lib' \ lib \subseteq staged
    BY <1>2, StageOwn
<1>3. CASE UNCHANGED <<tmp, lib, folder, staged>>
    BY <1>3 DEF OwnFolder
<1>4. CASE SaveSetting
    BY <1>4 DEF SaveSetting, LeftInTmp, OwnFolder
<1>5. CASE LoadSetting
    BY <1>5 DEF LoadSetting, OwnFolder
<1> QED BY <1>1, <1>2, <1>3, <1>4, <1>5
        DEF Next, vars, UpdateArchive, SetArchive, ViewArchive, SetDriver, SetGroup,
            CancelDriver, AddDriver, RemoveDriver, SetProperty,
            SetDriverVersions, FindVersions, TellVersions, Notify

(* No step installs an archive that this page has not staged, whatever an   *)
(* earlier page has left in the folder.                                     *)
THEOREM OnlyStagedIsInstalled == Spec => OnlyStagedInstalled
<1>1. Init => OwnFolder
    BY DEF Init, OwnFolder
<1>2. OwnFolder /\ [Next]_vars => OwnFolder' /\ [lib' \ lib \subseteq staged]_vars
    BY OwnStep
<1> QED BY <1>1, <1>2, PTL DEF Spec, OnlyStagedInstalled

--------------------------------------------------------------------------------
(* What is configured. *)

\* How the page and the configuration stand to each other while the page is
\* edited: of a driver that is not there the configuration has nothing, the
\* page does not list one it found absent, and a property without a value in
\* the page has none in the configuration.
PageFollows ==
  /\ \A k \in Driver : ~config[k].there => config[k].extra = "none" /\ config[k].path = NoPath
  /\ \A k \in Driver : drivers[k].st = "absent" => ~config[k].there
  /\ \A k \in Driver : drivers[k].st = "lazy" => config[k].there
  /\ \A k \in Driver \ readded :
       drivers[k].st = "loaded" /\ drivers[k].extra = "none" => config[k].extra = "none"
  /\ PageIsConfigured

\* A page loaded from the configuration follows it.
LEMMA LoadedFollows ==
    ASSUME Typed, PageFollows, config' = config, drivers' = Loaded(config)
    PROVE  PageFollows'
<1>1. \A k \in Driver : drivers'[k].st = IF config[k].there THEN "lazy" ELSE "absent"
    BY LoadedType DEF Typed, Lazy, Absent
<1> QED BY <1>1 DEF PageFollows, PageIsConfigured, Listed

\* An edit of one listed driver that keeps what it has of the configuration, or
\* gives a property a value or removes it.
LEMMA EditFollows ==
    ASSUME Typed, PageFollows, NEW k \in Driver, NEW d \in PageType,
           drivers' = [drivers EXCEPT ![k] = d], config' = config, edited' = TRUE,
           readded \subseteq readded',
           \/ d.st = "removed"
           \/ /\ d.st = "loaded"
              /\ d.extra = "none" => config[k].extra = "none" \/ k \in readded'
    PROVE  PageFollows'
<1>1. \A j \in Driver : drivers'[j] = IF j = k THEN d ELSE drivers[j]
    BY DEF Typed
<1> QED BY <1>1 DEF PageFollows, PageIsConfigured

\* A group loaded from the configuration, of a driver that is listed, says what
\* the page said of it.
LEMMA PropertiesFollow ==
    ASSUME Typed, PageFollows, NEW k \in Listed
    PROVE  /\ Properties(k) \in PageType /\ Properties(k).st = "loaded"
           /\ Properties(k).extra = "none" => config[k].extra = "none" \/ k \in readded
BY PropertiesType DEF Listed, Properties, PageFollows, Typed

\* What is saved of a driver is what the page shows of it.
LEMMA SavedFollows ==
    ASSUME Typed, PageFollows, NEW k \in Driver
    PROVE  /\ ~Saved(k).there => Saved(k).extra = "none" /\ Saved(k).path = NoPath
           /\ Saved(k).there <=> k \in Listed
           /\ drivers[k].st = "absent" => ~Saved(k).there
           /\ drivers[k].st = "loaded" =>
                /\ Saved(k).path = drivers[k].path
                /\ k \notin readded =>
                     (drivers[k].extra = "x" <=> Saved(k).extra = "x")
                /\ k \notin readded /\ drivers[k].extra = "none"
                     => Saved(k).extra = "none"
<1>0. config[k] \in EntryType /\ drivers[k] \in PageType
    BY DEF Typed
<1>1. CASE k = Root
    BY <1>1 DEF Saved, Typed, Listed
<1> DEFINE d == drivers[k]
<1>2. CASE k # Root /\ d.st = "absent"
  <2>1. Saved(k) = config[k]
      BY <1>2 DEF Saved
  <2> QED BY <1>2, <2>1 DEF PageFollows, Listed
<1>3. CASE k # Root /\ d.st = "removed"
  <2>1. Saved(k) = NotThere
      BY <1>3 DEF Saved
  <2> QED BY <1>3, <2>1 DEF NotThere, Listed
<1>4. CASE k # Root /\ d.st = "lazy"
  <2>1. Saved(k) = [config[k] EXCEPT !.there = TRUE]
      BY <1>4 DEF Saved
  <2> QED BY <1>0, <1>4, <2>1 DEF EntryType, Listed
<1>5. CASE k # Root /\ d.st = "loaded"
  <2>1. Saved(k) = [there |-> TRUE, path |-> d.path,
                    extra |-> CASE d.extra = "none" -> config[k].extra
                                [] d.extra = "gone" -> "none"
                                [] OTHER            -> d.extra]
      BY <1>5 DEF Saved
  <2>2. Saved(k).there /\ Saved(k).path = d.path /\ k \in Listed
      BY <1>5, <2>1 DEF Listed
  <2>3. Saved(k).extra = IF d.extra = "none" THEN config[k].extra
                         ELSE IF d.extra = "gone" THEN "none" ELSE "x"
      BY <1>0, <2>1 DEF PageType, Values
  <2>4. k \notin readded /\ d.extra = "none" => config[k].extra = "none"
      BY <1>5 DEF PageFollows
  <2> QED BY <1>0, <1>5, <2>2, <2>3, <2>4 DEF PageType, Values
<1> QED BY <1>0, <1>1, <1>2, <1>3, <1>4, <1>5 DEF PageType

\* Every step keeps what the page knows of the configuration.
LEMMA FollowsStep == Typed /\ PageFollows /\ [Next]_vars => PageFollows'
<1> SUFFICES ASSUME Typed, PageFollows, [Next]_vars PROVE PageFollows'
    OBVIOUS
<1> USE DEF page
<1>1. CASE Reopen \/ LoadSetting
    BY <1>1, LoadedFollows DEF Reopen, LoadSetting
<1>2. ASSUME NEW jars \in Archives, UpdateArchive(jars) PROVE PageFollows'
  <2>1. selected \in Listed /\ selected \in Driver
      BY <1>2 DEF UpdateArchive, Listed
  <2>2. PICK p \in ClassPath(selected, jars) :
          drivers' = [drivers EXCEPT ![selected] = [Properties(selected) EXCEPT !.path = p]]
      BY <1>2 DEF UpdateArchive
  <2>3. p \in PathType
      BY <2>1, <2>2, ClassPathType
  <2> DEFINE d == [Properties(selected) EXCEPT !.path = p]
  <2>4. d \in PageType /\ d.st = "loaded" /\ d.extra = Properties(selected).extra
      BY <2>1, <2>3, PropertiesFollow DEF PageType
  <2> HIDE DEF d
  <2>5. d.extra = "none" => config[selected].extra = "none" \/ selected \in readded'
      BY <1>2, <2>1, <2>4, PropertiesFollow DEF UpdateArchive
  <2>6. drivers' = [drivers EXCEPT ![selected] = d]
      BY <2>2 DEF d
  <2> QED BY <1>2, <2>1, <2>4, <2>5, <2>6, EditFollows DEF UpdateArchive
<1>3. CASE UNCHANGED <<config, drivers, edited, readded>>
    BY <1>3 DEF PageFollows, PageIsConfigured, Listed
<1>4. CASE SetGroup
  <2>1. selected \in Listed /\ selected \in Driver
      BY <1>4 DEF SetGroup, Listed
  <2>2. /\ \A j \in Driver : j # selected => drivers'[j] = drivers[j]
        /\ drivers'[selected] = Properties(selected)
        /\ config' = config /\ edited' = edited /\ readded' = readded
      BY <1>4, <2>1 DEF SetGroup, Typed
  <2>3. /\ Properties(selected).st = "loaded"
        /\ Properties(selected).extra = "none"
             => config[selected].extra = "none" \/ selected \in readded
      BY <2>1, PropertiesFollow
  <2>4. CASE drivers[selected].st = "loaded"
    <3>1. \A j \in Driver : drivers'[j] = drivers[j]
        BY <2>2, <2>4 DEF Properties
    <3> QED BY <2>2, <3>1 DEF PageFollows, PageIsConfigured, Listed
  <2>5. CASE drivers[selected].st = "lazy"
    <3>1. /\ Properties(selected).path = config[selected].path
          /\ Properties(selected).extra = config[selected].extra
          /\ config[selected].there
        BY <2>1, <2>5 DEF Properties, PageFollows
    <3>2. \A j \in Driver : j \in Listed' <=> j \in Listed
        BY <2>1, <2>2, <2>3 DEF Listed
    <3>3. PageIsConfigured'
        BY <2>2, <2>3, <3>1, <3>2 DEF PageFollows, PageIsConfigured
    <3> QED BY <2>2, <2>3, <3>3 DEF PageFollows
  <2> QED BY <2>1, <2>4, <2>5 DEF Listed
<1>5. CASE AddDriver
  <2> DEFINE d == [st |-> "loaded", path |-> path, extra |-> "none"]
  <2>1. New \in Driver /\ d \in PageType /\ d.st = "loaded"
      BY DEF Driver, Typed, PageType, Values
  <2>2. readded \subseteq readded' /\ (config[New].extra = "none" \/ New \in readded')
      BY <1>5, <2>1 DEF AddDriver, PageFollows
  <2> QED BY <1>5, <2>1, <2>2, EditFollows DEF AddDriver
<1>6. CASE RemoveDriver
  <2>1. selected \in Driver /\ Removed \in PageType /\ Removed.st = "removed"
      BY <1>6 DEF RemoveDriver, Listed, Removed, Lazy, PageType, NoPath, PathType, Values
  <2> QED BY <1>6, <2>1, EditFollows DEF RemoveDriver
<1>7. ASSUME NEW x \in Values, SetProperty(x) PROVE PageFollows'
  <2> DEFINE d == [drivers[selected] EXCEPT !.extra = x]
  <2>1. selected \in Driver /\ drivers[selected] \in PageType
      BY <1>7 DEF SetProperty, Listed, Typed
  <2>2. d \in PageType /\ d.st = "loaded" /\ d.extra # "none"
      BY <1>7, <2>1 DEF SetProperty, PageType
  <2>3. drivers' = [drivers EXCEPT ![selected] = d]
      BY <1>7 DEF SetProperty
  <2> HIDE DEF d
  <2> QED BY <1>7, <2>1, <2>2, <2>3, EditFollows DEF SetProperty
<1>8. CASE SaveSetting
  <2>1. /\ \A k \in Driver : config'[k] = Saved(k)
        /\ drivers' = drivers /\ readded' = readded
      BY <1>8 DEF SaveSetting
  <2>2. \A k \in Driver : drivers[k].st = "lazy" => Saved(k).there
      BY SavedFollows DEF Listed
  <2>3. PageIsConfigured'
      BY <2>1, SavedFollows DEF PageIsConfigured, Listed
  <2> QED BY <2>1, <2>2, <2>3, SavedFollows DEF PageFollows
<1> QED BY <1>1, <1>2, <1>3, <1>4, <1>5, <1>6, <1>7, <1>8
        DEF Next, vars, SetArchive, ViewArchive, SetDriver, CancelDriver,
            SetDriverVersions, FindVersions, TellVersions, Notify

\* The page of a configuration just read follows it.
LEMMA InitFollows == Init => PageFollows
<1> SUFFICES ASSUME Init PROVE PageFollows
    OBVIOUS
<1>1. Typed
    BY InitTyped
<1>2. \A k \in Driver : ~config[k].there => config[k].extra = "none" /\ config[k].path = NoPath
  <2>1. PICK x \in [Old -> {"none", "x"}] :
          config = [k \in Driver |->
                      [there |-> k # New, path |-> NoPath,
                       extra |-> IF k \in Old THEN x[k] ELSE "none"]]
      BY DEF Init
  <2> QED BY <2>1, DriversAssumption DEF Driver
<1>3. \A k \in Driver : drivers[k].st = IF config[k].there THEN "lazy" ELSE "absent"
    BY <1>1, LoadedType DEF Init, Typed, Lazy, Absent
<1> QED BY <1>2, <1>3 DEF PageFollows, PageIsConfigured, Listed

(* What the page shows of a driver that was not removed and added again is  *)
(* what is configured, whenever the page is not being edited.               *)
THEOREM PageIsConfiguredInvariant == Spec => []PageIsConfigured
<1>1. Typed /\ PageFollows /\ [Next]_vars => PageFollows'
    BY FollowsStep
<1>2. PageFollows => PageIsConfigured
    BY DEF PageFollows
<1> QED BY InitFollows, <1>1, <1>2, TypedInvariant, PTL DEF Spec

--------------------------------------------------------------------------------
(* Where the archives are. *)

\* The files a class path can name: installed, staged by this page, or deleted
\* by the dialog of a new driver.
Reached == lib \union wiped \union (IF folder THEN tmp ELSE {})

Found(p, set) == p # NoPath => Under(p, set) # {}

\* Every class path of the configuration is installed or was deleted; those of
\* the page and of its dialog may still be staged.
PathsFound ==
  /\ \A k \in Driver : Found(config[k].path, lib \union wiped)
  /\ \A k \in Driver : drivers[k].st = "loaded" => Found(drivers[k].path, Reached)
  /\ Found(path, Reached)

\* A class path found among some files is found among more.
LEMMA FoundMore ==
    ASSUME NEW p, NEW S, NEW T, S \subseteq T, Found(p, S)
    PROVE  Found(p, T)
BY DEF Found, Under

\* Staging archives gives every class path that had files some: those of other
\* drivers are left alone, those in the sub-folder of the driver are replaced,
\* and what the dialog of a new driver deletes is kept in wiped.
LEMMA StageFinds ==
    ASSUME Typed, NEW k \in Driver, NEW jars \in Archives, Stage(k, jars)
    PROVE  /\ \A p : Found(p, Reached) => Found(p, Reached')
           /\ \A p \in ClassPath(k, jars) : Found(p, Reached')
           /\ lib' = lib /\ wiped \subseteq wiped'
<1>1. /\ tmp' = (EmptiedTmp \ Emptied(k, jars)) \union Staged(k, jars)
      /\ folder' = TRUE /\ lib' = lib
      /\ wiped' = wiped \union (IF k = New THEN Emptied(k, jars) \ lib ELSE {})
    BY DEF Stage
<1>2. Reached' = lib \union wiped' \union tmp'
    BY <1>1 DEF Reached
<1>3. Reached = lib \union wiped \union EmptiedTmp
    BY DEF Reached, EmptiedTmp
<1>4. ASSUME NEW p, Found(p, Reached) PROVE Found(p, Reached')
  <2>1. SUFFICES ASSUME p # NoPath, NEW f \in Under(p, Reached)
                 PROVE  Under(p, Reached') # {}
      BY <1>4 DEF Found
  <2>2. CASE f \in Reached'
      BY <2>1, <2>2 DEF Under
  <2>3. CASE f \notin Reached'
    <3>1. f \in Emptied(k, jars) /\ k # New /\ Cardinality(jars) # 1
        BY <1>1, <1>2, <1>3, <2>1, <2>3 DEF Emptied, Under
    <3>2. f.dir = k /\ Cardinality(jars) > 1 /\ f \in File
        BY <3>1, JarsCounted DEF Emptied, Top, EmptiedTmp, Typed
    <3>3. p.multi /\ p.at = k
        BY <2>1, <3>1, <3>2 DEF Under, Top
    <3>4. PICK j \in jars : TRUE
        BY JarsCounted
    <3>5. [dir |-> k, jar |-> j] \in Staged(k, jars)
        BY <3>2, <3>4 DEF Staged
    <3> QED BY <1>1, <1>2, <3>3, <3>5 DEF Under
  <2> QED BY <2>2, <2>3
<1>5. ASSUME NEW p \in ClassPath(k, jars) PROVE Found(p, Reached')
  <2>1. CASE Cardinality(jars) > 1
    <3>1. p = [multi |-> TRUE, at |-> k]
        BY <1>5, <2>1 DEF ClassPath
    <3>2. PICK j \in jars : TRUE
        BY JarsCounted
    <3>3. [dir |-> k, jar |-> j] \in Staged(k, jars)
        BY <2>1, <3>2 DEF Staged
    <3> QED BY <1>1, <1>2, <3>1, <3>3 DEF Found, Under
  <2>2. CASE ~(Cardinality(jars) > 1)
    <3>1. PICK j \in jars : p = [multi |-> FALSE, at |-> j]
        BY <1>5, <2>2 DEF ClassPath
    <3>2. [dir |-> Top, jar |-> j] \in Staged(k, jars)
        BY <2>2, <3>1 DEF Staged
    <3> QED BY <1>1, <1>2, <3>1, <3>2 DEF Found, Under
  <2> QED BY <2>1, <2>2
<1> QED BY <1>1, <1>4, <1>5

\* A page that is left forgets the files that were deleted and that no class
\* path of the configuration names.
LEMMA ForgottenFound ==
    ASSUME PathsFound, NEW k \in Driver
    PROVE  Found(config[k].path, lib \union WipedForGood)
<1>1. SUFFICES ASSUME config[k].path # NoPath,
                      NEW f \in Under(config[k].path, lib \union wiped)
               PROVE  Under(config[k].path, lib \union WipedForGood) # {}
    BY DEF PathsFound, Found
<1>2. f \in lib \union WipedForGood
  <2>1. f \in wiped => f \in Under(config[k].path, wiped)
      BY <1>1 DEF Under
  <2> QED BY <1>1, <2>1 DEF WipedForGood, Under
<1> QED BY <1>1, <1>2 DEF Under

\* A page loaded from the configuration has no class path of its own.
LEMMA LoadedFound ==
    ASSUME Typed, PathsFound, config' = config, lib' = lib, wiped' = WipedForGood,
           drivers' = Loaded(config), path' = NoPath
    PROVE  PathsFound'
<1>1. \A k \in Driver : drivers'[k].st # "loaded"
    BY LoadedType DEF Typed, Lazy, Absent
<1>2. \A k \in Driver : Found(config'[k].path, lib' \union wiped')
    BY ForgottenFound
<1>3. Found(path', Reached')
    BY DEF Found
<1> QED BY <1>1, <1>2, <1>3 DEF PathsFound

\* A call that leaves the files alone and gives at most one driver a class path
\* that was found.
LEMMA EditFound ==
    ASSUME Typed, PathsFound, UNCHANGED files, config' = config,
           NEW k \in Driver, NEW d, drivers' = [drivers EXCEPT ![k] = d],
           d.st = "loaded" => Found(d.path, Reached),
           Found(path', Reached)
    PROVE  PathsFound'
<1>1. Reached' = Reached /\ lib' = lib /\ wiped' = wiped
    BY DEF Reached, files
<1>2. \A j \in Driver : drivers'[j] = IF j = k THEN d ELSE drivers[j]
    BY DEF Typed
<1> QED BY <1>1, <1>2 DEF PathsFound

\* A group loaded from the configuration has a class path that is found.
LEMMA PropertiesFound ==
    ASSUME PathsFound, NEW k \in Driver
    PROVE  Found(Properties(k).path, Reached)
<1>1. lib \union wiped \subseteq Reached
    BY DEF Reached
<1>2. Found(config[k].path, Reached)
    BY <1>1, FoundMore DEF PathsFound
<1> QED BY <1>2 DEF Properties, PathsFound

\* Every step keeps the files that the class paths name.
LEMMA FoundStep == Typed /\ PathsFound /\ [Next]_vars => PathsFound'
<1> SUFFICES ASSUME Typed, PathsFound, [Next]_vars PROVE PathsFound'
    OBVIOUS
<1> USE DEF page
<1>0. New \in Driver /\ Found(NoPath, Reached)
    BY DEF Driver, Found
<1>1. CASE Reopen \/ LoadSetting
    BY <1>1, LoadedFound DEF Reopen, LoadSetting, Adding
<1>2. ASSUME NEW jars \in Archives, UpdateArchive(jars) PROVE PathsFound'
  <2>1. selected \in Driver /\ Stage(selected, jars) /\ config' = config /\ path' = path
      BY <1>2 DEF UpdateArchive, Listed
  <2>2. PICK p \in ClassPath(selected, jars) :
          drivers' = [drivers EXCEPT ![selected] = [Properties(selected) EXCEPT !.path = p]]
      BY <1>2 DEF UpdateArchive
  <2>3. \A j \in Driver : drivers'[j] =
          IF j = selected THEN [Properties(selected) EXCEPT !.path = p] ELSE drivers[j]
      BY <2>2 DEF Typed
  <2>4. [Properties(selected) EXCEPT !.path = p].path = p
      BY <2>1, PropertiesType DEF PageType
  <2>5. /\ \A q : Found(q, Reached) => Found(q, Reached')
        /\ Found(p, Reached') /\ lib' = lib /\ wiped \subseteq wiped'
      BY <2>1, <2>2, StageFinds
  <2>6. \A k \in Driver : Found(config'[k].path, lib' \union wiped')
      BY <2>1, <2>5, FoundMore DEF PathsFound
  <2> QED BY <2>1, <2>3, <2>4, <2>5, <2>6 DEF PathsFound
<1>3. ASSUME NEW jars \in Archives, SetArchive(jars) PROVE PathsFound'
  <2>1. Stage(New, jars) /\ config' = config /\ drivers' = drivers
        /\ path' \in ClassPath(New, jars)
      BY <1>3 DEF SetArchive
  <2>2. /\ \A q : Found(q, Reached) => Found(q, Reached')
        /\ Found(path', Reached') /\ lib' = lib /\ wiped \subseteq wiped'
      BY <1>0, <2>1, StageFinds
  <2>3. \A k \in Driver : Found(config'[k].path, lib' \union wiped')
      BY <2>1, <2>2, FoundMore DEF PathsFound
  <2> QED BY <2>1, <2>2, <2>3 DEF PathsFound
<1>4. CASE UNCHANGED <<tmp, lib, folder, wiped, config, drivers, path>>
    BY <1>4 DEF PathsFound, Reached
<1>5. CASE CancelDriver
  <2>1. Reached' = Reached /\ lib' = lib /\ wiped' = wiped
        /\ config' = config /\ drivers' = drivers /\ path' = NoPath
      BY <1>5 DEF CancelDriver, files, Reached
  <2> QED BY <1>0, <2>1 DEF PathsFound
<1>6. CASE SetGroup
  <2>1. selected \in Driver
      BY <1>6 DEF SetGroup, Listed
  <2> QED BY <1>6, <2>1, EditFound, PropertiesFound DEF SetGroup, PathsFound
<1>7. CASE AddDriver
  <2> DEFINE d == [st |-> "loaded", path |-> path, extra |-> "none"]
  <2>1. Found(d.path, Reached)
      BY DEF PathsFound
  <2> QED BY <1>0, <1>7, <2>1, EditFound DEF AddDriver
<1>8. CASE RemoveDriver
  <2>1. selected \in Driver /\ Removed.st # "loaded"
      BY <1>8 DEF RemoveDriver, Listed, Removed, Lazy
  <2> QED BY <1>8, <2>1, EditFound DEF RemoveDriver, PathsFound
<1>9. ASSUME NEW x \in Values, SetProperty(x) PROVE PathsFound'
  <2> DEFINE d == [drivers[selected] EXCEPT !.extra = x]
  <2>1. selected \in Driver /\ drivers[selected] \in PageType
      BY <1>9 DEF SetProperty, Listed, Typed
  <2>2. d.path = drivers[selected].path /\ drivers[selected].st = "loaded"
      BY <1>9, <2>1 DEF SetProperty, PageType
  <2>3. Found(d.path, Reached)
      BY <2>1, <2>2 DEF PathsFound
  <2>4. drivers' = [drivers EXCEPT ![selected] = d]
      BY <1>9 DEF SetProperty
  <2> HIDE DEF d
  <2> QED BY <1>9, <2>1, <2>3, <2>4, EditFound DEF SetProperty, PathsFound
<1>10. CASE SaveSetting
  <2>1. /\ \A k \in Driver : config'[k] = Saved(k)
        /\ drivers' = drivers /\ path' = path /\ folder' = folder
      BY <1>10 DEF SaveSetting
  <2>2. lib' \union wiped' = Reached /\ Reached' = Reached
      BY <1>10 DEF SaveSetting, Reached, LeftInTmp
  <2>3. lib \union wiped \subseteq Reached
      BY DEF Reached
  <2>4. ASSUME NEW k \in Driver PROVE Found(Saved(k).path, Reached)
    <3>0. config[k] \in EntryType /\ drivers[k] \in PageType
        BY DEF Typed
    <3>1. Found(config[k].path, Reached)
        BY <2>3, FoundMore DEF PathsFound
    <3>2. \/ Saved(k).path = config[k].path
          \/ drivers[k].st = "loaded" /\ Saved(k).path = drivers[k].path
          \/ Saved(k).path = NoPath
        BY <3>0 DEF Saved, NotThere, PageType, EntryType
    <3> QED BY <1>0, <3>1, <3>2 DEF PathsFound
  <2> QED BY <2>1, <2>2, <2>4 DEF PathsFound
<1> QED BY <1>1, <1>2, <1>3, <1>4, <1>5, <1>6, <1>7, <1>8, <1>9, <1>10
        DEF Next, vars, files, ViewArchive, SetDriver,
            SetDriverVersions, FindVersions, TellVersions, Notify

\* A first page has no class path at all.
LEMMA InitFound == Init => PathsFound
<1> SUFFICES ASSUME Init PROVE PathsFound
    OBVIOUS
<1>1. \A k \in Driver : config[k].path = NoPath
    BY DEF Init
<1>2. \A k \in Driver : drivers[k].st # "loaded"
    BY InitTyped, LoadedType DEF Init, Typed, Lazy, Absent
<1> QED BY <1>1, <1>2 DEF Init, PathsFound, Found

(* A class path that was saved names archives that are installed, but for   *)
(* those that the dialog of a new driver has deleted from the folder.       *)
THEOREM SavedPathsExistInvariant == Spec => []SavedPathsExist
<1>1. Typed /\ PathsFound /\ [Next]_vars => PathsFound'
    BY FoundStep
<1>2. PathsFound => SavedPathsExist
    BY DEF PathsFound, Found, SavedPathsExist
<1> QED BY InitFound, <1>1, <1>2, TypedInvariant, PTL DEF Spec
================================================================================
