----------------------------- MODULE PresetBank -----------------------------
(***************************************************************************)
(* Presets: their files, their identity and the list the menu and the      *)
(* arrows walk (src/src/PresetManager.{h,cpp}, the preset half of          *)
(* src/src/PluginProcessor.{h,cpp} and of src/src/gui/PluginEditor.cpp).   *)
(*                                                                         *)
(* The folder is shared: other instances and the user write, replace,      *)
(* damage and delete files at any time, also while a menu is open.  A      *)
(* factory sound stands for its table's overrides with the macro curve     *)
(* landed; the undo bracket is module UndoHistory.                         *)
(***************************************************************************)
EXTENDS Integers, Sequences, FiniteSets, SequencesExt

CONSTANTS
    Params, Excluded,  \* parameters; those no preset carries (freeze, view)
    Raws, Snap,        \* normalised values; snapToLegalValue
    Factory,           \* factory presets in order: [name, sound]
    SortedNames,             \* file names, in the order of the sorted folder
    Tilde,             \* file names that read as absolute paths
    OnDisk,            \* the files there are at first
    Foreign,           \* documents that other programs leave in a file
    MaxActs            \* bound: edits, saves, loads and changes on disk

\* There are factory presets, and a file has a name.
ASSUME BankAssumption ==
    /\ Factory \in Seq(Range(Factory)) /\ Len(Factory) > 1
    /\ SortedNames \in Seq(Range(SortedNames)) /\ "" \notin Range(SortedNames)

PresetParams == Params \ Excluded
Nan     == -1              \* a number that cannot be used
NoFile  == [kind |-> "absent"]
Damaged == [kind |-> "damaged"]
Folder  == "Presets"       \* userPresetDirectory
Files   == {Folder, "Nested"} \X Range(SortedNames)

None            == [kind |-> "unknown"]
FactoryId(i)    == [kind |-> "factory", id |-> i]
UserFile(path)  == [kind |-> "userFile", file |-> path]

VARIABLES
    sound, detachMask, locked,   \* parameters, mask, ceilingLocked
    name, selection,             \* livePresetName, liveSelection
    presetBaseline,
    disk,
    menu,                        \* the rows an open menu shows
    session,                     \* a saved session
    source,                      \* history: what produced the sound
    asLanded,                    \* history: the file still holds what landed
    acts
bankVars == <<sound, detachMask, locked, name, selection, presetBaseline,
              disk, menu, session, source, asLanded, acts>>

-----------------------------------------------------------------------------
(* What a preset holds.                                                    *)

\* savePreset: snapped values of the carried parameters, and the mask.
Document(s, mask) == [kind |-> "preset", mask |-> mask,
                      value |-> [p \in PresetParams |-> Snap[s[p]]]]

\* Mutant: the mark compares raw values of every parameter.
SlotShape(s, mask) == [mask |-> mask, value |-> s]

Shape(s, mask) == [mask |-> mask, value |-> Document(s, mask).value]

Dirty == /\ presetBaseline # None /\ name # ""
         /\ presetBaseline # Shape(sound, detachMask)

\* applyOnePresetValue over the elements of a document: excluded, locked and
\* unusable values are skipped, and a parameter it does not name is kept.
Written(value) ==
    [p \in Params |->
        IF \/ p \notin DOMAIN value \/ p \in Excluded
           \/ (locked /\ p = "ceiling") \/ value[p] = Nan
        THEN sound[p] ELSE Snap[value[p]]]

\* applyFactoryPreset: every carried parameter, at its final value.
Defaulted(i) ==
    [p \in Params |-> IF p \in Excluded \/ (locked /\ p = "ceiling")
                      THEN sound[p] ELSE Factory[i].sound[p]]

-----------------------------------------------------------------------------
(* Identity on the wire.                                                   *)

StoredByName(path) == path[1] = Folder /\ path[2] \notin Tilde

Encode(sel) ==
    IF sel.kind # "userFile" THEN sel
    ELSE IF StoredByName(sel.file) THEN [kind |-> "user", bare |-> sel.file[2]]
    ELSE [kind |-> "user", path |-> sel.file]

Decode(fields) ==
    IF fields.kind # "user" THEN fields
    ELSE UserFile(IF "path" \in DOMAIN fields THEN fields.path
                  ELSE IF fields.bare \in Tilde THEN <<"literal", fields.bare>>
                  ELSE <<Folder, fields.bare>>)

-----------------------------------------------------------------------------
(* The list: factory rows first, then the files of the folder.             *)

\* The files that are there, each behind those before it in the order.
Listed ==
    LET there   == {i \in DOMAIN SortedNames : disk[<<Folder, SortedNames[i]>>] # NoFile}
        Rank(i) == Cardinality({j \in there : j <= i})
    IN  [k \in 1 .. Cardinality(there) |->
            SortedNames[CHOOSE i \in there : Rank(i) = k]]
Rows ==
    LET listed == Listed
    IN  [i \in 1 .. Len(Factory) + Len(listed) |->
            IF i <= Len(Factory) THEN FactoryId(i)
            ELSE UserFile(<<Folder, listed[i - Len(Factory)]>>)]
RowName(row) == IF row.kind = "factory" THEN Factory[row.id].name ELSE row.file[2]

\* The first row of an identity, and of the current name; 0 for no row.
RowOf(rows, item) == SelectInSeq(rows, LAMBDA row : row = item)
ByName(rows)      == SelectInSeq(rows, LAMBDA row : RowName(row) = name)

\* Mutant: a name that matches answers for an identity on no row.
NameAnswers(rows) ==
    LET row == RowOf(rows, selection)
    IN  IF row # 0 THEN row ELSE ByName(rows)

\* selectedPresetRow; 0 for no row.
SelectedRow(rows) == IF selection = None THEN ByName(rows) ELSE RowOf(rows, selection)

Applies(item) == item.kind = "factory" \/ disk[item.file].kind = "preset"

\* Rows in the order a press of an arrow offers them.
Offered(rows, here, dir) ==
    LET total == Len(rows)
        first == IF here = 0 THEN IF dir > 0 THEN 1 ELSE total
                 ELSE ((here - 1 + dir + total) % total) + 1
    IN  [k \in 1 .. total |->
            ((first - 1 + dir * (k - 1) + total) % total) + 1]

\* Mutant: the arrow offers one row a press.
OneOffer(rows, here, dir) ==
    LET row == Offered(rows, here, dir)[1]
    IN  IF Applies(rows[row]) THEN row ELSE here

\* stepPreset: the first offered row that applies.
Landing(rows, here, dir) ==
    LET offered == Offered(rows, here, dir)
    IN  offered[SelectInSeq(offered, LAMBDA k : Applies(rows[k]))]

-----------------------------------------------------------------------------

Spend == acts > 0 /\ acts' = acts - 1

\* A sound lands with its identity: the marker's datum is what it became.
Land(s, mask, title, item, same) ==
    /\ sound' = s /\ detachMask' = mask
    /\ name' = title /\ selection' = item
    /\ presetBaseline' = Shape(s, mask)
    /\ source' = item /\ asLanded' = same

Apply(item) ==
    /\ IF item.kind = "factory"
       THEN Land(Defaulted(item.id), FALSE, Factory[item.id].name, item, FALSE)
       ELSE LET doc == disk[item.file]
                s   == Written(doc.value)
            IN  Land(s, doc.mask, item.file[2], item, Document(s, doc.mask) = doc)
    /\ UNCHANGED <<locked, disk, session, acts>>

Keep == UNCHANGED <<sound, detachMask, locked, name, selection, presetBaseline,
                    disk, session, source, asLanded, acts>>

ApplyOrKeep(item) == IF Applies(item) THEN Apply(item) ELSE Keep

\* showPresetMenu, and the choice made in it later, or none.
OpenMenu == /\ menu = <<>> /\ menu' = Rows
            /\ Keep
Choose   == /\ menu # <<>> /\ menu' = <<>>
            /\ Keep \/ \E i \in DOMAIN menu : ApplyOrKeep(menu[i])

\* showLoadPreset: any file, listed or not.
LoadFile == \E path \in Files : /\ disk[path] # NoFile
                                /\ ApplyOrKeep(UserFile(path))
                                /\ UNCHANGED menu

Step == \E dir \in {-1, 1} :
          /\ menu = <<>>
          /\ Apply(Rows[Landing(Rows, SelectedRow(Rows), dir)])
          /\ UNCHANGED menu

\* savePresetFile, from the save panel.
SaveFile == \E n \in Range(SortedNames) :
    LET item == UserFile(<<Folder, n>>)
    IN  /\ Spend
        /\ disk' = [disk EXCEPT ![<<Folder, n>>] = Document(sound, detachMask)]
        /\ Land(sound, detachMask, n, item, TRUE)
        /\ UNCHANGED <<locked, menu, session>>

\* A parameter, the mask or the lock.
Edit ==
    /\ Spend
    /\ \/ \E p \in Params, v \in Raws :
             sound' = [sound EXCEPT ![p] = v] /\ UNCHANGED <<detachMask, locked>>
       \/ detachMask' = ~detachMask /\ UNCHANGED <<sound, locked>>
       \/ locked' = ~locked /\ UNCHANGED <<sound, detachMask>>
    /\ UNCHANGED <<name, selection, presetBaseline, disk, menu, session,
                   source, asLanded>>

\* Someone else writes, damages or deletes a file.
DiskChanges == \E path \in Files, doc \in Foreign \cup {NoFile, Damaged} :
    /\ Spend /\ doc # disk[path]
    /\ disk' = [disk EXCEPT ![path] = doc]
    /\ asLanded' = (asLanded /\ source # UserFile(path))
    /\ UNCHANGED <<sound, detachMask, locked, name, selection, presetBaseline,
                   menu, session, source>>

\* saveSlotFromLive's part of getStateInformation.
SaveSession ==
    /\ Spend
    /\ session' = [sound |-> sound, mask |-> detachMask, name |-> name,
                   fields |-> Encode(selection), source |-> source]
    /\ UNCHANGED <<sound, detachMask, locked, name, selection, presetBaseline,
                   disk, menu, source, asLanded>>

\* setStateInformation; a session older than the identity has none.
LoadSession == \E old \in BOOLEAN :
    /\ Spend /\ session # None
    /\ sound' = session.sound /\ detachMask' = session.mask
    /\ name' = session.name
    /\ selection' = IF old THEN None ELSE Decode(session.fields)
    /\ source' = IF old THEN None ELSE session.source
    /\ presetBaseline' = None /\ asLanded' = FALSE
    /\ UNCHANGED <<locked, disk, menu, session>>

BankInit ==
    /\ sound = Factory[1].sound /\ detachMask = FALSE /\ locked = FALSE
    /\ name = Factory[1].name /\ selection = FactoryId(1)
    /\ presetBaseline = Shape(sound, FALSE)
    /\ disk = [f \in Files |-> IF f \in DOMAIN OnDisk THEN OnDisk[f]
                               ELSE NoFile]
    /\ menu = <<>> /\ session = None
    /\ source = FactoryId(1) /\ asLanded = FALSE
    /\ acts = MaxActs
BankNext == \/ OpenMenu \/ Choose \/ LoadFile \/ Step \/ SaveFile \/ Edit
            \/ DiskChanges \/ SaveSession \/ LoadSession
BankSpec == BankInit /\ [][BankNext]_bankVars

-----------------------------------------------------------------------------

\* The ticked row is the one that produced the sound, through saves under a
\* factory name, sessions, and files deleted, replaced or of one name in two
\* folders; a source on no row ticks none (selectedPresetRow, encode/decode).
TickedRowIsSource ==
    source # None => SelectedRow(Rows) = RowOf(Rows, source)

\* Presses of either arrow reach every row that applies, so that an unreadable
\* file never walls the list off, and no press lands where it started (stepPreset).
RingReachesAll ==
    \A dir \in {-1, 1} :
      LET rows    == Rows
          here    == SelectedRow(rows)
          presses == {<<row, Landing(rows, row, dir)>> : row \in 0 .. Len(rows)}
          good    == {row \in DOMAIN rows : Applies(rows[row])}
      IN  /\ \A p \in presses : p[1] # p[2]
          /\ \A reached \in SUBSET (DOMAIN rows) :
                (\A p \in presses : p[1] \in reached \cup {here} => p[2] \in reached)
                  => good \subseteq reached

\* The mark says "edited" exactly when saving over the file would change it,
\* as long as the file holds what landed from it (presetDirty).
MarkIsAboutTheFile ==
    asLanded => (Dirty <=> disk[source.file] # Document(sound, detachMask))
=============================================================================
