-------------------------------- MODULE Picker --------------------------------
(***************************************************************************)
(* The archive picker (picker.rs): a listing of a directory, read when it  *)
(* is entered or refreshed, of which a filter leaves some rows; one row is *)
(* selected, and a window of the rows is drawn before every key.           *)
(*                                                                         *)
(* Files come and go without the picker's knowing.  A path is a member of  *)
(* Dirs or Archives; other files are never listed.                         *)
(***************************************************************************)
EXTENDS Integers, Sequences, SequencesExt, Ordered

CONSTANTS
  Listing,    \* the paths in display order: directories first, then by name
  Dirs,       \* which of them are directories
  Top,        \* the directory with no parent
  ParentOf,   \* the parent of every other path
  Dotted,     \* the paths whose name starts with a dot
  UnreadableDirs, \* those directories that cannot be listed
  Filters,    \* the texts of the filter
  Cut,        \* what is left of one without its last character
  Matching,   \* the paths whose names contain it
  Typed,      \* the path it reads as, in a directory, or NotPath
  NotPath,
  Heights     \* the rows the terminal has room for

ASSUME PickerAssumption ==
  /\ Listing \in Seq(ToSet(Listing))
  /\ ".." \notin ToSet(Listing) /\ NotPath \notin ToSet(Listing) \union {".."}
  /\ Heights \subseteq Nat \ {0}
  \* The top is there and can be read (root_dir), whatever else comes and goes.
  /\ Dirs \subseteq ToSet(Listing) /\ Top \in Dirs \ UnreadableDirs
  \* No path is the parent of its own parent.
  /\ \A e \in ToSet(Listing) \ {Top} : ParentOf[e] # Top => ParentOf[ParentOf[e]] # e

\* What is left of a filter is one, or nothing.
ASSUME FilterAssumption == \A f \in Filters : Cut[f] \in Filters \union {""}

VARIABLES
  files,   \* the paths that exist
  picker,  \* the picker, or Closed
  drawn,   \* the picker is drawn as it stands
  marked   \* the row that is drawn as selected, or NotPath
pickerVars == <<files, picker, drawn, marked>>

Closed == [dir |-> NotPath, entries |-> << >>, filter |-> "", showHidden |-> FALSE,
           selected |-> 0, offset |-> 0]

Up == ".."

Paths == ToSet(Listing)

\* A path is there if the directories above it are.
Lineage[p \in Paths] == IF p = Top THEN {Top} ELSE {p} \union Lineage[ParentOf[p]]

\* Every path is below the top, and the directories above it are one in another.
Nested == /\ Lineage[Top] = {Top}
          /\ \A p \in Paths :
               /\ Top \in Lineage[p]
               /\ \A above \in (SUBSET Lineage[p]) \ {{}} :
                    \E d \in above : above \subseteq Lineage[d]

ASSUME LineageAssumption == Nested

Exists(p) == Lineage[p] \subseteq files

Readable(d) == d \in Dirs /\ Exists(d) /\ d \notin UnreadableDirs

-----------------------------------------------------------------------------
(* The methods of Picker.                                                  *)

visible(p) ==
  LET shown(e) ==
        IF e = Up THEN p.filter = ""
        ELSE /\ p.showHidden \/ e \notin Dotted
             /\ p.filter = "" \/ e \in Matching[p.filter]
  IN AtPlaces(p.entries, {i \in DOMAIN p.entries : shown(p.entries[i])})

selected_entry(p) ==
  IF p.selected < Len(visible(p)) THEN visible(p)[p.selected + 1] ELSE NotPath

AtMost(a, b) == IF a < b THEN a ELSE b

\* A count less something, or 0.
Less(a, b) == IF a < b THEN 0 ELSE a - b

clamp(p) == [p EXCEPT !.selected = AtMost(@, Less(Len(visible(p)), 1))]

\* ".." unless at the top, and what is listed of the directory.
read(p, d) ==
  LET up     == IF d = Top THEN << >> ELSE << Up >>
      listed(e) == e # Top /\ Exists(e) /\ Readable(d) /\ ParentOf[e] = d
  IN clamp([p EXCEPT !.dir = d,
                     !.entries = up \o AtPlaces(Listing, {i \in DOMAIN Listing :
                                                           listed(Listing[i])})])

\* The row of a path, if it is shown.
select_path(p, path) ==
  IF path \in ToSet(visible(p))
    THEN [p EXCEPT !.selected = (CHOOSE i \in DOMAIN visible(p) : visible(p)[i] = path) - 1]
    ELSE p

\* The path a row stands for; that of ".." is not selected again by it.
PathOf(p, row) == IF row = Up THEN ParentOf[p.dir] ELSE row

go_to(p, d) == read([p EXCEPT !.filter = "", !.selected = 0, !.offset = 0], d)

\* A mutant of refresh: the row of the same number stays selected.
refreshRow(p) == read(p, p.dir)

refresh(p) == select_path(read(p, p.dir), PathOf(p, selected_entry(p)))

\* A mutant of scroll_to_fit: one row too few.
scrollShort(p, height) ==
  LET off == IF p.selected < p.offset THEN p.selected
             ELSE IF p.selected >= p.offset + height THEN p.selected - height
             ELSE p.offset
  IN [p EXCEPT !.offset = AtMost(off, Less(Len(visible(p)), height))]

scroll_to_fit(p, height) ==
  LET off == IF p.selected < p.offset THEN p.selected
             ELSE IF p.selected >= p.offset + height THEN p.selected + 1 - height
             ELSE p.offset
  IN [p EXCEPT !.offset = AtMost(off, Less(Len(visible(p)), height))]

\* The row of the window that is marked.
MarkedIn(p, height) ==
  IF p.selected \in p.offset .. p.offset + height - 1 THEN selected_entry(p) ELSE NotPath

move_by(p, delta) ==
  [p EXCEPT !.selected =
     IF Len(visible(p)) = 0 \/ @ + delta < 0 THEN 0
     ELSE AtMost(@ + delta, Len(visible(p)) - 1)]

\* A directory is entered, with the one that is left selected.  An archive is
\* loaded and what is not there refused, which leaves the picker as it is.
follow(p, target) ==
  IF target \in Dirs /\ Exists(target)
    THEN select_path(go_to(p, target), p.dir)
    ELSE p

Loads(target) == target \notin Dirs /\ Exists(target)

\* What Enter acts on.
Chosen(p) == IF p.filter # "" /\ Typed[p.filter][p.dir] # NotPath
             THEN Typed[p.filter][p.dir]
             ELSE IF selected_entry(p) = NotPath THEN NotPath
             ELSE PathOf(p, selected_entry(p))

parent(p) == IF p.dir = Top THEN p ELSE follow(p, ParentOf[p.dir])

filter_changed(p) == [p EXCEPT !.selected = 0, !.offset = 0]

toggle_hidden(p) ==
  select_path([p EXCEPT !.showHidden = ~@, !.selected = 0], PathOf(p, selected_entry(p)))

-----------------------------------------------------------------------------
(* Keys, each after the picker was drawn, and the world.                   *)

PickerInit == files = Paths /\ picker = Closed /\ drawn = FALSE /\ marked = NotPath

\* Picker::open at any path: there, or at the closest directory above it.
OpenPicker ==
  /\ picker = Closed
  /\ \E start \in Paths :
       LET at == {d \in Lineage[start] : Readable(d)}
           dir == CHOOSE d \in at : at \subseteq Lineage[d]
       IN picker' = select_path(go_to(Closed, dir), start)
  /\ drawn' = FALSE
  /\ UNCHANGED <<files, marked>>

Draw == /\ picker # Closed /\ ~drawn
        /\ \E height \in Heights :
             /\ picker' = scroll_to_fit(picker, height)
             /\ marked' = MarkedIn(picker', height)
        /\ drawn' = TRUE
        /\ UNCHANGED files

\* A key that makes of the picker what p is.
Key(p) == /\ drawn /\ drawn' = FALSE
          /\ picker' = p
          /\ UNCHANGED <<files, marked>>

MoveBy == \E delta \in {-100, -10, -1, 1, 10, 100} : Key(move_by(picker, delta))

Enter == /\ Chosen(picker) # NotPath
         /\ IF Loads(Chosen(picker)) THEN Key(Closed)
            ELSE Key(follow(picker, Chosen(picker)))

Left == Key(parent(picker))

Right == /\ selected_entry(picker) \in Dirs \union {Up}
         /\ Key(follow(picker, PathOf(picker, selected_entry(picker))))

Backspace == IF picker.filter # ""
             THEN Key(filter_changed([picker EXCEPT !.filter = Cut[@]]))
             ELSE Left

\* A character, or a path that is pasted or dropped.
TypeFilter == \E f \in Filters :
                /\ picker.filter = "" \/ Cut[f] = picker.filter
                /\ Key(filter_changed([picker EXCEPT !.filter = f]))

ClearFilter == Key(filter_changed([picker EXCEPT !.filter = ""]))

Tab == Key(toggle_hidden(picker))

Refresh == Key(refresh(picker))

Escape == Key(Closed)

FilesChange == /\ \E p \in Paths \ {Top} :
                    files' = IF p \in files THEN files \ {p} ELSE files \union {p}
               /\ UNCHANGED <<picker, drawn, marked>>

PickerNext == \/ OpenPicker \/ Draw \/ MoveBy \/ Enter \/ Left \/ Right \/ Backspace
              \/ TypeFilter \/ ClearFilter \/ Tab \/ Refresh \/ Escape \/ FilesChange

PickerSpec == PickerInit /\ [][PickerNext]_pickerVars

-----------------------------------------------------------------------------
(* Properties.                                                             *)

\* The state has its types.
PickerTypeOK == /\ files \subseteq Paths
                /\ picker.dir \in Dirs \union {NotPath}
                /\ ToSet(picker.entries) \subseteq Paths \union {Up}
                /\ picker.filter \in Filters \union {""}
                /\ picker.selected \in 0 .. Len(picker.entries)
                /\ picker.offset \in 0 .. Len(Listing)

\* scroll_to_fit, window: as long as there is a row, one is drawn as selected,
\* and it is the one that the next key acts on.
MarkedIsSelected ==
  drawn /\ visible(picker) # << >> =>
    marked = selected_entry(picker) /\ marked # NotPath

\* The picker has its types, its selection among what it has listed, and that.
PickerRight == PickerTypeOK /\ MarkedIsSelected

\* refresh: "keeping the selection on the same name where it still exists";
\* toggle_hidden: where it is still shown.
SelectionKept ==
  [][(Refresh \/ Tab) /\ selected_entry(picker) \in ToSet(visible(picker')) =>
       selected_entry(picker') = selected_entry(picker)]_pickerVars

\* follow: "Going up leaves the directory just left selected, so Left then Right
\* returns to where the user was", if it is still there.
LeftThenRight ==
  [][Left /\ picker'.dir # picker.dir /\ Exists(picker.dir) =>
       selected_entry(picker') = picker.dir]_pickerVars

=============================================================================
