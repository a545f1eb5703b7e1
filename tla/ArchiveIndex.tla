----------------------------- MODULE ArchiveIndex -----------------------------
(***************************************************************************)
(* The index of an archive (archive.rs), built entry by entry when the     *)
(* archive is opened (tar.rs, zip.rs), and the root of the share that puts *)
(* a README beside the archive's folder (root.rs).                         *)
(*                                                                         *)
(* A name is a value whose lower case is Lower[name].  A raw name is the   *)
(* sequence of what its slashes divide; a path of a client, the sequence   *)
(* of what its backslashes divide.  Timestamps are left out.               *)
(***************************************************************************)
EXTENDS Integers, Sequences, SequencesExt, FiniteSetsExt

CONSTANTS
  Lower,      \* the names, each with its lower case
  Order,      \* the lower-case names, in the order of strings
  Forbidden,  \* the names with a character that client and archive refuse
  Backslash,  \* those with a backslash: what a client's parser makes of one
  RawEntries, \* what the archive may hold
  MaxEntries, \* bound: the entries of an archive
  Extent,     \* the bytes of the archive, or of what gzip expands to
  Folder      \* the name of the archive's folder in the root

\* A name in lower case stays as it is, and is somewhere in the order of strings.
\* Clients' separators are forbidden in names.
ASSUME IndexAssumption ==
  /\ \A e \in RawEntries :
       /\ e.path \in Seq(STRING) /\ e.dir \in BOOLEAN /\ e.size \in Nat /\ e.at \in Nat
       /\ ToSet(e.path) \subseteq DOMAIN Lower \union {"", ".", ".."}
  /\ \A name \in DOMAIN Lower : /\ Lower[name] \in DOMAIN Lower \intersect ToSet(Order)
                               /\ Lower[Lower[name]] = Lower[name]
  /\ Order \in Seq(STRING)
  /\ DOMAIN Backslash \subseteq Forbidden
  /\ Extent \in Nat /\ MaxEntries \in Nat

VARIABLES
  format,  \* "zip", "tar" or "gzip"
  opening, \* "indexing", "open" or "failed"
  entries, \* the index: what each key stands for
  total_size, file_count, \* of the index
  maximum_entry_end,      \* where the farthest content so far ends
  taken    \* history: the files that were indexed, with their raw names
built == <<entries, total_size, file_count, taken>>
indexVars == <<format, opening, built, maximum_entry_end>>

Dir(name) == [name |-> name, dir |-> TRUE, size |-> 0, content |-> 0]

IndexInit == /\ format \in {"zip", "tar", "gzip"} /\ opening = "indexing"
             /\ entries = [k \in {<< >>} |-> Dir("")]
             /\ total_size = 0 /\ file_count = 0 /\ taken = << >>
             /\ maximum_entry_end = 0

-----------------------------------------------------------------------------
(* Inserting.                                                              *)

key(path) == [i \in DOMAIN path |-> Lower[path[i]]]

unsafe(name) == name \in {"", ".", ".."} \/ name \in Forbidden

\* parse_archive_path, before it is refused: a directory's last slash goes.
Components(e) ==
  LET path == IF e.dir /\ Len(e.path) > 1 /\ Last(e.path) = "" THEN Front(e.path) ELSE e.path
  IN IF path = << "" >> THEN << >> ELSE path

\* insert_directory would refuse: a file is there, or another spelling.
Conflicts(path) == /\ key(path) \in DOMAIN entries
                   /\ \/ ~entries[key(path)].dir
                      \/ entries[key(path)].name # Last(path)

\* The directories of a path: all above it, and itself if it is one.
DirsOf(path, isDir) ==
  {SubSeq(path, 1, n) : n \in 1 .. (IF isDir THEN Len(path) ELSE Len(path) - 1)}

\* A mutant of Refuses: a file may take the place of another.
RefusesDirsOnly(path, isDir) ==
  \/ \E i \in DOMAIN path : unsafe(path[i])
  \/ \E d \in DirsOf(path, isDir) : Conflicts(d)

Refuses(path, isDir) ==
  \/ \E i \in DOMAIN path : unsafe(path[i])
  \/ \E d \in DirsOf(path, isDir) : Conflicts(d)
  \/ ~isDir /\ key(path) \in DOMAIN entries

Placed(e, path) ==
  LET dirs == DirsOf(path, e.dir)
      below == {key(d) : d \in dirs}
  IN [k \in DOMAIN entries \union below \union {key(path)} |->
        IF k \in DOMAIN entries THEN entries[k]
        ELSE IF k \in below THEN Dir(Last(CHOOSE d \in dirs : key(d) = k))
        ELSE [name |-> Last(path), dir |-> FALSE, size |-> e.size, content |-> e.at]]

Fails == opening' = "failed" /\ UNCHANGED <<format, built, maximum_entry_end>>

\* ArchiveIndex::insert.  A refusal fails the whole archive.
insert(e) ==
  LET path == Components(e)
  IN IF path = << >> THEN UNCHANGED <<format, opening, built>>
     ELSE IF Refuses(path, e.dir)
       THEN /\ opening' = "failed"
            /\ UNCHANGED <<format, built>>
     ELSE /\ entries' = Placed(e, path)
          /\ total_size' = IF e.dir THEN total_size ELSE total_size + e.size
          /\ file_count' = IF e.dir THEN file_count ELSE file_count + 1
          /\ taken' = IF e.dir THEN taken
                      ELSE Append(taken, [path |-> path, size |-> e.size, at |-> e.at])
          /\ UNCHANGED <<format, opening>>

-----------------------------------------------------------------------------
(* Opening an archive.                                                     *)

SizeOf(e) == IF e.dir THEN 0 ELSE e.size

EndAfter(e) == Max({e.at + SizeOf(e), maximum_entry_end})

\* index_entries.  A TAR of known length is checked entry by entry.
IndexTar(e) ==
  /\ format # "zip"
  /\ IF e.kind = "global" THEN UNCHANGED indexVars
     ELSE IF e.kind = "other" \/ (format = "tar" /\ e.at + SizeOf(e) > Extent)
       THEN Fails
     ELSE maximum_entry_end' = EndAfter(e) /\ insert(e)

\* ZipBacking::open: an entry that is encrypted, or that this build cannot
\* expand, fails the archive.  Its content is found by its number.
IndexZip(e) ==
  /\ format = "zip" /\ e.kind # "global"
  /\ IF e.kind = "other" THEN Fails ELSE insert(e) /\ UNCHANGED maximum_entry_end

Index(e) == /\ opening = "indexing" /\ file_count < MaxEntries
            /\ IndexTar(e) \/ IndexZip(e)

\* A gzip's length is known only at the end.
Indexed == /\ opening = "indexing"
           /\ IF format = "gzip" /\ maximum_entry_end > Extent THEN Fails
              ELSE /\ opening' = "open"
                   /\ UNCHANGED <<format, built, maximum_entry_end>>

\* The archive cannot be read, or the compressed data of a ZIP's entries overlap.
CannotRead == opening = "indexing" /\ Fails

IndexNext == (\E e \in RawEntries : Index(e)) \/ Indexed \/ CannotRead

IndexSpec == IndexInit /\ [][IndexNext]_indexVars

-----------------------------------------------------------------------------
(* Looking things up.                                                      *)

\* The order of keys in the map: component by component.
Rank(name) == CHOOSE i \in DOMAIN Order : Order[i] = name

Before(k, l) == \/ Len(k) < Len(l) /\ IsPrefix(k, l)
                \/ \E i \in DOMAIN k \intersect DOMAIN l :
                     /\ SubSeq(k, 1, i - 1) = SubSeq(l, 1, i - 1)
                     /\ Rank(k[i]) < Rank(l[i])

\* The keys after one, as far as all up to there are in the set.
Walk(k, set) ==
  {l \in DOMAIN entries : /\ Before(k, l)
                          /\ \A m \in DOMAIN entries :
                               Before(k, m) /\ (m = l \/ Before(m, l)) => m \in set}

\* The range of the keys below one.
WalkBelow(k) == Walk(k, {m \in DOMAIN entries : IsPrefix(k, m)})

\* Errors, as names of statuses.
Error(e) == [error |-> e]

stat(path) == IF key(path) \in DOMAIN entries THEN entries[key(path)]
              ELSE Error("OBJECT_NAME_NOT_FOUND")

\* The names in a directory.
list(path) ==
  IF key(path) \notin DOMAIN entries THEN Error("OBJECT_PATH_NOT_FOUND")
  ELSE IF ~entries[key(path)].dir THEN Error("NOT_A_DIRECTORY")
  ELSE [names |-> {entries[l].name : l \in {l \in WalkBelow(key(path)) :
                                              Len(l) = Len(path) + 1}}]

\* What a reader of the file reads: its content, or why there is none.
open(path) ==
  IF key(path) \notin DOMAIN entries THEN Error("OBJECT_NAME_NOT_FOUND")
  ELSE IF entries[key(path)].dir THEN Error("FILE_IS_A_DIRECTORY")
  ELSE [content |-> entries[key(path)].content]

-----------------------------------------------------------------------------
(* RootBacking, with the archive or without one, and EmptyBacking.          *)

README == "README.txt"

Located(path, loaded) ==
  IF path = << >> THEN "root"
  ELSE IF Lower[Head(path)] = Lower[README]
    THEN (IF Len(path) = 1 THEN "readme" ELSE "nothing")
  ELSE IF loaded /\ Lower[Head(path)] = Lower[Folder]
    THEN (IF Len(path) = 1 THEN "folder" ELSE "inside")
  ELSE "nothing"

RootStat(path, loaded) ==
  CASE Located(path, loaded) = "root" -> Dir("")
    [] Located(path, loaded) = "readme" ->
         [name |-> README, dir |-> FALSE, size |-> 1, content |-> 0]
    [] Located(path, loaded) = "folder" -> Dir(Folder)
    [] Located(path, loaded) = "inside" -> stat(Tail(path))
    [] OTHER -> Error("OBJECT_NAME_NOT_FOUND")

RootList(path, loaded) ==
  CASE Located(path, loaded) = "root" ->
         [names |-> {README} \union (IF loaded THEN {Folder} ELSE {})]
    [] Located(path, loaded) = "readme" -> Error("NOT_A_DIRECTORY")
    [] Located(path, loaded) \in {"folder", "inside"} -> list(Tail(path))
    [] OTHER -> Error("OBJECT_PATH_NOT_FOUND")

\* A mutant of RootOpen: the folder is not known to be a directory.
RootOpenInside(path, loaded) ==
  CASE Located(path, loaded) = "root" -> Error("FILE_IS_A_DIRECTORY")
    [] Located(path, loaded) = "readme" -> [content |-> 0]
    [] Located(path, loaded) = "inside" -> open(Tail(path))
    [] OTHER -> Error("OBJECT_NAME_NOT_FOUND")

RootOpen(path, loaded) ==
  CASE Located(path, loaded) \in {"root", "folder"} -> Error("FILE_IS_A_DIRECTORY")
    [] Located(path, loaded) = "readme" -> [content |-> 0]
    [] Located(path, loaded) = "inside" -> open(Tail(path))
    [] OTHER -> Error("OBJECT_NAME_NOT_FOUND")

\* SmbPath::parse of a path with these names.  One with a backslash is two; the
\* empty ones that separators at the ends make are dropped.
parse(path) ==
  LET split[n \in 0 .. Len(path)] ==
        IF n = 0 THEN << >>
        ELSE split[n - 1] \o (IF path[n] \in DOMAIN Backslash THEN Backslash[path[n]]
                              ELSE << path[n] >>)
      parts == split[Len(path)]
      named == {i \in DOMAIN parts : parts[i] # ""}
      trimmed == IF named = {} THEN << >> ELSE SubSeq(parts, Min(named), Max(named))
      bad == {i \in DOMAIN trimmed : unsafe(trimmed[i])}
  IN IF bad = {} THEN trimmed
     ELSE IF trimmed[Min(bad)] \in {"", ".", ".."} THEN Error("OBJECT_PATH_SYNTAX_BAD")
     ELSE Error("OBJECT_NAME_INVALID")

-----------------------------------------------------------------------------
(* Properties.                                                             *)

\* The state has its types.
IndexTypeOK ==
  /\ opening \in {"indexing", "open", "failed"}
  /\ \A k \in DOMAIN entries : ToSet(k) \subseteq ToSet(Order)
  /\ total_size \in Nat /\ file_count \in 0 .. MaxEntries /\ maximum_entry_end \in Nat

\* list, stat: every entry is in a directory that is there, and what a directory
\* lists is what is in it and nothing else, each found under the name listed.
ListIsChildren ==
  /\ \A k \in DOMAIN entries \ {<< >>} :
       Front(k) \in DOMAIN entries /\ entries[Front(k)].dir
  /\ \A k \in DOMAIN entries :
       entries[k].dir =>
         list(k).names = {entries[l].name : l \in {l \in DOMAIN entries :
                            l # << >> /\ Front(l) = k}}
  /\ \A k \in DOMAIN entries \ {<< >>} : stat(Append(Front(k), entries[k].name)) = entries[k]

\* What all files hold together.
SizeOfAll(files) ==
  LET sum[n \in 0 .. Len(files)] == IF n = 0 THEN 0 ELSE sum[n - 1] + files[n].size
  IN sum[Len(files)]

\* insert, index_entries: an archive that opens has every one of its files, whose
\* bytes lie within it; no file hides another; the totals are theirs.
EveryFileServed ==
  opening = "open" =>
    /\ \A i \in DOMAIN taken :
         /\ open(taken[i].path) = [content |-> taken[i].at]
         /\ stat(taken[i].path).size = taken[i].size
         /\ format # "zip" => taken[i].at + taken[i].size <= Extent
    /\ file_count = Len(taken)
    /\ total_size = SizeOfAll(taken)

\* SmbPath::parse: a client that joins the names it was listed reaches the entry.
ListedReached ==
  \A i \in DOMAIN taken : parse(taken[i].path) = taken[i].path

\* insert, list, open: every file of the archive is listed where it is, and is
\* found and read under the names that were listed.
IndexServes == IndexTypeOK /\ ListIsChildren /\ EveryFileServed /\ ListedReached

\* "The root and the folder are the directories `stat` and `list` report them to
\* be; saying they do not exist contradicts that": the three agree on every path.
RootAgrees ==
  opening = "open" =>
    \A loaded \in BOOLEAN :
      \A path \in {<< >>} \union { << n >> : n \in DOMAIN Lower }
                  \union { << Folder >> \o k : k \in DOMAIN entries }
                  \union { << README >> \o k : k \in DOMAIN entries } :
        LET is     == RootStat(path, loaded)
            listed == RootList(path, loaded)
            reads  == RootOpen(path, loaded)
            exists == "error" \notin DOMAIN is
        IN /\ (exists /\ is.dir) <=> "names" \in DOMAIN listed
           /\ (exists /\ ~is.dir) <=> "content" \in DOMAIN reads
           /\ (exists /\ is.dir) <=> reads = Error("FILE_IS_A_DIRECTORY")
           /\ (exists /\ ~is.dir) <=> listed = Error("NOT_A_DIRECTORY")
=============================================================================
