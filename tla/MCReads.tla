------------------------------- MODULE MCReads -------------------------------
(* The parts of the program that a client's reads go through, and the index *)
(* and picker that what they read comes from.  They share no state (what    *)
(* they share in the code is in Contents and Connection), so that a         *)
(* behaviour is of one of them, as `part` says, and the others stay put.    *)
EXTENDS ExpandedCache, DirScan, Pipe, Chain, Picker, ArchiveIndex, Glob, FileInfo,
        FileRead, TLC

CONSTANTS e1, e2, e3, e4

VARIABLE part

-----------------------------------------------------------------------------
(* ExpandedCache: four entries of which two fit, or one that is too large   *)
(* for the limit.                                                           *)

MCSize == e1 :> 1 @@ e2 :> 1 @@ e3 :> 1 @@ e4 :> 3

-----------------------------------------------------------------------------
(* DirScan: one entry that fits a buffer alone, one that only the padding   *)
(* of another keeps out, and one no buffer but the largest can hold.        *)

MCEntrySize == << 3, 2, 2, 7 >>

-----------------------------------------------------------------------------
(* Pipe: binds, calls with every padding of the name, calls cut short, and  *)
(* one with more after the level.                                           *)

Pdu(ptype) == [whole |-> TRUE, ptype |-> ptype, declared |-> 0, contexts |-> << >>,
               opnum |-> "none", stub |-> << >>, wants |-> 1]

\* The arguments of a call: the name of the server, of n units, then the level.
Named(n, level) ==
  << 7, n, 0, n >> \o [i \in 1 .. (n + 1) \div 2 |-> 9] \o << level >>

Call(stub, level) == [Pdu("request") EXCEPT !.opnum = "net_share_enum",
                                            !.stub = stub, !.wants = level]

Contexts == { << >>, << "ndr32" >>, << "ndr64" >>, << "feature", "ndr32" >>,
              << "ndr64", "ndr32" >> }

Bind(declared, contexts) ==
  [Pdu("bind") EXCEPT !.declared = declared, !.contexts = contexts]

MCRequests ==
  { Call(Named(n, level), level) : n \in 0 .. 2, level \in { 1, 2 } }
  \cup { Call(<< 0, level >>, level) : level \in { 1, 2 } }
  \cup { Call(SubSeq(Named(1, 2), 1, n), 1) : n \in 0 .. 5 }
  \cup { Call(Append(Named(1, 2), 9), 2) }
  \cup { Bind(2, << c1, c2 >>) : c1, c2 \in Contexts }
  \cup { Bind(2, << << "ndr64" >>, << "ndr64" >>, << "ndr32" >> >>),
         Bind(3, << << "ndr32" >>, << "ndr64" >>, << "ndr32" >> >>) }
  \cup { Pdu("bind"), [Pdu("alter_context") EXCEPT !.declared = 2], Pdu("orphaned"),
         [Pdu("request") EXCEPT !.opnum = "other"],
         [Pdu("request") EXCEPT !.whole = FALSE] }

-----------------------------------------------------------------------------
(* Chain: up to three requests, of two units each and more, with links that *)
(* lead to the next one, into a header, to the end and past it.             *)

Header(next, command, covers) == [next : next, command : command, covers : covers]

MCHeaders == Header({ 0, 1, 2, 4 }, { "logon", "cancel" }, { 0, 2, 4, 6 })
             \cup Header({ 0, 2, 7 }, { "keepalive" }, { 0 })
             \cup Header({ 0 }, { "refused" }, { 6 })

MCMessages ==
  { [smb |-> s, len |-> 3, at |-> << >>] : s \in { "1 negotiate", "1" } }
  \cup { [smb |-> "2", len |-> n, at |-> at] :
           n \in { 4, 5 }, at \in UNION { [D -> MCHeaders] : D \in SUBSET { 0, 2 } } }
  \cup { [smb |-> "2", len |-> 6, at |-> at] :
           at \in [{ 0, 2, 4 } -> Header({ 0, 2 }, { "logon" }, { 0, 2, 4, 6 })] }

-----------------------------------------------------------------------------
(* Picker: h and b are hidden, u cannot be listed.                          *)

MCListing  == << "top", "d", "h", "u", "a", "b", "x" >>
MCParentOf == [p \in { "d", "h", "u", "a", "b" } |-> "top"] @@ "x" :> "d"
MCCut      == "ab" :> "a" @@ "a" :> "" @@ "/d" :> "" @@ ".." :> "." @@ "." :> ""
MCMatching == "ab" :> {} @@ "a" :> { "a", "b" } @@ "/d" :> {} @@ ".." :> {} @@ "." :> { "a" }
MCTyped    == [f \in { "a", "ab", "." } |-> [d \in Dirs |-> NotPath]]
              @@ "/d" :> [d \in Dirs |-> "d"]
              @@ ".." :> [d \in Dirs |-> "top"]

-----------------------------------------------------------------------------
(* ArchiveIndex: names that differ in case, one that sorts between another  *)
(* and what is below it, one with a backslash, and those of the root.       *)

MCLower == "a" :> "a" @@ "A" :> "a" @@ "b" :> "b" @@ "a!" :> "a!" @@ "b\\a" :> "b\\a"
           @@ "README.txt" :> "readme.txt" @@ "readme.txt" :> "readme.txt" @@ "f0" :> "f0"
MCOrder     == << "a", "a!", "b", "b\\a", "f0", "readme.txt" >>
MCForbidden == { "b\\a" }
MCBackslash == "b\\a" :> << "b", "a" >>

Raw(path, dir, size, at, kind) ==
  [path |-> path, dir |-> dir, size |-> size, at |-> at, kind |-> kind]

MCRawEntries ==
  { Raw(p, FALSE, 1, 1, "plain") :
      p \in { << "a" >>, << "A" >>, << "b" >>, << "a", "b" >>, << "A", "b" >>,
              << "a", "A" >>, << "a!" >>, << "a", "" >>, << "b\\a" >>,
              << "b", "a", "b" >>, << "a", "b", "a" >>, << "..", "a" >> } }
  \cup { Raw(<< "b" >>, FALSE, 2, 3, "plain"), Raw(<< "a", "b" >>, FALSE, 2, 2, "plain") }
  \cup { Raw(p, TRUE, 0, 0, "plain") :
           p \in { << "a" >>, << "a", "" >>, << "" >>, << "A" >>, << "b", "A" >>, << "", "" >> } }
  \cup { Raw(<< "a" >>, TRUE, 0, 0, k) : k \in { "global", "other" } }

-----------------------------------------------------------------------------
(* Glob: every pattern of up to three characters and one that is too long,  *)
(* names of up to three and some longer ones.                               *)

MCFold == "a" :> "a" @@ "A" :> "a" @@ "." :> "."

UpTo(n, S) == UNION { [1 .. k -> S] : k \in 0 .. n }

MCPatterns == UpTo(3, { "*", "<", ">", "dot", "?", "a", "." })
              \cup { << "a", "?", "a", "*" >> }
MCNames == UpTo(3, DOMAIN MCFold)
           \cup { << "a", "a", "a", "." >>, << "a", ".", "A", "." >>, << ".", ".", ".", "a" >> }

-----------------------------------------------------------------------------
(* FileInfo: an empty file, one that is a byte more than a cluster, and the *)
(* largest; an empty volume; buffers about the sizes of the structures.     *)

Node(dir, size, path) == [dir |-> dir, size |-> size, path |-> path]

MCNodes == { Node(TRUE, 0, 1), Node(FALSE, 0, 3), Node(FALSE, 4097, 2), Node(FALSE, 65535, 2) }
MCVolumes == { [label |-> 2, total |-> 0], [label |-> 5, total |-> 5000] }

MCOpens == { {"FILE_READ_DATA"}, {"FILE_EXECUTE"}, {"FILE_READ_DATA", "GENERIC_ALL"}, {"DELETE"} }

-----------------------------------------------------------------------------
(* FileRead: two files of one archive that ends within the second, a copy,  *)
(* and the README.                                                          *)

Lies(source, where, size, end) == [source |-> source, at |-> where, size |-> size, end |-> end]

MCStored == { Lies("tar", 1, 3, 6), Lies("tar", 5, 2, 6), Lies("zip", 0, 3, 3),
              Lies("readme", 0, 3, 3) }

-----------------------------------------------------------------------------
(* One part at a time.                                                      *)

MCInit == /\ part \in { "cache", "directory", "pipe", "chain", "picker", "index", "glob",
                       "info", "read" }
          /\ part # "cache" => want = [r \in Readers |-> e1]
          /\ part # "index" => format = "zip"
          /\ part # "info"  => volume = CHOOSE v \in Volumes : TRUE
          /\ part # "read"  => file = [c \in Callers |-> CHOOSE f \in Stored : TRUE]
          /\ Init /\ ScanInit /\ PipeInit /\ ChainInit /\ PickerInit /\ IndexInit /\ GlobInit
          /\ InfoInit /\ ReadInit

Only(p) ==
  /\ part = p /\ UNCHANGED part
  /\ p # "cache"     => UNCHANGED vars
  /\ p # "directory" => UNCHANGED scanVars
  /\ p # "pipe"      => UNCHANGED pipeVars
  /\ p # "chain"     => UNCHANGED chainVars
  /\ p # "picker"    => UNCHANGED pickerVars
  /\ p # "index"     => UNCHANGED indexVars
  /\ p # "glob"      => UNCHANGED globVars
  /\ p # "info"      => UNCHANGED infoVars
  /\ p # "read"      => UNCHANGED readVars

MCNext == \/ Only("cache")     /\ Next
          \/ Only("directory") /\ ScanNext
          \/ Only("pipe")      /\ PipeNext
          \/ Only("chain")     /\ ChainNext
          \/ Only("picker")    /\ PickerNext
          \/ Only("index")     /\ IndexNext
          \/ Only("glob")      /\ GlobNext
          \/ Only("info")      /\ InfoNext
          \/ Only("read")      /\ ReadNext

allVars == << part, vars, scanVars, pipeVars, chainVars, pickerVars, indexVars, globVars,
              infoVars, readVars >>

MCSpec == MCInit /\ [][MCNext]_allVars
=============================================================================
