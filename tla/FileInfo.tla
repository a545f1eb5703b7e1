------------------------------- MODULE FileInfo -------------------------------
(* What CREATE, QUERY_INFO and CLOSE say of a file and of the volume: who    *)
(* may open what (smb/files.rs, create), the layouts of the classes          *)
(* (smb/info.rs), and how an answer is fitted to the client's buffer         *)
(* (query_info).                                                             *)
(*                                                                           *)
(* An answer is laid out byte by byte: a byte is the field it is of, the     *)
(* field's value and the byte's place in it.  Times and ids are fields       *)
(* without a value; a string is a number of UTF-16 units.                    *)
EXTENDS Integers, Sequences, SequencesExt

CONSTANTS
  Nodes,           \* what is in the share: [dir, size, path], path in units
  Volumes,         \* [label, total], label in units
  CLUSTER_SIZE,
  U64_MAX,         \* the largest size
  Opens,           \* what a CREATE may ask for: sets of access bits
  OutputLengths    \* the sizes of a client's buffers

\* Paths and labels have a length, and what a file holds can be told in 64 bits.
ASSUME InfoAssumption ==
  /\ CLUSTER_SIZE \in Nat \ {0} /\ U64_MAX \in Nat
  /\ Nodes \subseteq [dir : BOOLEAN, size : 0 .. U64_MAX, path : Nat]
  /\ Volumes \subseteq [label : Nat, total : Nat]
  /\ OutputLengths \subseteq Nat

VARIABLES
  handle,   \* what is open: [node, valid], or Nothing
  volume,
  response    \* to the request in hand: a record, or Nothing

infoVars == << handle, volume, response >>

Nothing == [status |-> "none"]
Missing == [dir |-> FALSE, size |-> 0, path |-> 0]     \* no such file

-----------------------------------------------------------------------------
(* Layouts.                                                                *)

F(name, value, width) == [i \in 1 .. width |-> << name, value, i >>]
Unset(name, width)    == F(name, 0, width)
Text(units)           == [i \in 1 .. 2 * units |-> << "unit", (i + 1) \div 2, i >>]

CeilDiv(n) == (n + CLUSTER_SIZE - 1) \div CLUSTER_SIZE

allocation_size(size) ==
  IF CeilDiv(size) * CLUSTER_SIZE > U64_MAX THEN U64_MAX ELSE CeilDiv(size) * CLUSTER_SIZE

file_attributes(dir) == IF dir THEN { "READONLY", "DIRECTORY" } ELSE { "READONLY" }

READ_ONLY_FILE ==
  { "FILE_READ_DATA", "FILE_READ_EA", "FILE_READ_ATTRIBUTES", "READ_CONTROL", "SYNCHRONIZE" }

\* FILE_EXECUTE of a file is FILE_TRAVERSE of a directory.
read_only(dir) == READ_ONLY_FILE \cup (IF dir THEN { "FILE_EXECUTE" } ELSE {})

Times       == Unset("CreationTime", 8) \o Unset("LastAccessTime", 8)
               \o Unset("LastWriteTime", 8) \o Unset("ChangeTime", 8)
Sizes(n)    == F("AllocationSize", allocation_size(n.size), 8) \o F("EndOfFile", n.size, 8)
Attributes(n) == F("FileAttributes", file_attributes(n.dir), 4)

file_basic(n)    == Times \o Attributes(n) \o Unset("Reserved", 4)
file_standard(n) == Sizes(n) \o F("NumberOfLinks", 1, 4) \o Unset("DeletePending", 1)
                    \o F("Directory", n.dir, 1) \o Unset("Reserved", 2)
file_internal    == Unset("IndexNumber", 8)
file_ea          == Unset("EaSize", 4)
file_position    == Unset("CurrentByteOffset", 8)
file_mode        == Unset("Mode", 4)
file_alignment   == Unset("Alignment", 4)
file_access(n)   == F("AccessFlags", read_only(n.dir), 4)
file_name(n)     == F("length", 2 * n.path, 4) \o Text(n.path)
file_all(n)      == file_basic(n) \o file_standard(n) \o file_internal \o file_ea
                    \o file_access(n) \o file_position \o file_mode \o file_alignment
                    \o file_name(n)
file_network_open(n)  == Times \o Sizes(n) \o Attributes(n) \o Unset("Reserved", 4)
file_attribute_tag(n) == Attributes(n) \o Unset("ReparseTag", 4)

\* "::$DATA" has seven units.  A directory has no stream.
file_stream(n) ==
  IF n.dir THEN << >>
  ELSE Unset("NextEntryOffset", 4) \o F("length", 14, 4) \o F("EndOfFile", n.size, 8)
       \o F("AllocationSize", allocation_size(n.size), 8) \o Text(7)

FileClasses(n) ==
  [ BASIC |-> file_basic(n), STANDARD |-> file_standard(n), INTERNAL |-> file_internal,
    EA |-> file_ea, ACCESS |-> file_access(n), NAME |-> file_name(n),
    POSITION |-> file_position, MODE |-> file_mode, ALIGNMENT |-> file_alignment,
    ALL |-> file_all(n), STREAM |-> file_stream(n), NETWORK_OPEN |-> file_network_open(n),
    ATTRIBUTE_TAG |-> file_attribute_tag(n) ]

\* An empty volume has one unit, and none of them is free.
AllocationUnits(v) == F("TotalAllocationUnits", IF v.total = 0 THEN 1 ELSE CeilDiv(v.total), 8)
Sectors  == F("SectorsPerAllocationUnit", CLUSTER_SIZE \div 512, 4) \o F("BytesPerSector", 512, 4)

fs_volume(v) == Unset("VolumeCreationTime", 8) \o Unset("VolumeSerialNumber", 4)
                \o F("length", 2 * v.label, 4) \o Unset("SupportsObjects", 1)
                \o Unset("Reserved", 1) \o Text(v.label)
fs_size(v)      == AllocationUnits(v) \o Unset("Available", 8) \o Sectors
fs_full_size(v) == AllocationUnits(v) \o Unset("Available", 8) \o Unset("Available", 8) \o Sectors

\* The name of the file system, "smbanything", has eleven units.
fs_attribute == Unset("FileSystemAttributes", 4) \o F("MaximumComponentNameLength", 255, 4)
                \o F("length", 22, 4) \o Text(11)

fs_device      == Unset("DeviceType", 4) \o Unset("Characteristics", 4)
fs_sector_size == F("LogicalBytes", 512, 4) \o F("PhysicalBytesForAtomicity", 512, 4)
                  \o F("PhysicalBytesForPerformance", 512, 4) \o F("EffectiveBytes", 512, 4)
                  \o Unset("Flags", 4) \o Unset("ByteOffset", 4) \o Unset("ByteOffset", 4)

FsClasses(v) ==
  [ VOLUME |-> fs_volume(v), SIZE |-> fs_size(v), FULL_SIZE |-> fs_full_size(v),
    DEVICE |-> fs_device, ATTRIBUTE |-> fs_attribute, SECTOR_SIZE |-> fs_sector_size ]

-----------------------------------------------------------------------------
(* QUERY_INFO.                                                             *)

Refusal(status) == [status |-> status, buf |-> << >>]

\* The struct's size and where its string begins, of the classes that end in one.
Strings == [ NAME |-> << 8, 4 >>, ALL |-> << 104, 100 >>,
             VOLUME |-> << 24, 18 >>, ATTRIBUTE |-> << 16, 12 >> ]

\* A mutant of CutAt: the string may end in the middle of a unit.
CutAnywhere(string_off, output_len) == output_len

CutAt(string_off, output_len) == string_off + ((output_len - string_off) \div 2) * 2

\* What fits the client's buffer of an answer.
Fitted(class, buf, output_len) ==
  LET min_len == IF class \in DOMAIN Strings THEN Strings[class][1] ELSE Len(buf)
  IN IF output_len < min_len THEN Refusal("INFO_LENGTH_MISMATCH")
     ELSE IF Len(buf) <= output_len THEN [status |-> "SUCCESS", buf |-> buf]
     ELSE [status |-> "BUFFER_OVERFLOW",
           buf |-> SubSeq(buf, 1, CutAt(Strings[class][2], output_len))]

query_info(h, v, type, class, output_len) ==
  IF h = Nothing \/ ~h.valid THEN Refusal("FILE_CLOSED")
  ELSE IF type \notin { "FILE", "FILESYSTEM" } THEN
    Refusal(IF type \in { "SECURITY", "QUOTA" } THEN "NOT_SUPPORTED" ELSE "INVALID_PARAMETER")
  ELSE IF type = "FILE" /\ class = "FULL_EA" THEN Refusal("NO_EAS_ON_FILE")
  ELSE IF type = "FILE" /\ class \in DOMAIN FileClasses(h.node) THEN
    Fitted(class, FileClasses(h.node)[class], output_len)
  ELSE IF type = "FILESYSTEM" /\ class \in DOMAIN FsClasses(v) THEN
    Fitted(class, FsClasses(v)[class], output_len)
  ELSE Refusal("NOT_SUPPORTED")

-----------------------------------------------------------------------------
(* CREATE and CLOSE.                                                       *)

WRITE_BITS   == { "FILE_WRITE_DATA", "FILE_APPEND_DATA", "FILE_WRITE_EA", "FILE_DELETE_CHILD",
                  "FILE_WRITE_ATTRIBUTES", "DELETE", "WRITE_DAC", "WRITE_OWNER",
                  "GENERIC_WRITE", "GENERIC_ALL" }
EXECUTE_BITS == { "FILE_EXECUTE", "GENERIC_EXECUTE", "GENERIC_ALL" }

\* A name that stands for no node is refused by the backing's stat.
Verdict(q) ==
  IF q.desired \cap WRITE_BITS # {} THEN "ACCESS_DENIED"
  ELSE IF q.disposition \in { "SUPERSEDE", "CREATE", "OVERWRITE", "OVERWRITE_IF" } THEN
    "MEDIA_WRITE_PROTECTED"
  ELSE IF q.disposition \notin { "OPEN", "OPEN_IF" } THEN "INVALID_PARAMETER"
  ELSE IF "DELETE_ON_CLOSE" \in q.options THEN "MEDIA_WRITE_PROTECTED"
  ELSE IF q.node = Missing THEN "OBJECT_NAME_NOT_FOUND"
  ELSE IF ~q.node.dir /\ q.desired \cap EXECUTE_BITS # {} THEN "ACCESS_DENIED"
  ELSE IF "DIRECTORY_FILE" \in q.options /\ ~q.node.dir THEN "NOT_A_DIRECTORY"
  ELSE IF "NON_DIRECTORY_FILE" \in q.options /\ q.node.dir THEN "FILE_IS_A_DIRECTORY"
  ELSE "SUCCESS"

max_access_context(n) ==
  Unset("Next", 4) \o F("NameOffset", 16, 2) \o F("NameLength", 4, 2) \o Unset("Reserved", 2)
  \o F("DataOffset", 24, 2) \o F("DataLength", 8, 4) \o Unset("MxAc", 4) \o Unset("padding", 4)
  \o Unset("QueryStatus", 4) \o F("AccessFlags", read_only(n.dir), 4)

\* The context begins at byte 88 of the body.
CreateReply(n, max_access) ==
  F("StructureSize", 89, 2) \o Unset("OplockLevel", 1) \o Unset("Flags", 1)
  \o F("CreateAction", 1, 4) \o Times \o Sizes(n) \o Attributes(n) \o Unset("Reserved", 4)
  \o Unset("Persistent", 8) \o Unset("Volatile", 8)
  \o IF max_access
       THEN F("ContextsOffset", 88, 4) \o F("ContextsLength", Len(max_access_context(n)), 4)
            \o max_access_context(n)
       ELSE Unset("ContextsOffset", 4) \o Unset("ContextsLength", 4)

\* What a CLOSE says if it asks for the final attributes, and if not.
CloseReply(n, postquery) ==
  F("StructureSize", 60, 2) \o F("Flags", IF postquery THEN 1 ELSE 0, 2) \o Unset("Reserved", 4)
  \o IF postquery THEN Times \o Sizes(n) \o Attributes(n) ELSE Unset("zeros", 52)

-----------------------------------------------------------------------------
(* One request after the other, and loads in between.                      *)

Replies(kind, asked, reply) ==
  /\ response = Nothing
  /\ response' = [kind |-> kind, asked |-> asked, status |-> reply.status, buf |-> reply.buf]
  /\ UNCHANGED volume

Create(q) ==
  /\ handle = Nothing
  /\ Replies("CREATE", q,
             IF Verdict(q) = "SUCCESS"
             THEN [status |-> "SUCCESS", buf |-> CreateReply(q.node, q.max_access)]
             ELSE Refusal(Verdict(q)))
  /\ handle' = IF Verdict(q) = "SUCCESS" THEN [node |-> q.node, valid |-> TRUE]
               ELSE handle

QueryClass(type, class, output_len) ==
  /\ Replies(class, [type |-> type, output_len |-> output_len],
             query_info(handle, volume, type, class, output_len))
  /\ UNCHANGED handle

\* A CLOSE does not ask whether the handle is valid.
CloseHandle(postquery) ==
  /\ handle # Nothing
  /\ Replies("CLOSE", [node |-> handle.node, postquery |-> postquery],
             [status |-> "SUCCESS", buf |-> CloseReply(handle.node, postquery)])
  /\ handle' = Nothing

\* A load invalidates what is open, and another volume is shared.
Loaded == /\ response = Nothing /\ volume' \in Volumes \ { volume }
          /\ handle' = IF handle = Nothing THEN Nothing ELSE [handle EXCEPT !.valid = FALSE]
          /\ UNCHANGED response

\* The client has its answer.
Taken == response # Nothing /\ response' = Nothing /\ UNCHANGED << handle, volume >>

InfoInit == volume \in Volumes /\ handle = Nothing /\ response = Nothing

Classes == [ FILE |-> DOMAIN FileClasses(Missing) \cup { "FULL_EA", "NO_CLASS" },
             FILESYSTEM |-> DOMAIN FsClasses([label |-> 0, total |-> 0]) \cup { "NO_CLASS" },
             SECURITY |-> { "NO_CLASS" }, NO_TYPE |-> { "NO_CLASS" } ]

CreateRequests ==
  [ node : Nodes \cup { Missing }, desired : Opens, max_access : BOOLEAN,
    disposition : { "OPEN", "OPEN_IF", "CREATE", "NO_DISPOSITION" },
    options : SUBSET { "DELETE_ON_CLOSE", "DIRECTORY_FILE", "NON_DIRECTORY_FILE" } ]

InfoNext == \/ \E q \in CreateRequests : Create(q)
            \/ \E type \in DOMAIN Classes : \E class \in Classes[type], n \in OutputLengths :
                 QueryClass(type, class, n)
            \/ \E postquery \in BOOLEAN : CloseHandle(postquery)
            \/ Loaded
            \/ Taken

InfoSpec == InfoInit /\ [][InfoNext]_infoVars

-----------------------------------------------------------------------------
(* Properties.                                                             *)

\* What a client can be told of how its request went.
InfoStatuses ==
  { "SUCCESS", "ACCESS_DENIED", "MEDIA_WRITE_PROTECTED", "INVALID_PARAMETER",
    "OBJECT_NAME_NOT_FOUND", "NOT_A_DIRECTORY", "FILE_IS_A_DIRECTORY", "FILE_CLOSED",
    "NOT_SUPPORTED", "NO_EAS_ON_FILE", "INFO_LENGTH_MISMATCH", "BUFFER_OVERFLOW" }

\* The state has its types.
InfoTypeOK == /\ volume \in Volumes
              /\ handle # Nothing => handle.node \in Nodes /\ handle.valid \in BOOLEAN
              /\ response # Nothing => response.status \in InfoStatuses

\* The value of the field that begins `off` bytes into the answer.
At(off) == response.buf[off + 1][2]

\* query_info: no answer is larger than the client's buffer.  One that is cut
\* says so and how long the string is, and is cut between two units, where the
\* buffer ends; a client that comes back with a buffer that is as large as it
\* was told gets everything.
FitsBuffer ==
  LET off  == Strings[response.kind][2]
      \* The length of a label is followed by two more bytes.
      told == off + At(IF response.kind = "VOLUME" THEN 12 ELSE off - 4)
      again == query_info(handle, volume, response.asked.type, response.kind, told)
  IN response.kind \notin { "CREATE", "CLOSE" } =>
       /\ Len(response.buf) <= response.asked.output_len
       /\ response.status = "BUFFER_OVERFLOW" =>
            /\ response.kind \in DOMAIN Strings
            /\ Len(response.buf) >= off /\ (Len(response.buf) - off) % 2 = 0
            /\ Len(response.buf) + 1 >= response.asked.output_len
            /\ again.status = "SUCCESS" /\ Len(again.buf) = told
            /\ IsPrefix(response.buf, again.buf)

\* Where the structures have their AllocationSize, EndOfFile and FileAttributes.
SizesAt == [ CREATE |-> 40, CLOSE |-> 40, STANDARD |-> 0, ALL |-> 40, NETWORK_OPEN |-> 32 ]
AttributesAt == [ CREATE |-> 56, CLOSE |-> 56, BASIC |-> 32, ALL |-> 32, NETWORK_OPEN |-> 48,
                  ATTRIBUTE_TAG |-> 0 ]
AccessAt == [ CREATE |-> 116, ACCESS |-> 0, ALL |-> 76 ]

\* create, close, query_info: whichever way a client asks, it is told the same of
\* what it has open; no size is larger than what it is said to occupy.
SaysSame ==
  LET node == IF response.kind \in { "CREATE", "CLOSE" } THEN response.asked.node ELSE handle.node
      k == response.kind
  IN response.buf # << >> /\ (k = "CLOSE" => response.asked.postquery) =>
       /\ k \in DOMAIN SizesAt => /\ At(SizesAt[k]) >= At(SizesAt[k] + 8)
                                  /\ At(SizesAt[k] + 8) = node.size
       /\ k = "STREAM" => At(8) = node.size /\ At(16) >= node.size
       /\ k \in DOMAIN AttributesAt =>
            ("DIRECTORY" \in At(AttributesAt[k])) = node.dir
       /\ k \in DOMAIN AccessAt /\ (k = "CREATE" => response.asked.max_access) =>
            At(AccessAt[k]) \cap WRITE_BITS = {}

\* create: a client that may not write learns nothing of whether there is a file.
WriteAsked == response.kind = "CREATE" /\ response.asked.desired \cap WRITE_BITS # {} =>
                \A n \in Nodes \cup { Missing } :
                  Verdict([response.asked EXCEPT !.node = n]) = response.status

\* FileInfo: every answer fits, and all of them agree.
InfoAnswers == InfoTypeOK /\ (response # Nothing => FitsBuffer /\ SaysSame /\ WriteAsked)
=============================================================================
