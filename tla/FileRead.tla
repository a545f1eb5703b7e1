------------------------------- MODULE FileRead -------------------------------
(* READ of a file's bytes (smb/files.rs, read) from where they lie: in an    *)
(* archive whose one descriptor, and its position, all connections share     *)
(* (archive/tar.rs), in an expanded copy that each READ opens for itself     *)
(* (archive/zip.rs), or in memory (root.rs).                                 *)
(*                                                                           *)
(* A byte is the number of its place in the source, from 1.  The operating   *)
(* system may hand out fewer bytes than it is asked for.                     *)
EXTENDS Integers, Sequences

CONSTANTS
  Callers,         \* connections
  Stored,          \* what is read: [source, at, size, end]
  Offsets, ReadLengths, Minima,
  MAX_READ_SIZE

Unheld == "unheld"

\* What is in memory ends where the file does.
ASSUME ReadAssumption ==
  /\ MAX_READ_SIZE \in Nat
  /\ Offsets \cup ReadLengths \cup Minima \subseteq Nat
  /\ { Unheld, "shared" } \cap Callers = {}
  /\ \A f \in Stored : /\ { f.at, f.size, f.end } \subseteq Nat
                       /\ f.source = "readme" => f.at = 0 /\ f.end = f.size

VARIABLES
  place,      \* where each caller is
  file,       \* what it reads,
  range,      \* and which part of it
  buffer,     \* what it has so far
  position,   \* of every descriptor
  holder,     \* of the mutex of the shared one
  given

readVars == << place, file, range, buffer, position, holder, given >>

Smaller(m, n) == IF m < n THEN m ELSE n

\* A copy is opened for the one READ.
Descriptor(c) == IF file[c].source = "tar" THEN "shared" ELSE c

\* TarFile, CachedFile: how many bytes of the file there are to read.
Wanted(c) == Smaller(range[c].length, file[c].size - range[c].offset)

Goes(c, from, to) == place[c] = from /\ place' = [place EXCEPT ![c] = to]

\* read: an empty buffer is the end of the file, unless nothing was asked for.
Replied(c, data) ==
  given' = [given EXCEPT ![c] =
    IF (data = << >> /\ range[c].length > 0) \/ Len(data) < range[c].minimum
      THEN [status |-> "END_OF_FILE", data |-> << >>]
      ELSE [status |-> "SUCCESS", data |-> data]]

-----------------------------------------------------------------------------

\* The length is cut before anything is allocated.
Ask(c, f, offset, length, minimum) ==
  /\ Goes(c, "idle", "asked")
  /\ file' = [file EXCEPT ![c] = f]
  /\ range' = [range EXCEPT ![c] = [offset |-> offset, minimum |-> minimum,
                                    length |-> Smaller(length, MAX_READ_SIZE)]]
  /\ buffer' = [buffer EXCEPT ![c] = << >>]
  /\ given' = [given EXCEPT ![c] = [status |-> "none", data |-> << >>]]
  /\ UNCHANGED << position, holder >>

\* Nothing is read past the end.
PastEnd(c) ==
  /\ Goes(c, "asked", "idle") /\ range[c].offset >= file[c].size
  /\ Replied(c, << >>)
  /\ UNCHANGED << file, range, buffer, position, holder >>

\* The README is a slice of what is in memory.
Slice(c) ==
  /\ Goes(c, "asked", "idle") /\ file[c].source = "readme"
  /\ range[c].offset < file[c].size
  /\ Replied(c, [i \in 1 .. Wanted(c) |-> range[c].offset + i])
  /\ UNCHANGED << file, range, buffer, position, holder >>

\* A mutant of Begin: the shared descriptor is read without its mutex.
BeginUnlocked(c) ==
  /\ Goes(c, "asked", "begun") /\ file[c].source # "readme"
  /\ range[c].offset < file[c].size
  /\ position' = [position EXCEPT ![c] = 0]
  /\ UNCHANGED << file, range, buffer, holder, given >>

\* The archive is locked, or the copy opened.
Begin(c) ==
  /\ Goes(c, "asked", "begun") /\ file[c].source # "readme"
  /\ range[c].offset < file[c].size
  /\ IF file[c].source = "tar"
       THEN holder = Unheld /\ holder' = c /\ UNCHANGED position
       ELSE position' = [position EXCEPT ![c] = 0] /\ UNCHANGED holder
  /\ UNCHANGED << file, range, buffer, given >>

Seek(c) ==
  /\ Goes(c, "begun", "reading")
  /\ position' = [position EXCEPT ![Descriptor(c)] = file[c].at + range[c].offset]
  /\ UNCHANGED << file, range, buffer, holder, given >>

Full(c)  == Len(buffer[c]) = Wanted(c)
AtEnd(c) == position[Descriptor(c)] >= file[c].end

ReadSome(c) ==
  LET d == Descriptor(c)
  IN /\ place[c] = "reading" /\ ~Full(c) /\ ~AtEnd(c)
     /\ \E n \in 1 .. Smaller(Wanted(c) - Len(buffer[c]), file[c].end - position[d]) :
          /\ buffer' = [buffer EXCEPT ![c] = @ \o [i \in 1 .. n |-> position[d] + i]]
          /\ position' = [position EXCEPT ![d] = @ + n]
     /\ UNCHANGED << place, file, range, holder, given >>

\* The mutex is free again, and a copy's descriptor closed.
LetGo(c) == /\ holder' = IF holder = c THEN Unheld ELSE holder
            /\ position' = [position EXCEPT ![c] = 0]

\* A read of no bytes ends the loop too: the source is shorter than it was.
ReadDone(c) ==
  /\ Goes(c, "reading", "idle") /\ (Full(c) \/ AtEnd(c))
  /\ Replied(c, buffer[c]) /\ LetGo(c)
  /\ UNCHANGED << file, range, buffer >>

\* Opening, seeking or reading fails.
ReadFails(c) ==
  /\ place[c] \in { "begun", "reading" } /\ place' = [place EXCEPT ![c] = "idle"]
  /\ given' = [given EXCEPT ![c] = [status |-> "UNEXPECTED_IO_ERROR", data |-> << >>]]
  /\ LetGo(c)
  /\ UNCHANGED << file, range, buffer >>

ReadInit ==
  /\ place = [c \in Callers |-> "idle"]
  /\ \E f \in Stored : file = [c \in Callers |-> f]
  /\ range = [c \in Callers |-> [offset |-> 0, minimum |-> 0, length |-> 0]]
  /\ buffer = [c \in Callers |-> << >>]
  /\ position = [d \in Callers \cup { "shared" } |-> 0]
  /\ holder = Unheld
  /\ given = [c \in Callers |-> [status |-> "none", data |-> << >>]]

ReadNext ==
  \E c \in Callers :
    \/ \E f \in Stored, offset \in Offsets, length \in ReadLengths, minimum \in Minima :
         Ask(c, f, offset, length, minimum)
    \/ PastEnd(c) \/ Slice(c) \/ Begin(c) \/ Seek(c)
    \/ ReadSome(c) \/ ReadDone(c) \/ ReadFails(c)

ReadSpec == ReadInit /\ [][ReadNext]_readVars

-----------------------------------------------------------------------------
(* Properties.                                                             *)

\* The state has its types.
ReadTypeOK ==
  /\ place \in [Callers -> { "idle", "asked", "begun", "reading" }]
  /\ file \in [Callers -> Stored]
  /\ \A c \in Callers : range[c].length <= MAX_READ_SIZE /\ Len(buffer[c]) <= MAX_READ_SIZE
  /\ position \in [Callers \cup { "shared" } -> Nat]
  /\ holder \in Callers \cup { Unheld }

\* read: a client gets the bytes it asked for, of the file it asked for, however
\* many others read the same archive; it gets fewer than it asked for only where
\* the file ends or the source does, and is told of an end only if there is
\* nothing for it, or not as much as it needs.
ReadsExact ==
  /\ ReadTypeOK
  /\ \A c \in Callers :
       LET f == file[c]
           first == f.at + range[c].offset
           last == Smaller(Smaller(first + range[c].length, f.at + f.size), f.end)
           left == IF last < first THEN 0 ELSE last - first
       IN /\ given[c].status = "SUCCESS" =>
               given[c].data = [i \in 1 .. left |-> first + i]
          /\ given[c].status \in { "SUCCESS", "END_OF_FILE" } =>
               (given[c].status = "END_OF_FILE" <=>
                  (left = 0 /\ range[c].length > 0) \/ left < range[c].minimum)
=============================================================================
