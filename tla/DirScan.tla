------------------------------ MODULE DirScan -------------------------------
(***************************************************************************)
(* The enumeration of one directory handle (smb/files.rs                   *)
(* `query_directory`, smb/info.rs `encode_dir_entries`).                   *)
(*                                                                         *)
(* The first QUERY_DIRECTORY on the handle captures the listing, which     *)
(* stays as it is; an entry is its position in it.  Every request brings   *)
(* its own pattern (the set of positions it matches), buffer and flags.    *)
(* The load that may invalidate the handle is in module Contents.          *)
(***************************************************************************)
EXTENDS Naturals, FiniteSetsExt, SequencesExt, Ordered

CONSTANTS
  EntrySize,   \* the encoded size of each entry: fixed part and name
  Fixed,       \* the fixed part of an entry of the class asked for
  EntryAlign,  \* entries start at multiples of this (8 in the code)
  Buffers      \* the output buffer sizes a client may offer

ASSUME DirScanAssumption ==
  /\ { Fixed, EntryAlign } \subseteq Nat \ {0}
  /\ EntrySize \in Seq(Nat) /\ \A i \in DOMAIN EntrySize : EntrySize[i] >= Fixed
  /\ Buffers \subseteq Nat

VARIABLES
  captured,    \* whether OpenResources::dir_entries is Some
  dir_pos,     \* OpenHandle::dir_pos: how many entries are behind the cursor
  scanned,     \* OpenHandle::scanned
  status,      \* the status of the last reply
  returned,    \* history: the entries returned since the scan began
  wanted       \* history: the entries every request of the scan has asked for

scanVars == << captured, dir_pos, scanned, status, returned, wanted >>

EntryPositions == DOMAIN EntrySize
EntryCount   == Len(EntrySize)
Statuses  == { "none", "ok", "no_more_files", "no_such_file", "mismatch",
               "invalid_class", "error" }

ScanInit == /\ captured = FALSE
            /\ dir_pos = 0
            /\ scanned = FALSE
            /\ status = "none"
            /\ returned = << >>
            /\ wanted = EntryPositions

\* The entries past the cursor that the pattern matches, in order.
MatchedAfter(pos, p) == InOrder({ i \in p : i > pos })

Padded(n) == ((n + EntryAlign - 1) \div EntryAlign) * EntryAlign

\* Where the n-th entry of a page ends: only the ones before it are padded.
EndOf(page, n) ==
  MapThenSumSet(LAMBDA i : Padded(EntrySize[page[i]]), 1 .. n - 1) + EntrySize[page[n]]

\* Mutant of PageCap: each entry is taken to be padded by a whole unit.
PageCapPadded(matched, buffer, single) ==
  IF single THEN 1
            ELSE Min({ Len(matched), Max({ 1, buffer \div (Fixed + EntryAlign) }) })

\* query_directory: how many entries are copied for the encoder.
PageCap(matched, buffer, single) ==
  IF single THEN 1
            ELSE Min({ Len(matched), Max({ 1, buffer \div Fixed }) })

\* encode_dir_entries: the entries of the page that fit, in order.
Encoded(page, buffer) ==
  LET fits == { n \in 1 .. Len(page) : \A m \in 1 .. n : EndOf(page, m) <= buffer }
  IN  SubSeq(page, 1, Max(fits \cup { 0 }))

\* A class the encoder does not know is refused by it, after all else.
Page(matched, buffer, single) ==
  Encoded(SubSeq(matched, 1, PageCap(matched, buffer, single)), buffer)

\* Mutant of CursorAfter: one too far.
CursorPastNext(page) == Min({ Last(page) + 1, EntryCount })

\* The cursor goes past the last entry encoded, in the unfiltered listing.
CursorAfter(page) == Last(page)

\* Nothing to return: a search that has only begun has found nothing, one that
\* has been scanning is finished.
Exhausted(scanning) == IF scanning THEN "no_more_files" ELSE "no_such_file"

\* RESTART_SCANS or REOPEN rewinds the cursor, but not the listing.
Query(p, buffer, single, restart, known) ==
  LET pos      == IF restart THEN 0 ELSE dir_pos
      scanning == IF restart THEN FALSE ELSE scanned
      before   == IF restart THEN << >> ELSE returned
      matched  == MatchedAfter(pos, p)
      page     == Page(matched, buffer, single)
  IN  /\ captured' = TRUE
      /\ wanted' = p \cap IF restart THEN EntryPositions ELSE wanted
      /\ IF matched = << >>
           THEN /\ status' = Exhausted(scanning)
                /\ dir_pos' = pos
                /\ scanned' = scanning
                /\ returned' = before
           ELSE /\ scanned' = TRUE
                /\ IF known /\ page # << >>
                     THEN /\ status' = "ok"
                          /\ dir_pos' = CursorAfter(page)
                          /\ returned' = before \o page
                     ELSE /\ status' = IF known THEN "mismatch" ELSE "invalid_class"
                          /\ dir_pos' = pos
                          /\ returned' = before

\* The backing cannot list the directory; nothing is captured, and the flags
\* have not been looked at.
ListFails == /\ ~captured
             /\ status' = "error"
             /\ UNCHANGED << captured, dir_pos, scanned, returned, wanted >>

ScanNext == \/ \E p \in SUBSET EntryPositions, buffer \in Buffers,
                  single, restart, known \in BOOLEAN :
                 Query(p, buffer, single, restart, known)
            \/ ListFails

ScanSpec == ScanInit /\ [][ScanNext]_scanVars

-----------------------------------------------------------------------------
\* The type invariant.
ScanTypeOK == /\ captured \in BOOLEAN
              /\ dir_pos \in 0 .. EntryCount
              /\ scanned \in BOOLEAN
              /\ status \in Statuses
              /\ returned \in Seq(EntryPositions)
              /\ wanted \subseteq EntryPositions

\* dir_pos indexes the unfiltered listing, so that "the next call" never hands
\* out an entry again, whatever patterns the calls of one scan bring.
ReturnedOnce ==
  \A i, j \in DOMAIN returned : i < j => returned[i] < returned[j]

\* No page boundary, refused buffer or change of pattern makes the cursor skip
\* an entry that every request of the scan has asked for.
NothingSkipped == wanted \cap (1 .. dir_pos) \subseteq ToSet(returned)

\* "Exhaustion and 'nothing ever matched' are different answers".  The scan is
\* finished when all that was asked for has been returned; NO_SUCH_FILE comes
\* before anything has.
AnswersTrue == /\ status = "no_more_files" => wanted \subseteq ToSet(returned)
               /\ status = "no_such_file" => returned = << >> /\ wanted = {}

\* query_directory: whatever patterns, buffers and flags its calls bring, a scan
\* returns what it should, once, and ends with the truth.
ScanAnswers == ScanTypeOK /\ ReturnedOnce /\ NothingSkipped /\ AnswersTrue

\* A page holds every match that fits: the cap on what is copied for the
\* encoder cuts none off.
PagesFull ==
  [][status' = "ok" =>
       \A p \in SUBSET EntryPositions, buffer \in Buffers, restart \in BOOLEAN :
         LET matched == MatchedAfter(IF restart THEN 0 ELSE dir_pos, p)
             n == Len(returned') - IF restart THEN 0 ELSE Len(returned)
         IN  Query(p, buffer, FALSE, restart, TRUE) =>
               n = Len(matched) \/ EndOf(matched, n + 1) > buffer]_scanVars
=============================================================================
