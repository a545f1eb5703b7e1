------------------------------- MODULE GzipPool -------------------------------
(***************************************************************************)
(* The readers of a compressed TAR archive (src/archive/tar.rs).  Each is  *)
(* a thread with a queue of its own.  A READ of a file picks a reader under*)
(* the router's mutex, sends it the request and waits at a rendezvous for  *)
(* the answer; closing the archive sends each reader a stop and joins it.  *)
(*                                                                         *)
(* A stream is one file open on the archive, read from its beginning on.   *)
(* Of the router's clock only the order matters that it puts readers in.   *)
(* A reader that panics takes its queue, and the answers owed, with it.    *)
(***************************************************************************)
EXTENDS Naturals, Sequences, FiniteSets

CONSTANTS
  Pool,       \* the readers are 1 .. Pool
  Streams,    \* the open files
  FileAt,     \* where each begins in the archive
  FileSize,   \* and its size
  Lengths,    \* the lengths a READ may ask for
  MaxPanics   \* the number of readers that may panic

ASSUME PoolAssumption ==
  /\ Pool \in Nat \ {0} /\ MaxPanics \in Nat
  /\ IsFiniteSet(Streams)
  /\ FileAt \in [Streams -> Nat] /\ FileSize \in [Streams -> Nat]
  /\ Lengths \subseteq Nat \ {0}
  \* The content of an entry comes after the entry's header (raw_file_position),
  \* so that no file begins in another one or where another one ends.
  /\ \A s, t \in Streams : ~ (FileAt[t] < FileAt[s] /\ FileAt[s] <= FileAt[t] + FileSize[t])

VARIABLES
  phase,        \* of the pool: "starting", "up", "dropping" or "gone"
  at,           \* the reader that is being started or stopped
  started,      \* how many have been started
  stopSent,     \* whether that reader has been sent its stop
  reader,       \* where each thread stands
  queue,        \* what it has been sent: streams, or Stop
  next_offset,  \* Route::next_offset
  last_used,    \* Route::last_used, as a place in the order of the picks
  pos,          \* how far each stream has been read
  stream,       \* where its READ stands
  asked,        \* the length the READ asks for
  chosen        \* the reader it was routed to
poolVars == <<phase, at, started, stopSent>>
routes == <<next_offset, last_used>>
streams == <<pos, stream, asked, chosen>>
gzipVars == <<poolVars, reader, queue, routes, streams>>

Workers == 1 .. Pool
Stop == "stop"

GzipInit == /\ phase = "starting"
            /\ at = 1
            /\ started = 0
            /\ stopSent = FALSE
            /\ reader = [w \in Workers |-> "none"]
            /\ queue = [w \in Workers |-> <<>>]
            /\ next_offset = [w \in Workers |-> 0]
            /\ last_used = [w \in Workers |-> w]
            /\ pos = [s \in Streams |-> 0]
            /\ stream = [s \in Streams |-> "open"]
            /\ asked = [s \in Streams |-> 0]
            /\ chosen = [s \in Streams |-> 1]

ReaderGoes(w, from, to) == reader[w] = from /\ reader' = [reader EXCEPT ![w] = to]
StreamGoes(s, from, to) == stream[s] = from /\ stream' = [stream EXCEPT ![s] = to]

-----------------------------------------------------------------------------
(* Starting the readers.                                                   *)

Spawn(w) ==
  /\ phase = "starting" /\ at = w
  /\ ReaderGoes(w, "none", "initializing")
  /\ UNCHANGED <<poolVars, queue, routes, streams>>

\* The rendezvous at the end of a reader's initialization.
Initialized(w) ==
  /\ phase = "starting" /\ at = w
  /\ ReaderGoes(w, "initializing", "idle")
  /\ started' = w
  /\ IF w = Pool THEN phase' = "up" /\ at' = 1
                 ELSE at' = w + 1 /\ UNCHANGED phase
  /\ UNCHANGED <<stopSent, queue, routes, streams>>

\* The first error ends the start, and the readers there are are dropped.
StartFails(w) ==
  /\ phase = "starting" /\ at = w
  /\ reader[w] \in {"none", "initializing"}
  /\ reader' = [reader EXCEPT ![w] = "ended"]
  /\ phase' = IF started = 0 THEN "gone" ELSE "dropping"
  /\ at' = 1
  /\ UNCHANGED <<started, stopSent, queue, routes, streams>>

-----------------------------------------------------------------------------
(* A READ.                                                                 *)

Least(a, b) == IF a < b THEN a ELSE b
Earliest(W) == CHOOSE w \in W : \A v \in W : w <= v
LeastRecent == CHOOSE w \in Workers : \A v \in Workers : last_used[w] <= last_used[v]

\* A mutant of Pick: the reader used last takes what no reader is ready for.
MostRecent == CHOOSE w \in Workers : \A v \in Workers : last_used[v] <= last_used[w]
PickHottest(offset) ==
  LET waiting == {w \in Workers : next_offset[w] = offset}
  IN IF waiting # {} THEN Earliest(waiting) ELSE MostRecent

\* Router::pick: the first reader that is about to be where the read begins, or
\* else the one that has not been picked for longest.
Pick(offset) ==
  LET waiting == {w \in Workers : next_offset[w] = offset}
  IN IF waiting # {} THEN Earliest(waiting) ELSE LeastRecent

\* The reader's place is now behind those of all the others.
PickedLast(w) == [v \in Workers |-> IF v = w THEN Pool
                                    ELSE IF last_used[v] > last_used[w] THEN last_used[v] - 1
                                    ELSE last_used[v]]

\* TarFile::read_at, under the router's mutex.
Route(s, len) ==
  LET offset == FileAt[s] + pos[s]
      wanted == Least(len, FileSize[s] - pos[s])
      w == Pick(offset)
  IN /\ phase = "up"
     /\ pos[s] < FileSize[s]
     /\ StreamGoes(s, "open", "routed")
     /\ asked' = [asked EXCEPT ![s] = wanted]
     /\ chosen' = [chosen EXCEPT ![s] = w]
     /\ next_offset' = [next_offset EXCEPT ![w] = offset + wanted]
     /\ last_used' = PickedLast(w)
     /\ UNCHANGED <<poolVars, reader, queue, pos>>

\* The mutex has been given back.  A reader that is gone takes nothing.
Send(s) ==
  LET w == chosen[s]
  IN /\ IF reader[w] = "ended"
        THEN /\ StreamGoes(s, "routed", "closed")
             /\ UNCHANGED queue
        ELSE /\ StreamGoes(s, "routed", "waiting")
             /\ queue' = [queue EXCEPT ![w] = Append(@, s)]
     /\ UNCHANGED <<poolVars, reader, routes, pos, asked, chosen>>

\* The file is read no further, and its handle dropped.
CloseStream(s) ==
  /\ StreamGoes(s, "open", "closed")
  /\ phase # "starting"
  /\ UNCHANGED <<poolVars, reader, queue, routes, pos, asked, chosen>>

-----------------------------------------------------------------------------
(* A reader.                                                               *)

TakeRead(w) ==
  /\ queue[w] # <<>> /\ Head(queue[w]) # Stop
  /\ ReaderGoes(w, "idle", "reading")
  /\ UNCHANGED <<poolVars, queue, routes, streams>>

\* The rendezvous with the one that asked.  The job is at the head of the queue
\* until it is answered.
Answer(w) ==
  LET s == Head(queue[w])
  IN /\ ReaderGoes(w, "reading", "idle")
     /\ queue' = [queue EXCEPT ![w] = Tail(@)]
     /\ \/ StreamGoes(s, "waiting", "open") /\ pos' = [pos EXCEPT ![s] = @ + asked[s]]
        \/ StreamGoes(s, "waiting", "closed") /\ UNCHANGED pos
     /\ UNCHANGED <<poolVars, routes, asked, chosen>>

\* A mutant of Panic: somebody else has a sender for the answers, so that those
\* who wait for one do not learn that there will be none.
PanicUnheard(w) ==
  /\ Cardinality({v \in 1 .. started : reader[v] = "ended"}) < MaxPanics
  /\ ReaderGoes(w, "reading", "ended")
  /\ queue' = [queue EXCEPT ![w] = <<>>]
  /\ UNCHANGED <<poolVars, routes, streams>>

\* The queue is dropped, and with it the senders of the answers: all who wait
\* for one fail.
Panic(w) ==
  /\ Cardinality({v \in 1 .. started : reader[v] = "ended"}) < MaxPanics
  /\ ReaderGoes(w, "reading", "ended")
  /\ queue' = [queue EXCEPT ![w] = <<>>]
  /\ stream' = [s \in Streams |-> IF stream[s] = "waiting" /\ chosen[s] = w
                                  THEN "closed" ELSE stream[s]]
  /\ UNCHANGED <<poolVars, routes, pos, asked, chosen>>

TakeStop(w) ==
  /\ queue[w] # <<>> /\ Head(queue[w]) = Stop
  /\ ReaderGoes(w, "idle", "ended")
  /\ queue' = [queue EXCEPT ![w] = <<>>]
  /\ UNCHANGED <<poolVars, routes, streams>>

-----------------------------------------------------------------------------
(* Dropping the pool.                                                      *)

\* The last file and the archive itself have let go of the pool.
BeginDrop ==
  /\ phase = "up"
  /\ \A s \in Streams : stream[s] = "closed"
  /\ phase' = "dropping"
  /\ UNCHANGED <<at, started, stopSent, reader, queue, routes, streams>>

\* A mutant of SendStop: the reader is joined without being told.
SendStopForgotten(w) ==
  /\ phase = "dropping" /\ at = w /\ ~stopSent
  /\ stopSent' = TRUE
  /\ UNCHANGED <<phase, at, started, reader, queue, routes, streams>>

\* drop, for one reader after the other.  A reader that is gone takes nothing.
SendStop(w) ==
  /\ phase = "dropping" /\ at = w /\ ~stopSent
  /\ stopSent' = TRUE
  /\ queue' = IF reader[w] = "ended" THEN queue ELSE [queue EXCEPT ![w] = Append(@, Stop)]
  /\ UNCHANGED <<phase, at, started, reader, routes, streams>>

Join(w) ==
  /\ phase = "dropping" /\ at = w /\ stopSent
  /\ reader[w] = "ended"
  /\ stopSent' = FALSE
  /\ IF w = started THEN phase' = "gone" /\ UNCHANGED at
                    ELSE at' = w + 1 /\ UNCHANGED phase
  /\ UNCHANGED <<started, reader, queue, routes, streams>>

Starting(w) == Spawn(w) \/ Initialized(w) \/ StartFails(w)
Reading(w) == TakeRead(w) \/ Answer(w) \/ TakeStop(w)
Dropping(w) == SendStop(w) \/ Join(w)

GzipNext ==
  \/ \E w \in Workers : Starting(w) \/ Reading(w) \/ Panic(w) \/ Dropping(w)
  \/ \E s \in Streams : \/ \E len \in Lengths : Route(s, len)
                        \/ Send(s)
                        \/ CloseStream(s)
  \/ BeginDrop

\* Threads run; whether a file is read further is up to the client.
GzipFairness ==
  /\ \A w \in Workers : WF_gzipVars(Starting(w)) /\ WF_gzipVars(Reading(w))
                          /\ WF_gzipVars(Dropping(w))
  /\ \A s \in Streams : WF_gzipVars(Send(s))

GzipSpec == GzipInit /\ [][GzipNext]_gzipVars /\ GzipFairness

-----------------------------------------------------------------------------
(* Properties.                                                             *)

Begun == {s \in Streams : pos[s] > 0 /\ stream[s] = "open"}

\* GzipSource: "concurrent sequential streams keep hot readers".  As long as
\* there are no more streams than readers, there is for each stream that has
\* begun a reader of its own that is about to be where the stream continues.
StreamsStayHot ==
  Cardinality(Streams) <= Pool =>
    \A s \in Begun :
      LET here == FileAt[s] + pos[s]
      IN Cardinality({w \in Workers : next_offset[w] = here})
           >= Cardinality({t \in Begun : FileAt[t] + pos[t] = here})

\* GzipSource::read_at: every READ gets an answer, if its reader panics too.
ReadsAnswered ==
  \A s \in Streams : stream[s] \in {"routed", "waiting"} ~>
                       stream[s] \in {"open", "closed"}

\* GzipWorker::drop and start: the joins end, after a start that failed half
\* way, too.  A pool whose first thread runs is up at last, or gone.
PoolEnds == /\ phase = "starting" /\ reader[1] # "none" ~> phase \in {"up", "gone"}
            /\ phase = "dropping" ~> phase = "gone"
=============================================================================
